CONSTANTS
    Tokens <- MCTokens
    Lines <- MCLines
    MacroSets <- MCMacroSets
    MaxLength = 60
    Width = 4
    Literals <- MCLiterals
    Names <- MCNames
    Bad <- MCBad
    Profiles <- MCProfiles
SPECIFICATION SpecCondition
INVARIANTS OffsetsFollow ExpansionIsMeaning ValueIsMeaning ErrorIsWhereItStops
PROPERTIES
    PassedIsSettled
