CONSTANT
    Files <- TwoOptions
SPECIFICATION SpecPreParse
INVARIANT
    OptionsAreStatements
