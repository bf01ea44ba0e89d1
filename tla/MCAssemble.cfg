CONSTANTS
    Top = 13
    Bytes <- MCBytes
    Comments <- MCComments
    HeaderLen = 2
    MaxItems = 4
    Codes <- MCCodes
SPECIFICATION SpecDebug
INVARIANTS EachByteFromTheLatestItem BadLinesReported DebugIsThePatch
