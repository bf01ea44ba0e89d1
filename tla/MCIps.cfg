CONSTANTS
    Top = 15
    Bytes = {1, 2}
    Short = 1
    Edge = 2
    Standard = 3
    Inner = 4
    MaxHunk = 7
    UnsafeOffset = 8
    NoByte = 0
    Gaps = 9
    Solid = 15
    Contents <- MCContents
SPECIFICATION Spec
INVARIANTS FileIsThePatch EveryPrefixIsSound HunksAvoidUnsafe AssertionsHold
