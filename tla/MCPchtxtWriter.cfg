CONSTANTS
    Top = 7
    MaxHunk = 5
    LineCost = 2
    Bytes <- MCBytes
    Patches <- MCPatches
SPECIFICATION SpecWriter
INVARIANTS CachedLengthIsRight NothingDropped ReadsBackUnlessUnlucky
