CONSTANTS
    NoFormat = NoFormat
    b1 = b1
    s1 = s1
    s2 = s2
    n1 = n1
    n2 = n2
    v1 = v1
    v2 = v2
    Patches <- MCPatches
    Inputs <- MCInputs
    Pieces = 3
    Capacity = 2
SPECIFICATION SpecCommand
INVARIANTS NothingWrittenAfterAnError ZipHoldsEveryBuild FormatsFit FailureKeepsTheFile OutcomeIsDeserved
PROPERTIES
    CommandEnds
