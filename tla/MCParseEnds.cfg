CONSTANTS
    EMULATOR = EMULATOR
    HARDWARE = HARDWARE
    M = M
    Names = {EMULATOR, HARDWARE, M}
    Malformed = Malformed
    NoBuild = NoBuild
    NoFormat = NoFormat
    b1 = b1
    b2 = b2
    x = x
    y = y
    f1 = f1
    l1 = l1
    LabelNames = {l1}
    MaxAddr = 9
    MaxLength = 2
    MaxBuilds = 4
    Setups <- MCSetups
SPECIFICATION Spec
PROPERTIES Termination
