CONSTANTS
    Top = 31
    Header = 8
    Bytes <- NoBytes
    Files <- MCFiles
    Lost <- MCLost
SPECIFICATION Spec
INVARIANTS BlocksBalance 
