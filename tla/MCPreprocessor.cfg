CONSTANTS
    n1 = n1
    bad = bad
    Names = {n1}
    Malformed = bad
    MaxLines = 6
SPECIFICATION Spec
INVARIANTS StackFollowsHistory ActiveIffSelected UnterminatedReport BadConditionReportedWhereItMatters
CHECK_DEADLOCK FALSE
