CONSTANTS
    l1 = l1
    LabelNames = {l1}
    MaxAddr = 9
    Lines <- MCLines
    MaxLines = 5
SPECIFICATION Spec
INVARIANTS WithinAddressSpace RunsAreContiguous LabelNamesNextItem NothingDropped ClearedFromIsTheCulprit
CHECK_DEADLOCK FALSE
