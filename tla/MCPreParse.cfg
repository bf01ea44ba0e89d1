CONSTANT
    Files <- MCFiles
SPECIFICATION SpecPreParse
INVARIANTS FindsTheStatements NothingDropped
