SPECIFICATION ParseSpec
CONSTANTS
    File <- MCFile
    Main = "main"
    Missing = {"m"}
    Unreadable = {"u"}
    Statement <- MCStatement
    NoText = "-"
    Sources <- NestedSources
INVARIANTS EveryStatementReached
CHECK_DEADLOCK FALSE
