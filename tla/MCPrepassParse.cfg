SPECIFICATION FairParseSpec
CONSTANTS
    LabelText <- MCLabelText
    Value <- MCValue
    NoLabel <- MCNoLabel
    Lines <- AllLines
    MaxLines = 6
    MaxAnyLines = 4
INVARIANTS TypeOK LoopsWellNested TerminalsMatchClosed StackIsNest KnownProgramAccepted LoopsAsInSource
PROPERTIES ImplementsNest ParseEnds
CHECK_DEADLOCK FALSE
