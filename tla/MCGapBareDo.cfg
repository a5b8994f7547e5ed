SPECIFICATION FairParseSpec
CONSTANTS
    LabelText <- MCLabelText
    Value <- MCValue
    NoLabel <- MCNoLabel
    Lines <- BareDoLines
    MaxAnyLines = 0
    MaxLines = 4
INVARIANT LegalProgramAccepted
CHECK_DEADLOCK FALSE
