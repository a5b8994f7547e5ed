SPECIFICATION FairParseSpec
CONSTANTS
    File <- MCFile
    Main = "main"
    Missing = {"m"}
    Unreadable = {"u"}
    Statement <- MCStatement
    NoText = "-"
    Sources <- MCSources
INVARIANTS LexerTypeOK TokensFollowStreams NoBareEos EventsAsIncluded LegalTokens LegalAccepted
PROPERTIES FrontEndEnds
CHECK_DEADLOCK FALSE
