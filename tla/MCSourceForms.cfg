SPECIFICATION FairSpec
CONSTANTS
    FreeTexts <- MCFreeTexts
    FixedTexts <- MCFixedTexts
    IntMax = 10
INVARIANTS TypeOK NoCrash StatementsKept
PROPERTIES ConversionEnds
CHECK_DEADLOCK FALSE
