SPECIFICATION Spec
CONSTANTS
    FreeTexts <- NoTexts
    FixedTexts <- TabTexts
    IntMax = 10
INVARIANT CommentsMovedAfter
CHECK_DEADLOCK FALSE
