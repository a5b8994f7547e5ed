\* Every form of statement the model has, with its names spelled like keywords,
\* with and without a label that ends up to two DO loops.
SPECIFICATION Spec
CONSTANTS
    Statements <- AllForms
    Spellings <- MCSpellings
    MaxLoops = 2
    Few = {"IF", "FUNCTION", "KIND", "DATA", "ONLY", "READ", "WHILE", "RESULT"}
CHECK_DEADLOCK FALSE
INVARIANTS
    AsInGrammar
    KindsAsAbstracted
