CONSTANTS
    Token <- MCToken
    EOF = "EOF"
    EOR = "EOR"
    Rule <- MCRule
    NoRule = "none"
    Grammar <- MCGrammar
    UnitRule <- MCUnitRule
    Drivers <- MCDrivers
    File <- MCFile
SPECIFICATION Spec
INVARIANT LabelNotUsed
