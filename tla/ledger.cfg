\* Two AI fills, the check and a reset, of two symbols.
SPECIFICATION Spec
CONSTANTS
    Symbols = {s1, s2}
    NoSymbol = NoSymbol
    Writers = {w1, w2}
    Risk = Risk
    Default = 1
    Amounts = {1}
    MaxCash = 2
    MaxQty = 1
    MaxRows = 2
INVARIANTS
    TypeOK
    OneRowPerWriter
PROPERTIES
    AloneIsAtomic
SYMMETRY LedgerSymmetry
