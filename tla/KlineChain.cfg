SPECIFICATION Spec
CONSTANTS
    RefreshTail = 2
    Bootstrap = 3
    MaxCandles = 6
INVARIANTS
    TypeOK
    Chained
    UnbrokenIsWhole
    ClosedIsFinal
