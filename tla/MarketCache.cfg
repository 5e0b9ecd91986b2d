SPECIFICATION Spec
CONSTANTS
    Keys <- MCKeys
    Callers = {c1, c2}
    Locks = {1, 2, 3}
    NoKey = "none"
    NoLock = 0
    NoCaller = NoCaller
    TTL <- MCTTL
    Streamed = {"symbol_ticker"}
    MaxEntries = 2
    MaxVersion <- MCMaxVersion
INVARIANTS
    TypeOK
    OneFlightPerLock
PROPERTIES
    NeverBackwards
    CallsEnd
