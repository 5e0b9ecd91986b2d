SPECIFICATION Spec
CONSTANTS
    MaxBots = 1
    MaxTasks = 2
    Callers = {c1, c2}
    Switchers = {c1}
    Enders = {c2}
INVARIANTS
    TypeOK
    LoopsOwned
    RunsOnlyAsWanted
PROPERTIES
    KeepsPromise
    DesiredTrades
