SPECIFICATION ConsoleSpec
CONSTANTS
    Loads = {l1, l2}
    RetryDelay = 3
    MaxAttempts = 50
    PollPeriod = 8
    MaxChanges = 2
    MaxFaults = 1
    MaxWire = 2
INVARIANT ConsoleTypeOK
INVARIANT QuietIsCurrent
PROPERTY CatchesUp
