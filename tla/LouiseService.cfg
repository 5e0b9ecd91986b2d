SPECIFICATION Spec
CONSTANTS
    MaxBots = 3
    Subaccounts = {"accu", "bluechip"}
    SubOf <- MCSubOf
    CallsMayFail = TRUE
INVARIANT TypeOK
INVARIANT OneOwnedLoop
INVARIANT QuietOnceExited
INVARIANT StoppedOnlyOnRequest
PROPERTY ShutdownCompletes
