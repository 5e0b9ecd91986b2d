SPECIFICATION GatewaySpec
CONSTANTS
    Gateways = {g1, g2}
    Requests = {r1, r2, louise}
    Louise = louise
    None = None
INVARIANTS
    GatewayTypeOK
    NoneLeftRunning
PROPERTY
    HearsAgain
