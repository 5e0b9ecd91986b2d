SPECIFICATION Spec
CONSTANTS
    Orders = {o1}
    Assets = {a1}
    Funds = {low}
    Streams = {g1, g2}
    Readers = {r1}
    MaxQueue = 2
INVARIANTS
    TypeOK
    ShownUnlessAstray
SYMMETRY StreamSymmetry
