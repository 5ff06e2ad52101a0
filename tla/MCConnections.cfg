SPECIFICATION Spec
CONSTANTS
    Programs <- MCPrograms
    Options <- MCOptions
    Ctxs = {k1, k2}
    SSLs = {c1, c2}
    Responses = {r1}
    NULL = NULL
SYMMETRY Symmetry
INVARIANTS
    ResourcesOwned
    NegotiatesBest
    ArgumentReady
    StapleArrives
CHECK_DEADLOCK FALSE
