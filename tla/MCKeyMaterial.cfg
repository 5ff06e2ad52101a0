SPECIFICATION MaterialSpec
CONSTANTS
    Programs <- SmallPrograms
    c1 = c1
    c2 = c2
    c3 = c3
    k1 = k1
    k2 = k2
    Certs = {c1, c2, c3}
    Keys = {k1, k2}
    Creds = {d1}
    Passwords = {p1, p2}
    Fits <- SmallFits
    Handles = {h1}
    MaxChain = 2
    MaxRefs = 2
SYMMETRY Alike
CHECK_DEADLOCK FALSE
INVARIANTS RefsOwned PasswordAccepted
PROPERTY PresentsWhole
