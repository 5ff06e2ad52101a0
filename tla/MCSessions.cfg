SPECIFICATION Spec
CONSTANTS
    Programs <- MCPrograms
    Sessions = {s1, s2}
    SSLs = {c1, c2}
    NULL = NULL
SYMMETRY Symmetry
INVARIANTS
    SessionsOwned
    DroppedStayDropped
