SPECIFICATION Spec
CONSTANTS
    Programs <- SmallPrograms
    Objects = {o1, o2}
    Handles = {h1, h2}
    SSLs = {c1, c2}
    Null = Null
CHECK_DEADLOCK FALSE
SYMMETRY Interchangeable
INVARIANTS RefsOwned NoStaleCallback
