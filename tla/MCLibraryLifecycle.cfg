SPECIFICATION Spec
CONSTANTS
    Programs <- SmallPrograms
    Threads = {t1, t2}
    MaxCalls = 4
SYMMETRY Interchangeable
CHECK_DEADLOCK FALSE
INVARIANTS InitializedWhenTrue CleanedOnUnload FreedOnce
