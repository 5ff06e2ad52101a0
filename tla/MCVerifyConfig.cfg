SPECIFICATION Spec
CONSTANTS
    SSLs = {c1, c2}
    Depths <- TwoDepths
    Chains = {0, 1, 2}
SYMMETRY Interchangeable
INVARIANTS TypeOK LevelEnforced LibraryAgrees FailsClosed
