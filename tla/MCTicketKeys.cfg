SPECIFICATION Spec
CONSTANTS
    k1 = k1
    k2 = k2
    Keys = {k1, k2}
    KeyLists <- Rotation
    Threads = {t1, t2, t3}
    Addresses = {a1, a2, a3}
    Garbage = Garbage
    NoOne = NoOne
    OpenSSL3 = FALSE
    MaxTickets = 2
    MaxRotations = 3
SYMMETRY Symmetry
INVARIANT TypeOK
INVARIANT NoUseAfterFree
INVARIANT RightKey
INVARIANT AnswersOneList
INVARIANT ArraysOwned
PROPERTY ImplementsKeyRing
CHECK_DEADLOCK FALSE
