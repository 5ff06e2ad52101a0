SPECIFICATION FairSpec
CONSTANTS
    Phases <- ServerPhases
    Callers <- AllCallers
INVARIANT TypeOK
INVARIANT GlobalRefsOwned
INVARIANT CalledOnce
INVARIANT SlotIsThisPhases
INVARIANT PassedByCallback
INVARIANT SameAlert
PROPERTY HandshakeEnds
CHECK_DEADLOCK FALSE
