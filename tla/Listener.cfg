SPECIFICATION FairSpec
CONSTANTS
    Conns = {c1, c2}
    Callers = {k1, k2}
    MaxPanics = 2
INVARIANTS
    ConnSettledOnce
    EndIsFinalWithoutPanic
PROPERTIES
    WaitersReleased
CHECK_DEADLOCK FALSE
