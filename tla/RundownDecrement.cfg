CONSTANTS
    c1 = c1
    c2 = c2
    i1 = i1
    w1 = w1
    w2 = w2
    Listener = lsn
    Conns = {c1, c2}
    Incoming = {i1}
    Waiters = {w1, w2}
SPECIFICATION Spec
INVARIANTS
    CloseBeforeDecrement
