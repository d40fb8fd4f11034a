SPECIFICATION Spec
CONSTANTS
    U32Max = 7
    DefaultCaps <- Defaults
    SendCaps = {0, 6, 7, 8}
    ByteCaps = {0, 1}
    UnitCaps = {0, 1}
    Lens = {0, 2, 3, 6, 8}
    Conns = {c1, c2}
    MaxStreams = 1
SYMMETRY ConnSymmetry
INVARIANTS
    LengthExact
    CapsThreaded
