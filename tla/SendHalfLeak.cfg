CONSTANTS
    MaxSends = 1
    Faults = {"panic"}
    Remotes = {"peer"}
SPECIFICATION Spec
INVARIANTS
    BoxesAccounted
