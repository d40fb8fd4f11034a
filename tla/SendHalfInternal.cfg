CONSTANTS
    MaxSends = 1
    Faults = {}
    Remotes = {"peer", "transport"}
SPECIFICATION Spec
INVARIANTS
    NoSpuriousInternal
