SPECIFICATION FairSpec
CONSTANTS
    MaxSends = 1
    Faults = {"panic", "null", "connection"}
    Remotes = {}
INVARIANTS
    NoImpossibleArm
PROPERTIES
    ParkedResolves
