SPECIFICATION FairSpec
CONSTANTS
    Openers = {o1}
    MaxStreams = 2
    Faults = {"panic", "id"}
    Remotes = {"idle", "peer"}
INVARIANTS
    StreamOwnedOnce
    StartFailureHasCause
PROPERTIES
    OpenersReleased
    CauseSpec
CHECK_DEADLOCK FALSE
