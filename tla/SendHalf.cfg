SPECIFICATION Spec
CONSTANTS
    MaxSends = 2
    Faults = {}
    Remotes = {"peer", "idle", "transport"}
INVARIANTS
    SendErrorSticky
    OneSendAtATime
    FinishEventNotLost
    FinishedMeansGraceful
    BoxesAccounted
PROPERTIES
    CauseSpec
