SPECIFICATION FairSpec
CONSTANTS
    Streams = {s1}
    Faults = {"panic", "id"}
    Remotes = {"peer"}
    MaxUses = 1
    NoStream = NoStream
INVARIANTS
    PeerStreamClosedOnce
    AnswersTrue
    NothingLeftBehind
    NoReasonlessAccept
PROPERTIES
    AcceptOrder
    WaitersReleased
    CauseSpec
CHECK_DEADLOCK FALSE
