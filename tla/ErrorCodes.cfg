SPECIFICATION Spec
CONSTANTS
    MaxVarint = 3
    PeerCodes = {1, 3}
    LocalCodes = {3, 4}
    MayPanic = TRUE
INVARIANTS
    CodesFaithful
    CleanEndIsTrue
    ConnectionVerdict
