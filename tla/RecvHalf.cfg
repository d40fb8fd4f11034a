SPECIFICATION FairSpec
CONSTANTS
    MaxBytes = 4
    MaxUnits = 3
    MaxInd = 3
    Total = 7
INVARIANTS
    PendExact
    LimitsRespected
    BudgetExact
    PausedIsOwed
    CompletesOutstanding
    ReaderSeesStream
PROPERTIES
    CauseSpec
    ReaderProgresses
