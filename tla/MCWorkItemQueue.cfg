SPECIFICATION FairSpec
CONSTANTS
    WorkerIds = {"worker-a"}
    NoWorker = NoWorker
    LeaseMs = 1
    RetryDelayMs = 1
    Jobs = {j1}
    AccountIds = {a1, a2}
    MaxAttemptsIn = {0, 2}
    MaxTime = 2
INVARIANTS
    AttemptsBounded
PROPERTIES
    ClaimsOnlyFreeItems
    FinishedStaysFinished
    LeaseReclaimed
