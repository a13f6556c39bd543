SPECIFICATION Spec
CONSTANTS
    WorkerIds = {server, w1, w2}
    LocalRunner = server
    NoWorker = NoWorker
    LeaseMs = 1
    RetryDelayMs = 0
    ItemIds = {i1}
    NoItem = NoItem
    Unregistered = Unregistered
    MaxAttempts = 2
    StaleAfterMs = 1
    MaxTime = 2
    MaxStarts = 3
SYMMETRY WorkerSymmetry
INVARIANTS
    ClaimsCounted
    OwnRecordOnline
PROPERTIES
    ItemsAreQueued
