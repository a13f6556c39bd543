SPECIFICATION Spec
CONSTANTS
    NAccounts = 2
    MaxWorkflows = 1
    MaxConcurrency = 1
    RetryAttempts = 1
INVARIANTS
    CancellationRespected
CHECK_DEADLOCK FALSE
