CONSTANTS
    Steps <- Workflows
    Target <- Targets
    MaxAttempts = 3
    MaxInitial = 5
SPECIFICATION Spec
CHECK_DEADLOCK FALSE
INVARIANTS
    TopUpBounded
    ResultTold
