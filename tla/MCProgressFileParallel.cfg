SPECIFICATION Spec
CONSTANTS
    NAccounts = 2
    MaxConcurrency = 2
    MaxRuns = 2
    NoFile = NoFile
    Empty = Empty
    Garbled = Garbled
INVARIANTS
    CompletedAreSkipped
CHECK_DEADLOCK FALSE
