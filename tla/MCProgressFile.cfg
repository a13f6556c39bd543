SPECIFICATION FairSpec
CONSTANTS
    NAccounts = 2
    MaxConcurrency = 2
    MaxRuns = 2
    NoFile = NoFile
    Empty = Empty
    Garbled = Garbled
INVARIANTS
    FileReadable
    RecordKept
    RedoneOnlyAfterKill
    OutcomeOnFile
PROPERTIES
    SkippedOnlyIfDone
    RunEnds
CHECK_DEADLOCK FALSE
