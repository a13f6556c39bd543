CONSTANTS
    Workflows = {w1, w2}
    OnDisk <- DraftOrApproved
    Recorded = w1
    MaxEdits = 2
    Queries = {q1, q2}
    NoRefresh = NoRefresh
    ApiAttempts = 2
    MaxPages = 2
    Schedules = {s1}
    Accounts = {a1, a2}
    TheAccount = a1
    Hooks = {h1}
    Crons <- MCCrons
    StartsAt = 238
    Steps = 2
    MaxRetries = 1
    FiredLimit = 1
    NoSchedule = NoSchedule
    MaxClock = 242
    MaxJobs = 2
    MaxEvents = 4
SPECIFICATION MCSpec
SYMMETRY QuerySymmetry
CHECK_DEADLOCK FALSE
INVARIANTS
    SingleRefresh
    FiresOncePerMinute
    LastStatusIsOfARun
    DeliveryBounded
    RetryDisjoint
PROPERTY LiveRunsGated
