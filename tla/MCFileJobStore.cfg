SPECIFICATION FileSpec
CONSTANTS
    JobIds = {j1, j2, j3}
    Accounts = {a1}
    JobStatus = {"queued", "running"}
    AccountStatus = {"queued", "failed"}
    Times = {0, 1}
    NoJob = NoJob
    MaxCacheSize = 2
SYMMETRY JobSymmetry
PROPERTIES
    ImplementsJobStore
