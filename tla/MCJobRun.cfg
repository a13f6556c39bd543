SPECIFICATION FairSpec
CONSTANTS
    NAccounts = 3
    MaxWorkflows = 2
    MaxConcurrency = 2
    RetryAttempts = 2
INVARIANTS
    NoAccountTwice
    PipelineAccountsForAll
    OutcomesAgree
    LateStartsBounded
    WebhookTellsOutcome
    OneWorkflowNotAborted
PROPERTIES
    FailedAccountStops
    JobEnds
CHECK_DEADLOCK FALSE
