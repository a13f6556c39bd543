SPECIFICATION DebugSpec
CONSTANTS
    MaxInputs = 3
    MaxRestarts = 1
    MaxEvents = 4
    Commands = {"start", "stop", "pause", "resume", "clear", "import", "restore", "test", "delete", "disable", "add", "navigate"}
    Twins <- PairTwins
    Near <- PairTwins
    NoDraft = NoDraft
    MaxCommands = 1
    Kinds = {"start", "stop", "clear", "import", "restore", "test", "build", "reload"}
    Polls = {p1, p2}
SYMMETRY PollSymmetry
INVARIANTS
    RecordingSurvives
    SpacedInputsKept
    CommandOnce
    FlagsHaveOwners
CHECK_DEADLOCK FALSE
