SPECIFICATION Spec
CONSTANTS
    Items <- MCItems
    Runners <- AllRunners
    Scenes <- MCScenes
INVARIANTS
    ActsOnTheAnchored
    ToggleAsRecorded
    ExactOptionWins
    RowsTold
PROPERTIES
    FirstChoiceWins
    RecordedIsReached
