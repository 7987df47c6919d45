CONSTANTS
    Modules <- MCModules
    Steps <- MCSteps
    InitHeight = 1
    MaxHeight = 3
    MaxRound = 1
    MaxClock = 2
    MaxWork = 1
    MaxRestarts = 0
    FetchCanFail = FALSE
SPECIFICATION Spec
INVARIANT OutputGapFree
INVARIANT OutputPosition
INVARIANT OutputInOrder
PROPERTY RecordFinalizedOnce
PROPERTY EveryCommittedHeightCollected
PROPERTY ImplementsOutputLog
