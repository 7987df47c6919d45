CONSTANTS
    Modules <- MCModules
    Steps <- MCSteps
    InitHeight = 1
    MaxHeight = 3
    MaxRound = 0
    MaxClock = 2
    MaxWork = 1
    MaxRestarts = 0
    FetchCanFail = TRUE
SPECIFICATION Spec
INVARIANT OutputGapFree
