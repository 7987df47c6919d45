CONSTANTS
    InitHeight = 1
    MaxHeight = 4
    MaxGap = 2
    MaxLen = 2
    Duration = 5
    CaptureAt = 2
    FetchCanFail = TRUE
SPECIFICATION Spec
CHECK_DEADLOCK FALSE
INVARIANT ProfileCapturedOnce
