\* A timeline that crosses both daylight-saving changes.
CONSTANTS
    SpringForward = 14
    FallBack = 18
    LastInstant = 22
    InputHeights <- MCInputHeights
    InputBlockTimes <- MCInputBlockTimes
SPECIFICATION Spec
INVARIANT TargetHeightAtTargetTime
CHECK_DEADLOCK FALSE
