CONSTANTS
    Modules <- MCModules
    Steps <- MCSteps
    InitHeight = 1
    MaxHeight = 3
    MaxRound = 1
    MaxClock = 2
    MaxWork = 1
    MaxRestarts = 1
    FetchCanFail = TRUE
SPECIFICATION Spec
INVARIANT TypeOK
INVARIANT IInv
INVARIANT PhaseRecordsConserved
INVARIANT RecordsInv
INVARIANT ConsensusTimeNeverOverstated
INVARIANT ExecutionAccounted
INVARIANT ExecutionInv
INVARIANT TimeInv
