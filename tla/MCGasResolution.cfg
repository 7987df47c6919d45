CONSTANTS
    MaxGas = 1
    MaxTxs = 2
SPECIFICATION Spec
CHECK_DEADLOCK FALSE
INVARIANT TypeOK
INVARIANT DebugMatchesCollector
