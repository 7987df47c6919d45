CONSTANTS
    Modules <- MCModules
    ExpDigits = 1
    MaxCounter = 12
    MaxWork = 2
SPECIFICATION Spec
INVARIANT DeltasMatchCounters
