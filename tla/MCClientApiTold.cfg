SPECIFICATION Spec
CONSTANTS
    NULL = NULL
    Calls <- AllCalls
    FaultSets <- NoFaults
INVARIANT
    FailureIsTold
