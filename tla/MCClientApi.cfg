SPECIFICATION Spec
CONSTANTS
    NULL = NULL
    Calls <- AllCalls
    FaultSets <- MCFaultSets
INVARIANTS
    ArgumentsAreRead
    OwnsItsBlocks
PROPERTIES
    IsBorrow
