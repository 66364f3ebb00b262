SPECIFICATION Spec
CONSTANTS
    NULL = NULL
    MaxBody = 2
    Sizes <- MCSizes
    Statuses <- MCStatuses
    Creds = {"none", "token", "basic"}
    Timeouts <- MCTimeouts
    FaultSets <- MCFaultSets
INVARIANTS
    TypeOK
    AnswersAreComplete
    BufferBounded
    ErrorMatchesReturn
    NoLeak
    CredentialsOnWire
    OversizeMeansOversize
PROPERTIES
    CallsReturn
