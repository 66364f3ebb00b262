SPECIFICATION Spec
CONSTANTS
    NULL = NULL
    CellCap = 1
    RowCap = 1
    Replies <- MCReplies
    Faults <- AllFaults
INVARIANTS
    ResultFaithful
    IndicesInBounds
    NoLeak
