SPECIFICATION Spec
CONSTANTS
    NULL = NULL
    Names = {"a", "b", "c"}
    FirstCap = 1
    Replies <- MCReplies
    Faults = {"blob", "array"}
INVARIANTS
    NamesFaithful
    IndicesInBounds
    NoLeak
