SPECIFICATION Spec
CONSTANTS
    NULL = NULL
    Replies <- MCReplies
INVARIANTS
    StringsFaithful
    CommitHlcIsReal
    DurableSpeaksFirst
