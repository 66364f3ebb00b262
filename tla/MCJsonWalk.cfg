SPECIFICATION WireSpec
CHECK_DEADLOCK FALSE
CONSTANTS
    NULL = NULL
    NotFinite = NotFinite
    Ints <- MCInts
    RawJson <- MCRawJson
    Names <- MCNames
    Numbers <- MCNumbers
    Heard <- MCHeard
    Requests <- MCRequests
    MaxLen = 9
CONSTRAINT
    Unfinished
INVARIANTS
    WalkIsGrammar
    LookupIsFirst
    BodyIsJson
    BodySaysAll
