SPECIFICATION WireSpec
CHECK_DEADLOCK FALSE
CONSTANTS
    NULL = NULL
    NotFinite = NotFinite
    Ints <- MCInts
    RawJson <- MCRawJson
    Names <- MCNames
    Numbers <- MCNumbers
    Heard <- MCHeard
    Requests <- NoRequests
    MaxLen = 5
CONSTRAINT
    Unfinished
INVARIANT
    FoundIsPresent
