SPECIFICATION Spec
CHECK_DEADLOCK FALSE
CONSTANTS
    NoText = NoText
    Texts <- MCTexts
    Tails <- MCTails
    Replies <- MCReplies
    BufSize = 4
    MaxInt = 7
INVARIANTS
    RoundTrip
    DecodeFits
    AnySpellingIsRead
    PathNamesIt
    NumberIsRead
