SPECIFICATION Spec
CHECK_DEADLOCK FALSE
CONSTANTS
    c1 = c1
    c2 = c2
    i1 = i1
    a = a
    b = b
    k1 = k1
    NoKey = NoKey
    Clients = {c1, c2}
    Intents = {i1}
    IntentOf <- MCIntentOf
    Batch <- MCBatch
    KeyOf <- MCKeyOf
    Slots = {1, 2}
    MaxCrashes = 1
    Tears = FALSE
INVARIANTS
    TypeOK
    WholeBatches
PROPERTIES
    IsExactlyOnce
    Settles
