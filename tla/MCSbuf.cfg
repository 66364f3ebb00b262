SPECIFICATION Spec
CONSTANTS
    a = a
    b = b
    nul = nul
    junk = junk
    SizeMax = 7
    MaxAlloc = 6
    InitCap = 1
    Byte <- MCByte
    NUL = nul
    Junk = junk
    Payloads <- MCPayloads
INVARIANTS
    TypeOK
    WritesInBounds
    Terminated
    CapacityIsReal
PROPERTIES
    GrowthIsMonotone
    CallsReturn
    IsByteString
