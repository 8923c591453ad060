SPECIFICATION Spec
CONSTANTS
    ByteBits = 2
    CounterBits = 1
    Lanes256 = 2
    Lanes4 = 2
    NULL = NULL
    ScoopBits = 3
    HashCap = 16
    MaxChunks = 2
    ChunkLengths = {0, 1, 7, 15, 16, 17, 33}
INVARIANTS
    ContextIsMessage
    DigestIsLaneHash
    DeadlineIsOwn
