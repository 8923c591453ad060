SPECIFICATION Spec
SYMMETRY ReaderSymmetry
CONSTANTS
    Readers = {t1, t2}
    Validators = {}
    Refresher = w
    Nobody = Nobody
    NoBlock = NoBlock
    b1 = b1
    b2 = b2
    b2f = b2f
    Blocks <- MCBlocks
    Threads <- MCThreads
    Height <- MCHeight
    MaxFaults = 0
    MaxReorgs = 1
INVARIANTS
    TornOnlyIfLapped
PROPERTIES
    ImplementsBlockRegister
    BlockNotBehindInfo
