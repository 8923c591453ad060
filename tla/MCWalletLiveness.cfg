SPECIFICATION FairSpec
CONSTANTS
    Readers = {t1, v1}
    Validators = {v1}
    Refresher = w
    Nobody = Nobody
    NoBlock = NoBlock
    b1 = b1
    b2 = b2
    b2f = b2f
    Blocks <- OneBranch
    Threads <- MCThreads
    Height <- MCHeight
    MaxFaults = 1
    MaxReorgs = 1
PROPERTIES
    CatchesUp
    CallsReturn
