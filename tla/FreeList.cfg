SPECIFICATION FairSpec
CONSTANTS
    Nodes = {n1, n2, n3}
    Null = Null
    Getters = {g1, g2}
    Adders = {c1}
    SHOULD_BE_ON_FREELIST = 8
INVARIANTS
    ExclusiveOwner
    NoBlockLost
PROPERTY
    SomeCallReturns
