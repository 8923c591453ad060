SPECIFICATION Spec
SYMMETRY Symmetry
CONSTANTS
    Consumers = {c1, c2}
    Blocks = {b1, b2, b3}
    Null = Null
    Garbage = Garbage
    BLOCK_SIZE = 2
    IMPLICIT_INITIAL_INDEX_SIZE = 2
    IndexBits = 3
    MaxElements = 9
INVARIANTS
    BlockIndexSound
PROPERTIES
    FailsOnlyIfEmptyOrContended
    ImplementsFifo
CHECK_DEADLOCK FALSE
