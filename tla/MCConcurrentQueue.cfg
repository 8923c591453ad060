SPECIFICATION FairSpec
CONSTANTS
    t1 = t1
    t2 = t2
    Threads = {t1, t2}
    Consumers = {c1, c2}
    Once = {c2}
    NoThread = NoThread
    hash_thread_id <- MCHash
    INITIAL_IMPLICIT_PRODUCER_HASH_SIZE = 2
    MaxCalls <- MCCalls
INVARIANTS
    OneProducerPerThread
    TablesHaveRoom
PROPERTIES
    PollFindsWaiting
    EnqueueReturns
    EveryElementDequeued
CHECK_DEADLOCK FALSE
