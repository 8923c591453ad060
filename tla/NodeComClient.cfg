SPECIFICATION FairSpec
CONSTANTS
    Accounts = {1, 300, 7}
    Served = {1, 300}
    Nonces = {0, 128}
    Deadlines = {0, 16384}
    Height = 20000
    MaxCalls = 3
INVARIANTS
    PoolReadsWhatWasSent
    PoolCanKnowBest
PROPERTIES
    FinishedCallsAreDeleted
CHECK_DEADLOCK FALSE
