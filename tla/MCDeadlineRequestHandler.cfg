CONSTANTS
    r1 = r1
    r2 = r2
    r3 = r3
    r4 = r4
    a1 = a1
    a2 = a2
    Requests = {r1, r2, r4}
    NoRequest = NoRequest
    Accounts <- MCAccounts
    account_id <- MCAccountId
    Registered <- MCRegistered
    Validators = {v1, v2}
    NoThread = NoThread
    PARALLEL_VALIDATIONS = 2
    MAX_WAITED = 1
    UINT64_MAX = 5
    deadline_limit_ = 4
    poc2_start_height_ = 2
    MaxHeight = 3
    wallet_base_target <- MCZeroBaseTarget
    CalculateDeadline <- MCCalculateDeadline
SPECIFICATION FairSpec
INVARIANTS
    NothingLostOrDuplicated
    AnswerIsOwnDeadline
    
PROPERTIES
    EveryRequestAnswered
CHECK_DEADLOCK FALSE
