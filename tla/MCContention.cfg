CONSTANTS
    r1 = r1
    r2 = r2
    r3 = r3
    r4 = r4
    a1 = a1
    a2 = a2
    Requests = {r1, r2, r3}
    NoRequest = NoRequest
    Accounts <- MCAccounts
    account_id <- MCAccountId
    Registered <- MCRegistered
    Validators = {v1, v2}
    NoThread = NoThread
    PARALLEL_VALIDATIONS = 2
    MAX_WAITED = 0
    UINT64_MAX = 5
    deadline_limit_ = 4
    poc2_start_height_ = 1
    MaxHeight = 2
    wallet_base_target <- MCBaseTargets
    CalculateDeadline <- MCCalculateDeadline
SPECIFICATION Spec
INVARIANTS
    TypeOK
    StrictlyImproves
    RoundRecordsBest
    SuccessIsCovered
PROPERTIES
    ImplementsDeadlineService
CHECK_DEADLOCK FALSE
