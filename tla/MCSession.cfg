SPECIFICATION FairSpec
CONSTANTS
    Sessions = {s1, s2}
    NoSession = NoSession
    Validators = {v1, v2}
    Lanes = 2
INVARIANTS
    NewLanesHoldSessions
    AtMostOneResponse
    ValidatorHasSocket
PROPERTY
    RequestEndsSession
