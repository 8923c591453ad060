SPECIFICATION Spec
SYMMETRY Symmetry
CONSTANTS
    Sessions = {s1}
    NoSession = NoSession
    Validators = {v1, v2}
    Lanes = 2
INVARIANT
    MessageOutlivesWrite
