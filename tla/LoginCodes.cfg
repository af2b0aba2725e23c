CONSTANTS
    a1 = a1  a2 = a2
    r1 = r1  r2 = r2  r3 = r3
    v1 = v1  v2 = v2  v3 = v3
    Spellings = {a1, a2}
    Requests = {r1, r2, r3}
    Verifies = {v1, v2, v3}
    Email <- EmailOf
    None = None
SPECIFICATION Spec
INVARIANTS
    TypeOK
    UsedOnce
    CodeSurvives
    OneAccount
CHECK_DEADLOCK FALSE
