SPECIFICATION Spec
CONSTANTS
    Users = {u1, u2, u3}
    Sessions = {s1, s2, s3, s4}
    Tokens = {t1, t2, t3}
    Flows = {f1, f2}
    lower = lower
    upper = upper
    Emails = {lower, upper}
    Fold <- Lowered
    Subjects = {g1, g2}
    Requests = {r1, r2}
    TokenTtl = 1
    Window = 3
    Limit = 2
    SessionTtl = 5
    IdleTtl = 3
    TouchAfter = 0
    Grace = 1
    FlowTtl = 1
    None = None
    Budgets <- Scenarios
    MaxTime = 5
    MaxFailures = 1
SYMMETRY Symmetry
CHECK_DEADLOCK FALSE
INVARIANTS
    TypeOK
    OldSessionsEnd
    RecoveryIsBounded
    NoAccountWithoutAccess
PROPERTY CleanupSparesTheValid
