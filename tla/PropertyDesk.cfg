SPECIFICATION Spec
CONSTANTS
    Props = {p1, p2, p3}
    Rows = {r1, r2, r3}
    Keys = {k1, k2}
    Texts = {x1, x2}
    x1 = x1
    x2 = x2
    TypeOf <- Typing
    Tasks = {t1, t2}
    Quotas = {1, 2}
    MaxSettings = 1
    None = None
    Budgets <- Scenarios
    MaxFailures = 1
SYMMETRY Symmetry
CHECK_DEADLOCK FALSE
INVARIANTS
    TypeOK
    LimitsHold
    ReconcileAnswers
PROPERTY DeletionSticks
