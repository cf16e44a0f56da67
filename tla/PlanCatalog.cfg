SPECIFICATION Spec
CONSTANTS
    Handlers = {h1, h2}
    Prices = {p1, p2}
    Products = {x}
    ProductOf <- MCProductOf
    PaidCodes = {"pro"}
    None = None
    Trials = {1}
    MaxEvents = 2
    MaxTime = 2
    MaxOutages = 1
    MaxReconciliations = 1
SYMMETRY Symmetry
INVARIANTS
    TypeOK
    FreeNeverRunsOut
    ReconciliationHeals
    MirrorsNewest
CHECK_DEADLOCK FALSE
