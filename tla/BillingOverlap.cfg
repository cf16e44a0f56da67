SPECIFICATION Spec
CONSTANTS
  Checkouts = {c1, c2}
  Handlers = {h1, h2}
  PaidPlans = {pro}
  None = None
  Steps = {"ended", "other", "payment_failed"}
  MaxEvents = 3
  MaxTime = 2
  MaxOutages = 1
  MaxLosses = 1
SYMMETRY Symmetry
CHECK_DEADLOCK FALSE
INVARIANTS
  TypeOK
  AppliedOnce
  SessionsShareCustomer
