SPECIFICATION Spec
CONSTANTS
  Checkouts = {c1, c2}
  Handlers = {h1}
  PaidPlans = {pro}
  None = None
  Steps = {"active", "canceled", "payment_failed", "trial_will_end"}
  MaxEvents = 3
  MaxTime = 2
  MaxOutages = 1
  MaxLosses = 0
CHECK_DEADLOCK FALSE
INVARIANTS
  CanceledMeansEnded
PROPERTIES
  EveryEventApplied
