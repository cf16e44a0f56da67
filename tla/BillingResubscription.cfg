SPECIFICATION Spec
CONSTANTS
  Checkouts = {c1, c2}
  Handlers = {h1, h2}
  PaidPlans = {pro}
  None = None
  Steps = {"ended"}
  MaxEvents = 3
  MaxTime = 3
  MaxOutages = 0
  MaxLosses = 0
SYMMETRY Symmetry
CHECK_DEADLOCK FALSE
INVARIANTS
  ResubscriptionSurvives
