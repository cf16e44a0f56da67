SPECIFICATION MCSpec
CONSTANTS
  Stays = {s1, s2}
  Requests = {r1, r2}
  Prices = {0, 1, 2}
  MaxRefund = 2
  MaxTime = 3
  MaxFailures = 1
SYMMETRY Symmetry
CHECK_DEADLOCK FALSE
INVARIANTS
  TypeOK
  NoDoubleBooking
  DeletionIsTotal
  LedgerInStep
