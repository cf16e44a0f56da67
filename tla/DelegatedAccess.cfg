SPECIFICATION MCSpec
CONSTANTS
  Null = Null
  Users = {u1}
  Apps = {a1}
  Requests = {r1, r2}
  Codes = {x1}
  Creds = {c1, c2, c3}
  Procs = {p1, p2}
  RequestTTL = 2
  CodeTTL = 2
  AccessTTL = 1
  RefreshTTL = 2
  Grace = 0
  AbsoluteLife = 3
  Inactivity = 2
  CacheCapacity = 1
  MaxTime = 2
SYMMETRY MCSymmetry
CHECK_DEADLOCK FALSE
INVARIANTS
  TypeOK
  ChainNeverForks
  FamilyFence
  GraceReturnsSuccessor
  DisconnectFence
  CodeClaimedOnce
