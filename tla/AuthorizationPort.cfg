SPECIFICATION Spec
CONSTANTS
  None = None
  Apps = {a1}
  Users = {u1}
  Requests = {r1}
  Codes = {x1}
  Creds = {c1, c2}
  Uris <- MCUris
  Verifiers = {v1, v2}
  Procs = {p1, p2}
  UnusedAfter = 0
  RequestTTL = 1
  CodeTTL = 1
  MaxUris = 1
  MaxTime = 2
SYMMETRY MCSymmetry
CHECK_DEADLOCK FALSE
INVARIANTS
  OnlyThePortIsLoose
