SPECIFICATION IntakeSpec
CONSTANTS
  Callers = {c1, c2}
  Users = {u1, u2}
  Admins = {u2}
  Peers = {p1, p2}
  Routes <- MCRoutes
  Mcp <- MCMcp
  McpPolicy <- MCMcpPolicy
  Tools <- MCTools
  TrustedProxy = FALSE
  MaxArrivals = 4
  MaxIdentified = 2
  MaxClock = 2
  MaxChanges = 1
  Alone = TRUE
  MaxTracked = 2
  MaxImportBytes = 9
  MaxFieldBytes = 2
  MaxColumns = 3
  MaxRows = 2
  MaxReported = 2
  Letter = "letter"
  Columns = 2
  MaxBody = 10
SYMMETRY Symmetry
INVARIANTS IntakeTypeOK BurstIsBounded HandledOnlyIfAdmitted ServerClosedOnce ImportIsTheTable
CHECK_DEADLOCK FALSE
