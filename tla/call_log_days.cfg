SPECIFICATION LogSpec
CONSTANTS
  Parts = {"log", "reads"}
  c1 = c1
  c2 = c2
  c3 = c3
  p1 = p1
  p2 = p2
  Calls <- MCCalls
  Procs <- MCProcs
  PageSize = 1
  Pinned = 1
  MaxPages = 2
  LastDay = 3
  RetainDays = 1
  Cap = 1
  MaxFaults = 1
  MaxStops = 1
SYMMETRY MCSymmetry
INVARIANTS
  ChainUnbroken
  ReportIsHonest
CHECK_DEADLOCK FALSE
