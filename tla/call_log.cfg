SPECIFICATION LogSpec
CONSTANTS
  Parts = {"log"}
  c1 = c1
  c2 = c2
  c3 = c3
  p1 = p1
  p2 = p2
  Calls <- MCCalls
  Procs <- MCProcs
  PageSize = 1
  Pinned = 1
  MaxPages = 2
  LastDay = 1
  RetainDays = 1
  Cap = 1
  MaxFaults = 2
  MaxStops = 1
SYMMETRY MCSymmetry
INVARIANTS
  NothingVanishes
  GapComesFirst
CHECK_DEADLOCK FALSE
