SPECIFICATION MCSpec
CONSTANTS
  Parts = {"json", "gate", "write", "reads", "bundle", "overlay", "field", "rag"}
  Threads = {t1, t2}
  Slots = {a, b}
  Board = Board
  Marks = {1, 2}
  Objects = {o}
  NoObject = NoObject
  MaxVersion = 2
  Keep = Keep
  None = None
  MaxIds = 3
  Subjects = {subject}
  Claims = {x, y}
  Requests = {t1, t2, q3}
  Ids = {1, 2, 3}
  TwinIds = {2}
  Times = {1, 2}
  ScanFilters <- MCScanFilters
  Limit = 1
  MaxPages = 3
  Corpora <- MCCorpora
  Scorings <- MCScorings
  Recalls <- MCRecalls
  SeedLimit = 2
  MaxDepth = 3
  MaxNodes = 3
  Callers = {t1, t2}
  Tenants = {operator, tenant}
  Operator = operator
  Memories = {1}
  Outcomes = {o1, o2}
  Corrections = {c}
  Cap = 1
  MaxReports = 4
  Anchors = {t1, t2}
  Particles = {1, 2}
  Contents = {"x", "y"}
  MaxFaults = 1
  MaxRuns = 2
  DocIds = {1, 2}
  Bodies <- MCBodies
  LedgerDocs <- MCLedgerDocs
  Queries <- MCQueries
  Adders = {t1, t2}
  Askers = {t1, t2}
  MaxRecords = 1
SYMMETRY MCSymmetry
INVARIANTS
  DiskIsTheLedger
  AdmittedHasEvidence
  
  ArchivedHasSuccessor
  ListingIsSound
  RecallIsSound
  EarnedOnce
  
  
CHECK_DEADLOCK FALSE
