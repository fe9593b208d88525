SPECIFICATION MCSpec
CONSTANTS
  Parts = {"signers", "witness", "keys", "limiter", "boards", "import", "access", "client", "background", "tenants", "serving", "mcp", "drift", "llm"}
  OneSigner = {k1}
  SigningKeys = {k1, k2}
  PinnedRoots = {r1}
  LaterRoots = {r2}
  MaxStmts = 3
  MaxAtts = 4
  MaxBlocks = 1
  MaxBackups = 2
  Tenants = {t}
  Keys = {key1, key2}
  Sessions = {c1, c2}
  Clients = {c}
  MaxCommands = 4
  Idle = Idle
  Attempts = {c1, c2}
  Subjects = {x1, x2, x3}
  Limit = 2
  Window = 2
  MaxBuckets = 2
  MaxTime = 2
  Writers = {c1, c2}
  Fields = {f, g}
  Texts = {1, 2}
  NoBoard = NoBoard
  NoText = NoText
  Ids = {1, 2, 3}
  Contents = {"x", "y"}
  Sources <- MCSources
  Imports = {c1, c2}
  MaxRuns = 3
  MaxServerWrites = 1
  None = None
  MaxCredentials = 2
  WriteModes = {TRUE}
  Callers = {c1, c2}
  Questions = {"q", "r"}
  MaxAsked = 5
  Starters = {c1, c2}
  Kinds = {"watch", "serve"}
  MaxPids = 3
  Nobody = Nobody
  Calls = {c1, c2}
  Setups <- MCSetups
  Records = {"a", "b"}
  Wordings <- MCWordings
  Drafts <- MCDrafts
  Summaries <- MCSummaries
  MaxClaims = 2
  MaxChanges = 2
  Asking = {c1, c2}
  Themes = {"theme"}
  Notes = {"m1", "m2"}
  Prompts <- MCPrompts
  MaxMemories = 2
  Context = 3
  Box = "operator"
  BoxTenant = "operator"
  Lists <- MCLists
  MaxLines = 2
  Ledgers = {"operator", "t1"}
  Handlers = {c1, c2}
  PoolMax = 2
  MaxWaiting = 1
  MaxTries = 1
  MaxEdits = 1
  Databases <- MCDatabases
  Deployments <- MCDeployments
SYMMETRY MCSymmetry
INVARIANTS
  TakenIsGood
  WitnessIsRight
  NoKeyOutlivesTenant
  FailuresStayCounted
  BoardIsSerial
  ServedAsProven
  AnswersAreMine
  NothingRunsUnheld
  
  VerdictIsBacked
  RecordIsHonest
PROPERTIES
  ImportIsWhole
CHECK_DEADLOCK FALSE
