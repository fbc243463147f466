SPECIFICATION MCSpec
CONSTANTS
  Bad = Bad
  Workspaces = {1, 2}
  Stores <- AllStores
  Sources = {0, 1, 2, 3}
  KeyOrder <- MCKeyOrder
  Requests <- MCRequests
  Codes = {"ATLAS_TIMEOUT", "ATLAS_STORE_LOCKED", "ATLAS_CLOSED"}
  MaxItems = 3
  MaxPlan = 3
  Expanded = 1
  MaxSourceLines = 2
  HighDegree = 2
  ManyHazards = 3
  LargeFile = 4
  MaxChanges = 1
  DaySeconds = 2
  Keys = {k1, k2}
  Args <- MCArgs
  CacheEntries = 1
  Snapshots = 2
  YieldInterval = 4
  MaxLoads = 3
  Items <- MCItems
  Bytes <- MCBytes
  MaxBatchItems = 2
  MaxItemBytes = 2
  MaxBatchBytes = 2
  MaxConcurrentBatches = 2
  Lexical <- MCLexical
  Dense <- MCDense
INVARIANTS PagesWhole GraphAnswersSound ControlSound EmbedWhole
CHECK_DEADLOCK FALSE
