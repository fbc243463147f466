SPECIFICATION MCSpec
CONSTANTS
  Files = {f1}
  Contents <- MCContents
  Callers = {c1, c2}
  Requests <- MCRequests
  Keep = 1
  MaxEntries = 3
  MaxSecond = 2
  DaySeconds = 2
  LookAhead = 3
  Signs = {}
  Lines = {"a", "b"}
  Contexts = {0, 1, 3}
  MaxLines = 5
  Paths = {1, 2}
  Hashes = {1, 2}
  StopWords = {"the"}
  Exports = {"run"}
  MaxIds = 3
  NoRow = NoRow
  Records <- MCRecords
  Events <- MCEvents
  Calls <- MCCalls
  Instances = {i1}
  MaxEvents = 4
  MaxConfidence = 20
  MaxEvidence = 2
INVARIANTS HistoryFaithful DiffWhole CatalogueSound WitnessFaithful
PROPERTIES NoLostUpdate
SYMMETRY Symmetric
