CONSTANTS
  Nothing = Nothing
  Files <- MCFiles
  Versions <- MCVersions
  Requests <- Every
  Ripgrep = FALSE
  StorageFaults = TRUE
  MaxRuns = 3
  MaxEdits = 1
  MaxCrashes = 1
SPECIFICATION Spec
CHECK_DEADLOCK FALSE
INVARIANTS
  NoOrphans
  GraphConverges
  NothingPending
  RebuildConverges
