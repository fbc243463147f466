CONSTANTS
  Nothing = Nothing
  Packages <- MCPackages
  Legacies = {1}
  Retained = 1
  FileFaults = TRUE
  MaxStarts = 3
  MaxCommits = 1
  MaxBackups = 2
  MaxCorruptions = 1
SPECIFICATION Spec
INVARIANTS
  ReadyPromises
  AnsweredBackupsKept
PROPERTIES
  NothingDiscarded
  StartupEnds
CHECK_DEADLOCK FALSE
