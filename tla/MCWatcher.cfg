CONSTANTS
  Nothing = Nothing
  Root = "root"
  Dirs = {"dir"}
  Files = {"top", "inner"}
  Parent <- MCParent
  BatchesFail = TRUE
  WatchesFail = TRUE
  Tasks = {1, 2}
  MaxChanges = 3
SPECIFICATION Spec
CHECK_DEADLOCK FALSE
INVARIANTS
  CaughtUp
  ClosedForGood
PROPERTY
  ComesToRest
