\* Stores are opened one at a time; crashes and kills at any time; the worker
\* of the first may be ended before it is ready.
CONSTANTS
  first = first  second = second  other = other
  NoFile = NoFile
  server = server  script = script
  Stores = {first, second, other}
  Processes = {server, script}
  ProcessOf <- MCProcessOf
  Abrupt = {first}
  MaxAcquiring = 1
SPECIFICATION FairSpec
INVARIANTS LockHeld ServedLockReleased
PROPERTY DeadOwnerReclaimed
CHECK_DEADLOCK FALSE
