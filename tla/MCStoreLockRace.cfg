\* Two stores may be inside acquireLock at once.
CONSTANTS
  first = first  second = second  other = other
  NoFile = NoFile
  server = server  script = script
  Stores = {first, second, other}
  Processes = {server, script}
  ProcessOf <- MCProcessOf
  Abrupt = {}
  MaxAcquiring = 2
SPECIFICATION Spec
INVARIANT OneOwner
CHECK_DEADLOCK FALSE
