\* A write, an indexing run and a retrieval in one store that is closed, fails
\* or is killed at any point.
CONSTANTS
  write = write  retry = retry  clash = clash  index = index  read1 = read1  read2 = read2
  key = key  plan = plan
  NoKey = NoKey  NoRequest = NoRequest
  Requests = {write, index, read1}
  WorkClass <- MCWorkClass
  Defect <- MCDefect
  Key <- MCKey
  Intent <- MCIntent
  Timed = {write, index}
  Abortable = {read1}
  Unsendable = {}
  Oversize = {}
  Indexing = {index}
  Retrieving = {read1}
  MayThrow = {write, index}
  MaxQueued = 1
  MaxInFlightReads = 1
  ReadBurst = 4
  MaxOpens = 1
SPECIFICATION FairSpec

PROPERTY ImplementsSupervisor ImplementsContract EventuallySettled CloseTerminates
