\* A keyed write, its retry and a clashing write across two incarnations of the
\* store; the worker or the process may die at any point.
CONSTANTS
  write = write  retry = retry  clash = clash  index = index  read1 = read1  read2 = read2
  key = key  plan = plan
  NoKey = NoKey  NoRequest = NoRequest
  Requests = {write, retry, clash}
  WorkClass <- MCWorkClass
  Defect <- MCDefect
  Key <- MCKey
  Intent <- MCIntent
  Timed = {write}
  Abortable = {retry}
  Unsendable = {}
  Oversize = {retry}
  Indexing = {}
  Retrieving = {}
  MayThrow = {retry}
  MaxQueued = 1
  MaxInFlightReads = 1
  ReadBurst = 4
  MaxOpens = 2
SPECIFICATION Spec
PROPERTY ImplementsContract
