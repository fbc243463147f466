\* Two read slots, room for two queued requests.
CONSTANTS
  read1 = read1  read2 = read2  write1 = write1  write2 = write2  backup = backup  bad = bad
  Requests = {read1, read2, write1, write2, backup, bad}
  Replies = {"OK"}
  WorkClass <- MCWorkClass
  Defect <- MCDefect
  Timed = {write1}
  Abortable = {read1}
  Unsendable = {write2}
  Oversize = {read2}
  Recurring = {read2}
  MaxQueued = 2
  MaxInFlightReads = 2
  ReadBurst = 1
SPECIFICATION Spec
INVARIANTS TypeOK HeldOnce WritesExclusive AdmissionBounded NothingIdle ShutdownSettlesAll
PROPERTY SettledOnce
