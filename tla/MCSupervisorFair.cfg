\* A write against two callers that never stop reading, with the code's own
\* limits: four read slots, and a burst of four reads.
CONSTANTS
  read1 = read1  read2 = read2  write1 = write1  write2 = write2  backup = backup  bad = bad
  Requests = {read1, read2, write1}
  Replies = {"OK"}
  WorkClass <- MCWorkClass
  Defect <- MCDefect
  Timed = {}
  Abortable = {}
  Unsendable = {}
  Oversize = {}
  Recurring = {read1, read2}
  MaxQueued = 2
  MaxInFlightReads = 4
  ReadBurst = 4
SPECIFICATION FairSpec
PROPERTY WritesProgress
