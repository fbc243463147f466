---------------------------- MODULE MCSupervisor ----------------------------
(***************************************************************************)
(* The supervisor alone, with the most general endpoint: two reads, two    *)
(* writes, a backup, and a read whose signal was aborted before the call.  *)
(***************************************************************************)
EXTENDS Supervisor

CONSTANTS read1, read2, write1, write2, backup, bad

MCWorkClass == [r \in Requests |->
  CASE r \in {read1, read2, bad} -> "db-read"
    [] r \in {write1, write2}     -> "db-write"
    [] r = backup                 -> "maintenance"]
MCDefect == [r \in Requests |-> IF r = bad THEN "ATLAS_CANCELLED" ELSE "none"]
===============================================================================
