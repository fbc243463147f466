------------------------------- MODULE MCStore -------------------------------
(***************************************************************************)
(* SqliteAtlasStore on a handful of requests: a write with an idempotency  *)
(* key, its retry under the same key, another write that uses the key for  *)
(* something else, an indexing run and reads.                              *)
(***************************************************************************)
EXTENDS SqliteAtlasStore

CONSTANTS write, retry, clash, index, read1, read2, key, plan

Reads == {read1, read2}
MCWorkClass == [r \in Requests |-> IF r \in Reads THEN "db-read" ELSE "db-write"]
MCDefect == [r \in Requests |-> "none"]
MCKey == [r \in Requests |-> IF r \in {write, retry, clash} THEN key ELSE NoKey]
MCIntent == [r \in Requests |-> IF r \in {write, retry} THEN plan ELSE r]
===============================================================================
