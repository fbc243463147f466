----------------------------- MODULE MCIndexing -----------------------------
(* A library (file 1), a file that may call it (2) and one that only       *)
(* mentions it or has values flow to it (3).                               *)
EXTENDS Indexing

Text(imported, called, flowing, ok) ==
  [imports |-> imported, calls |-> called, flows |-> flowing, parses |-> ok]

MCFiles == 1..3

MCVersions ==
  [f \in MCFiles |-> CASE f = 1 -> {Text({}, {}, {}, TRUE), Text({}, {}, {}, FALSE)}
                       [] f = 2 -> {Text({}, {}, {}, TRUE), Text({1}, {1}, {}, TRUE)}
                       [] f = 3 -> {Text({1}, {}, {1}, TRUE)}]

Request(mode, phase, paths) == [mode |-> mode, phase |-> phase, paths |-> paths]

Rebuild == Request("full", "full", Nothing)

Incremental == Request("incremental", "full", Nothing)

(* Runs restricted to paths: a repair, and what a batch of the watcher     *)
(* requests.                                                               *)
Part == Request("repair", "full", {1})

Batch == Request("incremental", "full", {2, 3})

(* Cross references on their own.                                          *)
CrossrefsOnly == Request("incremental", "crossref", Nothing)

Every == {Rebuild, Incremental, Part, Batch, CrossrefsOnly}
=============================================================================
