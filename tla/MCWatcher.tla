----------------------------- MODULE MCWatcher ------------------------------
(* One file in the root and one in a directory that comes and goes.        *)
EXTENDS Watcher

MCParent == [f \in Files |-> IF f = "top" THEN Root ELSE "dir"]
=============================================================================
