----------------------------- MODULE MCStoreLock -----------------------------
(***************************************************************************)
(* Three stores on one database: two opened in one process, one in another. *)
(***************************************************************************)
EXTENDS StoreLock

CONSTANTS first, second, other, server, script

MCProcessOf == [s \in Stores |-> IF s = other THEN script ELSE server]
===============================================================================
