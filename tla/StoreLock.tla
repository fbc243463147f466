------------------------------ MODULE StoreLock ------------------------------
(***************************************************************************)
(* The writer lock of a database file: acquireLock, releaseLock, start and *)
(* shutdown in src/persistence/sqliteWorker.ts, and what the caller's side *)
(* of the worker, WorkerThreadEndpoint in src/persistence/sqliteStore.ts,  *)
(* does to the same file.                                                  *)
(*                                                                         *)
(* Several stores, in one process or in several, try to open one database. *)
(* The lock is a plain file that holds the owner's pid and token, so every *)
(* system call is a step of its own.  A file is known by the store that    *)
(* created it: no store creates two.  A pid is not used again.             *)
(***************************************************************************)
EXTENDS Naturals, FiniteSets

CONSTANTS
  Stores,            \* SqliteAtlasStore.open() calls on the same database
  Processes,
  ProcessOf,         \* the process each call is made in
  Abrupt,            \* stores whose worker may be ended before it is ready
  NoFile,            \* no file at lockPath
  MaxAcquiring       \* bound: how many workers are inside acquireLock() at once

ASSUME LockAssumption ==
  /\ IsFiniteSet(Stores)
  /\ ProcessOf \in [Stores -> Processes]
  /\ Abrupt \subseteq Stores /\ NoFile \notin Stores
  /\ MaxAcquiring \in Nat \ {0}

VARIABLES
  lockFile,          \* the store whose file is at lockPath, or NoFile
  written,           \* stores whose payload is in their file
  pc,                \* where the worker of each store is
  seen,              \* the file acquireLock() has read: its creator
  message,           \* "ready" or "startup-error" posted by the worker
  endpoint,          \* where the endpoint of each store is
  ownsLock,          \* WorkerThreadEndpoint.ownsLock
  running            \* processes that have not been killed

vars == <<lockFile, written, pc, seen, message, endpoint, ownsLock, running>>

Acquiring == {"creating", "reading", "probing", "removing", "recreating", "writing"}
WorkerStates == Acquiring \cup {"idle", "opening", "serving", "releasing", "unlinking", "exited"}
EndpointStates == {"none", "starting", "open", "failed", "closing", "cleaning", "unlinking", "done"}

Runs(s) == ProcessOf[s] \in running

\* The store has the database open, or is opening it.
Owns(s) == Runs(s) /\ pc[s] \in {"opening", "serving"}

Goto(s, label) == pc' = [pc EXCEPT ![s] = label]
Expect(s, e) == endpoint' = [endpoint EXCEPT ![s] = e]

Init ==
  /\ lockFile = NoFile
  /\ written = {}
  /\ pc = [s \in Stores |-> "idle"]
  /\ seen = [s \in Stores |-> NoFile]
  /\ message = [s \in Stores |-> "none"]
  /\ endpoint = [s \in Stores |-> "none"]
  /\ ownsLock = [s \in Stores |-> FALSE]
  /\ running = Processes

-------------------------------------------------------------------------------
(* The worker: acquireLock. *)

Open(s) ==
  /\ Runs(s)
  /\ pc[s] = "idle"
  /\ Cardinality({t \in Stores : Runs(t) /\ pc[t] \in Acquiring}) < MaxAcquiring
  /\ Goto(s, "creating")
  /\ Expect(s, "starting")
  /\ UNCHANGED <<lockFile, written, seen, message, ownsLock, running>>

\* start() failed: startup-error is posted and the worker exits.
Refuse(s) ==
  /\ Goto(s, "exited")
  /\ message' = [message EXCEPT ![s] = "startup-error"]

\* openSync(lockPath, 'wx'); the second time EEXIST is not caught.
Create(s) ==
  /\ Runs(s)
  /\ pc[s] \in {"creating", "recreating"}
  /\ \/ /\ lockFile = NoFile
        /\ lockFile' = s
        /\ Goto(s, "writing")
        /\ UNCHANGED message
     \/ /\ lockFile # NoFile
        /\ IF pc[s] = "creating" THEN Goto(s, "reading") /\ UNCHANGED message ELSE Refuse(s)
        /\ UNCHANGED lockFile
  /\ UNCHANGED <<written, seen, endpoint, ownsLock, running>>

\* writeFileSync on the descriptor: the file may have been unlinked since.
Write(s) ==
  /\ Runs(s)
  /\ pc[s] = "writing"
  /\ written' = written \cup {s}
  /\ Goto(s, "opening")
  /\ UNCHANGED <<lockFile, seen, message, endpoint, ownsLock, running>>

\* readFileSync and JSON.parse: a file that has gone is an error that refuses
\* the store, one that is still empty a SyntaxError that reclaims the lock.
Read(s) ==
  /\ Runs(s)
  /\ pc[s] = "reading"
  /\ seen' = [seen EXCEPT ![s] = lockFile]
  /\ IF lockFile = NoFile THEN Refuse(s)
     ELSE /\ Goto(s, IF lockFile \in written THEN "probing" ELSE "removing")
          /\ UNCHANGED message
  /\ UNCHANGED <<lockFile, written, endpoint, ownsLock, running>>

\* Mutant: any error of process.kill means that the owner lives.
MutantProbe(s) ==
  /\ Runs(s)
  /\ pc[s] = "probing"
  /\ Refuse(s)
  /\ UNCHANGED <<lockFile, written, seen, endpoint, ownsLock, running>>

\* process.kill(pid, 0): ESRCH reclaims the lock, anything else refuses.
Probe(s) ==
  /\ Runs(s)
  /\ pc[s] = "probing"
  /\ IF Runs(seen[s]) THEN Refuse(s) ELSE Goto(s, "removing") /\ UNCHANGED message
  /\ UNCHANGED <<lockFile, written, seen, endpoint, ownsLock, running>>

\* rmSync(lockPath, { force: true }): whatever file is there by now.
Remove(s) ==
  /\ Runs(s)
  /\ pc[s] = "removing"
  /\ lockFile' = NoFile
  /\ Goto(s, "recreating")
  /\ UNCHANGED <<written, seen, message, endpoint, ownsLock, running>>

-------------------------------------------------------------------------------
(* The worker: start, shutdown, releaseLock. *)

Started(s) ==
  /\ Runs(s)
  /\ pc[s] = "opening"
  /\ Goto(s, "serving")
  /\ message' = [message EXCEPT ![s] = "ready"]
  /\ UNCHANGED <<lockFile, written, seen, endpoint, ownsLock, running>>

\* openAndVerify throws, or the close message or an uncaught error ends the
\* worker: each of them runs releaseLock.
Shutdown(s) ==
  /\ Runs(s)
  /\ pc[s] \in {"opening", "serving"}
  /\ Goto(s, "releasing")
  /\ UNCHANGED <<lockFile, written, seen, message, endpoint, ownsLock, running>>

\* The worker exits.  One that has not posted "ready" posts "startup-error".
Exit(s) ==
  IF message[s] = "none" /\ ~ownsLock[s] THEN Refuse(s)
  ELSE Goto(s, "exited") /\ UNCHANGED message

ReleaseRead(s) ==
  /\ Runs(s)
  /\ pc[s] = "releasing"
  /\ \/ lockFile = s /\ Goto(s, "unlinking") /\ UNCHANGED message
     \/ lockFile # s /\ Exit(s)
  /\ UNCHANGED <<lockFile, written, seen, endpoint, ownsLock, running>>

ReleaseUnlink(s) ==
  /\ Runs(s)
  /\ pc[s] = "unlinking"
  /\ lockFile' = NoFile
  /\ Exit(s)
  /\ UNCHANGED <<written, seen, endpoint, ownsLock, running>>

-------------------------------------------------------------------------------
(* The endpoint. *)

HandleMessage(s) ==
  /\ Runs(s)
  /\ message[s] # "none"
  /\ message' = [message EXCEPT ![s] = "none"]
  /\ ownsLock' = [ownsLock EXCEPT ![s] = @ \/ message[s] = "ready"]
  /\ IF endpoint[s] = "starting"
     THEN Expect(s, IF message[s] = "ready" THEN "open" ELSE "closing")
     ELSE UNCHANGED endpoint
  /\ UNCHANGED <<lockFile, written, pc, seen, running>>

\* The worker ends without running releaseLock.
Cut(s) ==
  /\ Goto(s, "exited")
  /\ UNCHANGED <<lockFile, written, seen, ownsLock, running>>

\* startupTimer: the worker is terminated wherever it is.  A ready message it
\* has posted may or may not be delivered.
StartupTimeout(s) ==
  /\ Runs(s)
  /\ s \in Abrupt
  /\ endpoint[s] = "starting"
  /\ Expect(s, "closing")
  /\ message' \in {message, [message EXCEPT ![s] = "none"]}
  /\ Cut(s)

\* The thread crashes.
Crash(s) ==
  /\ Runs(s)
  /\ pc[s] \notin {"idle", "exited"}
  /\ endpoint[s] = "open" \/ s \in Abrupt
  /\ UNCHANGED <<message, endpoint>>
  /\ Cut(s)

\* close() of an open store; the worker that does not exit within two seconds
\* is terminated.
Close(s) ==
  /\ Runs(s)
  /\ endpoint[s] = "open"
  /\ Expect(s, "closing")
  /\ UNCHANGED <<lockFile, written, pc, seen, message, ownsLock, running>>

Terminate(s) ==
  /\ Runs(s)
  /\ endpoint[s] = "closing"
  /\ pc[s] \in {"serving", "releasing", "unlinking"}
  /\ UNCHANGED <<message, endpoint>>
  /\ Cut(s)

\* Mutant: the lock of a worker that crashed is left behind.
MutantHandleExit(s) ==
  /\ Runs(s)
  /\ pc[s] = "exited"
  /\ message[s] = "none"
  /\ endpoint[s] \in {"starting", "open", "closing"}
  /\ Expect(s, "done")
  /\ UNCHANGED <<lockFile, written, pc, seen, message, ownsLock, running>>

\* The exit event: an endpoint that has seen "ready" removes its worker's lock.
HandleExit(s) ==
  /\ Runs(s)
  /\ pc[s] = "exited"
  /\ message[s] = "none"
  /\ endpoint[s] \in {"starting", "open", "closing"}
  /\ Expect(s, IF ownsLock[s] THEN "cleaning" ELSE "done")
  /\ UNCHANGED <<lockFile, written, pc, seen, message, ownsLock, running>>

\* Mutant: the token in the file is not compared.
MutantCleanupRead(s) ==
  /\ Runs(s)
  /\ endpoint[s] = "cleaning"
  /\ Expect(s, "unlinking")
  /\ UNCHANGED <<lockFile, written, pc, seen, message, ownsLock, running>>

\* cleanupOwnedLock: readFile, then rm.
CleanupRead(s) ==
  /\ Runs(s)
  /\ endpoint[s] = "cleaning"
  /\ \/ lockFile = s /\ Expect(s, "unlinking") /\ UNCHANGED ownsLock
     \/ lockFile # s /\ Expect(s, "done") /\ ownsLock' = [ownsLock EXCEPT ![s] = FALSE]
  /\ UNCHANGED <<lockFile, written, pc, seen, message, running>>

CleanupUnlink(s) ==
  /\ Runs(s)
  /\ endpoint[s] = "unlinking"
  /\ lockFile' = NoFile
  /\ Expect(s, "done")
  /\ ownsLock' = [ownsLock EXCEPT ![s] = FALSE]
  /\ UNCHANGED <<written, pc, seen, message, running>>

-------------------------------------------------------------------------------
\* A process is killed: its files stay.
Kill(p) ==
  /\ p \in running
  /\ running' = running \ {p}
  /\ UNCHANGED <<lockFile, written, pc, seen, message, endpoint, ownsLock>>

WorkerStep(s) ==
  \/ Create(s) \/ Write(s) \/ Read(s) \/ Probe(s) \/ Remove(s)
  \/ Started(s) \/ ReleaseRead(s) \/ ReleaseUnlink(s)

EndpointStep(s) ==
  \/ HandleMessage(s) \/ HandleExit(s) \/ CleanupRead(s) \/ CleanupUnlink(s)

Next ==
  \/ \E s \in Stores :
       \/ Open(s) \/ WorkerStep(s) \/ EndpointStep(s)
       \/ Shutdown(s) \/ Close(s) \/ StartupTimeout(s) \/ Crash(s) \/ Terminate(s)
  \/ \E p \in Processes : Kill(p)

Spec == Init /\ [][Next]_vars

\* Threads are scheduled and events are handled; a worker told to close ends.
\* Nobody has to open, close or kill anything.
Fairness == \A s \in Stores :
  /\ WF_vars(WorkerStep(s))
  /\ WF_vars(EndpointStep(s))
  /\ WF_vars(Terminate(s))

FairSpec == Spec /\ Fairness

-------------------------------------------------------------------------------
TypeOK ==
  /\ lockFile \in Stores \cup {NoFile}
  /\ written \subseteq Stores
  /\ pc \in [Stores -> WorkerStates]
  /\ seen \in [Stores -> Stores \cup {NoFile}]
  /\ message \in [Stores -> {"none", "ready", "startup-error"}]
  /\ endpoint \in [Stores -> EndpointStates]
  /\ ownsLock \in [Stores -> BOOLEAN]
  /\ running \subseteq Processes

\* ARCHITECTURE.md, Locks and concurrent servers: "A second writer for the same
\* database fails".  At most one store has the database open at a time.
OneOwner == \A s, t \in Stores : Owns(s) /\ Owns(t) => s = t

\* While a store has the database open the file at lockPath is its own, so that
\* whoever comes next is refused: no crash, kill, release, cleanup or reclaim of
\* another store has taken it away.
LockHeld == \A s \in Stores : Owns(s) => lockFile = s

\* ARCHITECTURE.md, conformance suite: "no connection, lock, worker, or temporary
\* database remains owned after close()".  The lock of a worker that has exited
\* is gone once its endpoint is done with it, unless the process was killed.
\* Not so of a worker that the startup timer ends before it is "ready".
NoOrphan == \A s \in Stores : Runs(s) /\ endpoint[s] = "done" => lockFile # s

\* The same of every store whose worker got as far as "ready": whether it closed,
\* crashed or was terminated while closing, and whatever the others did, its
\* lock goes with it, removed by the worker or else by the endpoint.
ServedLockReleased ==
  \A s \in Stores \ Abrupt : Runs(s) /\ endpoint[s] = "done" => lockFile # s

\* "the next process can reclaim a dead-owner lock" (releaseLock): a worker that
\* meets the lock of a killed process gets to open the database.
DeadOwnerReclaimed == \A s \in Stores \ Abrupt :
  pc[s] = "creating" /\ lockFile # NoFile /\ ~Runs(lockFile) ~> Owns(s) \/ ~Runs(s)
===============================================================================
