--------------------------- MODULE SqliteAtlasStore ---------------------------
(***************************************************************************)
(* SqliteAtlasStore (src/persistence/sqliteStore.ts): the supervisor on    *)
(* the caller's thread and the worker on its own, joined by the            *)
(* WorkerThreadEndpoint.  Messages in each direction arrive in order; the  *)
(* worker may die between any two of its steps; the process may be killed; *)
(* afterwards a new store can be opened on the same database.              *)
(***************************************************************************)
EXTENDS Naturals, Sequences, FiniteSets
LOCAL INSTANCE SequencesExt

CONSTANTS
  Requests, WorkClass, Defect, Timed, Abortable, Unsendable, Oversize,
  Indexing, Retrieving, MayThrow, Key, Intent, NoKey, NoRequest,
  MaxQueued, MaxInFlightReads, ReadBurst,
  MaxOpens           \* bound: how many stores are opened on the file, one after another

ASSUME StoreAssumption ==
  /\ {Indexing, Retrieving, MayThrow} \subseteq SUBSET Requests
  /\ \A r \in Indexing : WorkClass[r] = "db-write"
  /\ \A r \in Retrieving : WorkClass[r] = "db-read"
  /\ DOMAIN Key = Requests /\ DOMAIN Intent = Requests
  /\ NoRequest \notin Requests

VARIABLES
  queue, inFlight, state, outcome, consecutiveReads, pumping, phase, failed,
  toWorker, fromWorker, requestChain, running, reply, closing, alive,
  effect, ledger,
  opens

Replies == {"OK", "ATLAS_CLOSED", "ATLAS_CONFLICT", "ATLAS_INVALID_REQUEST", "ATLAS_TIMEOUT"}

\* Every call has an id of its own (requestIdFactory): none recurs.
Sup == INSTANCE Supervisor WITH Recurring <- {}
Wrk == INSTANCE SqliteWorker

ASSUME SupervisorAssumption ==
  /\ WorkClass \in [Requests -> Sup!Classes]
  /\ Defect \in [Requests -> Sup!InputDefects \cup {"none"}]
  /\ {Timed, Abortable, Unsendable, Oversize} \subseteq SUBSET Requests
  /\ MaxQueued \in Nat
  /\ MaxInFlightReads \in Nat \ {0}
  /\ ReadBurst \in Nat \ {0}

worker == <<fromWorker, requestChain, running, reply, closing, alive, effect, ledger>>
caller == <<queue, inFlight, state, outcome, consecutiveReads, pumping, phase, failed>>
vars == <<caller, toWorker, worker, opens>>

Init == Sup!Init /\ Wrk!WorkerInit /\ Wrk!DatabaseInit /\ opens = 1

-------------------------------------------------------------------------------
(* Messages from the worker reach the supervisor. *)

Delivered == fromWorker' = Tail(fromWorker)

DeliverResponse ==
  /\ fromWorker # <<>>
  /\ Sup!HandleResponse(Head(fromWorker).id, Head(fromWorker).reply)
  /\ Delivered
  /\ UNCHANGED <<requestChain, running, reply, closing, alive, effect, ledger, opens>>

\* A response for a request that is no longer in flight, or that arrives when
\* nobody listens any more.
DiscardResponse ==
  /\ ~pumping
  /\ fromWorker # <<>>
  /\ Head(fromWorker).id \notin inFlight \/ ~Sup!Subscribed
  /\ Delivered
  /\ UNCHANGED <<caller, toWorker, requestChain, running, reply, closing, alive,
                 effect, ledger, opens>>

\* Mutant: the failure is noted, what is in flight keeps waiting.
MutantDeliverExit ==
  /\ ~alive
  /\ fromWorker = <<>>
  /\ ~failed /\ ~pumping /\ Sup!Subscribed
  /\ failed' = TRUE
  /\ UNCHANGED <<queue, inFlight, state, outcome, consecutiveReads, pumping, phase,
                 toWorker, worker, opens>>

\* worker.on('exit'): reported unless the endpoint is being closed.
DeliverExit ==
  /\ ~alive
  /\ fromWorker = <<>>
  /\ ~failed
  /\ Sup!HandleFailure
  /\ UNCHANGED <<worker, opens>>

-------------------------------------------------------------------------------
(* Steps of the caller's thread that involve no message from the worker. *)

CallerStep ==
  /\ \/ \E r \in Requests :
          \/ Sup!Refuse(r) \/ Sup!Admit(r)
          \/ Sup!CancelQueued(r) \/ Sup!CancelDispatched(r)
     \/ Sup!Loop
     \/ Sup!Close \/ Sup!Release
  /\ UNCHANGED <<worker, opens>>

\* Mutant: close() misses the exit of a worker that died before it was called.
MutantCloseResolves ==
  /\ ~alive /\ closing
  /\ Sup!EndpointClosed
  /\ fromWorker' = <<>>
  /\ UNCHANGED <<requestChain, running, reply, closing, alive, effect, ledger, opens>>

\* endpoint.close() waits for the worker's exit ...
CloseResolves ==
  /\ ~alive
  /\ Sup!EndpointClosed
  /\ fromWorker' = <<>>
  /\ UNCHANGED <<requestChain, running, reply, closing, alive, effect, ledger, opens>>

\* ... and terminates the thread when it takes too long.
Terminate ==
  /\ phase = "released"
  /\ Wrk!Die
  /\ UNCHANGED <<caller, opens>>

WorkerStep == Wrk!WorkerStep /\ UNCHANGED <<caller, opens>>

-------------------------------------------------------------------------------
(* Failures, and a new store on the same file. *)

WorkerCrash == Wrk!Die /\ UNCHANGED <<caller, opens>>

ProcessKilled ==
  /\ Sup!Kill
  /\ alive' = FALSE
  /\ requestChain' = <<>> /\ running' = NoRequest /\ reply' = <<>>
  /\ fromWorker' = <<>>
  /\ UNCHANGED <<closing, effect, ledger, opens>>

OpenAgain ==
  /\ opens < MaxOpens
  /\ opens' = opens + 1
  /\ Sup!Reopen
  /\ fromWorker' = <<>>
  /\ requestChain' = <<>> /\ running' = NoRequest /\ reply' = <<>>
  /\ closing' = FALSE
  /\ alive' = TRUE
  /\ UNCHANGED <<effect, ledger>>

\* Nothing is left to do once the last store is closed.
Finished == phase = "closed" /\ opens = MaxOpens /\ UNCHANGED vars

Next ==
  \/ CallerStep
  \/ WorkerStep
  \/ DeliverResponse \/ DiscardResponse \/ DeliverExit
  \/ CloseResolves \/ Terminate
  \/ WorkerCrash \/ ProcessKilled \/ OpenAgain
  \/ Finished

Spec == Init /\ [][Next]_vars

\* The event loop runs what is due, the worker's thread is scheduled, timers
\* of close() fire.  Nothing makes a caller call, or a process die.
Fairness ==
  /\ WF_vars(Sup!Loop /\ UNCHANGED <<worker, opens>>)
  /\ WF_vars(Sup!Release /\ UNCHANGED <<worker, opens>>)
  /\ WF_vars(WorkerStep)
  /\ WF_vars(DeliverResponse) /\ WF_vars(DiscardResponse) /\ WF_vars(DeliverExit)
  /\ WF_vars(CloseResolves) /\ WF_vars(Terminate)

FairSpec == Spec /\ Fairness

-------------------------------------------------------------------------------
(* The store implements its contract. *)

Stage(r) ==
  CASE state[r] = "created" -> "idle"
    [] state[r] \in {"queued", "dispatched"} -> "pending"
    [] OTHER -> CASE outcome[r] \in {"OK", "ATLAS_RESULT_TOO_LARGE"} -> "acknowledged"
                  [] outcome[r] \in {"ATLAS_INDETERMINATE_WRITE", "lost"} -> "unknown"
                  [] OTHER -> "refused"

Contract == INSTANCE StoreContract WITH
  Writes <- {r \in Requests : WorkClass[r] = "db-write"},
  Gradual <- Indexing,
  stage <- [r \in Requests |-> Stage(r)]

\* Every behaviour of the store, crashes and restarts included, is one the
\* contract allows: no refused write ever takes effect, no acknowledged write
\* is missing, no idempotency key takes effect twice.
ImplementsContract == Contract!Spec

\* Seen from the caller's thread alone, the store is a supervisor with some
\* endpoint: what is proved of Supervisor.tla holds of it.
ImplementsSupervisor == Sup!Spec

\* Every call the store accepted settles, however the worker and close() fare.
EventuallySettled ==
  \A r \in Requests : state[r] \in {"queued", "dispatched"} ~> state[r] \in {"settled", "created"}

\* The worker answers with no code but these, and keeps at most one answer back.
WorkerTypeOK == Wrk!WorkerTypeOK

\* close() resolves.
CloseTerminates == phase \in {"draining", "released"} ~> phase = "closed"
===============================================================================
