------------------------------ MODULE Supervisor ------------------------------
(***************************************************************************)
(* AtlasWorkerSupervisor (src/persistence/supervisor.ts): the object that  *)
(* lives on the caller's thread, admits requests, queues them per work     *)
(* class, hands them to the database worker through an endpoint, and       *)
(* settles the promise of each one exactly once.                           *)
(*                                                                         *)
(* The caller's thread is an event loop: a handler runs to completion.     *)
(* pump() is the one loop in it.  Each turn of the loop is a step here     *)
(* (postMessage makes every request visible to the worker's thread at      *)
(* once) and while "pumping" holds no other handler of this thread runs.   *)
(*                                                                         *)
(* The endpoint is left open in this module: a response may name any       *)
(* request with any verdict at any time, and the worker may fail at any    *)
(* time.  SqliteAtlasStore.tla composes the supervisor with the worker.    *)
(* endpoint.cancel() posts a message the worker ignores                    *)
(* (sqliteWorker.ts:handleMessage), so it leaves no trace in the state.    *)
(***************************************************************************)
EXTENDS Naturals, Sequences, FiniteSets, SequencesExt

CONSTANTS
  Requests,          \* request ids (requestIdFactory), one per execute() call
  Replies,           \* what a worker's response carries: "OK" or an error code
  WorkClass,         \* workClassFor(operation) of each request
  Defect,            \* the code execute() refuses the input with, or "none"
  Timed,             \* requests with a timeoutMs
  Abortable,         \* requests with an AbortSignal that may fire later
  Unsendable,        \* payloads postMessage cannot clone: send throws
  Oversize,          \* requests whose result is longer than maxResultBytes
  Recurring,         \* ids a caller uses again for a new request once settled
  MaxQueued, MaxInFlightReads,
  ReadBurst          \* the 4 of "consecutiveReads >= 4"

Classes == {"db-read", "db-write", "maintenance"}

\* Inputs execute() refuses before it looks at the queues.
InputDefects == {"ATLAS_CANCELLED", "ATLAS_INVALID_REQUEST", "ATLAS_PAYLOAD_TOO_LARGE"}

\* What a caller's promise settles with; "none" while it has not, "lost" when
\* the caller's process was killed first.
Outcomes == Replies \cup InputDefects \cup
  {"none", "ATLAS_CLOSED", "ATLAS_TIMEOUT", "ATLAS_WORKER_UNAVAILABLE", "ATLAS_BACKPRESSURE",
   "ATLAS_RESULT_TOO_LARGE", "ATLAS_INDETERMINATE_WRITE", "lost"}

ASSUME RequestAssumption ==
  /\ WorkClass \in [Requests -> Classes]
  /\ Replies \cap {"none", "lost"} = {}
  /\ Defect \in [Requests -> InputDefects \cup {"none"}]
  /\ {Timed, Abortable, Unsendable, Oversize, Recurring} \subseteq SUBSET Requests

ASSUME BoundAssumption ==
  /\ MaxQueued \in Nat
  /\ MaxInFlightReads \in Nat \ {0}
  /\ ReadBurst \in Nat \ {0}

VARIABLES
  queue,             \* readQueue, writeQueue and maintenanceQueue, by class
  inFlight,          \* keys of the inFlight map
  state,             \* PendingRequest.state, "created" before execute()
  outcome,           \* what the promise settled with
  consecutiveReads,  \* saturates at ReadBurst, the only value it is compared with
  pumping,           \* the pump() loop has not returned yet
  phase,             \* how far close() has got
  failed,            \* failure # null
  toWorker           \* messages posted to the worker and not received yet

vars == <<queue, inFlight, state, outcome, consecutiveReads, pumping, phase,
          failed, toWorker>>

Phases == {"open", "draining", "released", "closed"}
States == {"created", "queued", "dispatched", "settled"}
Message == [type : {"request"}, id : Requests, expired : BOOLEAN] \cup [type : {"close"}]

IsRead(r) == WorkClass[r] = "db-read"
IsWrite(r) == WorkClass[r] = "db-write"
Open == phase = "open"

\* The listeners are removed by closeInternal just before endpoint.close().
Subscribed == phase \in {"open", "draining"}

Queued == {r \in Requests : state[r] = "queued"}
QueuedCount == Len(queue["db-read"]) + Len(queue["db-write"]) + Len(queue["maintenance"])
EmptyQueues == [c \in Classes |-> <<>>]

-------------------------------------------------------------------------------
(* Which request pump() may dispatch next. *)

ReadsInFlight == {r \in inFlight : IsRead(r)}
ExclusiveInFlight == \E r \in inFlight : ~IsRead(r)
ExclusiveQueued == queue["db-write"] # <<>> \/ queue["maintenance"] # <<>>

\* canDispatch: would a request of class c run at once?
CanDispatch(c) ==
  IF c = "db-read"
  THEN ~ExclusiveInFlight /\ Cardinality(inFlight) < MaxInFlightReads
  ELSE inFlight = {}

\* The three tests of nextDispatchable.
BurstSpent == inFlight = {} /\ consecutiveReads >= ReadBurst /\ ExclusiveQueued

\* Mutant: a read does not wait for the write in flight.
MutantReadReady ==
  /\ Cardinality(ReadsInFlight) < MaxInFlightReads
  /\ queue["db-read"] # <<>>

ReadReady ==
  /\ ~ExclusiveInFlight
  /\ Cardinality(ReadsInFlight) < MaxInFlightReads
  /\ queue["db-read"] # <<>>

ExclusiveReady == inFlight = {} /\ ExclusiveQueued

\* The class whose turn it is among the two exclusive ones.
ExclusiveClass == IF queue["db-write"] # <<>> THEN "db-write" ELSE "maintenance"

-------------------------------------------------------------------------------
(* Settling.  A settled request keeps its outcome. *)

Settle(S, code) ==
  /\ state' = [r \in Requests |-> IF r \in S THEN "settled" ELSE state[r]]
  /\ outcome' = [r \in Requests |->
                   IF r \in S /\ state[r] # "settled" THEN code[r] ELSE outcome[r]]

Same(code) == [r \in Requests |-> code]
SettleOne(r, code) == Settle({r}, Same(code))

\* Mutant: the caller of an unanswered write is told that it did not happen.
MutantUnheard(r, code) == code

\* A dispatched write whose answer will not be heard is indeterminate.
Unheard(r, code) == IF IsWrite(r) THEN "ATLAS_INDETERMINATE_WRITE" ELSE code

\* Mutant: pump() is only called when nothing is in flight.
MutantPump == pumping' = (Open /\ inFlight = {})

\* The call of pump() that ends a handler: it returns at once when closed.
Pump == pumping' = Open

-------------------------------------------------------------------------------
Init ==
  /\ queue = EmptyQueues
  /\ inFlight = {}
  /\ state = [r \in Requests |-> "created"]
  /\ outcome = [r \in Requests |-> "none"]
  /\ consecutiveReads = 0
  /\ pumping = FALSE
  /\ phase = "open"
  /\ failed = FALSE
  /\ toWorker = <<>>

\* Mutant: the limit is checked one too late.
MutantRefusal(r) ==
  IF ~Open THEN "ATLAS_CLOSED"
  ELSE IF failed THEN "ATLAS_WORKER_UNAVAILABLE"
  ELSE IF Defect[r] # "none" THEN Defect[r]
  ELSE IF ~CanDispatch(WorkClass[r]) /\ QueuedCount > MaxQueued THEN "ATLAS_BACKPRESSURE"
  ELSE "none"

\* The code execute() rejects r with, "none" when it admits it.
Refusal(r) ==
  IF ~Open THEN "ATLAS_CLOSED"
  ELSE IF failed THEN "ATLAS_WORKER_UNAVAILABLE"
  ELSE IF Defect[r] # "none" THEN Defect[r]
  ELSE IF ~CanDispatch(WorkClass[r]) /\ QueuedCount >= MaxQueued THEN "ATLAS_BACKPRESSURE"
  ELSE "none"

Refuse(r) ==
  /\ ~pumping
  /\ state[r] = "created"
  /\ Refusal(r) # "none"
  /\ SettleOne(r, Refusal(r))
  /\ UNCHANGED <<queue, inFlight, consecutiveReads, pumping, phase, failed, toWorker>>

Admit(r) ==
  /\ ~pumping
  /\ state[r] = "created"
  /\ Refusal(r) = "none"
  /\ state' = [state EXCEPT ![r] = "queued"]
  /\ queue' = [queue EXCEPT ![WorkClass[r]] = Append(@, r)]
  /\ Pump
  /\ UNCHANGED <<inFlight, outcome, consecutiveReads, phase, failed, toWorker>>

-------------------------------------------------------------------------------
(* pump *)

\* inFlight.set, then endpoint.send; when send throws, the entry is deleted
\* again and the request settled.  "expired" is remainingTimeMs = 0.
Send(r) ==
  IF r \in Unsendable
  THEN /\ SettleOne(r, "ATLAS_WORKER_UNAVAILABLE")
       /\ UNCHANGED <<inFlight, toWorker>>
  ELSE /\ state' = [state EXCEPT ![r] = "dispatched"]
       /\ inFlight' = inFlight \cup {r}
       /\ \E expired \in BOOLEAN :
            /\ expired => r \in Timed
            /\ toWorker' = Append(toWorker, [type |-> "request", id |-> r, expired |-> expired])
       /\ UNCHANGED outcome

Dispatch(c) ==
  /\ queue' = [queue EXCEPT ![c] = Tail(@)]
  /\ Send(Head(queue[c]))
  /\ UNCHANGED <<pumping, phase, failed>>

DispatchRead ==
  /\ pumping
  /\ ReadReady
  /\ ~BurstSpent
  /\ consecutiveReads' = IF consecutiveReads < ReadBurst THEN consecutiveReads + 1
                                                         ELSE ReadBurst
  /\ Dispatch("db-read")

DispatchExclusive ==
  /\ pumping
  /\ ExclusiveReady
  /\ BurstSpent \/ ~ReadReady
  /\ consecutiveReads' = 0
  /\ Dispatch(ExclusiveClass)

PumpDone ==
  /\ pumping
  /\ ~ReadReady
  /\ ~ExclusiveReady
  /\ pumping' = FALSE
  /\ UNCHANGED <<queue, inFlight, state, outcome, consecutiveReads, phase, failed, toWorker>>

-------------------------------------------------------------------------------
(* cancelRequest: the timer or the abort listener of one request fires. *)

\* Mutant: a code that is not in the list of error codes.
MutantCancelCodes(r) == IF r \in Timed THEN {"ATLAS_DEADLINE"} ELSE {}

\* The code a request that was never sent, or a read, is cancelled with.
CancelCodes(r) == (IF r \in Timed THEN {"ATLAS_TIMEOUT"} ELSE {})
             \cup (IF r \in Abortable THEN {"ATLAS_CANCELLED"} ELSE {})

\* Mutant: the head of the queue is removed instead of r.
MutantShift(q, r) == Tail(q)

\* Mutant: the request is settled and stays in its queue.
MutantKeep(q, r) == q

\* removeQueued: queue q without r.
Without(q, r) == RemoveAt(q, CHOOSE i \in 1..Len(q) : q[i] = r)

Holds(q, r) == \E i \in 1..Len(q) : q[i] = r

CancelQueued(r) ==
  /\ ~pumping
  /\ Holds(queue[WorkClass[r]], r)
  /\ state[r] # "settled"
  /\ \E code \in CancelCodes(r) : SettleOne(r, code)
  /\ queue' = [queue EXCEPT ![WorkClass[r]] = Without(@, r)]
  /\ Pump
  /\ UNCHANGED <<inFlight, consecutiveReads, phase, failed, toWorker>>

CancelDispatched(r) ==
  /\ ~pumping
  /\ r \in inFlight
  /\ state[r] = "dispatched"
  /\ \E code \in CancelCodes(r) : SettleOne(r, Unheard(r, code))
  /\ inFlight' = inFlight \ {r}
  /\ Pump
  /\ UNCHANGED <<queue, consecutiveReads, phase, failed, toWorker>>

-------------------------------------------------------------------------------
(* handleResponse and handleFailure *)

HandleResponse(r, reply) ==
  /\ ~pumping
  /\ Subscribed
  /\ r \in inFlight
  /\ inFlight' = inFlight \ {r}
  /\ SettleOne(r, IF reply = "OK" /\ r \in Oversize THEN "ATLAS_RESULT_TOO_LARGE" ELSE reply)
  /\ Pump
  /\ UNCHANGED <<queue, consecutiveReads, phase, failed, toWorker>>

\* Mutant: the queues are not drained.
MutantHandleFailure ==
  /\ ~pumping
  /\ Subscribed
  /\ failed' = TRUE
  /\ Settle(inFlight, [r \in Requests |-> Unheard(r, "ATLAS_WORKER_UNAVAILABLE")])
  /\ inFlight' = {}
  /\ UNCHANGED <<queue, consecutiveReads, pumping, phase, toWorker>>

HandleFailure ==
  /\ ~pumping
  /\ Subscribed
  /\ failed' = TRUE
  /\ Settle(inFlight \cup Queued,
            [r \in Requests |-> IF r \in inFlight THEN Unheard(r, "ATLAS_WORKER_UNAVAILABLE")
                                                  ELSE "ATLAS_WORKER_UNAVAILABLE"])
  /\ inFlight' = {}
  /\ queue' = EmptyQueues
  /\ UNCHANGED <<consecutiveReads, pumping, phase, toWorker>>

-------------------------------------------------------------------------------
(* close and closeInternal *)

\* endpoint.close() posts the close message behind everything sent so far.
PostClose == toWorker' = Append(toWorker, [type |-> "close"])

\* Queued work is settled at once.  With nothing in flight closeInternal goes
\* on to endpoint.close() without waiting.
Close ==
  /\ ~pumping
  /\ Open
  /\ Settle(Queued, Same("ATLAS_CLOSED"))
  /\ queue' = EmptyQueues
  /\ \/ /\ inFlight = {}
        /\ phase' = "released"
        /\ PostClose
     \/ /\ inFlight # {}
        /\ phase' = "draining"
        /\ UNCHANGED toWorker
  /\ UNCHANGED <<inFlight, consecutiveReads, pumping, failed>>

\* Mutant: only the writes are settled when the grace period is over.
MutantRelease ==
  /\ ~pumping
  /\ phase = "draining"
  /\ Settle({r \in inFlight : IsWrite(r)}, [r \in Requests |-> Unheard(r, "ATLAS_CLOSED")])
  /\ phase' = "released"
  /\ PostClose
  /\ UNCHANGED <<queue, inFlight, consecutiveReads, pumping, failed>>

\* The poll finds nothing in flight, or the grace period is over: what is still
\* in flight is settled (and stays in the map), the listeners are removed.
Release ==
  /\ ~pumping
  /\ phase = "draining"
  /\ Settle(inFlight, [r \in Requests |-> Unheard(r, "ATLAS_CLOSED")])
  /\ phase' = "released"
  /\ PostClose
  /\ UNCHANGED <<queue, inFlight, consecutiveReads, pumping, failed>>

\* endpoint.close() resolves: the worker has exited or was terminated.
EndpointClosed ==
  /\ phase = "released"
  /\ phase' = "closed"
  /\ toWorker' = <<>>
  /\ UNCHANGED <<queue, inFlight, state, outcome, consecutiveReads, pumping, failed>>

-------------------------------------------------------------------------------
(* The environment: the worker takes messages; callers come back. *)

EndpointReceive ==
  /\ toWorker # <<>>
  /\ toWorker' = Tail(toWorker)
  /\ UNCHANGED <<queue, inFlight, state, outcome, consecutiveReads, pumping, phase, failed>>

\* A caller issues a new request.  It gets an id of its own in the code; here
\* the id of a settled request no message mentions any more.
Renew(r) ==
  /\ ~pumping
  /\ r \in Recurring
  /\ state[r] = "settled"
  /\ r \notin inFlight
  /\ \A i \in 1..Len(toWorker) : toWorker[i].type = "request" => toWorker[i].id # r
  /\ state' = [state EXCEPT ![r] = "created"]
  /\ outcome' = [outcome EXCEPT ![r] = "none"]
  /\ UNCHANGED <<queue, inFlight, consecutiveReads, pumping, phase, failed, toWorker>>

\* The caller's process is killed: nobody is left to hear an outcome.
Kill ==
  /\ phase # "closed"
  /\ Settle({r \in Requests : state[r] \in {"queued", "dispatched"}}, Same("lost"))
  /\ queue' = EmptyQueues
  /\ inFlight' = {}
  /\ pumping' = FALSE
  /\ phase' = "closed"
  /\ toWorker' = <<>>
  /\ UNCHANGED <<consecutiveReads, failed>>

\* SqliteAtlasStore.open: a new supervisor for a new worker.
Reopen ==
  /\ phase = "closed"
  /\ queue' = EmptyQueues
  /\ inFlight' = {}
  /\ consecutiveReads' = 0
  /\ pumping' = FALSE
  /\ phase' = "open"
  /\ failed' = FALSE
  /\ toWorker' = <<>>
  /\ UNCHANGED <<state, outcome>>

Loop == DispatchRead \/ DispatchExclusive \/ PumpDone

Next ==
  \/ \E r \in Requests :
       \/ Refuse(r) \/ Admit(r)
       \/ CancelQueued(r) \/ CancelDispatched(r)
       \/ \E reply \in Replies : HandleResponse(r, reply)
       \/ Renew(r)
  \/ Loop
  \/ HandleFailure
  \/ Close \/ Release \/ EndpointClosed
  \/ EndpointReceive
  \/ Kill \/ Reopen

Spec == Init /\ [][Next]_vars

\* The event loop runs what is due, and the endpoint takes what it is sent and
\* answers it.  Nothing makes a caller call, abort or close.
Fairness ==
  /\ WF_vars(Loop) /\ WF_vars(Release)
  /\ WF_vars(EndpointReceive)
  /\ \A r \in Requests : WF_vars(\E reply \in Replies : HandleResponse(r, reply))

FairSpec == Spec /\ Fairness

-------------------------------------------------------------------------------
\* Every promise settles with one of the codes of AtlasPersistenceErrorCode
\* (types.ts), or an acknowledgement.
TypeOK ==
  /\ queue \in [Classes -> Seq(Requests)]
  /\ inFlight \subseteq Requests
  /\ state \in [Requests -> States]
  /\ outcome \in [Requests -> Outcomes]
  /\ consecutiveReads \in 0..ReadBurst
  /\ pumping \in BOOLEAN
  /\ phase \in Phases
  /\ failed \in BOOLEAN
  /\ toWorker \in Seq(Message)

NoRepeats(q) == \A i, j \in 1..Len(q) : q[i] = q[j] => i = j

QueuesExact ==
  /\ \A c \in Classes : NoRepeats(queue[c])
  /\ \A c \in Classes, r \in Requests :
        Holds(queue[c], r) <=> state[r] = "queued" /\ WorkClass[r] = c

InFlightExact ==
  /\ \A r \in Requests : state[r] = "dispatched" => r \in inFlight
  /\ Subscribed => \A r \in inFlight : state[r] = "dispatched"

\* No accepted request is forgotten and none is kept twice: a queue holds
\* exactly the requests of its class that are queued, each once, and the
\* in-flight map exactly the dispatched ones as long as answers are listened
\* to.  A request dropped by one of the paths that move or drain requests
\* would leave its caller waiting for ever.
HeldOnce == QueuesExact /\ InFlightExact

\* "supervisor keeps writes exclusive while allowing bounded concurrent reads"
\* (persistenceSupervisor.test.ts): a write or a backup is alone in flight,
\* and reads never exceed their limit.
WritesExclusive ==
  /\ \A r \in inFlight : ~IsRead(r) => inFlight = {r}
  /\ Cardinality(inFlight) <= MaxInFlightReads

\* The queues never hold more than maxQueued once a handler has returned:
\* a request admitted past the limit because it could run at once did run.
AdmissionBounded == ~pumping => QueuedCount <= MaxQueued

\* No handler returns while a queued request could be dispatched, so work
\* never waits for a call that nobody will make.
NothingIdle == Open /\ ~pumping => ~ReadReady /\ ~ExclusiveReady

\* "Shutdown does not resolve until every accepted request has reached one
\* terminal state" (ARCHITECTURE.md, Shutdown).
ShutdownSettlesAll ==
  ~Subscribed => \A r \in Requests : state[r] \notin {"queued", "dispatched"}

\* A promise settled once keeps its outcome, whatever answers, timers, aborts
\* and failures follow.
SettledOnce ==
  [][\A r \in Requests :
       state[r] = "settled" => \/ state'[r] = "settled" /\ outcome'[r] = outcome[r]
                               \/ r \in Recurring /\ state'[r] = "created"]_vars

\* ARCHITECTURE.md, Admission, fairness, and backpressure: "queries cannot
\* prevent indexing from making progress forever".  A queued write is
\* eventually dispatched or settled, even when callers never stop reading.
\* Not so: the burst counter is looked at only when nothing is in flight.
WritesProgress ==
  \A r \in Requests : WorkClass[r] = "db-write" =>
    (state[r] = "queued" ~> state[r] # "queued")
===============================================================================
