----------------------------- MODULE SqliteWorker -----------------------------
(***************************************************************************)
(* The database worker (src/persistence/sqliteWorker.ts): a thread that    *)
(* takes messages in order, runs one request at a time, makes a write      *)
(* durable in one SQLite transaction together with its idempotency row,    *)
(* and posts one response per request.                                     *)
(*                                                                         *)
(* "effect" and "ledger" are the database file: they survive a crash.      *)
(* Everything else is the memory of the worker's thread and is lost.       *)
(***************************************************************************)
EXTENDS Naturals, Sequences, FiniteSets

CONSTANTS
  Requests, WorkClass,
  Indexing,          \* requests for index-repository: asynchronous, no transaction
  Retrieving,        \* requests for retrieve
  MayThrow,          \* requests whose operation may throw
  Key,               \* workspace and idempotencyKey of each request, or NoKey
  Intent,            \* operation and canonical payload of each request
  NoKey, NoRequest

VARIABLES
  toWorker,          \* parent port, inbound
  fromWorker,        \* parent port, outbound
  requestChain,      \* requests received whose turn has not come
  running,           \* the asynchronous operation being awaited, or NoRequest
  reply,             \* an outcome computed and not posted yet: a sequence of 0 or 1
  closing,
  alive,             \* the thread runs: FALSE after shutdown, a crash or terminate
  effect,            \* what each write has left in the database
  ledger             \* atlas_operation_idempotency: the request that wrote a key's row

volatile == <<requestChain, running, reply, closing, alive>>
durable == <<effect, ledger>>

Keys == {Key[r] : r \in Requests} \ {NoKey}
Effects == {"none", "partial", "done"}
Awaited == Indexing \cup Retrieving
Keyed(r) == Key[r] # NoKey
Writes(r) == WorkClass[r] = "db-write"

WorkerInit ==
  /\ fromWorker = <<>>
  /\ requestChain = <<>>
  /\ running = NoRequest
  /\ reply = <<>>
  /\ closing = FALSE
  /\ alive = TRUE

DatabaseInit ==
  /\ effect = [r \in Requests |-> "none"]
  /\ ledger = [k \in Keys |-> NoRequest]

-------------------------------------------------------------------------------
(* handleMessage.  A request whose turn has come runs before the next message *)
(* is looked at, unless an asynchronous operation is being awaited.           *)

Listening ==
  /\ alive
  /\ reply = <<>>
  /\ requestChain = <<>> \/ running # NoRequest

ReceiveRequest ==
  /\ Listening
  /\ toWorker # <<>>
  /\ Head(toWorker).type = "request"
  /\ requestChain' = Append(requestChain, Head(toWorker))
  /\ toWorker' = Tail(toWorker)
  /\ UNCHANGED <<fromWorker, running, reply, closing, alive, durable>>

ReceiveClose ==
  /\ Listening
  /\ toWorker # <<>>
  /\ Head(toWorker).type = "close"
  /\ closing' = TRUE
  /\ toWorker' = Tail(toWorker)
  /\ UNCHANGED <<fromWorker, requestChain, running, reply, alive, durable>>

-------------------------------------------------------------------------------
(* handleRequest *)

\* The next request of the chain runs: the previous one has been answered.
Turn ==
  /\ alive
  /\ running = NoRequest
  /\ reply = <<>>
  /\ requestChain # <<>>
  /\ requestChain' = Tail(requestChain)

Answer(r, code) == reply' = <<[id |-> r, reply |-> code]>>

\* Mutant: the row of the key is not looked up before the operation runs.
MutantShortAnswer(m) ==
  IF closing THEN "ATLAS_CLOSED"
  ELSE IF m.expired THEN "ATLAS_TIMEOUT"
  ELSE IF m.id \in Awaited /\ Keyed(m.id) THEN "ATLAS_INVALID_REQUEST"
  ELSE "none"

\* What a request is answered without running its operation, or "none".
ShortAnswer(m) ==
  LET r == m.id
      row == ledger[Key[r]]
  IN IF closing THEN "ATLAS_CLOSED"
     ELSE IF m.expired THEN "ATLAS_TIMEOUT"
     ELSE IF r \in Awaited
          THEN IF Keyed(r) THEN "ATLAS_INVALID_REQUEST" ELSE "none"
     ELSE IF ~Writes(r) \/ ~Keyed(r) THEN "none"
     ELSE IF row = NoRequest THEN "none"
     ELSE IF Intent[row] = Intent[r] THEN "OK" ELSE "ATLAS_CONFLICT"

\* A read, a backup, or one transaction that holds the write and its row of
\* the idempotency table.
ExecuteOperation(m) ==
  /\ m.id \notin Awaited
  /\ Answer(m.id, "OK")
  /\ IF Writes(m.id)
     THEN /\ effect' = [effect EXCEPT ![m.id] = "done"]
          /\ ledger' = IF Keyed(m.id) THEN [ledger EXCEPT ![Key[m.id]] = m.id] ELSE ledger
     ELSE UNCHANGED durable
  /\ UNCHANGED running

\* The operation throws; a transaction rolls back, its row with it.
RollBack(m) ==
  /\ m.id \in MayThrow \ Awaited
  /\ \E code \in {"ATLAS_CONFLICT", "ATLAS_INVALID_REQUEST"} : Answer(m.id, code)
  /\ UNCHANGED <<running, durable>>

\* index-repository and retrieve are awaited: messages are received meanwhile,
\* the requests behind are not run.  Indexing writes in many transactions.
BeginAwaited(m) ==
  /\ m.id \in Awaited
  /\ running' = m.id
  /\ effect' = [effect EXCEPT ![m.id] = IF Writes(m.id) /\ @ = "none" THEN "partial" ELSE @]
  /\ UNCHANGED <<reply, ledger>>

HandleRequest ==
  /\ Turn
  /\ LET m == Head(requestChain)
     IN IF ShortAnswer(m) # "none"
        THEN Answer(m.id, ShortAnswer(m)) /\ UNCHANGED <<running, durable>>
        ELSE ExecuteOperation(m) \/ RollBack(m) \/ BeginAwaited(m)
  /\ UNCHANGED <<toWorker, fromWorker, closing, alive>>

FinishAwaited ==
  /\ alive
  /\ running # NoRequest
  /\ reply = <<>>
  /\ \/ /\ effect' = [effect EXCEPT ![running] = IF Writes(running) THEN "done" ELSE @]
        /\ Answer(running, "OK")
     \/ /\ running \in MayThrow
        /\ Answer(running, "ATLAS_INVALID_REQUEST")
        /\ UNCHANGED effect
  /\ running' = NoRequest
  /\ UNCHANGED <<toWorker, fromWorker, requestChain, closing, alive, ledger>>

\* respond or reject
PostReply ==
  /\ alive
  /\ reply # <<>>
  /\ fromWorker' = Append(fromWorker, reply[1])
  /\ reply' = <<>>
  /\ UNCHANGED <<toWorker, requestChain, running, closing, alive, durable>>

\* requestChain.finally(shutdown): the database is closed and the lock released.
Shutdown ==
  /\ alive /\ closing
  /\ requestChain = <<>>
  /\ running = NoRequest
  /\ reply = <<>>
  /\ alive' = FALSE
  /\ UNCHANGED <<toWorker, fromWorker, requestChain, running, reply, closing, durable>>

-------------------------------------------------------------------------------
(* The thread dies (an uncaught error, worker.terminate(), a signal to the    *)
(* process).  A transaction is in the file or it is not; responses posted and *)
(* not delivered yet may be lost.                                             *)
Die ==
  /\ alive
  /\ alive' = FALSE
  /\ requestChain' = <<>>
  /\ running' = NoRequest
  /\ reply' = <<>>
  /\ fromWorker' \in {fromWorker, <<>>}
  /\ UNCHANGED <<toWorker, closing, durable>>

WorkerStep ==
  \/ ReceiveRequest \/ ReceiveClose
  \/ HandleRequest \/ FinishAwaited
  \/ PostReply
  \/ Shutdown

-------------------------------------------------------------------------------
\* The answers a worker gives: OK, or a code normalizeOperationError produces.
WorkerTypeOK ==
  /\ fromWorker \in Seq([id : Requests, reply : {"OK", "ATLAS_CLOSED", "ATLAS_CONFLICT",
                                                 "ATLAS_INVALID_REQUEST", "ATLAS_TIMEOUT"}])
  /\ running \in Awaited \cup {NoRequest}
  /\ Len(reply) <= 1
  /\ closing \in BOOLEAN
  /\ alive \in BOOLEAN
  /\ effect \in [Requests -> Effects]
  /\ ledger \in [Keys -> Requests \cup {NoRequest}]
===============================================================================
