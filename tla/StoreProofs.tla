------------------------------ MODULE StoreProofs ------------------------------
(***************************************************************************)
(* SqliteAtlasStore implements the supervisor seen from the caller's       *)
(* thread, and the contract of an AtlasStore.                              *)
(***************************************************************************)
EXTENDS SqliteAtlasStore, SequenceTheorems, TLAPS

SP == INSTANCE SupervisorProofs WITH Recurring <- {}

Order == [type : {"request"}, id : Requests, expired : BOOLEAN]
Reply == [id : Requests, reply : Replies]
IsWrite(r) == WorkClass[r] = "db-write"

-------------------------------------------------------------------------------
(* Where a request is on its way through the worker. *)

\* Sequence q holds a request message for r,
Carries(q, r) == \E i \in 1..Len(q) : q[i].type = "request" /\ q[i].id = r

\* and never two for the same request.
Once(q) ==
  \A i, j \in 1..Len(q) :
    q[i].type = "request" /\ q[j].type = "request" /\ q[i].id = q[j].id => i = j

\* The worker has not begun with r.
Ahead(r) == Carries(toWorker, r) \/ Carries(requestChain, r)

\* Answers computed and not yet looked at by the caller's thread.
Entry(q, a) == \E i \in 1..Len(q) : q[i] = a
Answer(a) == Entry(reply, a) \/ Entry(fromWorker, a)

\* The caller of r still waits, or was told that the outcome is unknown.
Undecided(r) ==
  \/ state[r] = "dispatched"
  \/ state[r] = "settled" /\ outcome[r] \in {"ATLAS_INDETERMINATE_WRITE", "lost"}

-------------------------------------------------------------------------------
(* The invariant of the composition. *)

WireTypeOK ==
  /\ requestChain \in Seq(Order)
  /\ reply \in Seq(Reply)
  /\ fromWorker \in Seq(Reply)
  /\ running \in Indexing \cup Retrieving \cup {NoRequest}
  /\ effect \in [Requests -> Wrk!Effects]
  /\ ledger \in [Wrk!Keys -> Requests \cup {NoRequest}]

\* A request that was never handed over has left no trace anywhere.
Untouched ==
  \A r \in Requests : state[r] \in {"created", "queued"} =>
    /\ ~Ahead(r) /\ running # r
    /\ \A a \in Reply : Answer(a) => a.id # r
    /\ effect[r] = "none"

\* One that was handed over is in one place only.
InOnePlace ==
  /\ Once(toWorker) /\ Once(requestChain)
  /\ \A r \in Requests :
       /\ Carries(toWorker, r) => ~Carries(requestChain, r)
       /\ Ahead(r) => running # r
  /\ \A a \in Reply : Answer(a) => ~Ahead(a.id) /\ running # a.id

\* A write the worker may still run is undecided and has done nothing,
AheadClean ==
  \A r \in Requests : Ahead(r) /\ IsWrite(r) => Undecided(r) /\ effect[r] = "none"

\* an indexing run under way has no key,
RunningClean ==
  running \in Indexing =>
    Undecided(running) /\ effect[running] = "partial" /\ Key[running] = NoKey

\* an answer tells the truth about the database,
Acknowledges(r) ==
  \E s \in Requests : effect[s] = "done" /\ (s = r \/ Contract!Replays(r, s))

AnswersTrue ==
  \A a \in Reply : Answer(a) /\ IsWrite(a.id) =>
    /\ a.reply = "OK" => Acknowledges(a.id)
    /\ a.reply # "OK" /\ a.id \notin Indexing => effect[a.id] = "none"

\* and the idempotency table is exact.
LedgerExact ==
  /\ \A k \in Wrk!Keys : ledger[k] # NoRequest =>
        Key[ledger[k]] = k /\ effect[ledger[k]] = "done"
  /\ \A r \in Requests : Key[r] # NoKey /\ effect[r] = "done" => ledger[Key[r]] # NoRequest

Trace == /\ Untouched /\ InOnePlace /\ AheadClean /\ RunningClean
         /\ AnswersTrue /\ LedgerExact

Inv == SP!HeldInv /\ WireTypeOK /\ Trace

-------------------------------------------------------------------------------
(* Sequences of messages *)

\* A message at the end.
LEMMA CarriesAppend ==
  ASSUME NEW S, NEW q \in Seq(S), NEW m \in S
  PROVE  /\ Append(q, m) \in Seq(S)
         /\ \A r : Carries(Append(q, m), r) <=>
                     Carries(q, r) \/ (m.type = "request" /\ m.id = r)
         /\ Once(q) /\ (m.type = "request" => ~Carries(q, m.id)) => Once(Append(q, m))
<1> DEFINE a == Append(q, m)
<1>1. /\ a \in Seq(S) /\ Len(q) \in Nat /\ Len(a) = Len(q) + 1
      /\ a[Len(q) + 1] = m
      /\ \A i \in 1..Len(q) : a[i] = q[i]
  BY AppendProperties, LenProperties
<1> HIDE DEF a
<1>2. \A i \in 1..Len(a) : i \in 1..Len(q) \/ i = Len(q) + 1
  BY <1>1
<1>3. \A i \in 1..Len(q) : i \in 1..Len(a)
  BY <1>1
<1>4. Len(q) + 1 \in 1..Len(a)
  BY <1>1
<1>5. \A r : Carries(a, r) <=> Carries(q, r) \/ (m.type = "request" /\ m.id = r)
  <2> SUFFICES ASSUME NEW r
               PROVE  Carries(a, r) <=> Carries(q, r) \/ (m.type = "request" /\ m.id = r)
    OBVIOUS
  <2>1. ASSUME Carries(a, r) PROVE Carries(q, r) \/ (m.type = "request" /\ m.id = r)
    BY <2>1, <1>1, <1>2 DEF Carries
  <2>2. ASSUME Carries(q, r) PROVE Carries(a, r)
    BY <2>2, <1>1, <1>3 DEF Carries
  <2>3. ASSUME m.type = "request", m.id = r PROVE Carries(a, r)
    BY <2>3, <1>1, <1>4 DEF Carries
  <2> QED BY <2>1, <2>2, <2>3
<1>6. ASSUME Once(q), m.type = "request" => ~Carries(q, m.id) PROVE Once(a)
  BY <1>1, <1>2, <1>6 DEF Once, Carries
<1> QED BY <1>1, <1>5, <1>6 DEF a

\* The first message taken away.
LEMMA CarriesTail ==
  ASSUME NEW S, NEW q \in Seq(S), q # <<>>
  PROVE  /\ Head(q) \in S /\ Tail(q) \in Seq(S)
         /\ \A r : Carries(Tail(q), r) => Carries(q, r)
         /\ Head(q).type = "request" => Carries(q, Head(q).id)
         /\ Once(q) => Once(Tail(q))
         /\ Once(q) /\ Head(q).type = "request" => ~Carries(Tail(q), Head(q).id)
<1> DEFINE t == Tail(q)
<1>1. /\ Head(q) \in S /\ Head(q) = q[1] /\ t \in Seq(S)
      /\ Len(q) \in Nat /\ Len(q) >= 1 /\ Len(t) = Len(q) - 1
      /\ \A i \in 1..Len(t) : t[i] = q[i + 1]
  BY HeadTailProperties, LenProperties, EmptySeq
<1> HIDE DEF t
<1>2. \A i \in 1..Len(t) : i + 1 \in 1..Len(q) /\ i + 1 # 1
  BY <1>1
<1>3. 1 \in 1..Len(q)
  BY <1>1
<1>4. \A r : Carries(t, r) => Carries(q, r)
  BY <1>1, <1>2 DEF Carries
<1>5. Head(q).type = "request" => Carries(q, Head(q).id)
  BY <1>1, <1>3 DEF Carries
<1>6. ASSUME Once(q) PROVE Once(t)
  <2> SUFFICES ASSUME NEW i \in 1..Len(t), NEW j \in 1..Len(t),
                      t[i].type = "request", t[j].type = "request", t[i].id = t[j].id
               PROVE  i = j
    BY DEF Once
  <2>1. i + 1 = j + 1
    BY <1>1, <1>2, <1>6 DEF Once
  <2> QED BY <2>1
<1>7. ASSUME Once(q), Head(q).type = "request" PROVE ~Carries(t, Head(q).id)
  BY <1>1, <1>2, <1>3, <1>7 DEF Once, Carries
<1> QED BY <1>1, <1>4, <1>5, <1>6, <1>7 DEF t

\* The same for the answers.
LEMMA EntryAppend ==
  ASSUME NEW S, NEW q \in Seq(S), NEW m \in S
  PROVE  /\ Append(q, m) \in Seq(S)
         /\ \A a : Entry(Append(q, m), a) => Entry(q, a) \/ a = m
<1>1. /\ Append(q, m) \in Seq(S) /\ Len(q) \in Nat /\ Len(Append(q, m)) = Len(q) + 1
      /\ Append(q, m)[Len(q) + 1] = m
      /\ \A i \in 1..Len(q) : Append(q, m)[i] = q[i]
  BY AppendProperties, LenProperties
<1>2. \A i \in 1..Len(Append(q, m)) : i \in 1..Len(q) \/ i = Len(q) + 1
  BY <1>1
<1> QED BY <1>1, <1>2 DEF Entry

\* The first answer taken away.
LEMMA EntryTail ==
  ASSUME NEW S, NEW q \in Seq(S), q # <<>>
  PROVE  /\ Head(q) \in S /\ Tail(q) \in Seq(S)
         /\ Entry(q, Head(q))
         /\ \A a : Entry(Tail(q), a) => Entry(q, a)
<1>1. /\ Head(q) \in S /\ Head(q) = q[1] /\ Tail(q) \in Seq(S)
      /\ Len(q) \in Nat /\ Len(q) >= 1 /\ Len(Tail(q)) = Len(q) - 1
      /\ \A i \in 1..Len(Tail(q)) : Tail(q)[i] = q[i + 1]
  BY HeadTailProperties, LenProperties, EmptySeq
<1>2. \A i \in 1..Len(Tail(q)) : i + 1 \in 1..Len(q)
  BY <1>1
<1>3. 1 \in 1..Len(q)
  BY <1>1
<1> QED BY <1>1, <1>2, <1>3 DEF Entry

\* One answer, and none.
LEMMA OneEntry ==
  ASSUME NEW S, NEW m \in S
  PROVE  <<m>> \in Seq(S) /\ \A a : Entry(<<m>>, a) => a = m
BY DEF Entry

\* Nothing in an empty sequence.
LEMMA NoEntry ==
  /\ \A S : <<>> \in Seq(S)
  /\ \A a : ~Entry(<<>>, a)
  /\ \A r : ~Carries(<<>>, r)
  /\ Once(<<>>)
BY EmptySeq DEF Entry, Carries, Once

-------------------------------------------------------------------------------
(* The store is a supervisor *)

\* What is assumed of a supervisor holds of the store's.
LEMMA SupervisorAssumed == SP!RequestAssumption /\ SP!BoundAssumption
BY SupervisorAssumption
DEF SP!RequestAssumption, SP!BoundAssumption, Replies, SP!Classes, Sup!Classes,
    SP!InputDefects, Sup!InputDefects

\* SupervisorProofs.tla speaks of the same steps.
LEMMA SameSteps == [Sup!Next]_(Sup!vars) => [SP!Next]_(SP!vars)
<1>0. \A S : Sup!Cardinality(S) = SP!Cardinality(S)
  BY DEF Sup!Cardinality, SP!Cardinality
<1>1. /\ Sup!ReadReady <=> SP!ReadReady
      /\ Sup!ExclusiveReady <=> SP!ExclusiveReady
      /\ Sup!BurstSpent <=> SP!BurstSpent
      /\ Sup!ExclusiveClass = SP!ExclusiveClass
  BY <1>0 DEF Sup!ReadReady, SP!ReadReady, Sup!ExclusiveReady, SP!ExclusiveReady,
     Sup!BurstSpent, SP!BurstSpent, Sup!ExclusiveClass, SP!ExclusiveClass,
     Sup!ExclusiveInFlight, SP!ExclusiveInFlight, Sup!ExclusiveQueued, SP!ExclusiveQueued,
     Sup!ReadsInFlight, SP!ReadsInFlight, Sup!IsRead, SP!IsRead
<1>2. \A r \in Requests : Sup!Refusal(r) = SP!Refusal(r)
  BY <1>0 DEF Sup!Refusal, SP!Refusal, Sup!CanDispatch, SP!CanDispatch, Sup!QueuedCount,
     SP!QueuedCount, Sup!ExclusiveInFlight, SP!ExclusiveInFlight, Sup!IsRead, SP!IsRead,
     Sup!Open, SP!Open
<1>3. \A S, code : Sup!Settle(S, code) <=> SP!Settle(S, code)
  BY DEF Sup!Settle, SP!Settle
<1>4. \A r, code : Sup!SettleOne(r, code) <=> SP!SettleOne(r, code)
  BY <1>3 DEF Sup!SettleOne, SP!SettleOne, Sup!Same, SP!Same
<1>5. \A c : Sup!Dispatch(c) <=> SP!Dispatch(c)
  BY <1>4 DEF Sup!Dispatch, SP!Dispatch, Sup!Send, SP!Send
<1>6. \A r \in Requests : Sup!Refuse(r) => SP!Refuse(r)
  BY <1>2, <1>4 DEF Sup!Refuse, SP!Refuse
<1>7. \A r \in Requests : Sup!Admit(r) => SP!Admit(r)
  BY <1>2 DEF Sup!Admit, SP!Admit, Sup!Pump, SP!Pump, Sup!Open, SP!Open
<1>8. \A r \in Requests : Sup!CancelQueued(r) => SP!CancelQueued(r)
  BY <1>4 DEF Sup!CancelQueued, SP!CancelQueued, Sup!Holds, SP!Holds, Sup!Without,
     SP!Without, Sup!RemoveAt, SP!RemoveAt, Sup!CancelCodes, SP!CancelCodes, Sup!Pump,
     SP!Pump, Sup!Open, SP!Open
<1>9. \A r \in Requests : Sup!CancelDispatched(r) => SP!CancelDispatched(r)
  BY <1>4 DEF Sup!CancelDispatched, SP!CancelDispatched, Sup!Unheard, SP!Unheard,
     Sup!IsWrite, SP!IsWrite, Sup!CancelCodes, SP!CancelCodes, Sup!Pump, SP!Pump, Sup!Open,
     SP!Open
<1>10. \A r \in Requests : Sup!Renew(r) => SP!Renew(r)
  BY DEF Sup!Renew, SP!Renew
<1>11. \A r \in Requests, code \in Replies :
        Sup!HandleResponse(r, code) => SP!HandleResponse(r, code)
  BY <1>4 DEF Sup!HandleResponse, SP!HandleResponse, Sup!Subscribed, SP!Subscribed,
     Sup!Pump, SP!Pump, Sup!Open, SP!Open
<1>12. Sup!DispatchRead => SP!DispatchRead
  BY <1>1, <1>5 DEF Sup!DispatchRead, SP!DispatchRead
<1>13. Sup!DispatchExclusive => SP!DispatchExclusive
  BY <1>1, <1>5 DEF Sup!DispatchExclusive, SP!DispatchExclusive
<1>14. Sup!PumpDone => SP!PumpDone
  BY <1>1 DEF Sup!PumpDone, SP!PumpDone
<1>15. Sup!HandleFailure => SP!HandleFailure
  BY <1>3 DEF Sup!HandleFailure, SP!HandleFailure, Sup!Subscribed, SP!Subscribed,
     Sup!Queued, SP!Queued, Sup!Unheard, SP!Unheard, Sup!IsWrite, SP!IsWrite,
     Sup!EmptyQueues, SP!EmptyQueues, Sup!Classes, SP!Classes
<1>16. Sup!Close => SP!Close
  BY <1>3 DEF Sup!Close, SP!Close, Sup!Open, SP!Open, Sup!Queued, SP!Queued, Sup!Same,
     SP!Same, Sup!EmptyQueues, SP!EmptyQueues, Sup!Classes, SP!Classes, Sup!PostClose,
     SP!PostClose
<1>17. Sup!Release => SP!Release
  BY <1>3 DEF Sup!Release, SP!Release, Sup!Unheard, SP!Unheard, Sup!IsWrite, SP!IsWrite,
     Sup!PostClose, SP!PostClose
<1>18. Sup!EndpointClosed => SP!EndpointClosed
  BY DEF Sup!EndpointClosed, SP!EndpointClosed
<1>19. Sup!EndpointReceive => SP!EndpointReceive
  BY DEF Sup!EndpointReceive, SP!EndpointReceive
<1>20. Sup!Kill => SP!Kill
  BY <1>3 DEF Sup!Kill, SP!Kill, Sup!Same, SP!Same, Sup!EmptyQueues, SP!EmptyQueues,
     Sup!Classes, SP!Classes
<1>21. Sup!Reopen => SP!Reopen
  BY DEF Sup!Reopen, SP!Reopen, Sup!EmptyQueues, SP!EmptyQueues, Sup!Classes, SP!Classes
<1> QED BY <1>6, <1>7, <1>8, <1>9, <1>10, <1>11, <1>12, <1>13,
          <1>14, <1>15, <1>16, <1>17, <1>18, <1>19, <1>20, <1>21, Zenon
      DEF Sup!Next, SP!Next, Sup!Loop, SP!Loop, Sup!vars, SP!vars

\* A request message is an order.
LEMMA OrderType ==
  ASSUME NEW m \in SP!Message, m.type = "request" PROVE m \in Order
BY DEF SP!Message, Order

\* Every step of the store is a step of its supervisor, or leaves it alone.
LEMMA StepOfSupervisor == WireTypeOK /\ [Next]_vars => [Sup!Next]_(Sup!vars)
<1> SUFFICES ASSUME WireTypeOK, [Next]_vars PROVE [Sup!Next]_(Sup!vars)
  OBVIOUS
<1>1. CASE CallerStep
  BY <1>1, Zenon DEF CallerStep, Sup!Next
<1>2. CASE WorkerStep
  <2>1. Sup!EndpointReceive \/ UNCHANGED Sup!vars
    BY <1>2 DEF WorkerStep, Wrk!WorkerStep, Wrk!ReceiveRequest, Wrk!ReceiveClose, Wrk!HandleRequest,
                Wrk!FinishAwaited, Wrk!PostReply, Wrk!Shutdown, Sup!EndpointReceive, Sup!vars, caller
  <2> QED BY <2>1 DEF Sup!Next
<1>3. CASE DeliverResponse
  <2>1. Head(fromWorker) \in Reply
    BY <1>3, EntryTail DEF DeliverResponse, WireTypeOK
  <2>2. Head(fromWorker).id \in Requests /\ Head(fromWorker).reply \in Replies
    BY <2>1 DEF Reply
  <2> QED BY <1>3, <2>2 DEF DeliverResponse, Sup!Next
<1>4. CASE DiscardResponse
  BY <1>4 DEF DiscardResponse, Sup!vars, caller
<1>5. CASE DeliverExit
  BY <1>5 DEF DeliverExit, Sup!Next
<1>6. CASE CloseResolves
  BY <1>6 DEF CloseResolves, Sup!Next
<1>7. CASE Terminate \/ WorkerCrash
  BY <1>7 DEF Terminate, WorkerCrash, Wrk!Die, Sup!vars, caller
<1>8. CASE ProcessKilled
  BY <1>8 DEF ProcessKilled, Sup!Next
<1>9. CASE OpenAgain
  BY <1>9 DEF OpenAgain, Sup!Next
<1>10. CASE Finished \/ UNCHANGED vars
  BY <1>10 DEF Finished, vars, Sup!vars, caller
<1> QED BY <1>1, <1>2, <1>3, <1>4, <1>5, <1>6, <1>7, <1>8, <1>9, <1>10 DEF Next

\* What the supervisor's invariant says of the messages and of the promises.
LEMMA HeldFacts ==
  ASSUME SP!HeldInv
  PROVE  /\ queue \in [Sup!Classes -> Seq(Requests)]
         /\ inFlight \subseteq Requests
         /\ state \in [Requests -> {"created", "queued", "dispatched", "settled"}]
         /\ outcome \in [Requests -> SP!Outcomes]
         /\ toWorker \in Seq(SP!Message)
         /\ \A c \in Sup!Classes, r \in Requests : Sup!Holds(queue[c], r) => state[r] = "queued"
         /\ Sup!Subscribed => \A r \in inFlight : state[r] = "dispatched"
BY DEF SP!HeldInv, SP!TypeOK, SP!HeldOnce, SP!QueuesExact, SP!InFlightExact, SP!States,
       SP!Classes, Sup!Classes, SP!Holds, Sup!Holds, SP!Subscribed, Sup!Subscribed

\* The worker's answer to a request.
LEMMA AnswerTypes ==
  ASSUME NEW r \in Requests, NEW code \in Replies, Wrk!Answer(r, code)
  PROVE  /\ reply' = <<[id |-> r, reply |-> code]>>
         /\ [id |-> r, reply |-> code] \in Reply
         /\ reply' \in Seq(Reply)
<1>1. [id |-> r, reply |-> code] \in Reply
  BY DEF Reply
<1> QED BY <1>1, OneEntry DEF Wrk!Answer

\* What a request is answered without running it is one of the worker's codes.
LEMMA ShortAnswerType ==
  ASSUME NEW m PROVE Wrk!ShortAnswer(m) \in Replies \cup {"none"}
BY Zenon DEF Wrk!ShortAnswer, Replies

\* The next request of the worker.
LEMMA TurnFacts ==
  ASSUME WireTypeOK, Wrk!Turn
  PROVE  /\ Head(requestChain) \in Order
         /\ Head(requestChain).id \in Requests
         /\ Head(requestChain).type = "request"
         /\ Carries(requestChain, Head(requestChain).id)
         /\ requestChain' = Tail(requestChain) /\ requestChain' \in Seq(Order)
<1>1. /\ requestChain \in Seq(Order) /\ requestChain # <<>>
      /\ requestChain' = Tail(requestChain)
  BY DEF WireTypeOK, Wrk!Turn
<1>2. Head(requestChain) \in Order /\ Tail(requestChain) \in Seq(Order)
  BY <1>1, CarriesTail
<1>3. Head(requestChain).id \in Requests /\ Head(requestChain).type = "request"
  BY <1>2 DEF Order
<1> QED BY <1>1, <1>2, <1>3, CarriesTail

\* The worker's steps keep its messages and the database well formed.
LEMMA HandleRequestTypes == WireTypeOK /\ Wrk!HandleRequest => WireTypeOK'
<1> SUFFICES ASSUME WireTypeOK, Wrk!HandleRequest PROVE WireTypeOK'
  OBVIOUS
<1> DEFINE m == Head(requestChain)
           r == m.id
<1>1. Wrk!Turn /\ UNCHANGED fromWorker
  BY DEF Wrk!HandleRequest
<1>2. r \in Requests /\ requestChain' \in Seq(Order)
  BY <1>1, TurnFacts
<1>3. CASE Wrk!ShortAnswer(m) # "none"
  <2>1. Wrk!ShortAnswer(m) \in Replies
    BY <1>3, ShortAnswerType
  <2>2. Wrk!Answer(r, Wrk!ShortAnswer(m)) /\ UNCHANGED <<running, effect, ledger>>
    BY <1>3 DEF Wrk!HandleRequest, Wrk!durable
  <2>3. reply' \in Seq(Reply)
    BY <2>1, <2>2, <1>2, AnswerTypes
  <2> QED BY <1>1, <1>2, <2>2, <2>3 DEF WireTypeOK
<1>4. CASE Wrk!ShortAnswer(m) = "none" /\ Wrk!ExecuteOperation(m)
  <2>1. Wrk!Answer(r, "OK") /\ UNCHANGED running
    BY <1>4 DEF Wrk!ExecuteOperation
  <2>2. reply' \in Seq(Reply)
    BY <2>1, <1>2, AnswerTypes DEF Replies
  <2>3. effect' \in [Requests -> Wrk!Effects] /\ ledger' \in [Wrk!Keys -> Requests \cup {NoRequest}]
    BY <1>2, <1>4 DEF Wrk!ExecuteOperation, WireTypeOK, Wrk!Effects, Wrk!durable
  <2> QED BY <1>1, <1>2, <2>1, <2>2, <2>3 DEF WireTypeOK
<1>5. CASE Wrk!ShortAnswer(m) = "none" /\ Wrk!RollBack(m)
  <2>1. PICK code \in {"ATLAS_CONFLICT", "ATLAS_INVALID_REQUEST"} : Wrk!Answer(r, code)
    BY <1>5 DEF Wrk!RollBack
  <2>2. reply' \in Seq(Reply)
    BY <2>1, <1>2, AnswerTypes DEF Replies
  <2> QED BY <1>1, <1>2, <1>5, <2>2 DEF WireTypeOK, Wrk!RollBack, Wrk!durable
<1>6. CASE Wrk!ShortAnswer(m) = "none" /\ Wrk!BeginAwaited(m)
  <2>1. running' \in Indexing \cup Retrieving /\ UNCHANGED <<reply, ledger>>
    BY <1>6 DEF Wrk!BeginAwaited, Wrk!Awaited
  <2>2. effect' \in [Requests -> Wrk!Effects]
    BY <1>6, <1>2 DEF Wrk!BeginAwaited, WireTypeOK, Wrk!Effects
  <2> QED BY <1>1, <1>2, <2>1, <2>2 DEF WireTypeOK
<1> QED BY <1>3, <1>4, <1>5, <1>6 DEF Wrk!HandleRequest

\* So do its other steps.
LEMMA WorkerStepTypes == SP!HeldInv /\ WireTypeOK /\ Wrk!WorkerStep => WireTypeOK'
<1> SUFFICES ASSUME SP!HeldInv, WireTypeOK, Wrk!WorkerStep PROVE WireTypeOK'
  OBVIOUS
<1>1. CASE Wrk!ReceiveRequest
  <2>1. Head(toWorker) \in Order
    BY <1>1, HeldFacts, OrderType, CarriesTail DEF Wrk!ReceiveRequest
  <2>2. requestChain' \in Seq(Order)
    BY <1>1, <2>1, CarriesAppend DEF Wrk!ReceiveRequest, WireTypeOK
  <2> QED BY <1>1, <2>2 DEF Wrk!ReceiveRequest, WireTypeOK, Wrk!durable
<1>2. CASE Wrk!ReceiveClose
  BY <1>2 DEF Wrk!ReceiveClose, WireTypeOK, Wrk!durable
<1>3. CASE Wrk!HandleRequest
  BY <1>3, HandleRequestTypes
<1>4. CASE Wrk!FinishAwaited
  <2>0. running \in Requests
    BY <1>4, StoreAssumption DEF Wrk!FinishAwaited, WireTypeOK
  <2>1. effect' \in [Requests -> Wrk!Effects]
    BY <1>4, <2>0 DEF Wrk!FinishAwaited, WireTypeOK, Wrk!Effects
  <2>2. \E code \in {"OK", "ATLAS_INVALID_REQUEST"} : Wrk!Answer(running, code)
    BY <1>4 DEF Wrk!FinishAwaited
  <2>3. reply' \in Seq(Reply)
    BY <2>0, <2>2, AnswerTypes DEF Replies
  <2> QED BY <1>4, <2>1, <2>3 DEF Wrk!FinishAwaited, WireTypeOK
<1>5. CASE Wrk!PostReply
  <2>1. reply[1] \in Reply
    BY <1>5, LenProperties, ElementOfSeq, EmptySeq DEF Wrk!PostReply, WireTypeOK
  <2>2. fromWorker' \in Seq(Reply) /\ reply' \in Seq(Reply)
    BY <1>5, <2>1, EntryAppend, NoEntry DEF Wrk!PostReply, WireTypeOK
  <2> QED BY <1>5, <2>2 DEF Wrk!PostReply, WireTypeOK, Wrk!durable
<1>6. CASE Wrk!Shutdown
  BY <1>6 DEF Wrk!Shutdown, WireTypeOK, Wrk!durable
<1> QED BY <1>1, <1>2, <1>3, <1>4, <1>5, <1>6 DEF Wrk!WorkerStep

\* Every step does.
LEMMA NextWireTypes == SP!HeldInv /\ WireTypeOK /\ [Next]_vars => WireTypeOK'
<1> SUFFICES ASSUME SP!HeldInv, WireTypeOK, [Next]_vars PROVE WireTypeOK'
  OBVIOUS
<1>1. CASE CallerStep \/ DeliverExit \/ Finished \/ UNCHANGED vars
  BY <1>1 DEF CallerStep, DeliverExit, Finished, vars, worker, WireTypeOK
<1>2. CASE WorkerStep
  BY <1>2, WorkerStepTypes DEF WorkerStep
<1>3. CASE DeliverResponse \/ DiscardResponse
  <2>1. fromWorker' \in Seq(Reply)
    BY <1>3, EntryTail DEF DeliverResponse, DiscardResponse, Delivered, WireTypeOK
  <2> QED BY <1>3, <2>1 DEF DeliverResponse, DiscardResponse, WireTypeOK
<1>4. CASE CloseResolves
  BY <1>4, NoEntry DEF CloseResolves, WireTypeOK
<1>5. CASE Terminate \/ WorkerCrash
  BY <1>5, NoEntry DEF Terminate, WorkerCrash, Wrk!Die, WireTypeOK, Wrk!durable
<1>6. CASE ProcessKilled \/ OpenAgain
  BY <1>6, NoEntry DEF ProcessKilled, OpenAgain, WireTypeOK
<1> QED BY <1>1, <1>2, <1>3, <1>4, <1>5, <1>6 DEF Next

\* A new store has neither messages nor a database to speak of.
LEMMA InitWireTypes == Init => WireTypeOK
BY NoEntry DEF Init, Wrk!WorkerInit, Wrk!DatabaseInit, WireTypeOK, Wrk!Effects

\* A new store has a new supervisor.
LEMMA InitSupervisor == Init => Sup!Init /\ SP!Init /\ SP!HeldInv
<1>1. Init => Sup!Init
  BY DEF Init
<1>2. Sup!Init => SP!Init
  BY DEF Sup!Init, SP!Init, Sup!EmptyQueues, SP!EmptyQueues, Sup!Classes, SP!Classes
<1>3. SP!Init => SP!HeldInv
  BY SupervisorAssumed, SP!InitHeld DEF SP!InitHeld
<1> QED BY <1>1, <1>2, <1>3

\* What both halves keep.
LEMMA NextHeldTypes ==
  SP!HeldInv /\ WireTypeOK /\ [Next]_vars =>
    [Sup!Next]_(Sup!vars) /\ SP!HeldInv' /\ WireTypeOK'
<1>1. SP!HeldInv /\ [SP!Next]_(SP!vars) => SP!HeldInv'
  BY SupervisorAssumed, SP!NextHeld DEF SP!NextHeld
<1> QED BY <1>1, StepOfSupervisor, SameSteps, NextWireTypes

\* Seen from the caller's thread the store, whatever its worker does and however
\* often it is killed and opened again, is the supervisor of Supervisor.tla.
THEOREM StoreIsSupervisor == Spec => ImplementsSupervisor
<1>1. Init => Sup!Init /\ SP!HeldInv /\ WireTypeOK
  BY InitWireTypes, InitSupervisor
<1> QED BY <1>1, NextHeldTypes, PTL DEF Spec, ImplementsSupervisor, Sup!Spec

\* Hence no call accepted by the store is forgotten or held twice, whatever
\* answers, crashes and restarts follow.
THEOREM StoreHoldsOnce == Spec => []Sup!HeldOnce
<1>1. Init => SP!HeldInv /\ WireTypeOK
  BY InitWireTypes, InitSupervisor
<1>2. SP!HeldInv => Sup!HeldOnce
  BY DEF SP!HeldInv, SP!HeldOnce, SP!QueuesExact, SP!InFlightExact, SP!NoRepeats, SP!Holds,
         SP!Classes, SP!Subscribed, Sup!HeldOnce, Sup!QueuesExact, Sup!InFlightExact,
         Sup!NoRepeats, Sup!Holds, Sup!Classes, Sup!Subscribed
<1> QED BY <1>1, <1>2, NextHeldTypes, PTL DEF Spec

-------------------------------------------------------------------------------
(* The store keeps its contract *)

\* The outcomes that are not refusals.
Told == {"OK", "ATLAS_RESULT_TOO_LARGE", "ATLAS_INDETERMINATE_WRITE", "lost"}

\* What a handler of the supervisor that has heard no answer may do to the
\* promise of r.
Course(r) ==
  \/ state'[r] = state[r] /\ outcome'[r] = outcome[r]
  \/ state[r] = "queued" /\ state'[r] = "dispatched"
  \/ /\ state[r] \in {"created", "queued"}
     /\ state'[r] = "settled" /\ outcome'[r] \notin Told
  \/ /\ state[r] = "dispatched" /\ state'[r] = "settled"
     /\ IF IsWrite(r) THEN outcome'[r] = "ATLAS_INDETERMINATE_WRITE"
                      ELSE outcome'[r] \notin Told

\* How r is handed to the worker.
HandsOver(r) ==
  /\ state[r] = "queued" /\ state'[r] = "dispatched"
  /\ \E m \in Order : m.id = r /\ toWorker' = Append(toWorker, m)

\* The messages such a handler sends: none, one close, or one request.
Sends ==
  \/ UNCHANGED toWorker
  \/ toWorker' = Append(toWorker, [type |-> "close"])
  \/ \E r \in Requests : HandsOver(r)

\* Several promises settled at once.
LEMMA SettleCourse ==
  ASSUME NEW S, NEW code, Sup!Settle(S, code),
         NEW r \in Requests,
         r \in S => \/ state[r] = "settled"
                    \/ state[r] \in {"created", "queued"} /\ code[r] \notin Told
                    \/ /\ state[r] = "dispatched"
                       /\ IF IsWrite(r) THEN code[r] = "ATLAS_INDETERMINATE_WRITE"
                                        ELSE code[r] \notin Told
  PROVE  Course(r)
<1>1. /\ state'[r] = IF r \in S THEN "settled" ELSE state[r]
      /\ outcome'[r] = IF r \in S /\ state[r] # "settled" THEN code[r] ELSE outcome[r]
  BY DEF Sup!Settle
<1>2. CASE r \notin S \/ state[r] = "settled"
  BY <1>1, <1>2 DEF Course
<1>3. CASE r \in S /\ state[r] # "settled"
  BY <1>1, <1>3 DEF Course
<1> QED BY <1>2, <1>3

\* One promise settled.
LEMMA SettleOneCourse ==
  ASSUME NEW s \in Requests, NEW code, Sup!SettleOne(s, code),
         \/ state[s] \in {"created", "queued"} /\ code \notin Told
         \/ /\ state[s] = "dispatched"
            /\ IF IsWrite(s) THEN code = "ATLAS_INDETERMINATE_WRITE" ELSE code \notin Told
  PROVE  \A r \in Requests : Course(r)
<1> SUFFICES ASSUME NEW r \in Requests PROVE Course(r)
  OBVIOUS
<1>1. Sup!Settle({s}, Sup!Same(code)) /\ Sup!Same(code)[r] = code
  BY DEF Sup!SettleOne, Sup!Same
<1> QED BY <1>1, SettleCourse

\* The supervisor's own codes, but the one for a write in flight, are refusals.
LEMMA RefusalCodes ==
  /\ \A r \in Requests : Sup!Refusal(r) \notin Told /\ Sup!CancelCodes(r) \cap Told = {}
  /\ \A r \in Requests, code \in {"ATLAS_CLOSED", "ATLAS_WORKER_UNAVAILABLE"} : code \notin Told
BY SupervisorAssumption DEF Sup!Refusal, Sup!CancelCodes, Told, Sup!InputDefects

\* pump() hands over the head of a queue, or settles it when it cannot be sent.
LEMMA DispatchCourse ==
  ASSUME SP!HeldInv, NEW c \in Sup!Classes, queue[c] # <<>>, Sup!Dispatch(c)
  PROVE  (\A r \in Requests : Course(r)) /\ Sends
<1> DEFINE s == Head(queue[c])
<1>1. queue[c] \in Seq(Requests)
  BY HeldFacts
<1>2. s \in Requests /\ Sup!Holds(queue[c], s)
  BY <1>1, HeadTailProperties, LenProperties, EmptySeq DEF Sup!Holds
<1>3. state[s] = "queued"
  BY <1>2, HeldFacts
<1>4. Sup!Send(s)
  BY DEF Sup!Dispatch
<1> HIDE DEF s
<1>5. CASE s \in Unsendable
  <2>1. Sup!SettleOne(s, "ATLAS_WORKER_UNAVAILABLE") /\ UNCHANGED toWorker
    BY <1>4, <1>5 DEF Sup!Send
  <2> QED BY <2>1, <1>2, <1>3, SettleOneCourse, RefusalCodes DEF Sends
<1>6. CASE s \notin Unsendable
  <2>1. state' = [state EXCEPT ![s] = "dispatched"] /\ UNCHANGED outcome
    BY <1>4, <1>6 DEF Sup!Send
  <2>2. PICK expired \in BOOLEAN :
          toWorker' = Append(toWorker, [type |-> "request", id |-> s, expired |-> expired])
    BY <1>4, <1>6 DEF Sup!Send
  <2>3. state'[s] = "dispatched" /\ \A r \in Requests \ {s} : state'[r] = state[r]
    BY <2>1, <1>2, HeldFacts
  <2>4. [type |-> "request", id |-> s, expired |-> expired] \in Order
    BY <1>2 DEF Order
  <2>5. HandsOver(s)
    BY <2>2, <2>3, <2>4, <1>3 DEF HandsOver
  <2> QED BY <2>1, <2>3, <2>5, <1>2, <1>3 DEF Course, Sends
<1> QED BY <1>5, <1>6

\* Every handler that has heard no answer, but the admission of a request.
LEMMA CallerCourse ==
  ASSUME SP!HeldInv, CallerStep \/ Sup!HandleFailure
  PROVE  \/ \E r \in Requests : Sup!Admit(r)
         \/ (\A r \in Requests : Course(r)) /\ Sends
<1> DEFINE Fine == (\A r \in Requests : Course(r)) /\ Sends
<1>1. ASSUME NEW r \in Requests, Sup!Refuse(r) PROVE Fine
  BY <1>1, SettleOneCourse, RefusalCodes DEF Sup!Refuse, Sends
<1>2. ASSUME NEW r \in Requests, Sup!CancelQueued(r) PROVE Fine
  <2>1. PICK code \in Sup!CancelCodes(r) : Sup!SettleOne(r, code)
    BY <1>2 DEF Sup!CancelQueued
  <2>2. state[r] = "queued" /\ UNCHANGED toWorker
    BY <1>2, HeldFacts, SupervisorAssumption DEF Sup!CancelQueued
  <2>3. code \notin Told
    BY RefusalCodes
  <2> QED BY <2>1, <2>2, <2>3, SettleOneCourse DEF Sends
<1>3. ASSUME NEW r \in Requests, Sup!CancelDispatched(r) PROVE Fine
  <2>1. PICK code \in Sup!CancelCodes(r) : Sup!SettleOne(r, Sup!Unheard(r, code))
    BY <1>3 DEF Sup!CancelDispatched
  <2>2. state[r] = "dispatched" /\ UNCHANGED toWorker
    BY <1>3 DEF Sup!CancelDispatched
  <2>3. IF IsWrite(r) THEN Sup!Unheard(r, code) = "ATLAS_INDETERMINATE_WRITE"
                      ELSE Sup!Unheard(r, code) \notin Told
    BY RefusalCodes DEF Sup!Unheard, Sup!IsWrite, IsWrite
  <2> QED BY <2>1, <2>2, <2>3, SettleOneCourse DEF Sends
<1>4. ASSUME NEW r \in Requests PROVE ~Sup!Renew(r)
  BY DEF Sup!Renew
<1>5. CASE Sup!DispatchRead
  BY <1>5, DispatchCourse DEF Sup!DispatchRead, Sup!ReadReady, Sup!Classes
<1>6. CASE Sup!DispatchExclusive
  BY <1>6, DispatchCourse DEF Sup!DispatchExclusive, Sup!ExclusiveReady, Sup!ExclusiveQueued,
                              Sup!ExclusiveClass, Sup!Classes
<1>7. CASE Sup!PumpDone
  BY <1>7 DEF Sup!PumpDone, Course, Sends
<1>8. CASE Sup!Close
  <2>1. Sup!Settle(Sup!Queued, Sup!Same("ATLAS_CLOSED")) /\ Sends
    BY <1>8 DEF Sup!Close, Sup!PostClose, Sends
  <2>2. \A r \in Requests : /\ Sup!Same("ATLAS_CLOSED")[r] = "ATLAS_CLOSED"
                            /\ r \in Sup!Queued => state[r] = "queued"
    BY DEF Sup!Same, Sup!Queued
  <2>3. \A r \in Requests : Course(r)
    BY <2>1, <2>2, SettleCourse, RefusalCodes
  <2> QED BY <2>1, <2>3
<1>9. CASE Sup!Release
  <2> DEFINE code == [r \in Requests |-> Sup!Unheard(r, "ATLAS_CLOSED")]
  <2>1. Sup!Settle(inFlight, code) /\ Sends
    BY <1>9 DEF Sup!Release, Sup!PostClose, Sends
  <2>2. \A r \in Requests :
          /\ IF IsWrite(r) THEN code[r] = "ATLAS_INDETERMINATE_WRITE" ELSE code[r] \notin Told
          /\ r \in inFlight => state[r] = "dispatched"
    BY <1>9, HeldFacts, RefusalCodes
    DEF Sup!Release, Sup!Subscribed, Sup!Unheard, Sup!IsWrite, IsWrite
  <2> HIDE DEF code
  <2>3. \A r \in Requests : Course(r)
    BY <2>1, <2>2, SettleCourse
  <2> QED BY <2>1, <2>3
<1>10. CASE Sup!HandleFailure
  <2> DEFINE code == [r \in Requests |->
                        IF r \in inFlight THEN Sup!Unheard(r, "ATLAS_WORKER_UNAVAILABLE")
                                          ELSE "ATLAS_WORKER_UNAVAILABLE"]
  <2>1. Sup!Settle(inFlight \cup Sup!Queued, code) /\ Sends
    BY <1>10 DEF Sup!HandleFailure, Sends
  <2>2. \A r \in Requests :
          /\ r \in inFlight =>
               /\ state[r] = "dispatched"
               /\ IF IsWrite(r) THEN code[r] = "ATLAS_INDETERMINATE_WRITE"
                                ELSE code[r] \notin Told
          /\ r \in Sup!Queued => state[r] = "queued"
          /\ r \notin inFlight => code[r] \notin Told
    BY <1>10, HeldFacts, RefusalCodes
    DEF Sup!HandleFailure, Sup!Queued, Sup!Unheard, Sup!IsWrite, IsWrite
  <2> HIDE DEF code
  <2>3. \A r \in Requests : Course(r)
    BY <2>1, <2>2, SettleCourse
  <2> QED BY <2>1, <2>3
<1> QED BY <1>1, <1>2, <1>3, <1>4, <1>5, <1>6, <1>7, <1>8, <1>9, <1>10 DEF CallerStep, Sup!Loop

-------------------------------------------------------------------------------
(* The invariant of the composition holds. *)

\* Nothing new is on its way.
Shrinks ==
  /\ Once(toWorker)' /\ Once(requestChain)'
  /\ \A r \in Requests : /\ Carries(toWorker, r)' => Carries(toWorker, r)
                         /\ Carries(requestChain, r)' => Carries(requestChain, r)

\* An acknowledgement stays true while no effect is undone.
LEMMA AcknowledgementStays ==
  ASSUME NEW r \in Requests, Acknowledges(r),
         \A s \in Requests : effect[s] = "done" => effect'[s] = "done"
  PROVE  Acknowledges(r)'
<1>1. PICK s \in Requests : effect[s] = "done" /\ (s = r \/ Contract!Replays(r, s))
  BY DEF Acknowledges
<1>2. effect'[s] = "done" /\ (s = r \/ Contract!Replays(r, s)')
  BY <1>1 DEF Contract!Replays, Contract!SameKey
<1> QED BY <1>2 DEF Acknowledges

\* Losing messages, and settling promises the worker no longer acts on, disturb
\* nothing.
LEMMA ShrinkKeeps ==
  ASSUME Trace, Shrinks, UNCHANGED <<effect, ledger>>, running' \in {running, NoRequest},
         \A a \in Reply : Answer(a)' => Answer(a),
         \A r \in Requests :
           /\ state'[r] \in {"created", "queued"} => state[r] \in {"created", "queued"}
           /\ IsWrite(r) /\ (Ahead(r) \/ running = r) /\ Undecided(r) => Undecided(r)'
  PROVE  Trace'
<1>1. \A r \in Requests : Ahead(r)' => Ahead(r)
  BY DEF Shrinks, Ahead
<1>2. \A r \in Requests : running' = r => running = r
  BY StoreAssumption
<1>3. Untouched'
  BY <1>1, <1>2 DEF Trace, Untouched
<1>4. InOnePlace'
  BY <1>1, <1>2 DEF Trace, InOnePlace, Shrinks, Reply
<1>5. AheadClean'
  BY <1>1 DEF Trace, AheadClean, IsWrite
<1>6. RunningClean'
  BY <1>2, StoreAssumption DEF Trace, RunningClean, IsWrite
<1>7. AnswersTrue'
  <2>1. \A r \in Requests : Acknowledges(r) => Acknowledges(r)'
    BY AcknowledgementStays
  <2> QED BY <2>1 DEF Trace, AnswersTrue, IsWrite, Reply
<1>8. LedgerExact'
  BY DEF Trace, LedgerExact, Wrk!Keys
<1> QED BY <1>3, <1>4, <1>5, <1>6, <1>7, <1>8 DEF Trace

\* A promise that takes its course is undecided as long as its write may run.
LEMMA CourseKeeps ==
  ASSUME NEW r \in Requests, Course(r)
  PROVE  /\ state'[r] \in {"created", "queued"} => state[r] \in {"created", "queued"}
         /\ IsWrite(r) /\ Undecided(r) => Undecided(r)'
BY DEF Course, Undecided

\* A request is handed over: it is in no other place yet.
LEMMA HandOverKeeps ==
  ASSUME SP!HeldInv, Trace, NEW s \in Requests, HandsOver(s),
         UNCHANGED <<effect, ledger, running, requestChain, reply, fromWorker>>,
         \A r \in Requests : Course(r)
  PROVE  Trace'
<1>1. PICK m \in Order : m.id = s /\ toWorker' = Append(toWorker, m)
  BY DEF HandsOver
<1>2. m \in SP!Message /\ m.type = "request"
  BY DEF SP!Message, Order
<1>3. /\ state[s] = "queued" /\ state'[s] = "dispatched"
      /\ ~Ahead(s) /\ running # s /\ effect[s] = "none"
      /\ \A a \in Reply : Answer(a) => a.id # s
  BY DEF HandsOver, Trace, Untouched
<1>4. /\ \A r : Carries(toWorker', r) <=> Carries(toWorker, r) \/ r = s
      /\ Once(toWorker) => Once(toWorker')
  BY <1>1, <1>2, <1>3, HeldFacts, CarriesAppend DEF Ahead
<1>5. /\ \A r \in Requests : Ahead(r)' <=> Ahead(r) \/ r = s
      /\ \A r \in Requests : Carries(requestChain, r)' <=> Carries(requestChain, r)
      /\ \A r \in Requests : Carries(toWorker, r)' <=> Carries(toWorker, r) \/ r = s
      /\ \A a \in Reply : Answer(a)' <=> Answer(a)
  BY <1>4 DEF Ahead, Answer, Entry, Carries
<1>6. \A r \in Requests :
        /\ state'[r] \in {"created", "queued"} => state[r] \in {"created", "queued"} /\ r # s
        /\ IsWrite(r) /\ Undecided(r) => Undecided(r)'
  BY <1>3, CourseKeeps
<1>7. Untouched'
  BY <1>5, <1>6 DEF Trace, Untouched
<1>8. InOnePlace'
  <2>1. Once(toWorker)' /\ Once(requestChain)'
    BY <1>4 DEF Trace, InOnePlace, Once
  <2>2. \A r \in Requests : /\ Carries(toWorker, r)' => ~Carries(requestChain, r)'
                            /\ Ahead(r)' => running' # r
    BY <1>3, <1>5 DEF Trace, InOnePlace, Ahead
  <2>3. \A a \in Reply : Answer(a)' => ~Ahead(a.id)' /\ running' # a.id
    BY <1>3, <1>5 DEF Trace, InOnePlace, Reply
  <2> QED BY <2>1, <2>2, <2>3 DEF InOnePlace
<1>9. AheadClean'
  BY <1>3, <1>5, <1>6 DEF Trace, AheadClean, IsWrite, Undecided
<1>10. RunningClean'
  BY <1>6, StoreAssumption DEF Trace, RunningClean, IsWrite
<1>11. AnswersTrue'
  <2>1. \A r \in Requests : Acknowledges(r) => Acknowledges(r)'
    BY AcknowledgementStays
  <2> QED BY <2>1, <1>5 DEF Trace, AnswersTrue, IsWrite, Reply
<1>12. LedgerExact'
  BY DEF Trace, LedgerExact, Wrk!Keys
<1> QED BY <1>7, <1>8, <1>9, <1>10, <1>11, <1>12 DEF Trace

\* A request is answered: it was in hand, and is nowhere else.
LEMMA AnswerKeeps ==
  ASSUME Trace, Shrinks, running' = NoRequest, UNCHANGED <<state, outcome>>,
         NEW r \in Requests, NEW code \in Replies,
         state[r] \notin {"created", "queued"}, ~Ahead(r)',
         \A a \in Reply : Answer(a)' => Answer(a) \/ a = [id |-> r, reply |-> code],
         \A a \in Reply : Answer(a) => a.id # r,
         \A x \in Requests \ {r} : effect'[x] = effect[x],
         effect[r] = "done" => effect'[r] = "done",
         IsWrite(r) => /\ code = "OK" => Acknowledges(r)'
                       /\ code # "OK" /\ r \notin Indexing => effect'[r] = "none",
         LedgerExact'
  PROVE  Trace'
<1>1. \A x \in Requests : Ahead(x)' => Ahead(x) /\ x # r
  BY DEF Shrinks, Ahead
<1>2. \A a \in Reply : Answer(a)' => \/ Answer(a) /\ a.id # r
                                     \/ a.id = r /\ a.reply = code
  OBVIOUS
<1>3. Untouched'
  BY <1>1, <1>2, StoreAssumption DEF Trace, Untouched
<1>4. InOnePlace'
  BY <1>1, <1>2, StoreAssumption DEF Trace, InOnePlace, Shrinks, Reply
<1>5. AheadClean'
  BY <1>1 DEF Trace, AheadClean, IsWrite, Undecided
<1>6. RunningClean'
  BY StoreAssumption DEF RunningClean
<1>7. AnswersTrue'
  <2>1. \A x \in Requests : effect[x] = "done" => effect'[x] = "done"
    OBVIOUS
  <2>2. \A x \in Requests : Acknowledges(x) => Acknowledges(x)'
    BY <2>1, AcknowledgementStays
  <2> SUFFICES ASSUME NEW a \in Reply, Answer(a)', IsWrite(a.id)
               PROVE  /\ a.reply = "OK" => Acknowledges(a.id)'
                      /\ a.reply # "OK" /\ a.id \notin Indexing => effect'[a.id] = "none"
    BY DEF AnswersTrue, IsWrite
  <2>3. a.id \in Requests
    BY DEF Reply
  <2>4. CASE Answer(a) /\ a.id # r
    BY <2>2, <2>3, <2>4 DEF Trace, AnswersTrue
  <2>5. CASE a.id = r /\ a.reply = code
    BY <2>5
  <2> QED BY <1>2, <2>4, <2>5
<1> QED BY <1>3, <1>4, <1>5, <1>6, <1>7 DEF Trace

\* The request whose turn has come: where it was, and where it is no longer.
LEMMA TurnTakes ==
  ASSUME WireTypeOK, Trace, Wrk!Turn, UNCHANGED toWorker,
         NEW r \in Requests, r = Head(requestChain).id
  PROVE  /\ state[r] \notin {"created", "queued"} /\ running # r
         /\ IsWrite(r) => effect[r] = "none" /\ Undecided(r)
         /\ \A a \in Reply : Answer(a) => a.id # r
         /\ Shrinks /\ ~Ahead(r)'
<1>1. /\ requestChain \in Seq(Order) /\ requestChain # <<>> /\ requestChain' = Tail(requestChain)
      /\ Once(requestChain)
  BY DEF WireTypeOK, Wrk!Turn, Trace, InOnePlace
<1>2. Head(requestChain).type = "request" /\ Carries(requestChain, r)
  BY TurnFacts
<1>3. /\ \A x : Carries(requestChain', x) => Carries(requestChain, x)
      /\ Once(requestChain') /\ ~Carries(requestChain', r)
  BY <1>1, <1>2, CarriesTail
<1>4. Once(toWorker)' /\ \A x \in Requests : Carries(toWorker, x)' <=> Carries(toWorker, x)
  BY DEF Trace, InOnePlace, Once, Carries
<1>5. /\ Once(requestChain)'
      /\ \A x \in Requests : Carries(requestChain, x)' <=> Carries(requestChain', x)
  BY <1>3 DEF Once, Carries
<1>6. Ahead(r)
  BY <1>2 DEF Ahead
<1>7. Shrinks /\ ~Ahead(r)'
  BY <1>2, <1>3, <1>4, <1>5 DEF Shrinks, Ahead, Trace, InOnePlace
<1>8. /\ state[r] \notin {"created", "queued"} /\ running # r
      /\ IsWrite(r) => effect[r] = "none" /\ Undecided(r)
      /\ \A a \in Reply : Answer(a) => a.id # r
  BY <1>2, <1>6 DEF Trace, Untouched, InOnePlace, AheadClean
<1> QED BY <1>7, <1>8

\* The answers after one was computed.
LEMMA AnswersAfter ==
  ASSUME reply = <<>>, UNCHANGED fromWorker, NEW r \in Requests, NEW code \in Replies,
         Wrk!Answer(r, code)
  PROVE  \A a \in Reply : Answer(a)' => Answer(a) \/ a = [id |-> r, reply |-> code]
<1>1. reply' = <<[id |-> r, reply |-> code]>> /\ [id |-> r, reply |-> code] \in Reply
  BY AnswerTypes
<1>2. \A a : Entry(reply', a) => a = [id |-> r, reply |-> code]
  BY <1>1, OneEntry
<1> QED BY <1>2 DEF Answer, Entry

\* What ShortAnswer decides: a keyed write runs only when its key has no row,
\* is acknowledged only from a row with the same intent, and an awaited
\* operation has no key.
LEMMA ShortAnswerFacts ==
  ASSUME WireTypeOK, LedgerExact, NEW m \in Order
  PROVE  LET r == m.id
         IN /\ Wrk!ShortAnswer(m) = "none" /\ r \in Wrk!Awaited => Key[r] = NoKey
            /\ Wrk!ShortAnswer(m) = "none" /\ r \notin Wrk!Awaited /\ IsWrite(r) /\ Key[r] # NoKey
                 => ledger[Key[r]] = NoRequest
            /\ Wrk!ShortAnswer(m) = "OK" /\ IsWrite(r) => Acknowledges(r)
<1> DEFINE r == m.id
           row == ledger[Key[r]]
<1>1. r \in Requests
  BY DEF Order
<1>2. Key[r] # NoKey => Key[r] \in Wrk!Keys
  BY <1>1 DEF Wrk!Keys
<1>3. Wrk!ShortAnswer(m) = "none" /\ r \in Wrk!Awaited => Key[r] = NoKey
  BY DEF Wrk!ShortAnswer, Wrk!Keyed
<1>4. Wrk!ShortAnswer(m) = "none" /\ r \notin Wrk!Awaited /\ IsWrite(r) /\ Key[r] # NoKey
        => ledger[Key[r]] = NoRequest
  BY DEF Wrk!ShortAnswer, Wrk!Keyed, Wrk!Writes, IsWrite
<1>5. ASSUME Wrk!ShortAnswer(m) = "OK" PROVE Acknowledges(r)
  <2>1. row # NoRequest /\ Intent[row] = Intent[r] /\ Key[r] # NoKey
    BY <1>5 DEF Wrk!ShortAnswer, Wrk!Keyed
  <2>2. row \in Requests /\ Key[row] = Key[r] /\ effect[row] = "done"
    BY <1>2, <2>1 DEF WireTypeOK, LedgerExact
  <2> QED BY <2>1, <2>2 DEF Acknowledges, Contract!Replays, Contract!SameKey
<1> QED BY <1>3, <1>4, <1>5

\* A request is run, or answered without being run.
LEMMA HandleRequestKeeps ==
  ASSUME WireTypeOK, Trace, Wrk!HandleRequest, UNCHANGED <<state, outcome>>
  PROVE  Trace'
<1> DEFINE m == Head(requestChain)
<1>0. PICK r \in Requests : r = m.id
  BY TurnFacts DEF Wrk!HandleRequest
<1>1. Wrk!Turn /\ UNCHANGED <<toWorker, fromWorker>> /\ running = NoRequest /\ reply = <<>>
  BY DEF Wrk!HandleRequest, Wrk!Turn
<1>2. /\ state[r] \notin {"created", "queued"} /\ running # r
      /\ IsWrite(r) => effect[r] = "none" /\ Undecided(r)
      /\ \A a \in Reply : Answer(a) => a.id # r
      /\ Shrinks /\ ~Ahead(r)'
  BY <1>0, <1>1, TurnTakes
<1>3. m \in Order
  BY <1>1, TurnFacts
<1>4. /\ Wrk!ShortAnswer(m) = "none" /\ r \in Wrk!Awaited => Key[r] = NoKey
      /\ Wrk!ShortAnswer(m) = "none" /\ r \notin Wrk!Awaited /\ IsWrite(r) /\ Key[r] # NoKey
           => ledger[Key[r]] = NoRequest
      /\ Wrk!ShortAnswer(m) = "OK" /\ IsWrite(r) => Acknowledges(r)
  BY <1>0, <1>3, ShortAnswerFacts DEF Trace
<1>5. \A code \in Replies : Wrk!Answer(r, code) =>
        \A a \in Reply : Answer(a)' => Answer(a) \/ a = [id |-> r, reply |-> code]
  BY <1>1, <1>2, AnswersAfter
<1>6. ASSUME Wrk!ShortAnswer(m) # "none" PROVE Trace'
  <2>1. PICK code \in Replies : code = Wrk!ShortAnswer(m)
    BY <1>6, ShortAnswerType
  <2>2. Wrk!Answer(r, code) /\ UNCHANGED <<running, effect, ledger>>
    BY <1>0, <1>6, <2>1 DEF Wrk!HandleRequest, Wrk!durable
  <2>3. LedgerExact'
    BY <2>2 DEF Trace, LedgerExact, Wrk!Keys
  <2>4. Acknowledges(r) => Acknowledges(r)'
    BY <1>2, <2>2, AcknowledgementStays
  <2> QED BY <1>1, <1>2, <1>4, <1>5, <2>1, <2>2, <2>3, <2>4, AnswerKeeps
<1>7. ASSUME Wrk!ShortAnswer(m) = "none", Wrk!ExecuteOperation(m) PROVE Trace'
  <2>1. Wrk!Answer(r, "OK") /\ UNCHANGED running /\ r \notin Wrk!Awaited
    BY <1>0, <1>7 DEF Wrk!ExecuteOperation
  <2>2. CASE ~IsWrite(r)
    <3>1. UNCHANGED <<effect, ledger>>
      BY <1>0, <1>7, <2>2 DEF Wrk!ExecuteOperation, Wrk!durable, Wrk!Writes, IsWrite
    <3>2. LedgerExact'
      BY <3>1 DEF Trace, LedgerExact, Wrk!Keys
    <3> QED BY <1>1, <1>2, <1>5, <2>1, <2>2, <3>1, <3>2, AnswerKeeps DEF Replies
  <2>3. CASE IsWrite(r)
    <3>1. /\ effect' = [effect EXCEPT ![r] = "done"]
          /\ ledger' = IF Key[r] # NoKey THEN [ledger EXCEPT ![Key[r]] = r] ELSE ledger
      BY <1>0, <1>7, <2>3 DEF Wrk!ExecuteOperation, Wrk!Writes, Wrk!Keyed, IsWrite
    <3>2. effect'[r] = "done" /\ \A x \in Requests \ {r} : effect'[x] = effect[x]
      BY <1>2, <3>1 DEF WireTypeOK
    <3>3. Acknowledges(r)'
      BY <1>2, <3>2 DEF Acknowledges
    <3>4. LedgerExact'
      <4>1. CASE Key[r] = NoKey
        <5>1. ledger' = ledger /\ effect[r] = "none"
          BY <4>1, <3>1, <1>2, <2>3
        <5> QED BY <4>1, <5>1, <3>2 DEF Trace, LedgerExact, WireTypeOK, Wrk!Keys
      <4>2. CASE Key[r] # NoKey
        <5>1. Key[r] \in Wrk!Keys
          BY <4>2, <1>2 DEF Wrk!Keys
        <5>2. ledger'[Key[r]] = r /\ \A k \in Wrk!Keys \ {Key[r]} : ledger'[k] = ledger[k]
          BY <4>2, <5>1, <3>1 DEF WireTypeOK
        <5>3. ASSUME NEW k \in Wrk!Keys, ledger'[k] # NoRequest
              PROVE  Key[ledger'[k]] = k /\ effect'[ledger'[k]] = "done"
          <6>1. CASE k = Key[r]
            BY <6>1, <5>2, <3>2
          <6>2. CASE k # Key[r]
            <7>1. /\ ledger'[k] = ledger[k] /\ ledger[k] \in Requests
                  /\ Key[ledger[k]] = k /\ effect[ledger[k]] = "done"
              BY <6>2, <5>2, <5>3 DEF Trace, LedgerExact, WireTypeOK
            <7> QED BY <7>1, <3>2
          <6> QED BY <6>1, <6>2
        <5>4. ASSUME NEW x \in Requests, Key[x] # NoKey, effect'[x] = "done"
              PROVE  ledger'[Key[x]] # NoRequest
          <6>1. CASE Key[x] = Key[r]
            BY <6>1, <5>2, <1>2, StoreAssumption
          <6>2. CASE Key[x] # Key[r]
            <7>1. Key[x] \in Wrk!Keys /\ effect[x] = "done"
              BY <6>2, <5>4, <3>2 DEF Wrk!Keys
            <7> QED BY <7>1, <6>2, <5>2, <5>4 DEF Trace, LedgerExact
          <6> QED BY <6>1, <6>2
        <5> QED BY <5>3, <5>4 DEF LedgerExact, Wrk!Keys
      <4> QED BY <4>1, <4>2
    <3> QED BY <1>1, <1>2, <1>5, <2>1, <2>3, <3>2, <3>3, <3>4, AnswerKeeps DEF Replies
  <2> QED BY <2>2, <2>3
<1>8. ASSUME Wrk!ShortAnswer(m) = "none", Wrk!RollBack(m) PROVE Trace'
  <2>1. PICK code \in {"ATLAS_CONFLICT", "ATLAS_INVALID_REQUEST"} : Wrk!Answer(r, code)
    BY <1>0, <1>8 DEF Wrk!RollBack
  <2>2. UNCHANGED <<running, effect, ledger>>
    BY <1>8 DEF Wrk!RollBack, Wrk!durable
  <2>3. LedgerExact'
    BY <2>2 DEF Trace, LedgerExact, Wrk!Keys
  <2>4. code \in Replies /\ code # "OK"
    BY DEF Replies
  <2> QED BY <1>1, <1>2, <1>5, <2>1, <2>2, <2>3, <2>4, AnswerKeeps
<1>9. ASSUME Wrk!ShortAnswer(m) = "none", Wrk!BeginAwaited(m) PROVE Trace'
  <2>1. /\ r \in Wrk!Awaited /\ running' = r /\ UNCHANGED <<reply, ledger>>
        /\ effect' = [effect EXCEPT ![r] = IF IsWrite(r) /\ @ = "none" THEN "partial" ELSE @]
    BY <1>0, <1>9 DEF Wrk!BeginAwaited, Wrk!Writes, IsWrite
  <2>2. /\ \A x \in Requests \ {r} : effect'[x] = effect[x]
        /\ IF IsWrite(r) THEN effect'[r] = "partial" ELSE effect'[r] = effect[r]
    BY <1>2, <2>1 DEF WireTypeOK
  <2>3. \A x \in Requests : effect'[x] = "done" <=> effect[x] = "done"
    BY <1>2, <2>2
  <2>4. \A x \in Requests : Ahead(x)' => Ahead(x) /\ x # r
    BY <1>2 DEF Shrinks, Ahead
  <2>5. \A a \in Reply : Answer(a)' <=> Answer(a)
    BY <1>1, <2>1 DEF Answer, Entry
  <2>6. Untouched'
    BY <1>2, <2>1, <2>2, <2>4, <2>5 DEF Trace, Untouched
  <2>7. InOnePlace'
    BY <1>2, <2>1, <2>4, <2>5 DEF Trace, InOnePlace, Shrinks, Reply
  <2>8. AheadClean'
    BY <2>2, <2>4 DEF Trace, AheadClean, IsWrite, Undecided
  <2>9. RunningClean'
    BY <1>2, <1>4, <1>9, <2>1, <2>2, StoreAssumption DEF RunningClean, IsWrite, Undecided
  <2>10. AnswersTrue'
    <3>1. \A x \in Requests : Acknowledges(x) => Acknowledges(x)'
      BY <2>3, AcknowledgementStays
    <3> QED BY <1>2, <2>2, <2>5, <3>1 DEF Trace, AnswersTrue, IsWrite, Reply
  <2>11. LedgerExact'
    BY <2>1, <2>3 DEF Trace, LedgerExact, Wrk!Keys, WireTypeOK
  <2> QED BY <2>6, <2>7, <2>8, <2>9, <2>10, <2>11 DEF Trace
<1> QED BY <1>6, <1>7, <1>8, <1>9 DEF Wrk!HandleRequest

\* The operation that was awaited ends.
LEMMA FinishAwaitedKeeps ==
  ASSUME WireTypeOK, Trace, Wrk!FinishAwaited, UNCHANGED <<state, outcome>>
  PROVE  Trace'
<1>1. /\ running # NoRequest /\ running' = NoRequest /\ reply = <<>>
      /\ UNCHANGED <<toWorker, fromWorker, requestChain, ledger>>
  BY DEF Wrk!FinishAwaited
<1>2. PICK r \in Requests : r = running
  BY <1>1, StoreAssumption DEF WireTypeOK
<1>3. /\ r \in Indexing => effect[r] = "partial" /\ Key[r] = NoKey
      /\ IsWrite(r) <=> r \in Indexing
  BY <1>1, <1>2, StoreAssumption DEF Trace, RunningClean, WireTypeOK, IsWrite
<1>4. PICK code \in {"OK", "ATLAS_INVALID_REQUEST"} :
        /\ Wrk!Answer(r, code)
        /\ IF code = "OK" THEN effect' = [effect EXCEPT ![r] = IF IsWrite(r) THEN "done" ELSE @]
                          ELSE effect' = effect
  BY <1>2 DEF Wrk!FinishAwaited, Wrk!Writes, IsWrite
<1>5. /\ \A x \in Requests \ {r} : effect'[x] = effect[x]
      /\ IF code = "OK" /\ IsWrite(r) THEN effect'[r] = "done" ELSE effect'[r] = effect[r]
  BY <1>4 DEF WireTypeOK
<1>6. /\ state[r] \notin {"created", "queued"} /\ ~Ahead(r)
      /\ \A a \in Reply : Answer(a) => a.id # r
  BY <1>2 DEF Trace, Untouched, InOnePlace
<1>7. Shrinks /\ ~Ahead(r)'
  BY <1>1, <1>6 DEF Shrinks, Ahead, Trace, InOnePlace, Once, Carries
<1>8. code \in Replies
  BY DEF Replies
<1>9. \A a \in Reply : Answer(a)' => Answer(a) \/ a = [id |-> r, reply |-> code]
  BY <1>1, <1>4, <1>8, AnswersAfter
<1>10. LedgerExact'
  BY <1>1, <1>3, <1>5 DEF Trace, LedgerExact, Wrk!Keys, WireTypeOK
<1>11. IsWrite(r) /\ code = "OK" => Acknowledges(r)'
  BY <1>5 DEF Acknowledges
<1> QED BY <1>1, <1>3, <1>5, <1>6, <1>7, <1>8, <1>9, <1>10, <1>11, AnswerKeeps

\* A message goes from the port to the chain.
LEMMA ReceiveKeeps ==
  ASSUME SP!HeldInv, WireTypeOK, Trace, Wrk!ReceiveRequest, UNCHANGED <<state, outcome>>
  PROVE  Trace'
<1> DEFINE m == Head(toWorker)
<1>1. /\ toWorker # <<>> /\ m.type = "request" /\ toWorker' = Tail(toWorker)
      /\ requestChain' = Append(requestChain, m)
      /\ UNCHANGED <<fromWorker, running, reply, effect, ledger>>
  BY DEF Wrk!ReceiveRequest, Wrk!durable
<1>2. m \in Order /\ toWorker \in Seq(SP!Message)
  BY <1>1, HeldFacts, OrderType, CarriesTail
<1>3. PICK r \in Requests : r = m.id
  BY <1>2 DEF Order
<1>4. /\ \A x : Carries(toWorker', x) => Carries(toWorker, x)
      /\ Carries(toWorker, r) /\ ~Carries(toWorker', r) /\ Once(toWorker')
  BY <1>1, <1>2, <1>3, CarriesTail DEF Trace, InOnePlace
<1>5. ~Carries(requestChain, r)
  BY <1>4 DEF Trace, InOnePlace
<1>6. /\ \A x : Carries(requestChain', x) <=> Carries(requestChain, x) \/ x = r
      /\ Once(requestChain')
  BY <1>1, <1>2, <1>3, <1>5, CarriesAppend DEF WireTypeOK, Trace, InOnePlace
<1>7. /\ \A x \in Requests : Carries(toWorker, x)' => Carries(toWorker, x) /\ x # r
      /\ \A x \in Requests : Carries(requestChain, x)' <=> Carries(requestChain, x) \/ x = r
      /\ Once(toWorker)' /\ Once(requestChain)'
  BY <1>4, <1>6 DEF Carries, Once
<1>8. \A x \in Requests : Ahead(x)' => Ahead(x)
  BY <1>4, <1>7 DEF Ahead
<1>9. \A a \in Reply : Answer(a)' <=> Answer(a)
  BY <1>1 DEF Answer, Entry
<1>10. Untouched'
  BY <1>1, <1>8, <1>9 DEF Trace, Untouched
<1>11. InOnePlace'
  <2>1. \A x \in Requests : Carries(toWorker, x)' => ~Carries(requestChain, x)'
    BY <1>7 DEF Trace, InOnePlace
  <2> QED BY <1>1, <1>7, <1>8, <1>9, <2>1 DEF Trace, InOnePlace, Reply
<1>12. AheadClean'
  BY <1>1, <1>8 DEF Trace, AheadClean, IsWrite, Undecided
<1>13. RunningClean'
  BY <1>1 DEF Trace, RunningClean, Undecided
<1>14. AnswersTrue'
  <2>1. \A x \in Requests : Acknowledges(x) => Acknowledges(x)'
    BY <1>1, AcknowledgementStays
  <2> QED BY <1>1, <1>9, <2>1 DEF Trace, AnswersTrue, IsWrite, Reply
<1>15. LedgerExact'
  BY <1>1 DEF Trace, LedgerExact, Wrk!Keys
<1> QED BY <1>10, <1>11, <1>12, <1>13, <1>14, <1>15 DEF Trace

\* Steps that leave the messages to the worker alone, or lose them.
LEMMA ShrinkCases ==
  ASSUME SP!HeldInv, WireTypeOK, Trace
  PROVE  /\ UNCHANGED <<toWorker, requestChain>> => Shrinks
         /\ UNCHANGED toWorker /\ requestChain' = <<>> => Shrinks
         /\ toWorker' = <<>> /\ requestChain' = <<>> => Shrinks
         /\ toWorker' = <<>> /\ UNCHANGED requestChain => Shrinks
         /\ toWorker # <<>> /\ toWorker' = Tail(toWorker) /\ UNCHANGED requestChain => Shrinks
         /\ toWorker' = Append(toWorker, [type |-> "close"]) /\ UNCHANGED requestChain => Shrinks
<1>0. Once(toWorker) /\ Once(requestChain) /\ toWorker \in Seq(SP!Message)
  BY HeldFacts DEF Trace, InOnePlace
<1>1. ASSUME UNCHANGED toWorker
      PROVE  Once(toWorker)' /\ \A r \in Requests : Carries(toWorker, r)' => Carries(toWorker, r)
  BY <1>0, <1>1 DEF Once, Carries
<1>2. ASSUME UNCHANGED requestChain
      PROVE  Once(requestChain)' /\
             \A r \in Requests : Carries(requestChain, r)' => Carries(requestChain, r)
  BY <1>0, <1>2 DEF Once, Carries
<1>3. ASSUME requestChain' = <<>>
      PROVE  Once(requestChain)' /\
             \A r \in Requests : Carries(requestChain, r)' => Carries(requestChain, r)
  BY <1>3 DEF Once, Carries
<1>4. ASSUME toWorker' = <<>>
      PROVE  Once(toWorker)' /\ \A r \in Requests : Carries(toWorker, r)' => Carries(toWorker, r)
  BY <1>4 DEF Once, Carries
<1>5. ASSUME toWorker # <<>>, toWorker' = Tail(toWorker)
      PROVE  Once(toWorker)' /\ \A r \in Requests : Carries(toWorker, r)' => Carries(toWorker, r)
  <2>1. Once(toWorker') /\ \A r : Carries(toWorker', r) => Carries(toWorker, r)
    BY <1>0, <1>5, CarriesTail
  <2> QED BY <2>1 DEF Once, Carries
<1>6. ASSUME toWorker' = Append(toWorker, [type |-> "close"])
      PROVE  Once(toWorker)' /\ \A r \in Requests : Carries(toWorker, r)' => Carries(toWorker, r)
  <2> DEFINE m == [type |-> "close"]
  <2>1. m \in SP!Message /\ m.type # "request"
    BY DEF SP!Message
  <2> HIDE DEF m
  <2>2. Once(toWorker') /\ \A r : Carries(toWorker', r) => Carries(toWorker, r)
    BY <1>0, <1>6, <2>1, CarriesAppend DEF m
  <2> QED BY <2>2 DEF Once, Carries
<1> QED BY <1>1, <1>2, <1>3, <1>4, <1>5, <1>6 DEF Shrinks

\* Every step of the worker keeps the invariant.
LEMMA WorkerKeeps ==
  ASSUME SP!HeldInv, WireTypeOK, Trace, WorkerStep
  PROVE  Trace'
<1>1. UNCHANGED <<state, outcome>>
  BY DEF WorkerStep, caller
<1>2. CASE Wrk!ReceiveRequest
  BY <1>1, <1>2, ReceiveKeeps
<1>3. CASE Wrk!HandleRequest
  BY <1>1, <1>3, HandleRequestKeeps
<1>4. CASE Wrk!FinishAwaited
  BY <1>1, <1>4, FinishAwaitedKeeps
<1>5. CASE Wrk!ReceiveClose \/ Wrk!Shutdown
  <2>1. UNCHANGED <<effect, ledger, running, reply, fromWorker>> /\ Shrinks
    BY <1>5, ShrinkCases DEF Wrk!ReceiveClose, Wrk!Shutdown, Wrk!durable
  <2>2. \A a \in Reply : Answer(a)' => Answer(a)
    BY <2>1 DEF Answer, Entry
  <2> QED BY <1>1, <2>1, <2>2, ShrinkKeeps DEF Undecided
<1>6. CASE Wrk!PostReply
  <2>1. /\ UNCHANGED <<effect, ledger, running>> /\ Shrinks
        /\ reply # <<>> /\ reply' = <<>> /\ fromWorker' = Append(fromWorker, reply[1])
    BY <1>6, ShrinkCases DEF Wrk!PostReply, Wrk!durable
  <2>2. reply[1] \in Reply /\ Entry(reply, reply[1]) /\ fromWorker \in Seq(Reply)
    BY <2>1, LenProperties, ElementOfSeq, EmptySeq DEF WireTypeOK, Entry
  <2>3. \A a : Entry(reply', a) \/ Entry(fromWorker', a) => Entry(reply, a) \/ Entry(fromWorker, a)
    BY <2>1, <2>2, EntryAppend, NoEntry
  <2>4. \A a \in Reply : Answer(a)' => Answer(a)
    BY <2>3 DEF Answer, Entry
  <2> QED BY <1>1, <2>1, <2>4, ShrinkKeeps DEF Undecided
<1> QED BY <1>2, <1>3, <1>4, <1>5, <1>6 DEF WorkerStep, Wrk!WorkerStep

\* So does every step of the store.
LEMMA NextTrace ==
  ASSUME SP!HeldInv, WireTypeOK, Trace, [Next]_vars
  PROVE  Trace'
<1>1. ASSUME UNCHANGED worker, \A r \in Requests : Course(r), Sends PROVE Trace'
  <2>1. UNCHANGED <<effect, ledger, running, requestChain, reply, fromWorker>>
    BY <1>1 DEF worker
  <2>2. \A a \in Reply : Answer(a)' => Answer(a)
    BY <2>1 DEF Answer, Entry
  <2>3. \A r \in Requests :
          /\ state'[r] \in {"created", "queued"} => state[r] \in {"created", "queued"}
          /\ IsWrite(r) /\ (Ahead(r) \/ running = r) /\ Undecided(r) => Undecided(r)'
    BY <1>1, CourseKeeps
  <2>4. CASE UNCHANGED toWorker \/ toWorker' = Append(toWorker, [type |-> "close"])
    <3>1. Shrinks
      BY <2>1, <2>4, ShrinkCases
    <3> QED BY <2>1, <2>2, <2>3, <3>1, ShrinkKeeps
  <2>5. CASE \E r \in Requests : HandsOver(r)
    BY <1>1, <2>1, <2>5, HandOverKeeps
  <2> QED BY <1>1, <2>4, <2>5 DEF Sends
<1>2. ASSUME CallerStep PROVE Trace'
  <2>1. UNCHANGED worker
    BY <1>2 DEF CallerStep
  <2>2. CASE \E r \in Requests : Sup!Admit(r)
    <3>1. PICK r \in Requests : Sup!Admit(r)
      BY <2>2
    <3>2. /\ state[r] = "created" /\ state' = [state EXCEPT ![r] = "queued"]
          /\ UNCHANGED <<toWorker, outcome>>
      BY <3>1 DEF Sup!Admit
    <3>3. state'[r] = "queued" /\ \A x \in Requests \ {r} : state'[x] = state[x]
      BY <3>2, HeldFacts
    <3>4. UNCHANGED <<effect, ledger, running, reply, fromWorker>> /\ Shrinks
      BY <2>1, <3>2, ShrinkCases DEF worker
    <3>5. \A a \in Reply : Answer(a)' => Answer(a)
      BY <3>4 DEF Answer, Entry
    <3> QED BY <3>2, <3>3, <3>4, <3>5, ShrinkKeeps DEF Undecided
  <2> QED BY <1>1, <1>2, <2>1, <2>2, CallerCourse
<1>3. ASSUME DeliverExit PROVE Trace'
  <2>1. Sup!HandleFailure /\ UNCHANGED worker
    BY <1>3 DEF DeliverExit
  <2>2. \A r \in Requests : ~Sup!Admit(r)
    BY <2>1, SupervisorAssumption, HeldFacts DEF Sup!HandleFailure, Sup!Admit, Sup!Refusal
  <2> QED BY <1>1, <2>1, <2>2, CallerCourse
<1>4. ASSUME DeliverResponse PROVE Trace'
  <2>1. /\ fromWorker # <<>> /\ fromWorker' = Tail(fromWorker)
        /\ UNCHANGED <<requestChain, running, reply, effect, ledger>>
    BY <1>4 DEF DeliverResponse, Delivered
  <2>2. PICK a \in Reply : a = Head(fromWorker) /\ Answer(a)
    BY <2>1, EntryTail DEF WireTypeOK, Answer
  <2>3. PICK r \in Requests : r = a.id
    BY DEF Reply
  <2>4. /\ UNCHANGED toWorker
        /\ \A x \in Requests : state'[x] = IF x = r THEN "settled" ELSE state[x]
        /\ \A x \in Requests \ {r} : outcome'[x] = outcome[x]
    BY <1>4, <2>2, <2>3 DEF DeliverResponse, Sup!HandleResponse, Sup!SettleOne, Sup!Settle
  <2>5. \A x : Entry(fromWorker', x) => Entry(fromWorker, x)
    BY <2>1, EntryTail DEF WireTypeOK
  <2>6. \A x \in Reply : Answer(x)' => Answer(x)
    BY <2>1, <2>5 DEF Answer, Entry
  <2>7. ~Ahead(r) /\ running # r
    BY <2>2, <2>3 DEF Trace, InOnePlace
  <2>8. Shrinks
    BY <2>1, <2>4, ShrinkCases
  <2> QED BY <2>1, <2>4, <2>6, <2>7, <2>8, ShrinkKeeps DEF Undecided
<1>5. ASSUME DiscardResponse PROVE Trace'
  <2>1. /\ fromWorker # <<>> /\ fromWorker' = Tail(fromWorker)
        /\ UNCHANGED <<toWorker, requestChain, running, reply, effect, ledger, state, outcome>>
    BY <1>5 DEF DiscardResponse, Delivered, caller
  <2>2. \A x : Entry(fromWorker', x) => Entry(fromWorker, x)
    BY <2>1, EntryTail DEF WireTypeOK
  <2>3. \A x \in Reply : Answer(x)' => Answer(x)
    BY <2>1, <2>2 DEF Answer, Entry
  <2>4. Shrinks
    BY <2>1, ShrinkCases
  <2> QED BY <2>1, <2>3, <2>4, ShrinkKeeps DEF Undecided
<1>6. ASSUME UNCHANGED <<effect, ledger>>, running' \in {running, NoRequest}, Shrinks,
             reply' \in {reply, <<>>}, fromWorker' \in {fromWorker, <<>>},
             \A r \in Requests :
                /\ state'[r] \in {"created", "queued"} => state[r] \in {"created", "queued"}
                /\ Undecided(r) => Undecided(r)'
      PROVE  Trace'
  <2>1. \A a : /\ Entry(reply', a) => Entry(reply, a)
               /\ (Entry(fromWorker', a) => Entry(fromWorker, a))
    BY <1>6, NoEntry
  <2>2. \A a \in Reply : Answer(a)' => Answer(a)
    BY <2>1 DEF Answer, Entry
  <2> QED BY <1>6, <2>2, ShrinkKeeps
<1>7. ASSUME CloseResolves PROVE Trace'
  <2>1. Shrinks
    BY <1>7, ShrinkCases DEF CloseResolves, Sup!EndpointClosed
  <2> QED BY <1>6, <1>7, <2>1 DEF CloseResolves, Sup!EndpointClosed, Undecided
<1>8. ASSUME Terminate \/ WorkerCrash PROVE Trace'
  <2>1. Wrk!Die /\ UNCHANGED <<state, outcome>>
    BY <1>8 DEF Terminate, WorkerCrash, caller
  <2>2. Shrinks
    BY <2>1, ShrinkCases DEF Wrk!Die
  <2> QED BY <1>6, <2>1, <2>2 DEF Wrk!Die, Wrk!durable, Undecided
<1>9. ASSUME ProcessKilled PROVE Trace'
  <2>1. Shrinks
    BY <1>9, ShrinkCases DEF ProcessKilled, Sup!Kill
  <2>2. ASSUME NEW r \in Requests
        PROVE  /\ state'[r] \in {"created", "queued"} => state[r] \in {"created", "queued"}
               /\ Undecided(r) => Undecided(r)'
    <3>1. /\ state'[r] = IF state[r] \in {"queued", "dispatched"} THEN "settled" ELSE state[r]
          /\ outcome'[r] = IF state[r] \in {"queued", "dispatched"} THEN "lost" ELSE outcome[r]
      BY <1>9 DEF ProcessKilled, Sup!Kill, Sup!Settle, Sup!Same
    <3> QED BY <3>1 DEF Undecided
  <2> QED BY <1>6, <1>9, <2>1, <2>2 DEF ProcessKilled
<1>10. ASSUME OpenAgain PROVE Trace'
  <2>1. Shrinks
    BY <1>10, ShrinkCases DEF OpenAgain, Sup!Reopen
  <2> QED BY <1>6, <1>10, <2>1 DEF OpenAgain, Sup!Reopen, Undecided
<1>11. ASSUME Finished \/ UNCHANGED vars PROVE Trace'
  <2>1. UNCHANGED <<toWorker, requestChain, reply, fromWorker, running, effect, ledger, state, outcome>>
    BY <1>11 DEF Finished, vars, caller, worker
  <2>2. Shrinks
    BY <2>1, ShrinkCases
  <2> QED BY <1>6, <2>1, <2>2 DEF Undecided
<1>12. ASSUME WorkerStep PROVE Trace'
  BY <1>12, WorkerKeeps
<1> QED BY <1>2, <1>3, <1>4, <1>5, <1>7, <1>8, <1>9, <1>10, <1>11, <1>12 DEF Next

\* A new store.
LEMMA InitTrace == Init => Trace
<1> SUFFICES ASSUME Init PROVE Trace
  OBVIOUS
<1>1. /\ toWorker = <<>> /\ fromWorker = <<>> /\ requestChain = <<>> /\ reply = <<>>
      /\ running = NoRequest
      /\ effect = [r \in Requests |-> "none"]
      /\ ledger = [k \in Wrk!Keys |-> NoRequest]
  BY DEF Init, Sup!Init, Wrk!WorkerInit, Wrk!DatabaseInit
<1>2. (\A r : ~Ahead(r)) /\ (\A a : ~Answer(a)) /\ Once(toWorker) /\ Once(requestChain)
  BY <1>1, NoEntry DEF Ahead, Answer
<1>3. Untouched /\ InOnePlace /\ AheadClean /\ AnswersTrue
  BY <1>1, <1>2, StoreAssumption, NoEntry DEF Untouched, InOnePlace, AheadClean, AnswersTrue, Ahead
<1>4. RunningClean /\ LedgerExact
  BY <1>1, StoreAssumption DEF RunningClean, LedgerExact
<1> QED BY <1>3, <1>4 DEF Trace

-------------------------------------------------------------------------------
(* Every step is one the contract allows. *)

\* Settling some promises, each with a verdict it deserves, is a step of the
\* contract, or none.
LEMMA VerdictsAllowed ==
  ASSUME NEW after, UNCHANGED effect,
         \A r \in Requests :
           /\ Stage(r)' = after[r]
           /\ \/ after[r] = Stage(r)
              \/ /\ Stage(r) \in {"idle", "pending"}
                 /\ after[r] \in Contract!Verdicts
                 /\ Contract!Justified(r, after[r])
  PROVE  [Contract!Next]_(Contract!vars)
<1> DEFINE S == {r \in Requests : after[r] # Stage(r)}
           verdict == [r \in S |-> after[r]]
<1>1. [r \in Requests |-> Stage(r)]' = [r \in Requests |-> after[r]]
  OBVIOUS
<1>2. CASE S = {}
  <2>1. [r \in Requests |-> after[r]] = [r \in Requests |-> Stage(r)]
    BY <1>2
  <2> QED BY <1>1, <2>1 DEF Contract!vars
<1>3. CASE S # {}
  <2>1. S \in (SUBSET {r \in Requests : [x \in Requests |-> Stage(x)][r] \in {"idle", "pending"}})
                \ {{}}
    <3>1. \A r \in Requests : [x \in Requests |-> Stage(x)][r] = Stage(r)
      OBVIOUS
    <3>2. \A r \in S : r \in Requests /\ Stage(r) \in {"idle", "pending"}
      OBVIOUS
    <3> HIDE DEF S
    <3>3. S \subseteq {r \in Requests : [x \in Requests |-> Stage(x)][r] \in {"idle", "pending"}}
      BY <3>1, <3>2
    <3> QED BY <3>3, <1>3
  <2>2. verdict \in [S -> Contract!Verdicts] /\ \A r \in S : Contract!Justified(r, verdict[r])
    OBVIOUS
  <2>3. [r \in Requests |-> Stage(r)]'
          = [r \in Requests |-> IF r \in S THEN verdict[r] ELSE [x \in Requests |-> Stage(x)][r]]
    BY <1>1
  <2> HIDE DEF S, verdict
  <2>4. Contract!Conclude
    BY <2>1, <2>2, <2>3, Zenon DEF Contract!Conclude
  <2> QED BY <2>4 DEF Contract!Next
<1> QED BY <1>2, <1>3

\* Nothing the contract speaks of changes.
LEMMA NothingHappens ==
  UNCHANGED <<state, outcome, effect>> => [Contract!Next]_(Contract!vars)
BY DEF Contract!vars, Stage

\* A handler that has heard no answer settles promises with verdicts they deserve.
LEMMA CourseAllowed ==
  ASSUME Inv, UNCHANGED effect, \A r \in Requests : Course(r)
  PROVE  [Contract!Next]_(Contract!vars)
<1>1. PICK after : after = [r \in Requests |->
                              IF state'[r] = state[r] /\ outcome'[r] = outcome[r] THEN Stage(r)
                              ELSE IF state'[r] = "dispatched" THEN "pending"
                              ELSE IF state[r] = "dispatched" /\ IsWrite(r) THEN "unknown"
                              ELSE "refused"]
  OBVIOUS
<1> SUFFICES ASSUME NEW r \in Requests
             PROVE  /\ Stage(r)' = after[r]
                    /\ \/ after[r] = Stage(r)
                       \/ /\ Stage(r) \in {"idle", "pending"}
                          /\ after[r] \in Contract!Verdicts
                          /\ Contract!Justified(r, after[r])
  BY VerdictsAllowed
<1>2. CASE state'[r] = state[r] /\ outcome'[r] = outcome[r]
  BY <1>1, <1>2 DEF Stage
<1>3. CASE state[r] = "queued" /\ state'[r] = "dispatched"
  BY <1>1, <1>3 DEF Stage
<1>4. CASE state[r] \in {"created", "queued"} /\ state'[r] = "settled" /\ outcome'[r] \notin Told
  <2>1. Stage(r) \in {"idle", "pending"} /\ Stage(r)' = "refused" /\ effect[r] = "none"
    BY <1>4 DEF Stage, Told, Inv, Trace, Untouched
  <2>2. after[r] = "refused"
    BY <1>1, <1>4
  <2> QED BY <2>1, <2>2 DEF Contract!Verdicts, Contract!Justified
<1>5. CASE state[r] = "dispatched" /\ state'[r] = "settled" /\ IsWrite(r)
           /\ outcome'[r] = "ATLAS_INDETERMINATE_WRITE"
  <2>1. Stage(r) = "pending" /\ Stage(r)' = "unknown" /\ after[r] = "unknown"
    BY <1>1, <1>5 DEF Stage
  <2> QED BY <2>1 DEF Contract!Verdicts, Contract!Justified
<1>6. CASE state[r] = "dispatched" /\ state'[r] = "settled" /\ ~IsWrite(r) /\ outcome'[r] \notin Told
  <2>1. Stage(r) = "pending" /\ Stage(r)' = "refused" /\ after[r] = "refused"
    BY <1>1, <1>6 DEF Stage, Told
  <2> QED BY <2>1, <1>6 DEF Contract!Verdicts, Contract!Justified, IsWrite
<1> QED BY <1>2, <1>3, <1>4, <1>5, <1>6 DEF Course

\* An answer is delivered as it stands: it acknowledges what is in the database
\* and refuses what has left no trace there.
LEMMA AnswerAllowed ==
  ASSUME Inv, DeliverResponse PROVE [Contract!Next]_(Contract!vars)
<1>1. PICK a \in Reply : a = Head(fromWorker) /\ Answer(a)
  BY EntryTail DEF DeliverResponse, Inv, WireTypeOK, Answer
<1>2. PICK s \in Requests : s = a.id
  BY DEF Reply
<1>3. PICK code : code = IF a.reply = "OK" /\ s \in Oversize THEN "ATLAS_RESULT_TOO_LARGE" ELSE a.reply
  OBVIOUS
<1>4. /\ s \in inFlight /\ Sup!Subscribed /\ UNCHANGED effect
      /\ Sup!SettleOne(s, code)
  BY <1>1, <1>2, <1>3 DEF DeliverResponse, Sup!HandleResponse
<1>5. state[s] = "dispatched"
  BY <1>4, HeldFacts DEF Inv
<1>6. \A r \in Requests : /\ state'[r] = IF r = s THEN "settled" ELSE state[r]
                          /\ outcome'[r] = IF r = s THEN code ELSE outcome[r]
  BY <1>4, <1>5 DEF Sup!SettleOne, Sup!Settle, Sup!Same
<1>7. PICK after : after = [r \in Requests |->
                              IF r # s THEN Stage(r)
                              ELSE IF a.reply = "OK" THEN "acknowledged" ELSE "refused"]
  OBVIOUS
<1> SUFFICES ASSUME NEW r \in Requests
             PROVE  /\ Stage(r)' = after[r]
                    /\ \/ after[r] = Stage(r)
                       \/ /\ Stage(r) \in {"idle", "pending"}
                          /\ after[r] \in Contract!Verdicts
                          /\ Contract!Justified(r, after[r])
  BY <1>4, VerdictsAllowed
<1>8. CASE r # s
  BY <1>6, <1>7, <1>8 DEF Stage
<1>9. CASE r = s /\ a.reply = "OK"
  <2>1. Stage(r) = "pending" /\ Stage(r)' = "acknowledged" /\ after[r] = "acknowledged"
    BY <1>3, <1>5, <1>6, <1>7, <1>9 DEF Stage
  <2>2. IsWrite(r) => Acknowledges(r)
    BY <1>1, <1>2, <1>9 DEF Inv, Trace, AnswersTrue
  <2> QED BY <2>1, <2>2 DEF Contract!Verdicts, Contract!Justified, IsWrite, Acknowledges
<1>10. CASE r = s /\ a.reply # "OK"
  <2>1. a.reply \in Replies \ {"OK"} /\ code = a.reply
    BY <1>3, <1>10 DEF Reply
  <2>2. Stage(r) = "pending" /\ Stage(r)' = "refused" /\ after[r] = "refused"
    BY <2>1, <1>5, <1>6, <1>7, <1>10 DEF Stage, Replies
  <2>3. IsWrite(r) /\ r \notin Indexing => effect[r] = "none"
    BY <1>1, <1>2, <1>10 DEF Inv, Trace, AnswersTrue
  <2> QED BY <2>2, <2>3 DEF Contract!Verdicts, Contract!Justified, IsWrite
<1> QED BY <1>8, <1>9, <1>10

\* A killed process leaves every pending call with an unknown outcome.
LEMMA KillAllowed ==
  ASSUME ProcessKilled PROVE [Contract!Next]_(Contract!vars)
<1>1. \A r \in Requests :
        /\ state'[r] = IF state[r] \in {"queued", "dispatched"} THEN "settled" ELSE state[r]
        /\ outcome'[r] = IF state[r] \in {"queued", "dispatched"} THEN "lost" ELSE outcome[r]
  BY DEF ProcessKilled, Sup!Kill, Sup!Settle, Sup!Same
<1>2. PICK after : after = [r \in Requests |->
                              IF state[r] \in {"queued", "dispatched"} THEN "unknown" ELSE Stage(r)]
  OBVIOUS
<1> SUFFICES ASSUME NEW r \in Requests
             PROVE  /\ Stage(r)' = after[r]
                    /\ \/ after[r] = Stage(r)
                       \/ /\ Stage(r) \in {"idle", "pending"}
                          /\ after[r] \in Contract!Verdicts
                          /\ Contract!Justified(r, after[r])
  BY VerdictsAllowed DEF ProcessKilled
<1>3. CASE state[r] \in {"queued", "dispatched"}
  <2>1. Stage(r) = "pending" /\ Stage(r)' = "unknown" /\ after[r] = "unknown"
    BY <1>1, <1>2, <1>3 DEF Stage
  <2> QED BY <2>1 DEF Contract!Verdicts, Contract!Justified
<1>4. CASE state[r] \notin {"queued", "dispatched"}
  BY <1>1, <1>2, <1>4 DEF Stage
<1> QED BY <1>3, <1>4

\* An accepted call.
LEMMA AdmitAllowed ==
  ASSUME Inv, NEW r \in Requests, Sup!Admit(r), UNCHANGED effect
  PROVE  [Contract!Next]_(Contract!vars)
<1>1. /\ state[r] = "created" /\ state' = [state EXCEPT ![r] = "queued"]
      /\ UNCHANGED outcome
  BY DEF Sup!Admit
<1>2. state'[r] = "queued" /\ \A x \in Requests \ {r} : state'[x] = state[x]
  BY <1>1, HeldFacts DEF Inv
<1>3. /\ Stage(r) = "idle" /\ Stage(r)' = "pending"
      /\ \A x \in Requests \ {r} : Stage(x)' = Stage(x)
  BY <1>1, <1>2 DEF Stage
<1>4. [x \in Requests |-> Stage(x)]' = [[x \in Requests |-> Stage(x)] EXCEPT ![r] = "pending"]
  BY <1>3
<1>5. Contract!Submit(r)
  BY <1>3, <1>4 DEF Contract!Submit
<1> QED BY <1>5 DEF Contract!Next

\* What is undecided may take effect.
LEMMA UndecidedStage ==
  ASSUME NEW r \in Requests, Undecided(r) PROVE Stage(r) \in {"pending", "unknown"}
BY DEF Undecided, Stage

\* A write the worker runs takes effect while its caller is undecided.
LEMMA HandleRequestAllowed ==
  ASSUME Inv, Wrk!HandleRequest, UNCHANGED <<state, outcome>>
  PROVE  [Contract!Next]_(Contract!vars)
<1> DEFINE m == Head(requestChain)
<1>0. Wrk!Turn /\ UNCHANGED toWorker
  BY DEF Wrk!HandleRequest
<1>1. PICK r \in Requests : r = m.id
  BY <1>0, TurnFacts DEF Inv
<1>2. IsWrite(r) => effect[r] = "none" /\ Undecided(r)
  BY <1>0, <1>1, TurnTakes DEF Inv
<1>3. m \in Order
  BY <1>0, TurnFacts DEF Inv
<1>4. /\ Wrk!ShortAnswer(m) = "none" /\ r \in Wrk!Awaited => Key[r] = NoKey
      /\ Wrk!ShortAnswer(m) = "none" /\ r \notin Wrk!Awaited /\ IsWrite(r) /\ Key[r] # NoKey
           => ledger[Key[r]] = NoRequest
  BY <1>1, <1>3, ShortAnswerFacts DEF Inv, Trace
<1>5. [x \in Requests |-> Stage(x)]' = [x \in Requests |-> Stage(x)]
  BY DEF Stage
<1>6. CASE UNCHANGED effect
  BY <1>6, NothingHappens
<1>7. CASE Wrk!ShortAnswer(m) = "none" /\ Wrk!ExecuteOperation(m) /\ IsWrite(r)
  <2>1. r \notin Wrk!Awaited /\ effect' = [effect EXCEPT ![r] = "done"]
    BY <1>1, <1>7 DEF Wrk!ExecuteOperation, Wrk!Writes, IsWrite
  <2>2. \A s \in Requests : Contract!SameKey(r, s) => effect[s] # "done"
    BY <1>4, <1>7, <2>1 DEF Contract!SameKey, Inv, Trace, LedgerExact
  <2>3. Stage(r) \in {"pending", "unknown"} /\ effect[r] # "done"
    BY <1>2, <1>7, UndecidedStage
  <2>4. Contract!Apply(r)
    BY <1>5, <1>7, <2>1, <2>2, <2>3 DEF Contract!Apply, IsWrite
  <2> QED BY <2>4 DEF Contract!Next
<1>8. CASE Wrk!ShortAnswer(m) = "none" /\ Wrk!BeginAwaited(m) /\ IsWrite(r)
  <2>1. r \in Wrk!Awaited /\ effect' = [effect EXCEPT ![r] = "partial"]
    BY <1>1, <1>2, <1>8 DEF Wrk!BeginAwaited, Wrk!Writes, IsWrite
  <2>2. r \in Indexing
    BY <1>8, <2>1, StoreAssumption DEF Wrk!Awaited, IsWrite
  <2>3. Stage(r) \in {"pending", "unknown"} /\ effect[r] = "none"
    BY <1>2, <1>8, UndecidedStage
  <2>4. Contract!Begin(r)
    BY <1>5, <2>1, <2>2, <2>3 DEF Contract!Begin
  <2> QED BY <2>4 DEF Contract!Next
<1>9. CASE ~IsWrite(r)
  <2>1. effect' = effect
    <3>1. effect \in [Requests -> Wrk!Effects]
      BY DEF Inv, WireTypeOK
    <3>2. effect' = effect \/ effect' = [effect EXCEPT ![r] = effect[r]]
      BY <1>1, <1>9 DEF Wrk!HandleRequest, Wrk!ExecuteOperation, Wrk!RollBack, Wrk!BeginAwaited,
                        Wrk!durable, Wrk!Writes, IsWrite
    <3> QED BY <3>1, <3>2
  <2> QED BY <2>1, NothingHappens
<1>10. \/ UNCHANGED effect
       \/ Wrk!ShortAnswer(m) = "none" /\ (Wrk!ExecuteOperation(m) \/ Wrk!BeginAwaited(m))
  BY DEF Wrk!HandleRequest, Wrk!RollBack, Wrk!durable
<1> QED BY <1>6, <1>7, <1>8, <1>9, <1>10

\* An indexing run takes effect when it ends.
LEMMA FinishAwaitedAllowed ==
  ASSUME Inv, Wrk!FinishAwaited, UNCHANGED <<state, outcome>>
  PROVE  [Contract!Next]_(Contract!vars)
<1>1. PICK r \in Requests : r = running
  BY StoreAssumption DEF Wrk!FinishAwaited, Inv, WireTypeOK
<1>2. [x \in Requests |-> Stage(x)]' = [x \in Requests |-> Stage(x)]
  BY DEF Stage
<1>3. CASE UNCHANGED effect
  BY <1>3, NothingHappens
<1>4. CASE effect' = [effect EXCEPT ![r] = "done"] /\ IsWrite(r)
  <2>1. r \in Indexing
    BY <1>1, <1>4, StoreAssumption DEF Inv, WireTypeOK, IsWrite
  <2>2. Stage(r) \in {"pending", "unknown"} /\ effect[r] = "partial" /\ Key[r] = NoKey
    BY <1>1, <2>1, UndecidedStage DEF Inv, Trace, RunningClean
  <2>3. Contract!Apply(r)
    BY <1>2, <1>4, <2>2 DEF Contract!Apply, Contract!SameKey, IsWrite
  <2> QED BY <2>3 DEF Contract!Next
<1>5. \/ UNCHANGED effect
      \/ effect' = [effect EXCEPT ![r] = "done"] /\ IsWrite(r)
  BY <1>1 DEF Wrk!FinishAwaited, Wrk!Writes, IsWrite, Inv, WireTypeOK
<1> QED BY <1>3, <1>4, <1>5

\* Every step of the store.
LEMMA NextAllowed ==
  ASSUME Inv, [Next]_vars PROVE [Contract!Next]_(Contract!vars)
<1>1. CASE CallerStep
  <2>1. UNCHANGED effect
    BY <1>1 DEF CallerStep, worker
  <2> QED BY <1>1, <2>1, CallerCourse, CourseAllowed, AdmitAllowed DEF Inv
<1>2. CASE WorkerStep
  <2>1. UNCHANGED <<state, outcome>>
    BY <1>2 DEF WorkerStep, caller
  <2>2. CASE Wrk!HandleRequest
    BY <2>1, <2>2, HandleRequestAllowed
  <2>3. CASE Wrk!FinishAwaited
    BY <2>1, <2>3, FinishAwaitedAllowed
  <2>4. CASE Wrk!ReceiveRequest \/ Wrk!ReceiveClose \/ Wrk!PostReply \/ Wrk!Shutdown
    BY <2>1, <2>4, NothingHappens
    DEF Wrk!ReceiveRequest, Wrk!ReceiveClose, Wrk!PostReply, Wrk!Shutdown, Wrk!durable
  <2> QED BY <1>2, <2>2, <2>3, <2>4 DEF WorkerStep, Wrk!WorkerStep
<1>3. CASE DeliverResponse
  BY <1>3, AnswerAllowed
<1>4. CASE DeliverExit
  <2>1. Sup!HandleFailure /\ UNCHANGED effect
    BY <1>4 DEF DeliverExit, worker
  <2> QED BY <2>1, CallerCourse, CourseAllowed, AdmitAllowed DEF Inv
<1>5. CASE ProcessKilled
  BY <1>5, KillAllowed
<1>6. CASE DiscardResponse \/ CloseResolves \/ Terminate \/ WorkerCrash \/ OpenAgain \/ Finished
           \/ UNCHANGED vars
  BY <1>6, NothingHappens
  DEF DiscardResponse, CloseResolves, Sup!EndpointClosed, Terminate, WorkerCrash, Wrk!Die,
      OpenAgain, Sup!Reopen, Finished, vars, worker, caller, Wrk!durable
<1> QED BY <1>1, <1>2, <1>3, <1>4, <1>5, <1>6 DEF Next

\* The store keeps its contract, through crashes of the worker, kills of the
\* process and restarts: no refused write ever takes effect, no acknowledged
\* write is missing, no idempotency key takes effect twice.
THEOREM ContractKept == Spec => ImplementsContract
<1>1. Init => Inv
  BY InitWireTypes, InitSupervisor, InitTrace DEF Inv
<1>2. Inv /\ [Next]_vars => Inv'
  BY NextHeldTypes, NextTrace DEF Inv
<1>3. Init => Contract!Init
  BY DEF Init, Sup!Init, Wrk!DatabaseInit, Contract!Init, Stage
<1>4. Inv /\ [Next]_vars => [Contract!Next]_(Contract!vars)
  BY NextAllowed
<1> QED BY <1>1, <1>2, <1>3, <1>4, PTL DEF Spec, ImplementsContract, Contract!Spec

PromisesInv == effect \in [Requests -> Wrk!Effects] /\ Contract!Promises

\* What the contract means for a caller follows from its steps.
LEMMA NextPromises ==
  ASSUME PromisesInv, [Contract!Next]_(Contract!vars), effect' \in [Requests -> Wrk!Effects]
  PROVE  PromisesInv'
<1> DEFINE stage == [r \in Requests |-> Stage(r)]
<1>0. \A r \in Requests : stage[r] = Stage(r) /\ stage'[r] = Stage(r)'
  OBVIOUS
<1>1. ASSUME UNCHANGED effect,
             \A r \in Requests : stage'[r] # stage[r] => Contract!Justified(r, stage'[r])
      PROVE  Contract!Promises'
  <2> SUFFICES ASSUME NEW r \in Requests, IsWrite(r)
               PROVE  /\ stage'[r] = "acknowledged" =>
                           \E s \in Requests : effect[s] = "done" /\ (s = r \/ Contract!Replays(r, s))
                      /\ stage'[r] = "refused" /\ r \notin Indexing => effect[r] = "none"
    BY <1>0, <1>1 DEF PromisesInv, Contract!Promises, Contract!SameKey, Contract!Replays, IsWrite
  <2>1. CASE stage'[r] = stage[r]
    BY <2>1, <1>0 DEF PromisesInv, Contract!Promises, IsWrite
  <2>2. CASE stage'[r] # stage[r]
    BY <2>2, <1>1 DEF Contract!Justified, IsWrite
  <2> QED BY <2>1, <2>2
<1>2. ASSUME NEW r \in Requests, NEW e \in {"partial", "done"}, UNCHANGED stage,
             effect' = [effect EXCEPT ![r] = e], effect[r] # "done",
             stage[r] \in {"pending", "unknown"},
             e = "done" => \A s \in Requests : Contract!SameKey(r, s) => effect[s] # "done"
      PROVE  Contract!Promises'
  <2>1. effect'[r] = e /\ \A s \in Requests \ {r} : effect'[s] = effect[s]
    BY <1>2 DEF PromisesInv
  <2>2. \A s \in Requests : effect[s] = "done" => effect'[s] = "done"
    BY <1>2, <2>1
  <2>3. \A x \in Requests : IsWrite(x) /\ stage'[x] = "acknowledged" =>
           \E s \in Requests : effect'[s] = "done" /\ (s = x \/ Contract!Replays(x, s))
    BY <1>2, <2>2 DEF PromisesInv, Contract!Promises, IsWrite
  <2>4. \A x \in Requests :
           IsWrite(x) /\ x \notin Indexing /\ stage'[x] = "refused" => effect'[x] = "none"
    BY <1>2, <2>1 DEF PromisesInv, Contract!Promises, IsWrite
  <2>5. ASSUME NEW x \in Requests, NEW y \in Requests, Contract!SameKey(x, y),
               effect'[x] = "done", effect'[y] = "done"
        PROVE  x = y
    BY <1>2, <2>1, <2>5 DEF PromisesInv, Contract!Promises, Contract!SameKey
  <2> QED BY <1>0, <2>3, <2>4, <2>5
          DEF Contract!Promises, Contract!SameKey, Contract!Replays, IsWrite
<1>3. CASE Contract!Conclude
  <2>1. PICK S \in SUBSET Requests :
          \E verdict \in [S -> Contract!Verdicts] :
             /\ \A r \in S : Contract!Justified(r, verdict[r])
             /\ stage' = [r \in Requests |-> IF r \in S THEN verdict[r] ELSE stage[r]]
             /\ UNCHANGED effect
    BY <1>3 DEF Contract!Conclude
  <2>2. PICK verdict \in [S -> Contract!Verdicts] :
             /\ \A r \in S : Contract!Justified(r, verdict[r])
             /\ stage' = [r \in Requests |-> IF r \in S THEN verdict[r] ELSE stage[r]]
             /\ UNCHANGED effect
    BY <2>1
  <2> HIDE DEF stage
  <2>3. ASSUME NEW r \in Requests, stage'[r] # stage[r] PROVE Contract!Justified(r, stage'[r])
    <3>1. r \in S /\ stage'[r] = verdict[r]
      BY <2>2, <2>3
    <3> QED BY <2>2, <3>1
  <2>4. Contract!Promises'
    BY <2>2, <2>3, <1>1
  <2> QED BY <2>4 DEF PromisesInv
<1>4. ASSUME NEW r \in Requests, Contract!Submit(r) PROVE Contract!Promises'
  BY <1>4 DEF Contract!Submit, PromisesInv, Contract!Promises
<1>5. ASSUME NEW r \in Requests, Contract!Begin(r) PROVE Contract!Promises'
  BY <1>5, <1>2 DEF Contract!Begin
<1>6. ASSUME NEW r \in Requests, Contract!Apply(r) PROVE Contract!Promises'
  BY <1>6, <1>2 DEF Contract!Apply
<1>7. CASE UNCHANGED Contract!vars
  BY <1>7 DEF Contract!vars, PromisesInv, Contract!Promises
<1>8. Contract!Promises' => PromisesInv'
  BY DEF PromisesInv
<1>9. CASE \E r \in Requests : Contract!Submit(r) \/ Contract!Begin(r) \/ Contract!Apply(r)
  BY <1>4, <1>5, <1>6, <1>8, <1>9
<1> QED BY <1>3, <1>7, <1>9 DEF Contract!Next

\* Hence the database never contradicts what callers were told: see Promises in
\* StoreContract.tla.
THEOREM StoreKeepsPromises == Spec => []Contract!Promises
<1>1. Init => Inv /\ PromisesInv
  <2>1. Init => Inv
    BY InitWireTypes, InitSupervisor, InitTrace DEF Inv
  <2>2. Init => PromisesInv
    BY DEF Init, Sup!Init, Wrk!DatabaseInit, PromisesInv, Contract!Promises, Wrk!Effects, Stage
  <2> QED BY <2>1, <2>2
<1>2. Inv /\ PromisesInv /\ [Next]_vars => Inv' /\ PromisesInv'
  <2> SUFFICES ASSUME Inv, PromisesInv, [Next]_vars PROVE Inv' /\ PromisesInv'
    OBVIOUS
  <2>1. Inv'
    BY NextHeldTypes, NextTrace DEF Inv
  <2>2. effect' \in [Requests -> Wrk!Effects]
    BY <2>1 DEF Inv, WireTypeOK, Wrk!Effects
  <2>3. [Contract!Next]_(Contract!vars)
    BY NextAllowed
  <2> QED BY <2>1, <2>2, <2>3, NextPromises
<1>3. PromisesInv => Contract!Promises
  BY DEF PromisesInv
<1> QED BY <1>1, <1>2, <1>3, PTL DEF Spec
===============================================================================
