--------------------------- MODULE SupervisorProofs ---------------------------
(***************************************************************************)
(* What holds of the supervisor for any set of requests, any limits and    *)
(* any behaviour of the endpoint.  First facts about queues, then one      *)
(* section per property; HeldInv is the invariant the others rest on.      *)
(***************************************************************************)
EXTENDS Supervisor, SequenceTheorems, FiniteSetTheorems, TLAPS

\* The empty queue holds nothing.
LEMMA EmptyQueue ==
  ASSUME NEW S
  PROVE  /\ <<>> \in Seq(S)
         /\ NoRepeats(<<>>)
         /\ \A x : ~Holds(<<>>, x)
BY EmptySeq DEF NoRepeats, Holds

\* Appending a request that is not there (queueFor(...).push) keeps a queue
\* without repeats and adds just that request.
LEMMA AppendToQueue ==
  ASSUME NEW S, NEW q \in Seq(S), NEW r \in S, NoRepeats(q), ~Holds(q, r)
  PROVE  /\ Append(q, r) \in Seq(S)
         /\ NoRepeats(Append(q, r))
         /\ \A x : Holds(Append(q, r), x) <=> Holds(q, x) \/ x = r
<1> DEFINE a == Append(q, r)
<1>1. /\ a \in Seq(S)
      /\ Len(q) \in Nat
      /\ Len(a) = Len(q) + 1
      /\ \A i \in 1..Len(q) : a[i] = q[i]
      /\ a[Len(q) + 1] = r
  BY AppendProperties, LenProperties
<1> HIDE DEF a
<1>2. \A i \in 1..Len(a) : i \in 1..Len(q) \/ i = Len(q) + 1
  BY <1>1
<1>3. NoRepeats(a)
  BY <1>1, <1>2 DEF NoRepeats, Holds
<1>4. ASSUME NEW x PROVE Holds(a, x) <=> Holds(q, x) \/ x = r
  <2>1. ASSUME Holds(q, x) PROVE Holds(a, x)
    BY <2>1, <1>1 DEF Holds
  <2>2. ASSUME x = r PROVE Holds(a, x)
    BY <2>2, <1>1 DEF Holds
  <2>3. ASSUME Holds(a, x) PROVE Holds(q, x) \/ x = r
    BY <2>3, <1>1, <1>2 DEF Holds
  <2> QED BY <2>1, <2>2, <2>3
<1> QED BY <1>1, <1>3, <1>4 DEF a

\* Taking the head (shift) keeps a queue without repeats and removes just it.
LEMMA TailOfQueue ==
  ASSUME NEW S, NEW q \in Seq(S), q # <<>>, NoRepeats(q)
  PROVE  /\ Head(q) \in S
         /\ Holds(q, Head(q))
         /\ Tail(q) \in Seq(S)
         /\ Len(Tail(q)) = Len(q) - 1
         /\ NoRepeats(Tail(q))
         /\ \A x : Holds(Tail(q), x) <=> Holds(q, x) /\ x # Head(q)
<1> DEFINE t == Tail(q)
<1>1. /\ t \in Seq(S)
      /\ Head(q) \in S
      /\ Len(q) \in Nat \ {0}
      /\ Len(t) = Len(q) - 1
      /\ \A i \in 1..Len(t) : t[i] = q[i + 1]
  BY HeadTailProperties, LenProperties, EmptySeq
<1>2. Head(q) = q[1]
  OBVIOUS
<1> HIDE DEF t
<1>3. NoRepeats(t)
  <2> SUFFICES ASSUME NEW i \in 1..Len(t), NEW j \in 1..Len(t), t[i] = t[j] PROVE i = j
    BY DEF NoRepeats
  <2>1. i + 1 \in 1..Len(q) /\ j + 1 \in 1..Len(q) /\ q[i + 1] = q[j + 1]
    BY <1>1
  <2> QED BY <2>1 DEF NoRepeats
<1>4. ASSUME NEW x PROVE Holds(t, x) <=> Holds(q, x) /\ x # Head(q)
  <2>1. ASSUME Holds(t, x) PROVE Holds(q, x) /\ x # Head(q)
    <3>1. PICK i \in 1..Len(t) : t[i] = x
      BY <2>1 DEF Holds
    <3>2. i + 1 \in 1..Len(q) /\ 1 \in 1..Len(q) /\ i + 1 # 1 /\ q[i + 1] = x
      BY <1>1, <3>1
    <3> QED BY <3>2, <1>2 DEF Holds, NoRepeats
  <2>2. ASSUME Holds(q, x), x # Head(q) PROVE Holds(t, x)
    <3>1. PICK i \in 1..Len(q) : q[i] = x
      BY <2>2 DEF Holds
    <3>2. i # 1
      BY <3>1, <2>2, <1>2
    <3>3. i - 1 \in 1..Len(t) /\ t[i - 1] = q[(i - 1) + 1] /\ (i - 1) + 1 = i
      BY <3>1, <3>2, <1>1
    <3> QED BY <3>1, <3>3 DEF Holds
  <2> QED BY <2>1, <2>2
<1>5. Holds(q, Head(q))
  BY <1>1, <1>2 DEF Holds
<1> QED BY <1>1, <1>3, <1>4, <1>5 DEF t

\* Removing r takes out the entry k and moves the later ones up.
LEMMA WithoutEntries ==
  ASSUME NEW S, NEW q \in Seq(S), NEW r, Holds(q, r)
  PROVE  /\ Without(q, r) \in Seq(S)
         /\ Len(Without(q, r)) = Len(q) - 1
         /\ \E k \in 1..Len(q) :
              /\ q[k] = r
              /\ \A i \in 1..Len(Without(q, r)) :
                   Without(q, r)[i] = IF i < k THEN q[i] ELSE q[i + 1]
<1> DEFINE k == CHOOSE i \in 1..Len(q) : q[i] = r
           w == Without(q, r)
<1>1. k \in 1..Len(q) /\ q[k] = r
  BY DEF Holds
<1> HIDE DEF k
<1>2. Len(q) \in Nat
  BY LenProperties
<1>3. w = SubSeq(q, 1, k - 1) \o SubSeq(q, k + 1, Len(q))
  BY DEF Without, RemoveAt, k
<1>4. /\ SubSeq(q, 1, k - 1) \in Seq(S)
      /\ Len(SubSeq(q, 1, k - 1)) = k - 1
      /\ \A i \in 1..(k - 1) : SubSeq(q, 1, k - 1)[i] = q[i]
  <2>1. /\ SubSeq(q, 1, k - 1) \in Seq(S)
        /\ Len(SubSeq(q, 1, k - 1)) = IF 1 <= k - 1 THEN (k - 1) - 1 + 1 ELSE 0
        /\ \A i \in 1..((k - 1) - 1 + 1) : SubSeq(q, 1, k - 1)[i] = q[1 + i - 1]
    <3>1. \A i \in 1..(k - 1) : q[i] \in S
      BY <1>1, <1>2, ElementOfSeq
    <3> QED BY <3>1, <1>1, <1>2, SubSeqProperties
  <2> QED BY <2>1, <1>1, <1>2
<1>5. /\ SubSeq(q, k + 1, Len(q)) \in Seq(S)
      /\ Len(SubSeq(q, k + 1, Len(q))) = Len(q) - k
      /\ \A i \in 1..(Len(q) - k) : SubSeq(q, k + 1, Len(q))[i] = q[k + i]
  <2>1. /\ SubSeq(q, k + 1, Len(q)) \in Seq(S)
        /\ Len(SubSeq(q, k + 1, Len(q))) = IF k + 1 <= Len(q) THEN Len(q) - (k + 1) + 1 ELSE 0
        /\ \A i \in 1..(Len(q) - (k + 1) + 1) : SubSeq(q, k + 1, Len(q))[i] = q[(k + 1) + i - 1]
    <3>1. \A i \in (k + 1)..Len(q) : q[i] \in S
      BY <1>1, <1>2, ElementOfSeq
    <3> QED BY <3>1, <1>1, <1>2, SubSeqProperties
  <2>2. \A i \in 1..(Len(q) - k) : (k + 1) + i - 1 = k + i
    BY <1>1, <1>2
  <2>3. Len(q) - (k + 1) + 1 = Len(q) - k
    BY <1>1, <1>2
  <2>4. ASSUME NEW i \in 1..(Len(q) - k) PROVE SubSeq(q, k + 1, Len(q))[i] = q[k + i]
    <3>1. i \in 1..(Len(q) - (k + 1) + 1)
      BY <2>3
    <3> QED BY <2>1, <2>2, <3>1
  <2>5. Len(SubSeq(q, k + 1, Len(q))) = Len(q) - k
    <3>1. (IF k + 1 <= Len(q) THEN Len(q) - (k + 1) + 1 ELSE 0) = Len(q) - k
      BY <1>1, <1>2
    <3> QED BY <2>1, <3>1
  <2> QED BY <2>1, <2>4, <2>5
<1>6. /\ w \in Seq(S)
      /\ Len(w) = Len(q) - 1
      /\ \A i \in 1..Len(w) : w[i] = IF i < k THEN q[i] ELSE q[i + 1]
  <2> DEFINE s1 == SubSeq(q, 1, k - 1)
             s2 == SubSeq(q, k + 1, Len(q))
  <2>1. /\ w \in Seq(S)
        /\ Len(w) = Len(s1) + Len(s2)
        /\ \A i \in 1..(Len(s1) + Len(s2)) :
             w[i] = IF i <= Len(s1) THEN s1[i] ELSE s2[i - Len(s1)]
    BY <1>3, <1>4, <1>5, ConcatProperties
  <2> HIDE DEF s1, s2, w
  <2>2. /\ Len(s1) = k - 1 /\ Len(s2) = Len(q) - k
        /\ \A i \in 1..(k - 1) : s1[i] = q[i]
        /\ \A i \in 1..(Len(q) - k) : s2[i] = q[k + i]
    BY <1>4, <1>5 DEF s1, s2
  <2>3. Len(w) = Len(q) - 1
    BY <2>1, <2>2, <1>1, <1>2
  <2>4. ASSUME NEW i \in 1..Len(w) PROVE w[i] = IF i < k THEN q[i] ELSE q[i + 1]
    <3>1. CASE i < k
      BY <3>1, <2>1, <2>2, <2>3, <1>1, <1>2
    <3>2. CASE ~(i < k)
      <4>1. i - (k - 1) \in 1..(Len(q) - k) /\ k + (i - (k - 1)) = i + 1
        BY <3>2, <2>3, <1>1, <1>2
      <4>2. w[i] = s2[i - (k - 1)]
        BY <3>2, <2>1, <2>2, <2>3, <1>1, <1>2
      <4> QED BY <3>2, <4>1, <4>2, <2>2
    <3> QED BY <3>1, <3>2
  <2> QED BY <2>1, <2>3, <2>4
<1> QED BY <1>1, <1>6

\* Removing r (removeQueued) keeps a queue without repeats and removes just r.
LEMMA WithoutOfQueue ==
  ASSUME NEW S, NEW q \in Seq(S), NEW r, NoRepeats(q), Holds(q, r)
  PROVE  /\ NoRepeats(Without(q, r))
         /\ \A x : Holds(Without(q, r), x) <=> Holds(q, x) /\ x # r
<1> DEFINE w == Without(q, r)
<1>0. Len(Without(q, r)) = Len(q) - 1
  BY WithoutEntries
<1>1. PICK k \in 1..Len(q) :
        /\ q[k] = r
        /\ \A i \in 1..Len(Without(q, r)) :
             Without(q, r)[i] = IF i < k THEN q[i] ELSE q[i + 1]
  BY WithoutEntries
<1>2. Len(q) \in Nat
  BY LenProperties
<1>6. Len(w) = Len(q) - 1 /\ \A i \in 1..Len(w) : w[i] = IF i < k THEN q[i] ELSE q[i + 1]
  BY <1>1, WithoutEntries
<1> HIDE DEF w
<1>7. NoRepeats(w)
  <2> SUFFICES ASSUME NEW i \in 1..Len(w), NEW j \in 1..Len(w), w[i] = w[j] PROVE i = j
    BY DEF NoRepeats
  <2> DEFINE at(n) == IF n < k THEN n ELSE n + 1
  <2>1. at(i) \in 1..Len(q) /\ at(j) \in 1..Len(q) /\ q[at(i)] = q[at(j)]
    BY <1>1, <1>2, <1>6
  <2>2. at(i) = at(j)
    BY <2>1 DEF NoRepeats
  <2> QED BY <2>2, <1>1, <1>2, <1>6
<1>8. ASSUME NEW x PROVE Holds(w, x) <=> Holds(q, x) /\ x # r
  <2>1. ASSUME Holds(w, x) PROVE Holds(q, x) /\ x # r
    <3>1. PICK i \in 1..Len(w) : w[i] = x
      BY <2>1 DEF Holds
    <3>2. PICK j \in 1..Len(q) : q[j] = x /\ j # k
      <4>1. CASE i < k
        BY <4>1, <3>1, <1>1, <1>2, <1>6
      <4>2. CASE ~(i < k)
        <5>1. i + 1 \in 1..Len(q) /\ i + 1 # k /\ q[i + 1] = x
          BY <4>2, <3>1, <1>1, <1>2, <1>6
        <5> QED BY <5>1
      <4> QED BY <4>1, <4>2
    <3> QED BY <3>2, <1>1 DEF Holds, NoRepeats
  <2>2. ASSUME Holds(q, x), x # r PROVE Holds(w, x)
    <3>1. PICK j \in 1..Len(q) : q[j] = x
      BY <2>2 DEF Holds
    <3>2. j # k
      BY <3>1, <2>2, <1>1
    <3>3. CASE j < k
      <4>1. j \in 1..Len(w) /\ w[j] = x
        BY <3>3, <3>1, <1>1, <1>2, <1>6
      <4> QED BY <4>1 DEF Holds
    <3>4. CASE j > k
      <4>1. j - 1 \in 1..Len(w) /\ w[j - 1] = q[(j - 1) + 1] /\ (j - 1) + 1 = j
        BY <3>4, <3>1, <1>1, <1>2, <1>6
      <4> QED BY <4>1, <3>1 DEF Holds
    <3> QED BY <3>2, <3>3, <3>4, <3>1, <1>1, <1>2
  <2> QED BY <2>1, <2>2
<1> QED BY <1>7, <1>8 DEF w

-------------------------------------------------------------------------------
(* Type correctness *)

\* What settling does to the promises, whatever the code.
LEMMA SettleTypes ==
  ASSUME TypeOK, NEW S, NEW code \in [Requests -> Outcomes],
         Settle(S, code)
  PROVE  /\ state' \in [Requests -> States]
         /\ outcome' \in [Requests -> Outcomes]
BY DEF TypeOK, Settle, States

\* execute() refuses with one of the error codes.
LEMMA RefusalType == ASSUME NEW r \in Requests PROVE Refusal(r) \in Outcomes
BY RequestAssumption DEF Refusal, Outcomes

\* Drained queues are queues.
LEMMA EmptyQueuesType == EmptyQueues \in [Classes -> Seq(Requests)]
BY EmptySeq DEF EmptyQueues

\* A new supervisor has the right types.
LEMMA InitTypeOK == Init => TypeOK
<1> SUFFICES ASSUME Init PROVE TypeOK
  OBVIOUS
<1>1. queue \in [Classes -> Seq(Requests)]
  BY EmptyQueuesType DEF Init
<1>2. toWorker \in Seq(Message)
  BY EmptySeq DEF Init
<1>3. consecutiveReads \in 0..ReadBurst
  BY BoundAssumption DEF Init
<1> QED BY <1>1, <1>2, <1>3 DEF Init, TypeOK, States, Outcomes, Phases

\* What sending a request, or failing to send it, does to the types.
LEMMA SendTypes ==
  ASSUME TypeOK, NEW r \in Requests, Send(r)
  PROVE  /\ state' \in [Requests -> States]
         /\ outcome' \in [Requests -> Outcomes]
         /\ inFlight' \subseteq Requests
         /\ toWorker' \in Seq(Message)
<1>1. CASE r \in Unsendable
  <2>1. "ATLAS_WORKER_UNAVAILABLE" \in Outcomes
    BY DEF Outcomes
  <2> QED BY <1>1, <2>1, SettleTypes DEF Send, SettleOne, Same, TypeOK
<1>2. CASE r \notin Unsendable
  <2>1. PICK expired \in BOOLEAN :
          toWorker' = Append(toWorker, [type |-> "request", id |-> r, expired |-> expired])
    BY <1>2 DEF Send
  <2>2. [type |-> "request", id |-> r, expired |-> expired] \in Message
    BY DEF Message
  <2>3. toWorker' \in Seq(Message)
    BY <2>1, <2>2, AppendProperties DEF TypeOK
  <2> QED BY <1>2, <2>3 DEF Send, TypeOK, States
<1> QED BY <1>1, <1>2

\* The same when one request is settled.
LEMMA SettleOneTypes ==
  ASSUME TypeOK, NEW r \in Requests, NEW code \in Outcomes, SettleOne(r, code)
  PROVE  /\ state' \in [Requests -> States]
         /\ outcome' \in [Requests -> Outcomes]
BY SettleTypes DEF SettleOne, Same

\* The codes the supervisor itself settles requests with.
LEMMA CodeTypes ==
  /\ {"ATLAS_CLOSED", "ATLAS_TIMEOUT", "ATLAS_CANCELLED", "ATLAS_WORKER_UNAVAILABLE",
      "ATLAS_RESULT_TOO_LARGE", "ATLAS_INDETERMINATE_WRITE", "lost"} \subseteq Outcomes
  /\ Replies \subseteq Outcomes
  /\ \A r \in Requests, code \in Outcomes : Unheard(r, code) \in Outcomes
  /\ \A r \in Requests : CancelCodes(r) \subseteq Outcomes
BY DEF Outcomes, InputDefects, Unheard, CancelCodes

\* What dispatching the head of a queue does to the queues.
LEMMA DispatchTypes ==
  ASSUME TypeOK, NEW c \in Classes, queue[c] # <<>>, Dispatch(c)
  PROVE  /\ Head(queue[c]) \in Requests
         /\ queue' \in [Classes -> Seq(Requests)]
         /\ state' \in [Requests -> States]
         /\ outcome' \in [Requests -> Outcomes]
         /\ inFlight' \subseteq Requests
         /\ toWorker' \in Seq(Message)
         /\ UNCHANGED <<pumping, phase, failed>>
<1>1. queue[c] \in Seq(Requests)
  BY DEF TypeOK
<1>2. Head(queue[c]) \in Requests /\ Tail(queue[c]) \in Seq(Requests)
  BY <1>1, HeadTailProperties
<1>3. queue' \in [Classes -> Seq(Requests)]
  BY <1>2 DEF Dispatch, TypeOK
<1> QED BY <1>2, <1>3, SendTypes DEF Dispatch

\* The class whose turn it is has a request queued.
LEMMA ExclusiveClassType ==
  ExclusiveQueued => ExclusiveClass \in Classes \ {"db-read"} /\ queue[ExclusiveClass] # <<>>
BY DEF ExclusiveQueued, ExclusiveClass, Classes

\* The close message is a message.
LEMMA PostCloseTypes == ASSUME TypeOK, PostClose PROVE toWorker' \in Seq(Message)
<1>1. [type |-> "close"] \in Message
  BY DEF Message
<1> QED BY <1>1, AppendProperties DEF PostClose, TypeOK

\* The phases that the handlers name.
LEMMA PhaseTypes == Open \in BOOLEAN /\ {"open", "draining", "released", "closed"} = Phases
BY DEF Open, Phases

\* Every handler preserves the types.
LEMMA NextTypeOK == TypeOK /\ [Next]_vars => TypeOK'
<1> SUFFICES ASSUME TypeOK, [Next]_vars PROVE TypeOK'
  OBVIOUS
<1> USE RequestAssumption, BoundAssumption
<1>1. ASSUME NEW r \in Requests, Refuse(r) PROVE TypeOK'
  BY <1>1, RefusalType, SettleOneTypes DEF Refuse, TypeOK
<1>2. ASSUME NEW r \in Requests, Admit(r) PROVE TypeOK'
  <2>1. Append(queue[WorkClass[r]], r) \in Seq(Requests)
    BY AppendProperties DEF TypeOK
  <2>2. queue' \in [Classes -> Seq(Requests)]
    BY <1>2, <2>1 DEF Admit, TypeOK
  <2> QED BY <1>2, <2>2, PhaseTypes DEF Admit, Pump, TypeOK, States
<1>3. ASSUME NEW r \in Requests, CancelQueued(r) PROVE TypeOK'
  <2>1. PICK code \in CancelCodes(r) : SettleOne(r, code)
    BY <1>3 DEF CancelQueued
  <2>2. Without(queue[WorkClass[r]], r) \in Seq(Requests)
    BY <1>3, WithoutEntries DEF CancelQueued, TypeOK
  <2> QED BY <1>3, <2>1, <2>2, CodeTypes, SettleOneTypes, PhaseTypes
          DEF CancelQueued, Pump, TypeOK
<1>4. ASSUME NEW r \in Requests, CancelDispatched(r) PROVE TypeOK'
  <2>1. PICK code \in CancelCodes(r) : SettleOne(r, Unheard(r, code))
    BY <1>4 DEF CancelDispatched
  <2>2. Unheard(r, code) \in Outcomes
    BY <2>1, CodeTypes
  <2> QED BY <1>4, <2>1, <2>2, SettleOneTypes, PhaseTypes DEF CancelDispatched, Pump, TypeOK
<1>5. ASSUME NEW r \in Requests, NEW reply \in Replies, HandleResponse(r, reply) PROVE TypeOK'
  <2>1. (IF reply = "OK" /\ r \in Oversize THEN "ATLAS_RESULT_TOO_LARGE" ELSE reply) \in Outcomes
    BY CodeTypes
  <2> QED BY <1>5, <2>1, SettleOneTypes, PhaseTypes DEF HandleResponse, Pump, TypeOK
<1>6. ASSUME NEW r \in Requests, Renew(r) PROVE TypeOK'
  BY <1>6 DEF Renew, TypeOK, States, Outcomes
<1>7. ASSUME DispatchRead PROVE TypeOK'
  <2>1. queue["db-read"] # <<>> /\ "db-read" \in Classes
    BY <1>7 DEF DispatchRead, ReadReady, Classes
  <2>2. consecutiveReads' \in 0..ReadBurst
    BY <1>7 DEF DispatchRead, TypeOK
  <2> QED BY <1>7, <2>1, <2>2, DispatchTypes DEF DispatchRead, TypeOK
<1>8. ASSUME DispatchExclusive PROVE TypeOK'
  <2>1. ExclusiveClass \in Classes /\ queue[ExclusiveClass] # <<>>
    BY <1>8, ExclusiveClassType DEF DispatchExclusive, ExclusiveReady
  <2>2. consecutiveReads' \in 0..ReadBurst
    BY <1>8 DEF DispatchExclusive
  <2> QED BY <1>8, <2>1, <2>2, DispatchTypes DEF DispatchExclusive, TypeOK
<1>9. ASSUME PumpDone PROVE TypeOK'
  BY <1>9 DEF PumpDone, TypeOK
<1>10. ASSUME HandleFailure PROVE TypeOK'
  <2>1. [r \in Requests |-> IF r \in inFlight THEN Unheard(r, "ATLAS_WORKER_UNAVAILABLE")
                                             ELSE "ATLAS_WORKER_UNAVAILABLE"]
          \in [Requests -> Outcomes]
    BY CodeTypes
  <2> QED BY <1>10, <2>1, SettleTypes, EmptyQueuesType DEF HandleFailure, TypeOK
<1>11. ASSUME Close PROVE TypeOK'
  <2>1. Same("ATLAS_CLOSED") \in [Requests -> Outcomes]
    BY CodeTypes DEF Same
  <2> QED BY <1>11, <2>1, SettleTypes, EmptyQueuesType, PostCloseTypes, PhaseTypes
          DEF Close, TypeOK
<1>12. ASSUME Release PROVE TypeOK'
  <2>1. [r \in Requests |-> Unheard(r, "ATLAS_CLOSED")] \in [Requests -> Outcomes]
    BY CodeTypes
  <2> QED BY <1>12, <2>1, SettleTypes, PostCloseTypes, PhaseTypes DEF Release, TypeOK
<1>13. ASSUME EndpointClosed PROVE TypeOK'
  BY <1>13, EmptySeq DEF EndpointClosed, TypeOK, Phases
<1>14. ASSUME EndpointReceive PROVE TypeOK'
  BY <1>14, HeadTailProperties DEF EndpointReceive, TypeOK
<1>15. ASSUME Kill PROVE TypeOK'
  <2>1. Same("lost") \in [Requests -> Outcomes]
    BY CodeTypes DEF Same
  <2> QED BY <1>15, <2>1, SettleTypes, EmptyQueuesType, PhaseTypes, EmptySeq DEF Kill, TypeOK
<1>16. ASSUME Reopen PROVE TypeOK'
  <2>1. toWorker' \in Seq(Message)
    BY <1>16, EmptySeq DEF Reopen
  <2>2. consecutiveReads' \in 0..ReadBurst
    BY <1>16 DEF Reopen
  <2> QED BY <1>16, <2>1, <2>2, EmptyQueuesType, PhaseTypes DEF Reopen, TypeOK
<1>17. ASSUME UNCHANGED vars PROVE TypeOK'
  BY <1>17 DEF vars, TypeOK
<1> QED BY <1>1, <1>2, <1>3, <1>4, <1>5, <1>6, <1>7, <1>8, <1>9, <1>10, <1>11, <1>12,
           <1>13, <1>14, <1>15, <1>16, <1>17 DEF Next, Loop

\* A promise never settles with anything but an acknowledgement or one of the
\* error codes, and every queue holds requests only, whatever the worker answers.
THEOREM TypeCorrect == Spec => []TypeOK
BY InitTypeOK, NextTypeOK, PTL DEF Spec

-------------------------------------------------------------------------------
(* Every accepted request is held exactly once until it is settled *)

\* pump() only runs in an open supervisor, and close() leaves nothing queued:
\* what HeldOnce and ShutdownSettlesAll need to survive close().
CloseDrains ==
  /\ pumping => Open
  /\ ~Open => \A r \in Requests : state[r] # "queued"

HeldInv == TypeOK /\ HeldOnce /\ CloseDrains /\ ShutdownSettlesAll

\* Settling changes no promise but those it names.
LEMMA SettleStates ==
  ASSUME NEW S, NEW code, Settle(S, code), NEW r \in Requests
  PROVE  state'[r] = IF r \in S THEN "settled" ELSE state[r]
BY DEF Settle

\* The same for one promise.
LEMMA SettleOneStates ==
  ASSUME NEW s, NEW code, SettleOne(s, code), NEW r \in Requests
  PROVE  state'[r] = IF r = s THEN "settled" ELSE state[r]
BY SettleStates DEF SettleOne

\* The queues stay exact while they and the set of queued requests are unchanged.
LEMMA QueuesKept ==
  ASSUME QueuesExact, UNCHANGED queue,
         \A r \in Requests : state'[r] = "queued" <=> state[r] = "queued"
  PROVE  QueuesExact'
BY DEF QueuesExact

\* Draining them together with settling all that was queued keeps them exact.
LEMMA QueuesEmptied ==
  ASSUME queue' = EmptyQueues, \A r \in Requests : state'[r] # "queued"
  PROVE  QueuesExact'
BY EmptyQueue DEF QueuesExact, EmptyQueues

\* So does admitting a request,
LEMMA QueuesAppended ==
  ASSUME TypeOK, QueuesExact, NEW r \in Requests, state[r] # "queued",
         queue' = [queue EXCEPT ![WorkClass[r]] = Append(@, r)],
         state' = [state EXCEPT ![r] = "queued"]
  PROVE  QueuesExact'
<1> DEFINE c == WorkClass[r]
<1>1. c \in Classes
  BY RequestAssumption
<1>2. queue[c] \in Seq(Requests) /\ NoRepeats(queue[c]) /\ ~Holds(queue[c], r)
  BY <1>1 DEF QueuesExact, TypeOK
<1>3. NoRepeats(queue'[c]) /\ \A x : Holds(queue'[c], x) <=> Holds(queue[c], x) \/ x = r
  BY <1>1, <1>2, AppendToQueue DEF TypeOK
<1>4. \A d \in Classes \ {c} : queue'[d] = queue[d]
  BY DEF TypeOK
<1>5. \A x \in Requests : state'[x] = IF x = r THEN "queued" ELSE state[x]
  BY DEF TypeOK
<1> HIDE DEF c
<1>6. ASSUME NEW d \in Classes, NEW x \in Requests
      PROVE  Holds(queue'[d], x) <=> state'[x] = "queued" /\ WorkClass[x] = d
  <2>1. CASE d = c
    BY <2>1, <1>3, <1>5 DEF QueuesExact, c
  <2>2. CASE d # c
    BY <2>2, <1>4, <1>5 DEF QueuesExact, c
  <2> QED BY <2>1, <2>2
<1>7. ASSUME NEW d \in Classes PROVE NoRepeats(queue'[d])
  BY <1>3, <1>4 DEF QueuesExact
<1> QED BY <1>6, <1>7 DEF QueuesExact

\* and so does removing one that is no longer queued.
LEMMA QueuesShortened ==
  ASSUME QueuesExact, NEW c \in Classes, NEW r \in Requests, NEW q,
         queue \in [Classes -> Seq(Requests)], Holds(queue[c], r),
         queue' = [queue EXCEPT ![c] = q],
         NoRepeats(q), \A x : Holds(q, x) <=> Holds(queue[c], x) /\ x # r,
         \A x \in Requests : state'[x] = "queued" <=> state[x] = "queued" /\ x # r
  PROVE  QueuesExact'
<1>1. queue'[c] = q /\ \A d \in Classes \ {c} : queue'[d] = queue[d]
  OBVIOUS
<1>2. WorkClass[r] = c
  BY DEF QueuesExact
<1>3. ASSUME NEW d \in Classes, NEW x \in Requests
      PROVE  Holds(queue'[d], x) <=> state'[x] = "queued" /\ WorkClass[x] = d
  <2>1. CASE d = c
    BY <2>1, <1>1 DEF QueuesExact
  <2>2. CASE d # c
    BY <2>2, <1>1, <1>2 DEF QueuesExact
  <2> QED BY <2>1, <2>2
<1>4. ASSUME NEW d \in Classes PROVE NoRepeats(queue'[d])
  BY <1>1 DEF QueuesExact
<1> QED BY <1>3, <1>4 DEF QueuesExact

\* A turn of the pump() loop moves the head of a queue into the in-flight map,
\* or settles it when it cannot be sent.
LEMMA DispatchHolds ==
  ASSUME HeldInv, Open, NEW c \in Classes, queue[c] # <<>>, Dispatch(c)
  PROVE  HeldOnce' /\ CloseDrains' /\ ShutdownSettlesAll'
<1> DEFINE r == Head(queue[c])
<1>1. queue[c] \in Seq(Requests) /\ NoRepeats(queue[c])
  BY DEF HeldInv, TypeOK, HeldOnce, QueuesExact
<1>2. /\ r \in Requests
      /\ Holds(queue[c], r)
      /\ NoRepeats(Tail(queue[c]))
      /\ \A x : Holds(Tail(queue[c]), x) <=> Holds(queue[c], x) /\ x # r
  BY <1>1, TailOfQueue
<1>3. queue' = [queue EXCEPT ![c] = Tail(queue[c])] /\ Send(r) /\ UNCHANGED <<phase, pumping>>
  BY DEF Dispatch
<1> HIDE DEF r
<1>4. \A x \in Requests \ {r} : state'[x] = state[x]
  BY <1>2, <1>3, SettleOneStates DEF Send, HeldInv, TypeOK
<1>5. \/ state'[r] = "settled" /\ inFlight' = inFlight
      \/ state'[r] = "dispatched" /\ inFlight' = inFlight \cup {r}
  BY <1>2, <1>3, SettleOneStates DEF Send, HeldInv, TypeOK
<1>6. QueuesExact'
  <2>1. \A x \in Requests : state'[x] = "queued" <=> state[x] = "queued" /\ x # r
    BY <1>4, <1>5
  <2> QED BY <2>1, <1>2, <1>3, QueuesShortened DEF HeldInv, HeldOnce, TypeOK
<1>7. state[r] = "queued"
  BY <1>2 DEF HeldInv, HeldOnce, QueuesExact
<1>8. InFlightExact'
  BY <1>2, <1>3, <1>4, <1>5, <1>7 DEF HeldInv, HeldOnce, InFlightExact, Subscribed, TypeOK
<1>9. CloseDrains' /\ ShutdownSettlesAll'
  BY <1>3 DEF CloseDrains, ShutdownSettlesAll, Open, Subscribed
<1> QED BY <1>6, <1>8, <1>9 DEF HeldOnce

\* A new supervisor holds nothing.
LEMMA InitHeld == Init => HeldInv
<1> SUFFICES ASSUME Init PROVE HeldInv
  OBVIOUS
<1>1. QueuesExact
  BY EmptyQueue DEF Init, QueuesExact, EmptyQueues
<1>2. InFlightExact
  BY DEF Init, InFlightExact
<1> QED BY <1>1, <1>2, InitTypeOK
        DEF Init, HeldInv, HeldOnce, CloseDrains, ShutdownSettlesAll, Open, Subscribed

\* The parts of HeldInv that speak of the in-flight map and of shutdown.
Drains == InFlightExact /\ CloseDrains /\ ShutdownSettlesAll

\* One request leaves the map as it is settled.
LEMMA OneSettled ==
  ASSUME Drains, NEW r \in Requests, UNCHANGED phase, pumping' => Open,
         \A x \in Requests : state'[x] = IF x = r THEN "settled" ELSE state[x],
         inFlight' \subseteq inFlight, inFlight \subseteq Requests,
         Subscribed => inFlight' = inFlight \ {r}
  PROVE  Drains'
<1>1. (Open' <=> Open) /\ (Subscribed' <=> Subscribed)
  BY DEF Open, Subscribed
<1>2. CloseDrains' /\ ShutdownSettlesAll'
  BY <1>1 DEF Drains, CloseDrains, ShutdownSettlesAll
<1>3. ASSUME NEW x \in Requests, state'[x] = "dispatched" PROVE x \in inFlight'
  <2>1. x # r /\ state[x] = "dispatched"
    BY <1>3
  <2>2. x \in inFlight /\ Subscribed
    BY <2>1 DEF Drains, InFlightExact, ShutdownSettlesAll
  <2> QED BY <2>1, <2>2
<1>4. ASSUME Subscribed', NEW x \in inFlight' PROVE state'[x] = "dispatched"
  BY <1>1, <1>4 DEF Drains, InFlightExact
<1>5. InFlightExact'
  <2>1. \A x \in Requests : state'[x] = "dispatched" => x \in inFlight'
    BY <1>3
  <2>2. ASSUME Subscribed' PROVE \A x \in inFlight' : state'[x] = "dispatched"
    BY <1>4, <2>2
  <2> QED BY <2>1, <2>2 DEF InFlightExact
<1> QED BY <1>2, <1>5 DEF Drains

\* Every accepted request is settled at once.
LEMMA AllSettled ==
  ASSUME \A x \in Requests : state'[x] \notin {"queued", "dispatched"},
         Subscribed' => inFlight' = {}, pumping' => Open'
  PROVE  Drains'
BY DEF Drains, InFlightExact, CloseDrains, ShutdownSettlesAll

\* Nothing that concerns the map happens.
LEMMA Undisturbed ==
  ASSUME Drains, UNCHANGED inFlight, inFlight \subseteq Requests,
         \A x \in Requests : /\ state'[x] = "queued" <=> state[x] = "queued"
                             /\ state'[x] = "dispatched" <=> state[x] = "dispatched",
         Open' <=> Open, Subscribed' <=> Subscribed, pumping' => Open
  PROVE  Drains'
<1>1. InFlightExact'
  BY DEF Drains, InFlightExact
<1>2. CloseDrains' /\ ShutdownSettlesAll'
  BY DEF Drains, CloseDrains, ShutdownSettlesAll
<1> QED BY <1>1, <1>2 DEF Drains

\* Every handler and every turn of the loop preserves the invariant.
LEMMA NextHeld == HeldInv /\ [Next]_vars => HeldInv'
<1> SUFFICES ASSUME HeldInv, [Next]_vars PROVE HeldInv'
  OBVIOUS
<1>0. /\ TypeOK /\ TypeOK' /\ QueuesExact /\ Drains
      /\ inFlight \subseteq Requests
  BY NextTypeOK DEF HeldInv, HeldOnce, Drains, TypeOK
<1>1. ASSUME NEW r \in Requests, Refuse(r) PROVE QueuesExact' /\ Drains'
  <2>1. \A x \in Requests : state'[x] = IF x = r THEN "settled" ELSE state[x]
    BY <1>1, SettleOneStates DEF Refuse
  <2>2. QueuesExact'
    BY <1>0, <1>1, <2>1, QueuesKept DEF Refuse
  <2>3. Subscribed => r \notin inFlight
    BY <1>0, <1>1 DEF Refuse, Drains, InFlightExact
  <2>4. Subscribed => inFlight' = inFlight \ {r}
    BY <1>1, <2>3 DEF Refuse
  <2>5. inFlight' \subseteq inFlight /\ UNCHANGED phase /\ (pumping' => Open)
    BY <1>1 DEF Refuse
  <2> QED BY <1>0, <2>1, <2>2, <2>4, <2>5, OneSettled
<1>2. ASSUME NEW r \in Requests, Admit(r) PROVE QueuesExact' /\ Drains'
  <2>1. QueuesExact'
    BY <1>0, <1>2, QueuesAppended DEF Admit
  <2>2. Open /\ Open' /\ Subscribed /\ Subscribed'
    BY <1>2 DEF Admit, Refusal, Open, Subscribed
  <2>3. \A x \in Requests : state'[x] = "dispatched" <=> state[x] = "dispatched"
    BY <1>0, <1>2 DEF Admit, TypeOK
  <2>4. InFlightExact'
    BY <1>0, <1>2, <2>2, <2>3 DEF Admit, Drains, InFlightExact
  <2> QED BY <2>1, <2>2, <2>4 DEF Drains, CloseDrains, ShutdownSettlesAll
<1>3. ASSUME NEW r \in Requests, CancelQueued(r) PROVE QueuesExact' /\ Drains'
  <2>1. \A x \in Requests : state'[x] = IF x = r THEN "settled" ELSE state[x]
    BY <1>3, SettleOneStates DEF CancelQueued
  <2>2. WorkClass[r] \in Classes
    BY RequestAssumption
  <2>3. queue[WorkClass[r]] \in Seq(Requests) /\ NoRepeats(queue[WorkClass[r]])
    BY <1>0, <2>2 DEF TypeOK, QueuesExact
  <2>4. QueuesExact'
    <3>1. /\ NoRepeats(Without(queue[WorkClass[r]], r))
          /\ \A x : Holds(Without(queue[WorkClass[r]], r), x)
                      <=> Holds(queue[WorkClass[r]], x) /\ x # r
      BY <1>3, <2>3, WithoutOfQueue DEF CancelQueued
    <3> QED BY <1>0, <1>3, <2>1, <2>2, <3>1, QueuesShortened DEF CancelQueued, TypeOK
  <2>5. Subscribed => r \notin inFlight
    <3>1. state[r] = "queued"
      BY <1>0, <1>3, <2>2 DEF CancelQueued, QueuesExact
    <3> QED BY <1>0, <3>1 DEF Drains, InFlightExact
  <2>6. Subscribed => inFlight' = inFlight \ {r}
    BY <1>3, <2>5 DEF CancelQueued
  <2>7. inFlight' \subseteq inFlight /\ UNCHANGED phase /\ (pumping' => Open)
    BY <1>3 DEF CancelQueued, Pump
  <2> QED BY <1>0, <2>1, <2>4, <2>6, <2>7, OneSettled
<1>4. ASSUME NEW r \in Requests, CancelDispatched(r) PROVE QueuesExact' /\ Drains'
  <2>1. \A x \in Requests : state'[x] = IF x = r THEN "settled" ELSE state[x]
    BY <1>4, SettleOneStates DEF CancelDispatched
  <2>2. QueuesExact'
    BY <1>0, <1>4, <2>1, QueuesKept DEF CancelDispatched
  <2>3. inFlight' = inFlight \ {r} /\ UNCHANGED phase /\ (pumping' => Open)
    BY <1>4 DEF CancelDispatched, Pump
  <2> QED BY <1>0, <2>1, <2>2, <2>3, OneSettled
<1>5. ASSUME NEW r \in Requests, NEW reply \in Replies, HandleResponse(r, reply)
      PROVE  QueuesExact' /\ Drains'
  <2>1. \A x \in Requests : state'[x] = IF x = r THEN "settled" ELSE state[x]
    BY <1>5, SettleOneStates DEF HandleResponse
  <2>2. state[r] = "dispatched"
    BY <1>0, <1>5 DEF HandleResponse, Drains, InFlightExact
  <2>3. QueuesExact'
    BY <1>0, <1>5, <2>1, <2>2, QueuesKept DEF HandleResponse
  <2>4. inFlight' = inFlight \ {r} /\ UNCHANGED phase /\ (pumping' => Open)
    BY <1>5 DEF HandleResponse, Pump
  <2> QED BY <1>0, <2>1, <2>3, <2>4, OneSettled
<1>6. ASSUME NEW r \in Requests, Renew(r) PROVE QueuesExact' /\ Drains'
  <2>1. \A x \in Requests : state'[x] = IF x = r THEN "created" ELSE state[x]
    BY <1>0, <1>6 DEF Renew, TypeOK
  <2>2. \A x \in Requests : /\ state'[x] = "queued" <=> state[x] = "queued"
                            /\ state'[x] = "dispatched" <=> state[x] = "dispatched"
    BY <1>6, <2>1 DEF Renew
  <2>3. UNCHANGED <<queue, inFlight, phase, pumping>>
    BY <1>6 DEF Renew
  <2> QED BY <1>0, <2>2, <2>3, QueuesKept, Undisturbed DEF Open, Subscribed, Drains, CloseDrains
<1>7. ASSUME DispatchRead PROVE QueuesExact' /\ Drains'
  BY <1>7, DispatchHolds DEF DispatchRead, ReadReady, Classes, HeldInv, CloseDrains, HeldOnce, Drains
<1>8. ASSUME DispatchExclusive PROVE QueuesExact' /\ Drains'
  <2>1. ExclusiveClass \in Classes /\ queue[ExclusiveClass] # <<>>
    BY <1>8, ExclusiveClassType DEF DispatchExclusive, ExclusiveReady
  <2> QED BY <1>8, <2>1, DispatchHolds DEF DispatchExclusive, HeldInv, CloseDrains, HeldOnce, Drains
<1>9. ASSUME PumpDone \/ EndpointReceive \/ UNCHANGED vars PROVE QueuesExact' /\ Drains'
  <2>1. UNCHANGED <<queue, inFlight, state, phase>> /\ (pumping' => pumping)
    BY <1>9 DEF PumpDone, EndpointReceive, vars
  <2> QED BY <1>0, <2>1, QueuesKept, Undisturbed DEF Open, Subscribed, Drains, CloseDrains
<1>10. ASSUME HandleFailure PROVE QueuesExact' /\ Drains'
  <2>1. \A x \in Requests : state'[x] = IF x \in inFlight \cup Queued THEN "settled" ELSE state[x]
    BY <1>10, SettleStates DEF HandleFailure
  <2>2. \A x \in Requests : state'[x] \notin {"queued", "dispatched"}
    BY <1>0, <2>1 DEF Queued, Drains, InFlightExact
  <2>3. queue' = EmptyQueues /\ inFlight' = {} /\ (pumping' => Open')
    BY <1>10 DEF HandleFailure
  <2> QED BY <2>2, <2>3, QueuesEmptied, AllSettled
<1>11. ASSUME Close PROVE QueuesExact' /\ Drains'
  <2>1. \A x \in Requests : state'[x] = IF x \in Queued THEN "settled" ELSE state[x]
    BY <1>11, SettleStates DEF Close
  <2>2. \A x \in Requests : state'[x] # "queued"
    BY <2>1 DEF Queued
  <2>3. QueuesExact'
    BY <1>11, <2>2, QueuesEmptied DEF Close
  <2>4. \A x \in Requests : state'[x] = "dispatched" <=> state[x] = "dispatched"
    BY <2>1 DEF Queued
  <2>5. /\ UNCHANGED inFlight /\ pumping' = FALSE
        /\ Subscribed /\ (~Subscribed' => inFlight = {})
    BY <1>11, <1>0 DEF Close, Open, Subscribed, TypeOK
  <2>6. InFlightExact'
    BY <1>0, <2>4, <2>5 DEF Drains, InFlightExact
  <2>7. CloseDrains'
    BY <2>2, <2>5 DEF CloseDrains
  <2>8. ShutdownSettlesAll'
    BY <1>0, <2>2, <2>4, <2>5 DEF Drains, InFlightExact, ShutdownSettlesAll
  <2> QED BY <2>3, <2>6, <2>7, <2>8 DEF Drains
<1>12. ASSUME Release PROVE QueuesExact' /\ Drains'
  <2>1. \A x \in Requests : state'[x] = IF x \in inFlight THEN "settled" ELSE state[x]
    BY <1>12, SettleStates DEF Release
  <2>2. \A x \in Requests : state[x] # "queued"
    BY <1>0, <1>12 DEF Release, Drains, CloseDrains, Open
  <2>3. \A x \in Requests : state'[x] \notin {"queued", "dispatched"}
    BY <1>0, <2>1, <2>2 DEF Drains, InFlightExact
  <2>4. UNCHANGED queue /\ ~Subscribed' /\ pumping' = FALSE
    BY <1>12 DEF Release, Subscribed
  <2> QED BY <1>0, <2>2, <2>3, <2>4, QueuesKept, AllSettled
<1>13. ASSUME EndpointClosed PROVE QueuesExact' /\ Drains'
  <2>1. UNCHANGED <<queue, inFlight, state, pumping>>
    BY <1>13 DEF EndpointClosed
  <2>2. ~Open /\ ~Open' /\ ~Subscribed /\ ~Subscribed'
    BY <1>13 DEF EndpointClosed, Open, Subscribed
  <2> QED BY <1>0, <2>1, <2>2, QueuesKept, Undisturbed DEF Drains, CloseDrains
<1>15. ASSUME Kill PROVE QueuesExact' /\ Drains'
  <2>1. \A x \in Requests : state'[x] \notin {"queued", "dispatched"}
    BY <1>15, SettleStates DEF Kill
  <2>2. queue' = EmptyQueues /\ inFlight' = {} /\ ~pumping'
    BY <1>15 DEF Kill
  <2> QED BY <2>1, <2>2, QueuesEmptied, AllSettled
<1>16. ASSUME Reopen PROVE QueuesExact' /\ Drains'
  <2>1. \A x \in Requests : state'[x] \notin {"queued", "dispatched"}
    BY <1>0, <1>16 DEF Reopen, Drains, ShutdownSettlesAll, Subscribed
  <2>2. queue' = EmptyQueues /\ inFlight' = {} /\ ~pumping'
    BY <1>16 DEF Reopen
  <2> QED BY <2>1, <2>2, QueuesEmptied, AllSettled
<1>18. QueuesExact' /\ Drains'
  BY <1>1, <1>2, <1>3, <1>4, <1>5, <1>6, <1>7, <1>8, <1>9, <1>10, <1>11, <1>12,
     <1>13, <1>15, <1>16 DEF Next, Loop
<1> QED BY <1>0, <1>18 DEF HeldInv, HeldOnce, Drains

\* No accepted request is ever dropped or kept twice: the queues and the in-flight
\* map hold exactly the requests whose promises are pending, whatever order
\* responses, timers, aborts, failures and shutdown come in.
THEOREM NothingForgotten == Spec => []HeldOnce
<1>1. HeldInv => HeldOnce
  BY DEF HeldInv
<1> QED BY <1>1, InitHeld, NextHeld, PTL DEF Spec

\* Once closeInternal has removed its listeners no accepted request is pending,
\* whatever was queued or in flight when close() was called.
THEOREM ShutdownComplete == Spec => []ShutdownSettlesAll
<1>1. HeldInv => ShutdownSettlesAll
  BY DEF HeldInv
<1> QED BY <1>1, InitHeld, NextHeld, PTL DEF Spec

-------------------------------------------------------------------------------
(* A promise is settled once *)

\* settle() returns early on a settled promise.
LEMMA SettleKeeps ==
  ASSUME NEW S, NEW code, Settle(S, code), NEW x \in Requests, state[x] = "settled"
  PROVE  state'[x] = "settled" /\ outcome'[x] = outcome[x]
BY DEF Settle

Kept(x) == \/ state'[x] = "settled" /\ outcome'[x] = outcome[x]
           \/ x \in Recurring /\ state'[x] = "created"

\* What the pump() loop dispatches or fails to send was queued, not settled.
LEMMA DispatchKeeps ==
  ASSUME HeldInv, NEW c \in Classes, queue[c] # <<>>, Dispatch(c),
         NEW x \in Requests, state[x] = "settled"
  PROVE  state'[x] = "settled" /\ outcome'[x] = outcome[x]
<1> DEFINE r == Head(queue[c])
<1>1. queue[c] \in Seq(Requests) /\ NoRepeats(queue[c])
  BY DEF HeldInv, TypeOK, HeldOnce, QueuesExact
<1>2. r \in Requests /\ Holds(queue[c], r)
  BY <1>1, TailOfQueue
<1>3. state[r] = "queued" /\ x # r
  BY <1>2 DEF HeldInv, HeldOnce, QueuesExact
<1>4. Send(r)
  BY DEF Dispatch
<1> HIDE DEF r
<1>5. CASE r \in Unsendable
  BY <1>4, <1>5, SettleKeeps DEF Send, SettleOne
<1>6. CASE r \notin Unsendable
  BY <1>3, <1>4, <1>6 DEF Send, HeldInv, TypeOK
<1> QED BY <1>5, <1>6

\* No step but a new request under a recycled id disturbs a settled promise.
LEMMA NextKeeps ==
  ASSUME HeldInv, [Next]_vars, NEW x \in Requests, state[x] = "settled"
  PROVE  Kept(x)
<1>0. TypeOK
  BY DEF HeldInv
<1>1. ASSUME NEW r \in Requests, Refuse(r) PROVE Kept(x)
  BY <1>1, SettleKeeps DEF Refuse, SettleOne, Kept
<1>2. ASSUME NEW r \in Requests, Admit(r) PROVE Kept(x)
  BY <1>0, <1>2 DEF Admit, Kept, TypeOK
<1>3. ASSUME NEW r \in Requests, CancelQueued(r) PROVE Kept(x)
  BY <1>3, SettleKeeps DEF CancelQueued, SettleOne, Kept
<1>4. ASSUME NEW r \in Requests, CancelDispatched(r) PROVE Kept(x)
  BY <1>4, SettleKeeps DEF CancelDispatched, SettleOne, Kept
<1>5. ASSUME NEW r \in Requests, NEW reply \in Replies, HandleResponse(r, reply) PROVE Kept(x)
  BY <1>5, SettleKeeps DEF HandleResponse, SettleOne, Kept
<1>6. ASSUME NEW r \in Requests, Renew(r) PROVE Kept(x)
  BY <1>0, <1>6 DEF Renew, Kept, TypeOK
<1>7. ASSUME DispatchRead PROVE Kept(x)
  BY <1>7, DispatchKeeps DEF DispatchRead, ReadReady, Classes, Kept
<1>8. ASSUME DispatchExclusive PROVE Kept(x)
  <2>1. ExclusiveClass \in Classes /\ queue[ExclusiveClass] # <<>>
    BY <1>8, ExclusiveClassType DEF DispatchExclusive, ExclusiveReady
  <2> QED BY <1>8, <2>1, DispatchKeeps DEF DispatchExclusive, Kept
<1>9. ASSUME HandleFailure PROVE Kept(x)
  BY <1>9, SettleKeeps DEF HandleFailure, Kept
<1>10. ASSUME Close PROVE Kept(x)
  BY <1>10, SettleKeeps DEF Close, Kept
<1>11. ASSUME Release PROVE Kept(x)
  BY <1>11, SettleKeeps DEF Release, Kept
<1>12. ASSUME Kill PROVE Kept(x)
  BY <1>12, SettleKeeps DEF Kill, Kept
<1>13. ASSUME PumpDone \/ EndpointClosed \/ EndpointReceive \/ Reopen \/ UNCHANGED vars
       PROVE  Kept(x)
  BY <1>13 DEF PumpDone, EndpointClosed, EndpointReceive, Reopen, vars, Kept
<1> QED BY <1>1, <1>2, <1>3, <1>4, <1>5, <1>6, <1>7, <1>8, <1>9, <1>10, <1>11, <1>12, <1>13
        DEF Next, Loop

\* A settled promise never changes its outcome, whatever answers, timers, aborts,
\* failures and shutdowns follow it (settle() returns early on a settled request,
\* and no queue or map can bring one back).
THEOREM NoSecondOutcome == Spec => SettledOnce
<1>1. HeldInv /\ [Next]_vars =>
        [\A r \in Requests :
           state[r] = "settled" => \/ state'[r] = "settled" /\ outcome'[r] = outcome[r]
                                   \/ r \in Recurring /\ state'[r] = "created"]_vars
  BY NextKeeps DEF Kept
<1> QED BY <1>1, InitHeld, NextHeld, PTL DEF Spec, SettledOnce

-------------------------------------------------------------------------------
(* Writes are exclusive and reads are bounded *)

\* The in-flight map is finite, so that its size is a number.
ExclusiveInv == IsFiniteSet(inFlight) /\ WritesExclusive

\* Every step keeps writes alone in flight.
LEMMA NextExclusive == HeldInv /\ ExclusiveInv /\ [Next]_vars => ExclusiveInv'
<1> SUFFICES ASSUME HeldInv, ExclusiveInv, [Next]_vars PROVE ExclusiveInv'
  OBVIOUS
<1> USE BoundAssumption
\* Handlers only ever take requests out of the map.
<1>1. ASSUME inFlight' \subseteq inFlight PROVE ExclusiveInv'
  <2>1. /\ IsFiniteSet(inFlight') /\ Cardinality(inFlight') <= Cardinality(inFlight)
        /\ Cardinality(inFlight') \in Nat /\ Cardinality(inFlight) \in Nat
    BY <1>1, FS_Subset, FS_CardinalityType DEF ExclusiveInv
  <2>2. Cardinality(inFlight') <= MaxInFlightReads
    BY <2>1 DEF ExclusiveInv, WritesExclusive
  <2>3. \A r \in inFlight' : ~IsRead(r) => inFlight' = {r}
    BY <1>1 DEF ExclusiveInv, WritesExclusive
  <2> QED BY <2>1, <2>2, <2>3 DEF ExclusiveInv, WritesExclusive, IsRead
<1>2. ASSUME DispatchRead PROVE ExclusiveInv'
  <2> DEFINE r == Head(queue["db-read"])
  <2>1. IsRead(r)
    <3>1. /\ "db-read" \in Classes
          /\ queue["db-read"] \in Seq(Requests) /\ queue["db-read"] # <<>>
          /\ NoRepeats(queue["db-read"])
      BY <1>2 DEF DispatchRead, ReadReady, Classes, HeldInv, TypeOK, HeldOnce, QueuesExact
    <3>2. r \in Requests /\ Holds(queue["db-read"], r)
      BY <3>1, TailOfQueue
    <3> QED BY <3>1, <3>2 DEF HeldInv, HeldOnce, QueuesExact, IsRead
  <2>2. \A x \in inFlight : IsRead(x)
    BY <1>2 DEF DispatchRead, ReadReady, ExclusiveInFlight
  <2>3. ReadsInFlight = inFlight
    BY <2>2 DEF ReadsInFlight
  <2>4. Cardinality(inFlight) < MaxInFlightReads
    BY <1>2, <2>3 DEF DispatchRead, ReadReady
  <2>5. inFlight' = inFlight \/ inFlight' = inFlight \cup {r}
    BY <1>2 DEF DispatchRead, Dispatch, Send
  <2> HIDE DEF r
  <2>6. CASE inFlight' = inFlight \cup {r}
    <3>1. /\ IsFiniteSet(inFlight') /\ Cardinality(inFlight) \in Nat
          /\ \/ Cardinality(inFlight') = Cardinality(inFlight)
             \/ Cardinality(inFlight') = Cardinality(inFlight) + 1
      BY <2>6, FS_AddElement, FS_CardinalityType DEF ExclusiveInv
    <3>2. Cardinality(inFlight') <= MaxInFlightReads
      BY <2>4, <3>1
    <3>3. \A x \in inFlight' : IsRead(x)
      BY <2>1, <2>2, <2>6
    <3> QED BY <3>1, <3>2, <3>3 DEF ExclusiveInv, WritesExclusive, IsRead
  <2> QED BY <2>5, <2>6, <1>1
<1>3. ASSUME DispatchExclusive PROVE ExclusiveInv'
  <2> DEFINE r == Head(queue[ExclusiveClass])
  <2>1. inFlight = {} /\ (inFlight' = inFlight \/ inFlight' = inFlight \cup {r})
    BY <1>3 DEF DispatchExclusive, ExclusiveReady, Dispatch, Send
  <2> HIDE DEF r
  <2>2. CASE inFlight' = {r}
    <3>1. IsFiniteSet(inFlight') /\ Cardinality(inFlight') = 1
      BY <2>2, FS_Singleton
    <3>2. Cardinality(inFlight') <= MaxInFlightReads
      BY <3>1
    <3> QED BY <2>2, <3>1, <3>2 DEF ExclusiveInv, WritesExclusive, IsRead
  <2> QED BY <2>1, <2>2, <1>1
<1>4. \/ DispatchRead \/ DispatchExclusive
      \/ inFlight' \subseteq inFlight
  BY DEF Next, Loop, Refuse, Admit, CancelQueued, CancelDispatched, HandleResponse, Renew,
         PumpDone, HandleFailure, Close, Release, EndpointClosed, EndpointReceive, Kill,
         Reopen, vars
<1> QED BY <1>1, <1>2, <1>3, <1>4

\* A write, an indexing run or a backup is alone in flight, and never are more
\* than maxInFlightReads reads in flight, for every mix of requests and limits.
THEOREM ExclusiveWrites == Spec => []WritesExclusive
<1>1. Init => ExclusiveInv
  <2> SUFFICES ASSUME Init PROVE ExclusiveInv
    OBVIOUS
  <2>1. inFlight = {} /\ IsFiniteSet({}) /\ Cardinality({}) = 0
    BY FS_EmptySet DEF Init
  <2> QED BY <2>1, BoundAssumption DEF ExclusiveInv, WritesExclusive
<1>2. ExclusiveInv => WritesExclusive
  BY DEF ExclusiveInv
<1> QED BY <1>1, <1>2, InitHeld, NextHeld, NextExclusive, PTL DEF Spec

-------------------------------------------------------------------------------
(* No dispatchable request waits, and the queues stay within maxQueued *)

\* Every handler ends with the loop running or with nothing to dispatch.
LEMMA NextNotIdle == NothingIdle /\ [Next]_vars => NothingIdle'
<1> SUFFICES ASSUME NothingIdle, [Next]_vars, Open', ~pumping'
             PROVE  ~ReadReady' /\ ~ExclusiveReady'
  BY DEF NothingIdle
\* Whatever leaves the queues and the map alone leaves nothing more to dispatch.
<1>1. ASSUME UNCHANGED <<queue, inFlight>>, ~ReadReady, ~ExclusiveReady
      PROVE  ~ReadReady' /\ ~ExclusiveReady'
  BY <1>1 DEF ReadReady, ExclusiveReady, ExclusiveInFlight, ReadsInFlight, ExclusiveQueued, IsRead
<1>2. ASSUME queue' = EmptyQueues PROVE ~ReadReady' /\ ~ExclusiveReady'
  BY <1>2 DEF ReadReady, ExclusiveReady, ExclusiveQueued, EmptyQueues, Classes
<1>3. ASSUME UNCHANGED <<queue, inFlight, phase, pumping>> PROVE ~ReadReady' /\ ~ExclusiveReady'
  BY <1>1, <1>3 DEF NothingIdle, Open
<1>4. ASSUME NEW r \in Requests PROVE (~ReadReady' /\ ~ExclusiveReady')
         \/ ~(\/ Refuse(r) \/ Admit(r) \/ CancelQueued(r) \/ CancelDispatched(r)
              \/ (\E reply \in Replies : HandleResponse(r, reply)) \/ Renew(r))
  <2>1. CASE Refuse(r) \/ Renew(r)
    BY <1>3, <2>1 DEF Refuse, Renew
  <2>2. CASE Admit(r) \/ CancelQueued(r) \/ CancelDispatched(r)
               \/ \E reply \in Replies : HandleResponse(r, reply)
    BY <2>2 DEF Admit, CancelQueued, CancelDispatched, HandleResponse, Pump, Open
  <2> QED BY <2>1, <2>2
<1>5. CASE DispatchRead \/ DispatchExclusive
  BY <1>5 DEF DispatchRead, DispatchExclusive, Dispatch
<1>6. CASE PumpDone
  BY <1>1, <1>6 DEF PumpDone
<1>7. CASE HandleFailure \/ Close \/ Kill \/ Reopen
  BY <1>2, <1>7 DEF HandleFailure, Close, Kill, Reopen
<1>8. CASE Release \/ EndpointClosed
  BY <1>8 DEF Release, EndpointClosed, Open
<1>9. CASE EndpointReceive \/ UNCHANGED vars
  BY <1>3, <1>9 DEF EndpointReceive, vars
<1> QED BY <1>4, <1>5, <1>6, <1>7, <1>8, <1>9 DEF Next, Loop

\* In an open supervisor no handler returns while a queued request could be sent:
\* each of them ends in pump(), and what it did before cannot unblock a request
\* that pump() does not see.
THEOREM NeverIdle == Spec => []NothingIdle
<1>1. Init => NothingIdle
  BY DEF Init, NothingIdle, ReadReady, ExclusiveReady, ExclusiveQueued, EmptyQueues, Classes
<1> QED BY <1>1, NextNotIdle, PTL DEF Spec

\* While pump() runs the queues may hold one request too many, provided that
\* one of them is about to leave.
BoundedInv ==
  \/ QueuedCount <= MaxQueued
  \/ pumping /\ QueuedCount = MaxQueued + 1 /\ (ReadReady \/ ExclusiveReady)

\* Lengths of queues are natural numbers,
LEMMA LengthTypes ==
  ASSUME NEW f \in [Classes -> Seq(Requests)]
  PROVE  /\ Len(f["db-read"]) \in Nat
         /\ Len(f["db-write"]) \in Nat
         /\ Len(f["maintenance"]) \in Nat
<1>1. f["db-read"] \in Seq(Requests) /\ f["db-write"] \in Seq(Requests)
      /\ f["maintenance"] \in Seq(Requests)
  BY DEF Classes
<1> QED BY <1>1, LenProperties

\* and so are sums of three of them,
LEMMA SumType == ASSUME NEW a \in Nat, NEW b \in Nat, NEW m \in Nat PROVE a + b + m \in Nat
OBVIOUS

\* and therefore queuedCount().
LEMMA CountType ==
  /\ TypeOK => QueuedCount \in Nat
  /\ TypeOK' => QueuedCount' \in Nat
<1>1. ASSUME TypeOK PROVE QueuedCount \in Nat
  <2>1. /\ Len(queue["db-read"]) \in Nat /\ Len(queue["db-write"]) \in Nat
        /\ Len(queue["maintenance"]) \in Nat
    BY <1>1, LengthTypes DEF TypeOK
  <2>2. Len(queue["db-read"]) + Len(queue["db-write"]) + Len(queue["maintenance"]) \in Nat
    BY <2>1, SumType
  <2> QED BY <2>2 DEF QueuedCount
<1>2. ASSUME TypeOK' PROVE QueuedCount' \in Nat
  <2>1. /\ Len(queue'["db-read"]) \in Nat /\ Len(queue'["db-write"]) \in Nat
        /\ Len(queue'["maintenance"]) \in Nat
    BY <1>2, LengthTypes DEF TypeOK
  <2>2. Len(queue'["db-read"]) + Len(queue'["db-write"]) + Len(queue'["maintenance"]) \in Nat
    BY <2>1, SumType
  <2> QED BY <2>2 DEF QueuedCount
<1> QED BY <1>1, <1>2

\* One queue changes its length, and the total by as much.
LEMMA CountShift ==
  ASSUME TypeOK, NEW c \in Classes, NEW q, Len(q) \in Nat,
         queue' = [queue EXCEPT ![c] = q]
  PROVE  QueuedCount' + Len(queue[c]) = QueuedCount + Len(q)
<1>1. /\ queue'["db-read"] = IF c = "db-read" THEN q ELSE queue["db-read"]
      /\ queue'["db-write"] = IF c = "db-write" THEN q ELSE queue["db-write"]
      /\ queue'["maintenance"] = IF c = "maintenance" THEN q ELSE queue["maintenance"]
  BY DEF TypeOK, Classes
<1> DEFINE a == Len(queue["db-read"])
           b == Len(queue["db-write"])
           m == Len(queue["maintenance"])
           d == Len(q)
<1>2. a \in Nat /\ b \in Nat /\ m \in Nat /\ d \in Nat
  BY LengthTypes DEF TypeOK
<1>3. QueuedCount = a + b + m
  BY DEF QueuedCount
<1>4. QueuedCount' = Len(queue'["db-read"]) + Len(queue'["db-write"]) + Len(queue'["maintenance"])
  BY DEF QueuedCount
<1>5. CASE c = "db-read"
  <2>1. /\ Len(queue'["db-read"]) = d /\ Len(queue'["db-write"]) = b
        /\ Len(queue'["maintenance"]) = m /\ Len(queue[c]) = a
    BY <1>1, <1>5
  <2> HIDE DEF a, b, m, d
  <2>2. (d + b + m) + a = (a + b + m) + d
    BY <1>2
  <2> QED BY <1>3, <1>4, <2>1, <2>2 DEF d
<1>6. CASE c = "db-write"
  <2>1. /\ Len(queue'["db-read"]) = a /\ Len(queue'["db-write"]) = d
        /\ Len(queue'["maintenance"]) = m /\ Len(queue[c]) = b
    BY <1>1, <1>6
  <2> HIDE DEF a, b, m, d
  <2>2. (a + d + m) + b = (a + b + m) + d
    BY <1>2
  <2> QED BY <1>3, <1>4, <2>1, <2>2 DEF d
<1>7. CASE c = "maintenance"
  <2>1. /\ Len(queue'["db-read"]) = a /\ Len(queue'["db-write"]) = b
        /\ Len(queue'["maintenance"]) = d /\ Len(queue[c]) = m
    BY <1>1, <1>7
  <2> HIDE DEF a, b, m, d
  <2>2. (a + b + d) + m = (a + b + m) + d
    BY <1>2
  <2> QED BY <1>3, <1>4, <2>1, <2>2 DEF d
<1> QED BY <1>5, <1>6, <1>7 DEF Classes

\* A request that canDispatch sees run at once is about to leave its queue.
LEMMA AdmitRuns ==
  ASSUME TypeOK, NEW r \in Requests, Admit(r), CanDispatch(WorkClass[r])
  PROVE  ReadReady' \/ ExclusiveReady'
<1>1. WorkClass[r] \in Classes
  BY RequestAssumption
<1>2. queue'[WorkClass[r]] # <<>>
  <2>1. queue[WorkClass[r]] \in Seq(Requests)
    BY <1>1 DEF TypeOK
  <2>2. Append(queue[WorkClass[r]], r) # <<>>
    BY <2>1
  <2> QED BY <1>1, <2>2 DEF Admit, TypeOK
<1>3. UNCHANGED inFlight
  BY DEF Admit
<1>4. CASE WorkClass[r] = "db-read"
  <2>1. ~ExclusiveInFlight /\ Cardinality(inFlight) < MaxInFlightReads
    BY <1>4 DEF CanDispatch
  <2>2. ReadsInFlight = inFlight
    BY <2>1 DEF ReadsInFlight, ExclusiveInFlight
  <2>3. ReadsInFlight' = ReadsInFlight /\ (ExclusiveInFlight' <=> ExclusiveInFlight)
    BY <1>3 DEF ReadsInFlight, ExclusiveInFlight, IsRead
  <2> QED BY <1>2, <1>4, <2>1, <2>2, <2>3 DEF ReadReady
<1>5. CASE WorkClass[r] # "db-read"
  BY <1>1, <1>2, <1>3, <1>5 DEF CanDispatch, ExclusiveReady, ExclusiveQueued, Classes
<1> QED BY <1>4, <1>5

\* Every step keeps the queues within maxQueued, or one above it while the loop is
\* about to dispatch.
LEMMA NextBounded == HeldInv /\ BoundedInv /\ [Next]_vars => BoundedInv'
<1> SUFFICES ASSUME HeldInv, BoundedInv, [Next]_vars PROVE BoundedInv'
  OBVIOUS
<1>0. TypeOK /\ TypeOK' /\ QueuedCount \in Nat /\ QueuedCount' \in Nat
  <2>1. TypeOK /\ TypeOK'
    BY NextTypeOK DEF HeldInv
  <2> QED BY <2>1, CountType
<1> USE BoundAssumption
<1>1. ASSUME UNCHANGED queue, ~pumping PROVE BoundedInv'
  BY <1>1 DEF BoundedInv, QueuedCount
<1>2. ASSUME queue' = EmptyQueues PROVE BoundedInv'
  <2>1. QueuedCount' = 0
    BY <1>2 DEF QueuedCount, EmptyQueues, Classes
  <2> QED BY <2>1 DEF BoundedInv
<1>3. ASSUME UNCHANGED <<queue, inFlight, pumping>> PROVE BoundedInv'
  BY <1>3 DEF BoundedInv, QueuedCount, ReadReady, ExclusiveReady, ExclusiveInFlight,
              ReadsInFlight, ExclusiveQueued, IsRead
<1>4. ASSUME NEW r \in Requests, Admit(r) PROVE BoundedInv'
  <2>1. WorkClass[r] \in Classes
    BY RequestAssumption
  <2>2. queue[WorkClass[r]] \in Seq(Requests)
    BY <1>0, <2>1 DEF TypeOK
  <2>3. QueuedCount' = QueuedCount + 1
    <3>1. /\ Len(Append(queue[WorkClass[r]], r)) = Len(queue[WorkClass[r]]) + 1
          /\ Len(queue[WorkClass[r]]) \in Nat
      BY <2>2, LenProperties
    <3>2. queue' = [queue EXCEPT ![WorkClass[r]] = Append(queue[WorkClass[r]], r)]
      BY <1>4 DEF Admit
    <3>3. Len(Append(queue[WorkClass[r]], r)) \in Nat
      BY <3>1
    <3>4. QueuedCount' + Len(queue[WorkClass[r]])
            = QueuedCount + Len(Append(queue[WorkClass[r]], r))
      BY <1>0, <2>1, <3>2, <3>3, CountShift
    <3> QED BY <1>0, <3>1, <3>4
  <2>4. pumping' /\ QueuedCount <= MaxQueued
    BY <1>4 DEF Admit, Pump, Refusal, Open, BoundedInv
  <2>5. CASE CanDispatch(WorkClass[r])
    BY <1>0, <1>4, <2>3, <2>4, <2>5, AdmitRuns DEF BoundedInv
  <2>6. CASE ~CanDispatch(WorkClass[r])
    <3>1. ~(QueuedCount >= MaxQueued)
      <4>1. Refusal(r) = "none"
        BY <1>4 DEF Admit
      <4> QED BY <2>6, <4>1 DEF Refusal
    <3> QED BY <1>0, <2>3, <3>1 DEF BoundedInv
  <2> QED BY <2>5, <2>6
<1>5. ASSUME NEW c \in Classes, queue[c] # <<>>, queue' = [queue EXCEPT ![c] = Tail(queue[c])]
      PROVE  BoundedInv'
  <2>1. queue[c] \in Seq(Requests)
    BY <1>0 DEF TypeOK
  <2>2. /\ Len(Tail(queue[c])) = Len(queue[c]) - 1 /\ Len(queue[c]) \in Nat
        /\ Len(Tail(queue[c])) \in Nat
    BY <1>5, <2>1, HeadTailProperties, LenProperties
  <2>3. QueuedCount' = QueuedCount - 1
    <3>1. QueuedCount' + Len(queue[c]) = QueuedCount + Len(Tail(queue[c]))
      BY <1>0, <1>5, <2>2, CountShift
    <3> QED BY <1>0, <2>2, <3>1
  <2>4. QueuedCount <= MaxQueued + 1
    BY <1>0 DEF BoundedInv
  <2> QED BY <1>0, <2>3, <2>4 DEF BoundedInv
<1>6. ASSUME NEW r \in Requests, CancelQueued(r) PROVE BoundedInv'
  <2>1. WorkClass[r] \in Classes
    BY RequestAssumption
  <2>2. queue[WorkClass[r]] \in Seq(Requests) /\ Holds(queue[WorkClass[r]], r)
    BY <1>0, <1>6, <2>1 DEF CancelQueued, TypeOK
  <2>3. /\ Len(Without(queue[WorkClass[r]], r)) = Len(queue[WorkClass[r]]) - 1
        /\ Len(queue[WorkClass[r]]) \in Nat
        /\ Len(Without(queue[WorkClass[r]], r)) \in Nat
    BY <2>2, WithoutEntries, LenProperties
  <2>4. queue' = [queue EXCEPT ![WorkClass[r]] = Without(queue[WorkClass[r]], r)]
    BY <1>6 DEF CancelQueued
  <2>5. QueuedCount' = QueuedCount - 1
    <3>1. QueuedCount' + Len(queue[WorkClass[r]])
            = QueuedCount + Len(Without(queue[WorkClass[r]], r))
      BY <1>0, <2>1, <2>3, <2>4, CountShift
    <3> QED BY <1>0, <2>3, <3>1
  <2>6. QueuedCount <= MaxQueued
    BY <1>6 DEF CancelQueued, BoundedInv
  <2> QED BY <1>0, <2>5, <2>6 DEF BoundedInv
<1>7. CASE DispatchRead
  BY <1>5, <1>7 DEF DispatchRead, ReadReady, Dispatch, Classes
<1>8. CASE DispatchExclusive
  <2>1. ExclusiveClass \in Classes /\ queue[ExclusiveClass] # <<>>
    BY <1>8, ExclusiveClassType DEF DispatchExclusive, ExclusiveReady
  <2> QED BY <1>5, <1>8, <2>1 DEF DispatchExclusive, Dispatch
<1>9. CASE PumpDone
  BY <1>9 DEF PumpDone, BoundedInv, QueuedCount
<1>10. CASE HandleFailure \/ Close \/ Kill \/ Reopen
  BY <1>2, <1>10 DEF HandleFailure, Close, Kill, Reopen
<1>11. CASE EndpointReceive \/ EndpointClosed \/ UNCHANGED vars
  BY <1>3, <1>11 DEF EndpointReceive, EndpointClosed, vars
<1>12. CASE Release
  BY <1>1, <1>12 DEF Release
<1>13. ASSUME NEW r \in Requests,
              \/ Refuse(r) \/ Renew(r) \/ CancelDispatched(r)
              \/ \E reply \in Replies : HandleResponse(r, reply)
       PROVE  BoundedInv'
  BY <1>1, <1>13 DEF Refuse, Renew, CancelDispatched, HandleResponse
<1> QED BY <1>4, <1>6, <1>7, <1>8, <1>9, <1>10, <1>11, <1>12, <1>13 DEF Next, Loop

\* Once a handler has returned the queues hold at most maxQueued requests, although
\* execute() admits one past the limit when canDispatch says that it will run at once:
\* canDispatch and nextDispatchable agree on that.
THEOREM QueuesBounded == Spec => []AdmissionBounded
<1>1. Init => BoundedInv
  <2> SUFFICES ASSUME Init PROVE BoundedInv
    OBVIOUS
  <2>1. QueuedCount = 0
    BY DEF Init, QueuedCount, EmptyQueues, Classes
  <2> QED BY <2>1, BoundAssumption DEF BoundedInv
<1>2. BoundedInv => AdmissionBounded
  BY DEF BoundedInv, AdmissionBounded
<1> QED BY <1>1, <1>2, InitHeld, NextHeld, NextBounded, PTL DEF Spec
===============================================================================
