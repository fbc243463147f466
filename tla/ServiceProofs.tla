--------------------------- MODULE ServiceProofs ---------------------------
(***************************************************************************)
(* What stands before the store.  A query is planned once, from whatever   *)
(* numbers its caller gives, and its controller never spends more than the *)
(* plan says.  The programs of a machine, however many, killed anywhere,   *)
(* work only where their own name is written and what they hold.  A caller *)
(* who follows the cursors of an answer reads the whole of its list, once, *)
(* and no source is ever called indexed that is not.  A list of texts gets *)
(* an answer for each, from the batch it was sent in.  What a request asks *)
(* of the graph around a file is answered whole or said to be cut short,   *)
(* and a trace is the shortest there is.                                   *)
(***************************************************************************)
EXTENDS QueryController, NodeHost, Retrieval, EmbeddingController, SequenceTheorems, FiniteSetTheorems,
        WellFoundedInduction, TLAPS

-----------------------------------------------------------------------------
(* What a query may cost.                                                   *)
Profiles ==
  {[node |-> 4, edge |-> 1, edges |-> 2], [node |-> 5, edge |-> 2, edges |-> 3],
   [node |-> 4, edge |-> 2, edges |-> 3], [node |-> 3, edge |-> 1, edges |-> 2]}

LEMMA ProfileIsOne ==
  ASSUME NEW action
  PROVE  CostProfile(action) \in Profiles
  BY DEF CostProfile, Profiles

LEMMA ClampedIsInt ==
  ASSUME NEW r, NEW name, NEW fallback \in Int, NEW min \in Int, NEW max \in Int,
         name \in DOMAIN r => r[name] \in Int, min <= fallback, min <= max
  PROVE  /\ Clamped(r, name, fallback, min, max) \in Int
         /\ Clamped(r, name, fallback, min, max) >= min
  BY DEF Clamped, ClampInteger

LEMMA AliasedIsInt ==
  ASSUME NEW args, \A name \in DOMAIN args : args[name] \in Int, NEW snake, NEW camel
  PROVE  LET r == Aliased(args, snake, camel, "n") IN "n" \in DOMAIN r => r["n"] \in Int
  BY DEF Aliased

(* A plan never needs more work than the request may spend, of any action.  *)
THEOREM PlansFit ==
  ASSUME NEW action, NEW args, \A name \in DOMAIN args : args[name] \in Int
  PROVE  LET p == PlanQuery(action, args)
         IN  /\ p.work \in Nat /\ p.planned \in Nat /\ p.planned <= p.work
             /\ p.cost \in Profiles
<1> DEFINE spending == Aliased(args, "max_work_units", "maxWorkUnits", "n")
           timing == Aliased(args, "deadline_ms", "deadlineMs", "n")
           work == Clamped(spending, "n", 20000, 1, 100000)
           deadline == Clamped(timing, "n", 5000, 25, 30000)
           cost == CostProfile(action)
           nodes == work \div (cost.node + cost.edge * cost.edges)
           afford == (work - nodes * cost.node) \div cost.edge
           edges == IF nodes * cost.edges < afford THEN nodes * cost.edges ELSE afford
<1>1. work \in Int /\ work >= 1
  <2>1. "n" \in DOMAIN spending => spending["n"] \in Int
    BY AliasedIsInt
  <2> HIDE DEF spending
  <2> QED
    BY <2>1, ClampedIsInt
<1>2. cost \in Profiles
  BY ProfileIsOne
<1>3. PlanQuery(action, args) =
        [cost |-> cost, work |-> work, deadline |-> deadline, nodes |-> nodes, edges |-> edges,
         planned |-> nodes * cost.node + edges * cost.edge]
  BY DEF PlanQuery
<1> HIDE DEF work, deadline, cost
<1>4. nodes * cost.node + edges * cost.edge \in Nat /\ nodes * cost.node + edges * cost.edge <= work
  <2>1. CASE cost = [node |-> 4, edge |-> 1, edges |-> 2]
    BY <1>1, <2>1
  <2>2. CASE cost = [node |-> 5, edge |-> 2, edges |-> 3]
    BY <1>1, <2>2
  <2>3. CASE cost = [node |-> 4, edge |-> 2, edges |-> 3]
    BY <1>1, <2>3
  <2>4. CASE cost = [node |-> 3, edge |-> 1, edges |-> 2]
    BY <1>1, <2>4
  <2> QED
    BY <1>2, <2>1, <2>2, <2>3, <2>4 DEF Profiles
<1> HIDE DEF nodes, edges
<1> QED
  BY <1>1, <1>2, <1>3, <1>4

-----------------------------------------------------------------------------
(* The controller.  An entry of its cache is of a load of that key.         *)
Noted == Stages \cup {"complete"}

Load == [key : Keys, status : {"pending", "done", "failed"}]

PlanFits ==
  /\ plan.work \in Nat /\ plan.planned \in Nat /\ plan.planned <= plan.work
  /\ plan.cost \in Profiles

Spent ==
  /\ units \in Nat /\ units <= plan.work
  /\ progress \in Seq(Noted) /\ Len(progress) <= Snapshots

Remembered ==
  /\ loads \in Seq(Load)
  /\ cache \in Seq([key : Keys, load : Nat]) /\ Len(cache) <= CacheEntries
  /\ \A n \in DOMAIN cache : /\ cache[n].load \in DOMAIN loads
                            /\ loads[cache[n].load].key = cache[n].key
                            /\ loads[cache[n].load].status # "failed"
  /\ \A n, m \in DOMAIN cache : cache[n].key = cache[m].key => n = m

ControlInv == PlanFits /\ Spent /\ Remembered

LEMMA ControlBegins ==
  ASSUME ControllerAssumption, ControlInit
  PROVE  ControlInv
<1>1. PlanFits
  <2>1. PICK args \in Args : plan = PlanQuery("search", args)
    BY DEF ControlInit
  <2> QED
    BY <2>1, PlansFit DEF PlanFits, ControllerAssumption
<1>2. Spent
  BY <1>1 DEF Spent, PlanFits, ControlInit, ControllerAssumption
<1>3. Remembered
  BY DEF Remembered, ControlInit, ControllerAssumption
<1> QED
  BY <1>1, <1>2, <1>3 DEF ControlInv

(* What a checkpoint counts is within the plan.                             *)
LEMMA CheckpointKeeps ==
  ASSUME ControlInv, ControllerAssumption, NEW stage \in Noted, NEW n \in Nat,
         Checkpoint(stage, n), UNCHANGED plan
  PROVE  Spent'
<1>1. UnitCost(stage) \in Nat
  BY DEF ControlInv, PlanFits, Profiles, UnitCost
<1> DEFINE spent == units + n * UnitCost(stage)
<1>2. spent \in Nat /\ plan.work \in Nat /\ units \in Nat /\ units <= plan.work
  BY <1>1 DEF ControlInv, Spent, PlanFits
<1>3. units' = IF Verdict(spent) = "work_budget_exhausted" THEN units ELSE spent
  BY DEF Checkpoint
<1> HIDE DEF spent
<1>4. units' \in Nat /\ units' <= plan.work
  BY <1>2, <1>3 DEF Verdict
<1>5. progress' \in Seq(Noted) /\ Len(progress') <= Snapshots
  BY DEF ControlInv, Spent, Checkpoint, Observed, ControllerAssumption
<1> QED
  BY <1>4, <1>5 DEF Spent

LEMMA SpendingKeeps ==
  ASSUME ControlInv, ControllerAssumption,
         \/ \E stage \in Stages, n \in 1..2 : Cooperate(stage, n)
         \/ \E stage \in Stages : Resume(stage) \/ Cancel(stage)
         \/ TimeUp \/ Snapshot
  PROVE  ControlInv'
<1>1. UNCHANGED <<plan, cache, loads>>
  BY DEF Cooperate, Resume, Cancel, TimeUp, Snapshot
<1>2. Spent'
  <2>1. ASSUME NEW stage \in Stages, NEW n \in 1..2, Cooperate(stage, n) PROVE Spent'
    BY <1>1, <2>1, CheckpointKeeps DEF Cooperate, Noted
  <2>2. ASSUME NEW stage \in Stages, Resume(stage) PROVE Spent'
    <3>1. CASE reason = "none"
      BY <1>1, <2>2, <3>1, CheckpointKeeps DEF Resume, Noted
    <3>2. CASE reason # "none"
      BY <1>1, <2>2, <3>2 DEF Resume, ControlInv, Spent
    <3> QED
      BY <3>1, <3>2
  <2>3. ASSUME NEW stage \in Stages, Cancel(stage) PROVE Spent'
    BY <2>3 DEF Cancel, Noted, ControlInv, Spent, ControllerAssumption
  <2>4. CASE TimeUp
    BY <2>4 DEF TimeUp, ControlInv, Spent
  <2>5. CASE Snapshot
    BY <1>1, <2>5, CheckpointKeeps DEF Snapshot, Noted
  <2> QED
    BY <2>1, <2>2, <2>3, <2>4, <2>5
<1> QED
  BY <1>1, <1>2 DEF ControlInv, PlanFits, Remembered

-----------------------------------------------------------------------------
(* The cache.                                                               *)
Settled(past, now, i, status) ==
  /\ now \in Seq(Load) /\ DOMAIN now = DOMAIN past
  /\ \A l \in DOMAIN past : /\ now[l].key = past[l].key
                           /\ now[l].status = IF l = i THEN status ELSE past[l].status

LEMMA LoadsSettle ==
  ASSUME NEW past \in Seq(Load), NEW i \in DOMAIN past, NEW status \in {"done", "failed"}
  PROVE  Settled(past, [past EXCEPT ![i].status = status], i, status)
<1> DEFINE settled == [past[i] EXCEPT !.status = status]
           now == [past EXCEPT ![i] = settled]
<1>1. past[i] \in Load
  OBVIOUS
<1>2. settled \in Load /\ settled.key = past[i].key /\ settled.status = status
  BY <1>1 DEF Load
<1> HIDE DEF settled
<1>3. now \in Seq(Load) /\ DOMAIN now = DOMAIN past
  BY <1>2
<1>4. \A l \in DOMAIN past : now[l] = IF l = i THEN settled ELSE past[l]
  OBVIOUS
<1> HIDE DEF now
<1>5. Settled(past, now, i, status)
  BY <1>2, <1>3, <1>4 DEF Settled
<1> QED
  BY <1>5 DEF now, settled

LEMMA LoadSucceedsKeeps ==
  ASSUME ControlInv, NEW i \in DOMAIN loads, LoadSucceeds(i)
  PROVE  ControlInv'
<1>1. loads \in Seq(Load) /\ loads' = [loads EXCEPT ![i].status = "done"] /\ cache' = cache
  BY DEF ControlInv, Remembered, LoadSucceeds
<1>2. Settled(loads, loads', i, "done")
  BY <1>1, LoadsSettle
<1>3. Remembered'
  BY <1>1, <1>2 DEF ControlInv, Remembered, Settled
<1> QED
  BY <1>3 DEF ControlInv, PlanFits, Spent, LoadSucceeds

LEMMA MissKeeps ==
  ASSUME ControlInv, ControllerAssumption, NEW key \in Keys, Miss(key)
  PROVE  ControlInv'
<1> DEFINE kept == IF Len(cache) >= CacheEntries THEN Tail(cache) ELSE cache
           entry == [key |-> key, load |-> Len(loads) + 1]
<1>1. cache' = Append(kept, entry) /\ loads' = Append(loads, [key |-> key, status |-> "pending"])
  BY DEF Miss
<1>2. kept \in Seq([key : Keys, load : Nat]) /\ Len(kept) < CacheEntries
  BY DEF ControlInv, Remembered, ControllerAssumption
<1>3. \E shift \in {0, 1} : \A n \in DOMAIN kept : n + shift \in DOMAIN cache /\ kept[n] = cache[n + shift]
  BY SMTT(30) DEF ControlInv, Remembered, ControllerAssumption
<1>4. \A n \in DOMAIN cache : cache[n].key # key
  BY DEF Miss, CachedKeys, Range
<1> HIDE DEF kept
<1>5. /\ loads' \in Seq(Load)
      /\ Len(loads) + 1 \in DOMAIN loads' /\ loads'[Len(loads) + 1] = [key |-> key, status |-> "pending"]
      /\ \A l \in DOMAIN loads : l \in DOMAIN loads' /\ loads'[l] = loads[l]
  BY <1>1 DEF ControlInv, Remembered, Load
<1>6. /\ cache' \in Seq([key : Keys, load : Nat]) /\ Len(cache') <= CacheEntries
      /\ DOMAIN cache' = 1..(Len(kept) + 1) /\ DOMAIN kept = 1..Len(kept)
      /\ \A n \in DOMAIN kept : cache'[n] = kept[n]
      /\ cache'[Len(kept) + 1] = entry
  BY <1>1, <1>2 DEF ControlInv, Remembered, ControllerAssumption
<1>7. \A n \in DOMAIN kept : /\ kept[n].load \in DOMAIN loads /\ loads[kept[n].load].key = kept[n].key
                            /\ loads[kept[n].load].status # "failed" /\ kept[n].key # key
  BY <1>3, <1>4 DEF ControlInv, Remembered
<1>8. \A n, m \in DOMAIN kept : kept[n].key = kept[m].key => n = m
  <2>1. PICK shift \in {0, 1} : \A n \in DOMAIN kept : n + shift \in DOMAIN cache /\ kept[n] = cache[n + shift]
    BY <1>3
  <2>2. \A n, m \in DOMAIN cache : cache[n].key = cache[m].key => n = m
    BY DEF ControlInv, Remembered
  <2>3. DOMAIN kept \subseteq Nat
    BY <1>6
  <2> QED
    BY <2>1, <2>2, <2>3
<1>9. \A n \in DOMAIN cache' : n \in DOMAIN kept \/ n = Len(kept) + 1
  BY <1>2, <1>6
<1>10. \A n \in DOMAIN cache' : /\ cache'[n].load \in DOMAIN loads'
                                /\ loads'[cache'[n].load].key = cache'[n].key
                                /\ loads'[cache'[n].load].status # "failed"
  BY <1>5, <1>6, <1>7, <1>9
<1>11. \A n, m \in DOMAIN cache' : cache'[n].key = cache'[m].key => n = m
  BY <1>6, <1>7, <1>8, <1>9
<1>12. Remembered'
  BY <1>5, <1>6, <1>10, <1>11 DEF Remembered
<1> QED
  BY <1>12 DEF ControlInv, PlanFits, Spent, Miss

(* Without one of its elements a sequence has the others in their order.    *)
LEMMA RemoveOne ==
  ASSUME NEW S, NEW s \in Seq(S), NEW at \in 1..Len(s)
  PROVE  LET t == SubSeq(s, 1, at - 1) \o SubSeq(s, at + 1, Len(s))
         IN  /\ t \in Seq(S) /\ Len(t) = Len(s) - 1
             /\ \A n \in 1..(at - 1) : t[n] = s[n]
             /\ \A n \in at..(Len(s) - 1) : t[n] = s[n + 1]
<1> DEFINE left == SubSeq(s, 1, at - 1)
           right == SubSeq(s, at + 1, Len(s))
<1>1. Len(s) \in Nat /\ \A n \in 1..Len(s) : s[n] \in S
  BY ElementOfSeq, LenProperties
<1>2. /\ left \in Seq(S) /\ Len(left) = at - 1
      /\ \A n \in 1..(at - 1) : left[n] = s[n]
  <2>1. \A n \in 1..(at - 1) : s[n] \in S
    BY <1>1
  <2>2. /\ left \in Seq(S) /\ Len(left) = IF 1 <= at - 1 THEN at - 1 - 1 + 1 ELSE 0
        /\ \A n \in 1..(at - 1 - 1 + 1) : left[n] = s[1 + n - 1]
    BY <1>1, <2>1, SubSeqProperties
  <2> HIDE DEF left
  <2>3. \A n \in 1..(at - 1) : n \in 1..(at - 1 - 1 + 1) /\ 1 + n - 1 = n
    BY <1>1
  <2>4. Len(left) = at - 1
    BY <1>1, <2>2
  <2> QED
    BY <2>2, <2>3, <2>4
<1>3. /\ right \in Seq(S) /\ Len(right) = Len(s) - at
      /\ \A n \in 1..(Len(s) - at) : right[n] = s[at + n]
  <2>1. \A n \in (at + 1)..Len(s) : s[n] \in S
    BY <1>1
  <2>2. /\ right \in Seq(S) /\ Len(right) = IF at + 1 <= Len(s) THEN Len(s) - (at + 1) + 1 ELSE 0
        /\ \A n \in 1..(Len(s) - (at + 1) + 1) : right[n] = s[at + 1 + n - 1]
    BY <1>1, <2>1, SubSeqProperties
  <2> HIDE DEF right
  <2>3. \A n \in 1..(Len(s) - at) : n \in 1..(Len(s) - (at + 1) + 1) /\ at + 1 + n - 1 = at + n
    BY <1>1
  <2>4. Len(right) = Len(s) - at
    BY <1>1, <2>2
  <2> QED
    BY <2>2, <2>3, <2>4
<1> HIDE DEF left, right
<1> DEFINE t == left \o right
<1>4. /\ t \in Seq(S) /\ Len(t) = Len(left) + Len(right)
      /\ \A n \in 1..(Len(left) + Len(right)) : t[n] = IF n <= Len(left) THEN left[n] ELSE right[n - Len(left)]
  BY <1>2, <1>3, ConcatProperties, Zenon
<1> HIDE DEF t
<1>5. Len(t) = Len(s) - 1
  BY <1>1, <1>2, <1>3, <1>4
<1>6. ASSUME NEW n \in 1..(at - 1) PROVE t[n] = s[n]
  <2>1. n \in 1..(Len(left) + Len(right)) /\ n <= Len(left)
    BY <1>1, <1>2, <1>3
  <2>2. t[n] = left[n]
    BY <1>4, <2>1
  <2> QED
    BY <1>2, <2>2
<1>7. ASSUME NEW n \in at..(Len(s) - 1) PROVE t[n] = s[n + 1]
  <2>1. n - (at - 1) \in 1..(Len(s) - at) /\ at + (n - (at - 1)) = n + 1
    BY <1>1
  <2>2. n \in 1..(Len(left) + Len(right)) /\ ~(n <= Len(left)) /\ n - Len(left) = n - (at - 1)
    BY <1>1, <1>2, <1>3
  <2>3. t[n] = right[n - (at - 1)]
    BY <1>4, <2>2
  <2> QED
    BY <1>3, <2>1, <2>3
<1> QED
  BY <1>4, <1>5, <1>6, <1>7 DEF t, left, right

(* A failed load takes the entry of its key with it.                        *)
LEMMA LoadFailsKeeps ==
  ASSUME ControlInv, ControllerAssumption, NEW i \in DOMAIN loads, LoadFails(i)
  PROVE  ControlInv'
<1> DEFINE key == loads[i].key
<1>1. cache' = Forget(key) /\ loads' = [loads EXCEPT ![i].status = "failed"]
  BY DEF LoadFails
<1>2. Settled(loads, loads', i, "failed")
  <2>1. loads \in Seq(Load)
    BY DEF ControlInv, Remembered
  <2> QED
    BY <1>1, <2>1, LoadsSettle
<1> HIDE DEF key
<1>3. Remembered'
  <2>1. CASE key \notin CachedKeys
    <3>1. \A n \in DOMAIN cache : cache[n].key # key
      BY <2>1 DEF CachedKeys, Range
    <3>2. cache' = cache
      BY <1>1, <2>1 DEF Forget
    <3>3. \A n \in DOMAIN cache : cache[n].load # i
      BY <3>1 DEF ControlInv, Remembered, key
    <3> QED
      BY <1>2, <3>2, <3>3 DEF ControlInv, Remembered, Settled
  <2>2. CASE key \in CachedKeys
    <3>1. PICK at \in DOMAIN cache : at = CHOOSE n \in DOMAIN cache : cache[n].key = key
      BY <2>2 DEF CachedKeys, Range
    <3>2. cache[at].key = key
      BY <2>2, <3>1 DEF CachedKeys, Range
    <3>3. cache' = SubSeq(cache, 1, at - 1) \o SubSeq(cache, at + 1, Len(cache))
      BY <1>1, <2>2, <3>1 DEF Forget, RemoveAt
    <3>0. at \in 1..Len(cache) /\ cache \in Seq([key : Keys, load : Nat])
      BY DEF ControlInv, Remembered
    <3>4. /\ cache' \in Seq([key : Keys, load : Nat]) /\ Len(cache') = Len(cache) - 1
          /\ \A n \in 1..(at - 1) : cache'[n] = cache[n]
          /\ \A n \in at..(Len(cache) - 1) : cache'[n] = cache[n + 1]
      BY <3>0, <3>3, RemoveOne, Zenon
    <3>5. \A n \in DOMAIN cache' : LET was == IF n < at THEN n ELSE n + 1
                                   IN  was \in DOMAIN cache \ {at} /\ cache'[n] = cache[was]
      <4> SUFFICES ASSUME NEW n \in DOMAIN cache', NEW was, was = IF n < at THEN n ELSE n + 1
                   PROVE  was \in DOMAIN cache \ {at} /\ cache'[n] = cache[was]
        OBVIOUS
      <4>1. n \in 1..(Len(cache) - 1) /\ Len(cache) \in Nat /\ DOMAIN cache = 1..Len(cache)
        BY <3>0, <3>4, SMTT(30)
      <4>2. CASE n < at
        <5>1. was = n /\ n \in 1..(at - 1)
          BY <3>0, <4>1, <4>2
        <5> QED
          BY <3>0, <3>4, <4>1, <5>1, SMTT(30)
      <4>3. CASE ~(n < at)
        <5>1. was = n + 1 /\ n \in at..(Len(cache) - 1) /\ was \in 1..Len(cache) /\ was # at
          BY <3>0, <4>1, <4>3
        <5>2. cache'[n] = cache[n + 1]
          BY <3>4, <5>1
        <5> QED
          BY <4>1, <5>1, <5>2
      <4> QED
        BY <4>2, <4>3
    <3>6. \A n \in DOMAIN cache \ {at} : cache[n].key # key /\ cache[n].load # i
      BY <3>2 DEF ControlInv, Remembered, key
    <3>7. \A n \in DOMAIN cache' : /\ cache'[n].load \in DOMAIN loads'
                                   /\ loads'[cache'[n].load].key = cache'[n].key
                                   /\ loads'[cache'[n].load].status # "failed"
      <4>1. \A n \in DOMAIN cache \ {at} : /\ cache[n].load \in DOMAIN loads'
                                            /\ loads'[cache[n].load].key = cache[n].key
                                            /\ loads'[cache[n].load].status # "failed"
        BY <1>2, <3>6 DEF ControlInv, Remembered, Settled
      <4> QED
        BY <3>5, <4>1
    <3>8. \A n, m \in DOMAIN cache' : cache'[n].key = cache'[m].key => n = m
      <4> SUFFICES ASSUME NEW n \in DOMAIN cache', NEW m \in DOMAIN cache', cache'[n].key = cache'[m].key
                   PROVE  n = m
        OBVIOUS
      <4>1. \A k, l \in DOMAIN cache : cache[k].key = cache[l].key => k = l
        BY DEF ControlInv, Remembered
      <4>2. (IF n < at THEN n ELSE n + 1) = (IF m < at THEN m ELSE m + 1)
        BY <3>5, <4>1
      <4>3. n \in Nat /\ m \in Nat /\ at \in Nat
        BY <3>0, <3>4
      <4> QED
        BY <4>2, <4>3
    <3>9. Len(cache') <= CacheEntries
      BY <3>0, <3>4 DEF ControlInv, Remembered, ControllerAssumption
    <3> QED
      BY <1>2, <3>4, <3>7, <3>8, <3>9 DEF Remembered, Settled
  <2> QED
    BY <2>1, <2>2
<1> QED
  BY <1>3 DEF ControlInv, PlanFits, Spent, LoadFails

(* Whatever a request does, its controller spends no more than was planned  *)
(* and keeps, of at most so many keys, one load that has not failed.        *)
THEOREM ControlKeepsItsPlan ==
  ASSUME ControllerAssumption
  PROVE  ControlSpec => []ControlSound
<1>1. ControlInit => ControlInv
  BY ControlBegins
<1>2. ControlInv /\ [ControlNext]_controlVars => ControlInv'
  <2> SUFFICES ASSUME ControlInv, [ControlNext]_controlVars PROVE ControlInv'
    OBVIOUS
  <2>1. CASE UNCHANGED controlVars
    BY <2>1 DEF controlVars, ControlInv, PlanFits, Spent, Remembered
  <2>2. ASSUME NEW key \in Keys, Hit(key) PROVE ControlInv'
    BY <2>2 DEF Hit, ControlInv, PlanFits, Spent, Remembered
  <2> QED
    BY <2>1, <2>2, SpendingKeeps, MissKeeps, LoadSucceedsKeeps, LoadFailsKeeps DEF ControlNext
<1>3. ControlInv => ControlSound
  BY DEF ControlInv, PlanFits, Spent, Remembered, ControlSound
<1> QED
  BY <1>1, <1>2, <1>3, PTL DEF ControlSpec

-----------------------------------------------------------------------------
(* The programs of a machine.  A call has yet to take every step of its     *)
(* request, or is a migration that has its backup left.                     *)
Working == {"work", "close", "closeStore"}
Holding == Working \cup {"stuck"}
Places == {"create", "write", "compare", "open", "done", "dead"} \cup Holding

ProcFields == {"parsed", "layout", "at", "exit", "initialized", "closed", "caught", "calls", "reply"}

Lasts(proc) == Command(proc.parsed) \in Lasting

Alone == {<<"commit">>, <<"retrieve">>, <<"indexRepository">>, <<"health">>, <<"backup">>, <<"listWorkspaces">>}

CallOk(call) ==
  /\ DOMAIN call = {"request", "left", "did", "late"}
  /\ \/ /\ call.did = <<>> /\ call.left = Steps(call.request)
        /\ call.left \in Alone \cup {<<"health", "backup">>}
     \/ /\ call.did = <<"health">> /\ call.left = <<"backup">>
        /\ Steps(call.request) = <<"health", "backup">>

ReplyOk(reply) ==
  /\ reply.code = "ok" => reply.did = Steps(reply.request)
  /\ reply.code = "ATLAS_SCHEMA_HISTORY_DIVERGED" => "backup" \notin Range(reply.did)

(* A process that asks once has one call, while it works, and no answer     *)
(* before it ends.                                                          *)
ProcOk(proc) ==
  /\ DOMAIN proc = ProcFields /\ proc.at \in Places
  /\ \A call \in proc.calls : CallOk(call)
  /\ proc.reply.code # "none" => ReplyOk(proc.reply)
  /\ proc.calls # {} => proc.at \in Working
  /\ ~Lasts(proc) =>
       /\ proc.calls # {} => proc.at = "work"
       /\ \A one, other \in proc.calls : one = other
       /\ proc.at \in {"create", "write", "compare", "open", "work"} => proc.reply.code = "none"
       /\ proc.reply.code # "none" /\ proc.at # "stuck" => proc.exit = ExitCode(proc.reply.code)

(* What a process has found or left in its directory.                       *)
SettledIn(proc, files) ==
  LET d == proc.layout.directory
  IN  /\ proc.at \in {"write", "compare"} \cup {"open"} \cup Holding => d \in DOMAIN files
      /\ proc.at \in {"write"} \cup {"open"} \cup Holding => files[d].of = proc.layout.identity
      /\ proc.at \in {"open"} \cup Holding => files[d].written = TRUE

AreFiles(files) ==
  \A d \in DOMAIN files : /\ files[d] = [written |-> files[d].written, of |-> files[d].of]
                          /\ files[d].written \in BOOLEAN

FilesKept(files, later) ==
  \A d \in DOMAIN files : /\ d \in DOMAIN later /\ later[d].of = files[d].of
                          /\ files[d].written => later[d] = files[d]

HeldRightly(held, progs) ==
  /\ \A db \in DOMAIN held : /\ held[db] \in Processes /\ progs[held[db]].layout.db = db
                             /\ progs[held[db]].at \in Holding
  /\ \A p \in Processes : progs[p].at \in Working =>
       progs[p].layout.db \in DOMAIN held /\ held[progs[p].layout.db] = p

HostInv ==
  /\ DOMAIN procs = Processes
  /\ \A p \in Processes : ProcOk(procs[p]) /\ SettledIn(procs[p], identities)
  /\ AreFiles(identities) /\ HeldRightly(holders, procs)

LEMMA StepsShape ==
  ASSUME NEW req
  PROVE  Steps(req) \in Alone \cup {<<"health", "backup">>}
<1>1. CASE req.family = "commit"
  BY <1>1 DEF Steps, Alone
<1>2. CASE req.family # "commit" /\ req.family # "admin"
  BY <1>2 DEF Steps, Alone
<1>3. CASE req.family = "admin"
  BY <1>3 DEF Steps, Alone
<1> QED
  BY <1>1, <1>2, <1>3

(* What a process has found stays as it is.                                 *)
LEMMA StaysSettled ==
  ASSUME NEW files, NEW later, NEW proc, SettledIn(proc, files), FilesKept(files, later)
  PROVE  SettledIn(proc, later)
<1> DEFINE d == proc.layout.directory
<1>a. FilesKept(files, later)
  OBVIOUS
<1>1. /\ proc.at \in {"write", "compare"} \cup {"open"} \cup Holding => d \in DOMAIN files
      /\ proc.at \in {"write"} \cup {"open"} \cup Holding => files[d].of = proc.layout.identity
      /\ proc.at \in {"open"} \cup Holding => files[d].written = TRUE
  BY DEF SettledIn
<1>2. d \in DOMAIN files => /\ d \in DOMAIN later /\ later[d].of = files[d].of
                            /\ files[d].written => later[d] = files[d]
  <2> HIDE DEF d
  <2> QED
    BY <1>a DEF FilesKept
<1>3. /\ proc.at \in {"write", "compare"} \cup {"open"} \cup Holding => d \in DOMAIN later
      /\ proc.at \in {"write"} \cup {"open"} \cup Holding => later[d].of = proc.layout.identity
      /\ proc.at \in {"open"} \cup Holding => later[d].written = TRUE
  <2> HIDE DEF d
  <2> QED
    BY <1>1, <1>2
<1> QED
  BY <1>3 DEF SettledIn

(* What a step of one process has to show for all of them.                  *)
LEMMA OneSteps ==
  ASSUME HostInv, NEW p \in Processes, NEW proc, procs' = [procs EXCEPT ![p] = proc],
         ProcOk(proc), SettledIn(proc, identities'),
         FilesKept(identities, identities'), AreFiles(identities'),
         HeldRightly(holders', [procs EXCEPT ![p] = proc])
  PROVE  HostInv' /\ KeepsIdentity
<1>1. /\ DOMAIN procs' = Processes /\ procs'[p] = proc
      /\ \A q \in Processes : q # p => procs'[q] = procs[q]
  BY DEF HostInv
<1>2. ASSUME NEW q \in Processes PROVE ProcOk(procs'[q]) /\ SettledIn(procs'[q], identities')
  <2>1. CASE q = p
    BY <1>1, <2>1
  <2>2. CASE q # p
    <3>1. procs'[q] = procs[q] /\ ProcOk(procs[q]) /\ SettledIn(procs[q], identities)
      BY <1>1, <2>2 DEF HostInv
    <3> QED
      BY <3>1, StaysSettled
  <2> QED
    BY <2>1, <2>2
<1>3. HostInv'
  BY <1>1, <1>2 DEF HostInv
<1> QED
  BY <1>3 DEF KeepsIdentity, FilesKept

(* The stores are held as they were, if whoever holds one goes on.          *)
LEMMA HeldStays ==
  ASSUME HostInv, NEW p \in Processes, NEW proc,
         procs[p].at \in Holding => proc.at \in Holding /\ proc.layout = procs[p].layout,
         proc.at \in Working => procs[p].at \in Working /\ proc.layout = procs[p].layout
  PROVE  HeldRightly(holders, [procs EXCEPT ![p] = proc])
<1> DEFINE progs == [procs EXCEPT ![p] = proc]
<1>1. /\ progs[p] = proc
      /\ \A q \in Processes : q # p => progs[q] = procs[q]
  BY DEF HostInv
<1> HIDE DEF progs
<1>2. ASSUME NEW db \in DOMAIN holders
      PROVE  /\ holders[db] \in Processes /\ progs[holders[db]].layout.db = db
             /\ progs[holders[db]].at \in Holding
  <2>1. /\ holders[db] \in Processes /\ procs[holders[db]].layout.db = db
        /\ procs[holders[db]].at \in Holding
    BY DEF HostInv, HeldRightly
  <2> QED
    BY <1>1, <2>1
<1>3. ASSUME NEW q \in Processes, progs[q].at \in Working
      PROVE  progs[q].layout.db \in DOMAIN holders /\ holders[progs[q].layout.db] = q
  <2>1. procs[q].at \in Working /\ progs[q].layout = procs[q].layout
    BY <1>1, <1>3
  <2> QED
    BY <2>1 DEF HostInv, HeldRightly
<1>4. HeldRightly(holders, progs)
  BY <1>2, <1>3 DEF HeldRightly
<1> QED
  BY <1>4 DEF progs

(* A process gives up what it holds.                                        *)
LEMMA ReleasedRightly ==
  ASSUME HostInv, NEW p \in Processes, NEW proc, proc.at \notin Working
  PROVE  HeldRightly(Released(p), [procs EXCEPT ![p] = proc])
<1> DEFINE progs == [procs EXCEPT ![p] = proc]
           held == Released(p)
<1>1. /\ progs[p] = proc
      /\ \A q \in Processes : q # p => progs[q] = procs[q]
  BY DEF HostInv
<1>2. /\ \A db \in DOMAIN held : db \in DOMAIN holders /\ held[db] = holders[db] /\ held[db] # p
      /\ \A db \in DOMAIN holders : holders[db] # p => db \in DOMAIN held
  BY DEF Released
<1> HIDE DEF progs, held
<1>3. ASSUME NEW db \in DOMAIN held
      PROVE  held[db] \in Processes /\ progs[held[db]].layout.db = db /\ progs[held[db]].at \in Holding
  <2>1. /\ holders[db] \in Processes /\ procs[holders[db]].layout.db = db
        /\ procs[holders[db]].at \in Holding
    BY <1>2 DEF HostInv, HeldRightly
  <2> QED
    BY <1>1, <1>2, <2>1
<1>4. ASSUME NEW q \in Processes, progs[q].at \in Working
      PROVE  progs[q].layout.db \in DOMAIN held /\ held[progs[q].layout.db] = q
  <2>1. q # p /\ progs[q] = procs[q]
    BY <1>1, <1>4
  <2>2. procs[q].layout.db \in DOMAIN holders /\ holders[procs[q].layout.db] = q
    BY <1>4, <2>1 DEF HostInv, HeldRightly
  <2> QED
    BY <1>2, <2>1, <2>2
<1>5. HeldRightly(held, progs)
  BY <1>3, <1>4 DEF HeldRightly
<1> QED
  BY <1>5 DEF progs, held

(* A process takes a store that is free.                                    *)
LEMMA TakenRightly ==
  ASSUME HostInv, NEW p \in Processes, NEW proc, procs[p].at \notin Holding, proc.at \in Holding,
         proc.layout.db \notin DOMAIN holders
  PROVE  HeldRightly(With(holders, proc.layout.db, p), [procs EXCEPT ![p] = proc])
<1> DEFINE progs == [procs EXCEPT ![p] = proc]
           held == With(holders, proc.layout.db, p)
<1>1. /\ progs[p] = proc
      /\ \A q \in Processes : q # p => progs[q] = procs[q]
  BY DEF HostInv
<1>2. /\ DOMAIN held = DOMAIN holders \cup {proc.layout.db} /\ held[proc.layout.db] = p
      /\ \A db \in DOMAIN holders : held[db] = holders[db]
  BY DEF With
<1> HIDE DEF progs, held
<1>3. ASSUME NEW db \in DOMAIN holders
      PROVE  /\ holders[db] \in Processes /\ procs[holders[db]].layout.db = db
             /\ procs[holders[db]].at \in Holding /\ holders[db] # p
  BY DEF HostInv, HeldRightly
<1>4. ASSUME NEW db \in DOMAIN held
      PROVE  held[db] \in Processes /\ progs[held[db]].layout.db = db /\ progs[held[db]].at \in Holding
  <2>1. CASE db \in DOMAIN holders
    <3>1. held[db] = holders[db]
      BY <1>2, <2>1
    <3> QED
      BY <1>1, <1>3, <2>1, <3>1
  <2>2. CASE db = proc.layout.db
    BY <1>1, <1>2, <2>2
  <2> QED
    BY <1>2, <2>1, <2>2
<1>5. ASSUME NEW q \in Processes, progs[q].at \in Working
      PROVE  progs[q].layout.db \in DOMAIN held /\ held[progs[q].layout.db] = q
  <2>1. CASE q = p
    BY <1>1, <1>2, <2>1
  <2>2. CASE q # p
    <3>1. procs[q].layout.db \in DOMAIN holders /\ holders[procs[q].layout.db] = q
      BY <1>1, <1>5, <2>2 DEF HostInv, HeldRightly
    <3> QED
      BY <1>1, <1>2, <2>2, <3>1
  <2> QED
    BY <2>1, <2>2
<1>6. HeldRightly(held, progs)
  BY <1>4, <1>5 DEF HeldRightly
<1> QED
  BY <1>6 DEF progs, held

(* A step that leaves the files and the stores alone.                       *)
LEMMA QuietSteps ==
  ASSUME HostInv, NEW p \in Processes, NEW proc, procs' = [procs EXCEPT ![p] = proc],
         UNCHANGED <<identities, holders>>, ProcOk(proc), SettledIn(proc, identities),
         procs[p].at \in Holding => proc.at \in Holding /\ proc.layout = procs[p].layout,
         proc.at \in Working => procs[p].at \in Working /\ proc.layout = procs[p].layout
  PROVE  HostInv' /\ KeepsIdentity
<1>1. HeldRightly(holders', [procs EXCEPT ![p] = proc])
  BY HeldStays
<1>2. FilesKept(identities, identities') /\ AreFiles(identities') /\ SettledIn(proc, identities')
  BY DEF FilesKept, HostInv
<1> QED
  BY <1>1, <1>2, OneSteps

(* A step of a process that works and goes on working.                      *)
LEMMA WorkingSteps ==
  ASSUME HostInv, NEW p \in Processes, NEW proc, procs' = [procs EXCEPT ![p] = proc],
         UNCHANGED <<identities, holders>>, ProcOk(proc),
         procs[p].at \in Working, proc.at \in Working, proc.layout = procs[p].layout
  PROVE  HostInv' /\ KeepsIdentity
<1>1. procs[p].at \in Holding /\ proc.at \in Holding /\ SettledIn(procs[p], identities)
  BY DEF HostInv, Holding
<1>2. SettledIn(proc, identities)
  BY <1>1 DEF SettledIn
<1> QED
  BY <1>1, <1>2, QuietSteps

(* An answer is told, of a process that has no other call if it asks once.  *)
LEMMA RepliedOk ==
  ASSUME NEW proc, ProcOk(proc), proc.at \in Working, NEW reply, ReplyOk(reply), Lasts(proc) \/ proc.calls = {}
  PROVE  /\ ProcOk(Replied(proc, reply))
         /\ Replied(proc, reply).at \in Working /\ Replied(proc, reply).layout = proc.layout
<1>1. CASE Lasts(proc)
  <2> DEFINE after == [proc EXCEPT !.reply = reply]
  <2>1. /\ DOMAIN after = ProcFields /\ after.reply = reply /\ after.parsed = proc.parsed /\ after.at = proc.at
        /\ after.calls = proc.calls /\ after.layout = proc.layout
    BY DEF ProcOk, ProcFields
  <2>2. Replied(proc, reply) = after
    BY <1>1 DEF Replied, Lasts
  <2> HIDE DEF after
  <2>3. ProcOk(after)
    BY <1>1, <2>1 DEF ProcOk, Lasts
  <2> QED
    BY <2>1, <2>2, <2>3
<1>2. CASE ~Lasts(proc)
  <2> DEFINE after == [proc EXCEPT !.reply = reply, !.at = "close", !.exit = ExitCode(reply.code)]
  <2>1. /\ DOMAIN after = ProcFields /\ after.reply = reply /\ after.parsed = proc.parsed /\ after.at = "close"
        /\ after.calls = proc.calls /\ after.layout = proc.layout /\ after.exit = ExitCode(reply.code)
    BY DEF ProcOk, ProcFields
  <2>2. Replied(proc, reply) = after
    BY <1>2 DEF Replied, Lasts
  <2> HIDE DEF after
  <2>3. ProcOk(after)
    BY <1>2, <2>1 DEF ProcOk, Lasts, Places, Holding, Working
  <2> QED
    BY <2>1, <2>2, <2>3 DEF Working
<1> QED
  BY <1>1, <1>2

(* A call is under way no longer.                                           *)
LEMMA DroppedOk ==
  ASSUME NEW proc, ProcOk(proc), NEW call \in proc.calls
  PROVE  LET after == [proc EXCEPT !.calls = @ \ {call}]
         IN  /\ ProcOk(after) /\ after.at = proc.at /\ after.layout = proc.layout /\ after.closed = proc.closed
             /\ Lasts(after) = Lasts(proc) /\ after.parsed = proc.parsed
             /\ Lasts(after) \/ after.calls = {}
             /\ after.calls = proc.calls \ {call}
<1> DEFINE after == [proc EXCEPT !.calls = @ \ {call}]
<1>1. /\ DOMAIN after = ProcFields /\ after.reply = proc.reply /\ after.parsed = proc.parsed /\ after.at = proc.at
      /\ after.calls = proc.calls \ {call} /\ after.layout = proc.layout /\ after.exit = proc.exit
      /\ after.closed = proc.closed
  BY DEF ProcOk, ProcFields
<1> HIDE DEF after
<1>2. Lasts(after) = Lasts(proc)
  BY <1>1 DEF Lasts
<1>3. Lasts(after) \/ after.calls = {}
  BY <1>1, <1>2 DEF ProcOk
<1>4. ProcOk(after)
  BY <1>1, <1>2 DEF ProcOk
<1> QED
  BY <1>1, <1>2, <1>3, <1>4 DEF after

(* A call is under way, of a process that has no other if it asks once.     *)
LEMMA AddedOk ==
  ASSUME NEW proc, ProcOk(proc), proc.at \in Working, NEW call, CallOk(call),
         Lasts(proc) \/ (proc.calls = {} /\ proc.at = "work")
  PROVE  LET after == [proc EXCEPT !.calls = @ \cup {call}]
         IN  ProcOk(after) /\ after.at = proc.at /\ after.layout = proc.layout
<1> DEFINE after == [proc EXCEPT !.calls = @ \cup {call}]
<1>1. /\ DOMAIN after = ProcFields /\ after.reply = proc.reply /\ after.parsed = proc.parsed /\ after.at = proc.at
      /\ after.calls = proc.calls \cup {call} /\ after.layout = proc.layout /\ after.exit = proc.exit
  BY DEF ProcOk, ProcFields
<1> HIDE DEF after
<1>2. Lasts(after) = Lasts(proc)
  BY <1>1 DEF Lasts
<1>3. \A other \in after.calls : CallOk(other)
  BY <1>1 DEF ProcOk
<1>4. Lasts(after) \/ (after.calls = {call} /\ after.at = "work")
  BY <1>1, <1>2
<1>5. ProcOk(after)
  BY <1>1, <1>2, <1>3, <1>4 DEF ProcOk
<1> QED
  BY <1>1, <1>5 DEF after

(* No refusal of the service is a success.                                  *)
LEMMA RefusalOk ==
  ASSUME NEW isClosed, NEW req, NEW id, Refused(isClosed, req, id) # "none"
  PROVE  ReplyOk(Reply(Refused(isClosed, req, id), req, <<>>))
<1>1. AdminRefusal(req) \in
        {"ATLAS_INVALID_REQUEST", "ATLAS_INTERNAL", "ATLAS_UNSUPPORTED_ACTION", "ATLAS_CAPABILITY_UNAVAILABLE", "none"}
  BY DEF AdminRefusal, ChecksRefusal
<1>2. Refused(isClosed, req, id) \in
        {"ATLAS_INVALID_REQUEST", "ATLAS_INTERNAL", "ATLAS_UNSUPPORTED_ACTION", "ATLAS_CAPABILITY_UNAVAILABLE", "none"}
  BY <1>1 DEF Refused
<1> QED
  BY <1>2 DEF ReplyOk, Reply

(* A request is refused, or is under way.                                   *)
LEMMA ServedOk ==
  ASSUME NEW proc, ProcOk(proc), proc.at \in Working, NEW req, NEW id,
         Lasts(proc) \/ (proc.calls = {} /\ proc.at = "work")
  PROVE  /\ ProcOk(Served(proc, req, id))
         /\ Served(proc, req, id).at \in Working /\ Served(proc, req, id).layout = proc.layout
<1> DEFINE refusal == Refused(proc.closed, req, id)
           call == [request |-> req, left |-> Steps(req), did |-> <<>>, late |-> FALSE]
<1>1. CASE refusal # "none"
  <2>1. ReplyOk(Reply(refusal, req, <<>>))
    BY <1>1, RefusalOk
  <2>2. Served(proc, req, id) = Replied(proc, Reply(refusal, req, <<>>))
    BY <1>1 DEF Served
  <2> HIDE DEF refusal
  <2> QED
    BY <2>1, <2>2, RepliedOk
<1>2. CASE refusal = "none"
  <2>1. CallOk(call)
    BY StepsShape DEF CallOk
  <2>2. Served(proc, req, id) = [proc EXCEPT !.calls = @ \cup {call}]
    BY <1>2 DEF Served
  <2> HIDE DEF call, refusal
  <2> QED
    BY <2>1, <2>2, AddedOk
<1> QED
  BY <1>1, <1>2

(* What is left of a call is one step, or a migration with its backup.      *)
LEMMA LeftShape ==
  ASSUME NEW call, CallOk(call)
  PROVE  /\ Len(call.left) = 1 => call.left = <<call.left[1]>>
         /\ Len(call.left) # 1 => call.left = <<"health", "backup">>
<1>1. \A x : Len(<<x>>) = 1 /\ <<x>>[1] = x
  OBVIOUS
<1>2. Len(<<"health", "backup">>) = 2
  OBVIOUS
<1>3. (\E x : call.left = <<x>>) \/ call.left = <<"health", "backup">>
  <2>1. call.left \in Alone \cup {<<"health", "backup">>} \/ call.left = <<"backup">>
    BY DEF CallOk
  <2> QED
    BY <2>1, Zenon DEF Alone
<1> QED
  BY <1>1, <1>2, <1>3

(* A step of a call is taken: the call has failed, is done, or goes on.     *)
LEMMA AdvancedOk ==
  ASSUME NEW proc, ProcOk(proc), NEW call \in proc.calls
  PROVE  /\ ProcOk(Advanced(proc, call))
         /\ Advanced(proc, call).at \in Working /\ Advanced(proc, call).layout = proc.layout
<1> DEFINE did == Append(call.did, call.left[1])
           others == [proc EXCEPT !.calls = @ \ {call}]
           next == [call EXCEPT !.left = Tail(@), !.did = did, !.late = proc.at = "closeStore"]
           diverged == Reply("ATLAS_SCHEMA_HISTORY_DIVERGED", call.request, did)
           done == Reply("ok", call.request, did)
<1>1. CallOk(call) /\ proc.at \in Working
  BY DEF ProcOk
<1>2. /\ ProcOk(others) /\ others.at = proc.at /\ others.layout = proc.layout
      /\ Lasts(others) \/ (others.calls = {} /\ proc.at = "work")
  BY DroppedOk DEF ProcOk
<1>3. Diverged(call) => ReplyOk(diverged)
  <2> SUFFICES ASSUME Diverged(call) PROVE ReplyOk(diverged)
    OBVIOUS
  <2>1. call.did = <<>> /\ call.left[1] = "health"
    BY <1>1 DEF CallOk, Diverged
  <2>2. did = <<"health">>
    BY <2>1
  <2>3. "backup" \notin Range(did)
    BY <2>2 DEF Range
  <2> QED
    BY <2>3 DEF ReplyOk, Reply
<1>4. Len(call.left) = 1 => ReplyOk(done)
  <2> SUFFICES ASSUME Len(call.left) = 1 PROVE did = Steps(call.request)
    BY DEF ReplyOk, Reply
  <2>1. CASE call.did = <<>> /\ call.left = Steps(call.request)
    <3>1. call.left = <<call.left[1]>>
      BY LeftShape, <1>1
    <3>2. \A x : Append(<<>>, x) = <<x>>
      OBVIOUS
    <3>3. did = <<call.left[1]>>
      BY <2>1, <3>2
    <3> HIDE DEF did
    <3> QED
      BY <2>1, <3>1, <3>3, Zenon
  <2>2. CASE call.did = <<"health">> /\ call.left = <<"backup">> /\ Steps(call.request) = <<"health", "backup">>
    <3>1. did = Append(<<"health">>, "backup")
      BY <2>2
    <3>2. Append(<<"health">>, "backup") = <<"health", "backup">>
      <4>1. <<"health">> \in Seq({"health", "backup"})
        OBVIOUS
      <4>2. /\ Append(<<"health">>, "backup") \in Seq({"health", "backup"})
            /\ Len(Append(<<"health">>, "backup")) = 2
            /\ Append(<<"health">>, "backup")[1] = "health" /\ Append(<<"health">>, "backup")[2] = "backup"
        BY <4>1, AppendProperties
      <4>3. /\ <<"health", "backup">> \in Seq({"health", "backup"})
            /\ Len(<<"health", "backup">>) = 2
            /\ <<"health", "backup">>[1] = "health" /\ <<"health", "backup">>[2] = "backup"
        OBVIOUS
      <4>4. \A i \in 1 .. 2 : i = 1 \/ i = 2
        OBVIOUS
      <4> QED
        BY <4>2, <4>3, <4>4, SeqEqual
    <3> QED
      BY <2>2, <3>1, <3>2
  <2> QED
    BY <1>1, <2>1, <2>2 DEF CallOk
<1>5. Len(call.left) # 1 => CallOk(next)
  <2> SUFFICES ASSUME Len(call.left) # 1 PROVE CallOk(next)
    OBVIOUS
  <2>1. call.did = <<>> /\ call.left = Steps(call.request) /\ call.left = <<"health", "backup">>
    BY LeftShape, <1>1 DEF CallOk
  <2>2. Tail(call.left) = <<"backup">> /\ did = <<"health">>
    BY <2>1
  <2>3. /\ DOMAIN next = {"request", "left", "did", "late"} /\ next.request = call.request
        /\ next.left = Tail(call.left) /\ next.did = did
    BY <1>1 DEF CallOk
  <2> HIDE DEF next, did
  <2> QED
    BY <2>1, <2>2, <2>3 DEF CallOk
<1>6. Advanced(proc, call) = IF Diverged(call) THEN Replied(others, diverged)
                             ELSE IF Len(call.left) = 1 THEN Replied(others, done)
                             ELSE [others EXCEPT !.calls = @ \cup {next}]
  BY DEF Advanced
<1> HIDE DEF did, others, next, diverged, done
<1>7. CASE Diverged(call)
  BY <1>1, <1>2, <1>3, <1>6, <1>7, RepliedOk
<1>8. CASE ~Diverged(call) /\ Len(call.left) = 1
  BY <1>1, <1>2, <1>4, <1>6, <1>8, RepliedOk
<1>9. CASE ~Diverged(call) /\ Len(call.left) # 1
  BY <1>1, <1>2, <1>5, <1>6, <1>9, AddedOk
<1> QED
  BY <1>7, <1>8, <1>9

-----------------------------------------------------------------------------
(* A process that goes on elsewhere, as what it was.                        *)
Alike(proc, next) ==
  /\ DOMAIN next = ProcFields
  /\ next.calls = proc.calls /\ next.reply = proc.reply /\ next.parsed = proc.parsed /\ next.layout = proc.layout

(* The process p goes on as next.                                           *)
Becomes(p, next) == procs' = [procs EXCEPT ![p] = next] /\ Alike(procs[p], next)

LEMMA GoesOn ==
  ASSUME HostInv, NEW p \in Processes, NEW at, Goes(p, at)
  PROVE  \E next : Becomes(p, next) /\ next.at = at /\ next.exit = procs[p].exit
<1> DEFINE next == [procs[p] EXCEPT !.at = at]
<1>1. p \in DOMAIN procs /\ DOMAIN procs[p] = ProcFields
  BY DEF HostInv, ProcOk
<1>2. Alike(procs[p], next) /\ next.at = at /\ next.exit = procs[p].exit
  BY <1>1 DEF Alike, ProcFields
<1>3. procs' = [procs EXCEPT ![p] = next]
  BY <1>1 DEF Goes
<1> QED
  BY <1>2, <1>3 DEF Becomes

LEMMA EndsOn ==
  ASSUME HostInv, NEW p \in Processes, NEW at, NEW exit, Ends(p, at, exit)
  PROVE  \E next : Becomes(p, next) /\ next.at = at /\ next.exit = exit
<1> DEFINE next == [procs[p] EXCEPT !.at = at, !.exit = exit]
<1>1. p \in DOMAIN procs /\ DOMAIN procs[p] = ProcFields
  BY DEF HostInv, ProcOk
<1>2. Alike(procs[p], next) /\ next.at = at /\ next.exit = exit
  BY <1>1 DEF Alike, ProcFields
<1>3. procs' = [procs EXCEPT ![p] = next]
  BY <1>1 DEF Ends
<1> QED
  BY <1>2, <1>3 DEF Becomes

LEMMA LaidOutOn ==
  ASSUME HostInv, NEW p \in Processes, LaidOut(p)
  PROVE  \E next : Becomes(p, next) /\ next.at \in {"open", "done", "create"}
<1>1. CASE Goes(p, "open") \/ Ends(p, "done", 0)
  BY <1>1, GoesOn, EndsOn
<1>2. CASE procs' = [procs EXCEPT ![p].at = "create", ![p].initialized = TRUE]
  <2> DEFINE next == [procs[p] EXCEPT !.at = "create", !.initialized = TRUE]
  <2>1. p \in DOMAIN procs /\ DOMAIN procs[p] = ProcFields
    BY DEF HostInv, ProcOk
  <2>2. Alike(procs[p], next) /\ next.at = "create"
    BY <2>1 DEF Alike, ProcFields
  <2>3. procs' = [procs EXCEPT ![p] = next]
    BY <1>2, <2>1
  <2> QED
    BY <2>2, <2>3 DEF Becomes
<1> QED
  BY <1>1, <1>2 DEF LaidOut

(* A command that has not begun its work has neither calls nor an answer.   *)
LEMMA EarlyOk ==
  ASSUME NEW proc, ProcOk(proc), NEW next, Alike(proc, next), next.at \in Places,
         \/ proc.at \in {"create", "write", "compare", "open"}
         \/ proc.at = "work" /\ proc.calls = {} /\ ~Lasts(proc)
  PROVE  ProcOk(next)
<1>1. proc.calls = {} /\ (~Lasts(proc) => proc.reply.code = "none")
  BY DEF ProcOk, Working
<1>2. Lasts(next) = Lasts(proc)
  BY DEF Alike, Lasts
<1> QED
  BY <1>1, <1>2 DEF ProcOk, Alike

LEMMA BegunOk ==
  ASSUME NEW argv, NEW parsed
  PROVE  ProcOk(Begun(argv, parsed)) /\ Begun(argv, parsed).at \in {"create", "done"}
<1> DEFINE proc == Begun(argv, parsed)
<1>1. /\ DOMAIN proc = ProcFields /\ proc.at \in {"create", "done"} /\ proc.calls = {}
      /\ proc.reply.code = "none"
  BY DEF Begun, ProcFields, NoReply, Reply
<1> HIDE DEF proc
<1>2. ProcOk(proc)
  BY <1>1 DEF ProcOk, Places
<1> QED
  BY <1>1, <1>2 DEF proc

LEMMA NeverOk ==
  /\ ProcOk(Never) /\ Never.at = "done"
  /\ ProcOk([Never EXCEPT !.at = "dead"]) /\ [Never EXCEPT !.at = "dead"].at = "dead"
<1> DEFINE parsed == [positionals |-> <<"worktree">>, flags |-> <<>>]
           killed == [Never EXCEPT !.at = "dead"]
<1>1. Command(parsed) = "worktree"
  BY DEF Command
<1>2. ~Opens(parsed)
  BY <1>1 DEF Opens
<1>3. /\ DOMAIN Never = ProcFields /\ Never.at = "done" /\ Never.calls = {} /\ Never.reply.code = "none"
  BY <1>2 DEF Never, Begun, ProcFields, NoReply, Reply
<1>4. /\ DOMAIN killed = ProcFields /\ killed.at = "dead" /\ killed.calls = {} /\ killed.reply.code = "none"
  BY <1>3 DEF ProcFields
<1>5. ProcOk(Never)
  BY <1>3 DEF ProcOk, Places
<1> HIDE DEF killed
<1>6. ProcOk(killed)
  BY <1>4 DEF ProcOk, Places
<1> QED
  BY <1>3, <1>4, <1>5, <1>6 DEF killed

-----------------------------------------------------------------------------
(* What every step of a process keeps.                                      *)
LEMMA LaunchKeeps ==
  ASSUME HostInv, NEW p \in Processes, NEW argv, Launch(p, argv)
  PROVE  HostInv' /\ KeepsIdentity
<1> DEFINE next == Begun(argv, ParseArguments(argv))
<1>1. ProcOk(next) /\ next.at \in {"create", "done"}
  BY BegunOk
<1>2. procs' = [procs EXCEPT ![p] = next] /\ UNCHANGED <<identities, holders>> /\ procs[p].at \in Over
  BY DEF Launch
<1> HIDE DEF next
<1>3. procs[p].at \notin Holding /\ next.at \notin Working
  BY <1>1, <1>2 DEF Over, Holding, Working
<1>4. SettledIn(next, identities)
  BY <1>1 DEF SettledIn, Holding, Working
<1> QED
  BY <1>1, <1>2, <1>3, <1>4, QuietSteps

LEMMA CreateKeeps ==
  ASSUME HostInv, NEW p \in Processes, Create(p)
  PROVE  HostInv' /\ KeepsIdentity
<1> DEFINE d == Directory(p)
<1>1. procs[p].at = "create" /\ ProcOk(procs[p]) /\ UNCHANGED holders
  BY DEF Create, At, HostInv
<1>2. CASE d \in DOMAIN identities
  <2>1. Goes(p, "compare") /\ UNCHANGED identities
    BY <1>2 DEF Create
  <2>2. PICK next : Becomes(p, next) /\ next.at = "compare"
    BY <2>1, GoesOn
  <2>3. ProcOk(next)
    BY <1>1, <2>2, EarlyOk DEF Becomes, Places
  <2>4. next.layout.directory = d
    BY <2>2 DEF Becomes, Alike, Directory
  <2>5. SettledIn(next, identities)
    BY <1>2, <2>2, <2>4 DEF SettledIn, Holding, Working
  <2> QED
    BY <1>1, <2>1, <2>2, <2>3, <2>5, QuietSteps DEF Becomes, Holding, Working
<1>3. CASE d \notin DOMAIN identities
  <2> DEFINE file == [written |-> FALSE, of |-> procs[p].layout.identity]
             files == With(identities, d, file)
  <2>1. Goes(p, "write") /\ identities' = files
    BY <1>3 DEF Create
  <2>2. PICK next : Becomes(p, next) /\ next.at = "write"
    BY <2>1, GoesOn
  <2>3. ProcOk(next)
    BY <1>1, <2>2, EarlyOk DEF Becomes, Places
  <2>4. next.layout.directory = d /\ next.layout.identity = file.of
    BY <2>2 DEF Becomes, Alike, Directory
  <2>5. /\ DOMAIN files = DOMAIN identities \cup {d} /\ files[d] = file
        /\ \A e \in DOMAIN identities : files[e] = identities[e]
    BY <1>3 DEF With
  <2>6. file.written = FALSE /\ file = [written |-> file.written, of |-> file.of]
    OBVIOUS
  <2> HIDE DEF file, files, d
  <2>7. SettledIn(next, files)
    BY <2>2, <2>4, <2>5 DEF SettledIn, Holding, Working
  <2>8. FilesKept(identities, files)
    BY <2>5 DEF FilesKept
  <2>9. AreFiles(files)
    BY <2>5, <2>6 DEF AreFiles, HostInv
  <2>10. HeldRightly(holders', [procs EXCEPT ![p] = next])
    BY <1>1, <2>2, HeldStays DEF Holding, Working
  <2> QED
    BY <2>1, <2>2, <2>3, <2>7, <2>8, <2>9, <2>10, OneSteps DEF Becomes
<1> QED
  BY <1>2, <1>3

LEMMA WriteKeeps ==
  ASSUME HostInv, NEW p \in Processes, Write(p)
  PROVE  HostInv' /\ KeepsIdentity
<1> DEFINE d == Directory(p)
           files == [identities EXCEPT ![d].written = TRUE]
<1>1. procs[p].at = "write" /\ ProcOk(procs[p]) /\ UNCHANGED holders /\ LaidOut(p) /\ identities' = files
  BY DEF Write, At, HostInv
<1>2. PICK next : Becomes(p, next) /\ next.at \in {"open", "done", "create"}
  BY <1>1, LaidOutOn
<1>3. ProcOk(next)
  BY <1>1, <1>2, EarlyOk DEF Becomes, Places
<1>4. d \in DOMAIN identities /\ identities[d].of = procs[p].layout.identity
  BY <1>1 DEF HostInv, SettledIn, Directory
<1>5. /\ AreFiles(identities)
      /\ identities[d] = [written |-> identities[d].written, of |-> identities[d].of]
  BY <1>4 DEF HostInv, AreFiles
<1>6. /\ DOMAIN files = DOMAIN identities /\ files[d] = [written |-> TRUE, of |-> identities[d].of]
      /\ \A e \in DOMAIN identities : e # d => files[e] = identities[e]
  BY <1>4, <1>5
<1>7. next.layout.directory = d /\ next.layout.identity = procs[p].layout.identity
  BY <1>2 DEF Becomes, Alike, Directory
<1> HIDE DEF files, d
<1>8. SettledIn(next, files)
  BY <1>2, <1>4, <1>6, <1>7 DEF SettledIn, Holding, Working
<1>9. FilesKept(identities, files)
  <2> SUFFICES ASSUME NEW e \in DOMAIN identities
               PROVE  /\ e \in DOMAIN files /\ files[e].of = identities[e].of
                      /\ identities[e].written => files[e] = identities[e]
    BY DEF FilesKept
  <2>1. CASE e = d
    <3>1. identities[d].written \in BOOLEAN
      BY <1>4, <1>5 DEF AreFiles
    <3>2. identities[d].written => files[d] = identities[d]
      BY <1>5, <1>6, <3>1
    <3>3. files[d].of = identities[d].of
      BY <1>6
    <3> QED
      BY <1>6, <2>1, <3>2, <3>3
  <2>2. CASE e # d
    BY <1>6, <2>2
  <2> QED
    BY <2>1, <2>2
<1>10. AreFiles(files)
  <2> SUFFICES ASSUME NEW e \in DOMAIN identities
               PROVE  files[e] = [written |-> files[e].written, of |-> files[e].of] /\ files[e].written \in BOOLEAN
    BY <1>6 DEF AreFiles
  <2>1. CASE e = d
    <3> DEFINE of == identities[d].of
    <3>1. files[d] = [written |-> TRUE, of |-> of]
      BY <1>6
    <3> HIDE DEF of
    <3>2. files[d].written = TRUE /\ files[d].of = of
      BY <3>1
    <3> QED
      BY <2>1, <3>1, <3>2
  <2>2. CASE e # d
    BY <1>5, <1>6, <2>2 DEF AreFiles
  <2> QED
    BY <2>1, <2>2
<1>11. HeldRightly(holders', [procs EXCEPT ![p] = next])
  BY <1>1, <1>2, HeldStays DEF Holding, Working
<1> QED
  BY <1>1, <1>2, <1>3, <1>8, <1>9, <1>10, <1>11, OneSteps DEF Becomes

LEMMA CompareKeeps ==
  ASSUME HostInv, NEW p \in Processes, Compare(p)
  PROVE  HostInv' /\ KeepsIdentity
<1>1. procs[p].at = "compare" /\ ProcOk(procs[p]) /\ UNCHANGED <<identities, holders>>
  BY DEF Compare, At, HostInv
<1>2. \/ SameIdentity(identities[Directory(p)], procs[p].layout) /\ LaidOut(p)
      \/ Ends(p, "done", 2)
  BY DEF Compare
<1>3. PICK next : /\ Becomes(p, next) /\ next.at \in {"open", "done", "create"}
                  /\ next.at = "open" => SameIdentity(identities[Directory(p)], procs[p].layout)
  <2>1. CASE Ends(p, "done", 2)
    <3>1. \E next : Becomes(p, next) /\ next.at = "done"
      BY <2>1, EndsOn
    <3> QED
      BY <3>1
  <2>2. CASE SameIdentity(identities[Directory(p)], procs[p].layout) /\ LaidOut(p)
    BY <2>2, LaidOutOn
  <2> QED
    BY <1>2, <2>1, <2>2
<1>4. ProcOk(next)
  BY <1>1, <1>3, EarlyOk DEF Becomes, Places
<1>5. SettledIn(next, identities)
  <2>1. next.layout = procs[p].layout
    BY <1>3 DEF Becomes, Alike
  <2>2. Directory(p) \in DOMAIN identities
    BY <1>1 DEF HostInv, SettledIn, Directory
  <2>3. identities[Directory(p)].written \in BOOLEAN
    BY <2>2 DEF HostInv, AreFiles
  <2>4. next.at = "open" => /\ identities[Directory(p)].written = TRUE
                            /\ identities[Directory(p)].of = next.layout.identity
    BY <1>3, <2>1, <2>3 DEF SameIdentity
  <2> QED
    BY <1>3, <2>1, <2>2, <2>4 DEF SettledIn, Holding, Working, Directory
<1> QED
  BY <1>1, <1>3, <1>4, <1>5, QuietSteps DEF Becomes, Holding, Working

LEMMA OpenKeeps ==
  ASSUME HostInv, NEW p \in Processes, Open(p)
  PROVE  HostInv' /\ KeepsIdentity
<1>1. procs[p].at = "open" /\ ProcOk(procs[p]) /\ UNCHANGED identities
  BY DEF Open, At, HostInv
<1>2. CASE Ends(p, "done", 2) /\ UNCHANGED holders
  <2>1. PICK next : Becomes(p, next) /\ next.at = "done"
    BY <1>2, EndsOn
  <2>2. ProcOk(next)
    BY <1>1, <2>1, EarlyOk DEF Becomes, Places
  <2>3. SettledIn(next, identities)
    BY <2>1 DEF SettledIn, Holding, Working
  <2> QED
    BY <1>1, <1>2, <2>1, <2>2, <2>3, QuietSteps DEF Becomes, Holding, Working
<1>3. CASE /\ ~Held(Database(p)) /\ holders' = With(holders, Database(p), p)
           /\ Ends(p, "stuck", 2) \/ Goes(p, "work")
  <2>1. PICK next : Becomes(p, next) /\ next.at \in {"stuck", "work"}
    BY <1>3, EndsOn, GoesOn
  <2>2. ProcOk(next)
    BY <1>1, <2>1, EarlyOk DEF Becomes, Places, Holding, Working
  <2>3. next.layout = procs[p].layout
    BY <2>1 DEF Becomes, Alike
  <2>4. SettledIn(procs[p], identities)
    BY DEF HostInv
  <2>5. SettledIn(next, identities)
    BY <1>1, <2>1, <2>3, <2>4 DEF SettledIn, Holding, Working
  <2>6. HeldRightly(holders', [procs EXCEPT ![p] = next])
    <3>1. next.layout.db = Database(p) /\ Database(p) \notin DOMAIN holders
      BY <1>3, <2>3 DEF Database, Held
    <3>2. procs[p].at \notin Holding /\ next.at \in Holding
      BY <1>1, <2>1 DEF Holding, Working
    <3> QED
      BY <1>3, <3>1, <3>2, TakenRightly
  <2>7. FilesKept(identities, identities') /\ AreFiles(identities') /\ SettledIn(next, identities')
    BY <1>1, <2>5 DEF FilesKept, HostInv
  <2> QED
    BY <2>1, <2>2, <2>6, <2>7, OneSteps DEF Becomes
<1> QED
  BY <1>2, <1>3 DEF Open

(* A process that works has calls, and no other has.                        *)
LEMMA CallsKeep ==
  ASSUME HostInv, NEW p \in Processes, NEW req, NEW id, Calls(p, req, id), procs[p].at \in Working,
         Lasts(procs[p]) \/ (procs[p].calls = {} /\ procs[p].at = "work")
  PROVE  HostInv' /\ KeepsIdentity
<1> DEFINE next == Served(procs[p], req, id)
<1>1. ProcOk(procs[p])
  BY DEF HostInv
<1>2. ProcOk(next) /\ next.at \in Working /\ next.layout = procs[p].layout
  BY <1>1, ServedOk
<1>3. procs' = [procs EXCEPT ![p] = next] /\ UNCHANGED <<identities, holders>>
  BY DEF Calls
<1> HIDE DEF next
<1> QED
  BY <1>2, <1>3, WorkingSteps

LEMMA RunServiceCommandKeeps ==
  ASSUME HostInv, NEW p \in Processes, RunServiceCommand(p)
  PROVE  HostInv' /\ KeepsIdentity
<1>1. procs[p].at = "work" /\ procs[p].calls = {} /\ ~Lasts(procs[p]) /\ ProcOk(procs[p])
  BY DEF RunServiceCommand, At, Lasts, HostInv
<1>2. CASE Ends(p, "close", 2) /\ UNCHANGED <<identities, holders, starts>>
  <2>1. PICK next : Becomes(p, next) /\ next.at = "close"
    BY <1>2, EndsOn
  <2>2. ProcOk(next)
    BY <1>1, <2>1, EarlyOk DEF Becomes, Places, Holding, Working
  <2> QED
    BY <1>1, <1>2, <2>1, <2>2, WorkingSteps DEF Becomes, Alike, Working
<1>3. CASE Calls(p, ServiceRequest(procs[p].parsed), "none")
  BY <1>1, <1>3, CallsKeep DEF Working
<1> QED
  BY <1>2, <1>3 DEF RunServiceCommand

LEMMA BatchKeeps ==
  ASSUME HostInv, NEW p \in Processes, Batch(p)
  PROVE  HostInv' /\ KeepsIdentity
<1>1. procs[p].at = "work" /\ procs[p].calls = {}
  BY DEF Batch, Runs, At
<1> QED
  BY <1>1, CallsKeep DEF Batch, Working

LEMMA ToolKeeps ==
  ASSUME HostInv, NEW p \in Processes, NEW call, Tool(p, call)
  PROVE  HostInv' /\ KeepsIdentity
<1>1. procs[p].at = "work" /\ Lasts(procs[p]) /\ ProcOk(procs[p])
  BY DEF Tool, Runs, At, Lasts, Lasting, HostInv
<1>2. ASSUME NEW code, code \in {"ATLAS_CAPABILITY_UNAVAILABLE", "ATLAS_WORKSPACE_NOT_FOUND"}, Tells(p, code, call)
      PROVE  HostInv' /\ KeepsIdentity
  <2> DEFINE reply == Reply(code, [family |-> "none", fields |-> <<>>], <<>>)
             next == [procs[p] EXCEPT !.reply = reply]
  <2>1. procs' = [procs EXCEPT ![p] = next] /\ UNCHANGED <<identities, holders>>
    BY <1>2 DEF Tells
  <2>2. ReplyOk(reply)
    BY <1>2 DEF ReplyOk, Reply
  <2>3. next = Replied(procs[p], reply)
    BY <1>1 DEF Replied, Lasts
  <2> HIDE DEF reply, next
  <2>4. ProcOk(next) /\ next.at \in Working /\ next.layout = procs[p].layout
    BY <1>1, <2>2, <2>3, RepliedOk DEF Working
  <2> QED
    BY <1>1, <2>1, <2>4, WorkingSteps DEF Working
<1>3. CASE Calls(p, Sent(call), "none")
  BY <1>1, <1>3, CallsKeep DEF Working
<1> QED
  BY <1>2, <1>3 DEF Tool

LEMMA UseKeeps ==
  ASSUME HostInv, NEW p \in Processes, NEW call, NEW id, Use(p, call, id)
  PROVE  HostInv' /\ KeepsIdentity
<1>1. procs[p].at \in Working /\ Lasts(procs[p])
  BY DEF Use, Lasts, Lasting, Working
<1> QED
  BY <1>1, CallsKeep DEF Use

LEMMA AnswerKeeps ==
  ASSUME FailuresAssumption, HostInv, NEW p \in Processes, NEW call \in procs[p].calls, Answer(p, call)
  PROVE  HostInv' /\ KeepsIdentity
<1>1. ProcOk(procs[p]) /\ procs[p].at \in Working /\ CallOk(call) /\ UNCHANGED <<identities, holders>>
  BY DEF Answer, ProcOk, HostInv
<1>2. CASE procs' = [procs EXCEPT ![p] = Advanced(@, call)]
  <2> DEFINE next == Advanced(procs[p], call)
  <2>1. procs' = [procs EXCEPT ![p] = next]
    BY <1>2
  <2>2. ProcOk(next) /\ next.at \in Working /\ next.layout = procs[p].layout
    BY <1>1, AdvancedOk
  <2> HIDE DEF next
  <2> QED
    BY <1>1, <2>1, <2>2, WorkingSteps
<1>3. ASSUME NEW code \in Failures,
             procs' = [procs EXCEPT ![p] = Replied([procs[p] EXCEPT !.calls = @ \ {call}], Reply(code, call.request, call.did))]
      PROVE  HostInv' /\ KeepsIdentity
  <2> DEFINE others == [procs[p] EXCEPT !.calls = @ \ {call}]
             reply == Reply(code, call.request, call.did)
             next == Replied(others, reply)
  <2>1. procs' = [procs EXCEPT ![p] = next]
    BY <1>3
  <2>2. ProcOk(others) /\ others.at = procs[p].at /\ others.layout = procs[p].layout /\ (Lasts(others) \/ others.calls = {})
    BY <1>1, DroppedOk
  <2>3. ReplyOk(reply)
    <3>1. "backup" \notin Range(<<>>) /\ "backup" \notin Range(<<"health">>)
      BY DEF Range
    <3>2. "backup" \notin Range(call.did)
      BY <1>1, <3>1 DEF CallOk
    <3>3. code # "ok"
      BY DEF FailuresAssumption
    <3> QED
      BY <3>2, <3>3 DEF ReplyOk, Reply
  <2> HIDE DEF others, reply
  <2>4. ProcOk(next) /\ next.at \in Working /\ next.layout = procs[p].layout
    BY <1>1, <2>2, <2>3, RepliedOk
  <2> HIDE DEF next
  <2> QED
    BY <1>1, <2>1, <2>4, WorkingSteps
<1> QED
  BY <1>2, <1>3 DEF Answer

LEMMA CatchKeeps ==
  ASSUME HostInv, NEW p \in Processes, NEW signal, Catch(p, signal)
  PROVE  HostInv' /\ KeepsIdentity
<1>1. ProcOk(procs[p]) /\ p \in DOMAIN procs /\ UNCHANGED <<identities, holders>>
  BY DEF Catch, HostInv
<1>2. procs[p].at \in Working /\ Lasts(procs[p])
  BY DEF Catch, Handled, Lasts, Lasting, Working
<1> DEFINE at == IF procs[p].at = "work" THEN "close" ELSE procs[p].at
           next == [procs[p] EXCEPT !.caught = @ \cup {signal}, !.at = at]
<1>3. procs' = [procs EXCEPT ![p] = next]
  BY <1>1 DEF Catch, ProcOk, ProcFields
<1>4. /\ DOMAIN next = ProcFields /\ next.at = at /\ next.calls = procs[p].calls /\ next.reply = procs[p].reply
      /\ next.parsed = procs[p].parsed /\ next.layout = procs[p].layout
  BY <1>1 DEF ProcOk, ProcFields
<1>5. at \in Working
  BY <1>2 DEF Working
<1> HIDE DEF next, at
<1>6. Lasts(next)
  BY <1>2, <1>4 DEF Lasts
<1>7. ProcOk(next)
  BY <1>1, <1>4, <1>5, <1>6 DEF ProcOk, Places, Holding
<1> QED
  BY <1>1, <1>2, <1>3, <1>4, <1>5, <1>7, WorkingSteps

LEMMA QuitKeeps ==
  ASSUME HostInv, NEW p \in Processes, Quit(p)
  PROVE  HostInv' /\ KeepsIdentity
<1>1. procs[p].at = "work" /\ Lasts(procs[p]) /\ ProcOk(procs[p]) /\ UNCHANGED <<identities, holders>> /\ Goes(p, "close")
  BY DEF Quit, Runs, At, Lasts, Lasting, HostInv
<1>2. PICK next : Becomes(p, next) /\ next.at = "close"
  BY <1>1, GoesOn
<1>3. Lasts(next)
  BY <1>1, <1>2 DEF Lasts, Becomes, Alike
<1>4. ProcOk(next)
  BY <1>1, <1>2, <1>3 DEF ProcOk, Becomes, Alike, Places, Holding, Working
<1> QED
  BY <1>1, <1>2, <1>4, WorkingSteps DEF Becomes, Alike, Working

LEMMA CloseServiceKeeps ==
  ASSUME HostInv, NEW p \in Processes, CloseService(p)
  PROVE  HostInv' /\ KeepsIdentity
<1> DEFINE next == [procs[p] EXCEPT !.closed = TRUE, !.at = "closeStore"]
<1>1. ProcOk(procs[p]) /\ p \in DOMAIN procs /\ procs[p].at = "close" /\ UNCHANGED <<identities, holders>>
  BY DEF CloseService, At, HostInv
<1>2. procs' = [procs EXCEPT ![p] = next]
  BY <1>1 DEF CloseService, ProcOk, ProcFields
<1>3. /\ DOMAIN next = ProcFields /\ next.at = "closeStore" /\ next.calls = procs[p].calls
      /\ next.reply = procs[p].reply /\ next.exit = procs[p].exit
      /\ next.parsed = procs[p].parsed /\ next.layout = procs[p].layout
  BY <1>1 DEF ProcOk, ProcFields
<1> HIDE DEF next
<1>4. Lasts(next) = Lasts(procs[p])
  BY <1>3 DEF Lasts
<1>5. ProcOk(next)
  BY <1>1, <1>3, <1>4 DEF ProcOk, Places, Holding, Working
<1> QED
  BY <1>1, <1>2, <1>3, <1>5, WorkingSteps DEF Working

(* A process that is over holds nothing.                                    *)
LEMMA LeavingKeeps ==
  ASSUME HostInv, NEW p \in Processes, NEW next, procs' = [procs EXCEPT ![p] = next], ProcOk(next),
         next.at \in Over, holders' = Released(p), UNCHANGED identities
  PROVE  HostInv' /\ KeepsIdentity
<1>1. next.at \notin Working
  BY DEF Over, Working
<1>2. HeldRightly(holders', [procs EXCEPT ![p] = next])
  BY <1>1, ReleasedRightly
<1>3. FilesKept(identities, identities') /\ AreFiles(identities')
  BY DEF FilesKept, HostInv
<1>4. SettledIn(next, identities')
  BY DEF SettledIn, Over, Holding, Working
<1> QED
  BY <1>2, <1>3, <1>4, OneSteps

LEMMA KillKeeps ==
  ASSUME HostInv, NEW p \in Processes, Kill(p)
  PROVE  HostInv' /\ KeepsIdentity
<1> DEFINE next == [Never EXCEPT !.at = "dead"]
<1>1. ProcOk(next) /\ next.at = "dead"
  BY NeverOk
<1>2. procs' = [procs EXCEPT ![p] = next] /\ holders' = Released(p) /\ UNCHANGED identities
  BY DEF Kill
<1> HIDE DEF next
<1> QED
  BY <1>1, <1>2, LeavingKeeps DEF Over

LEMMA CloseStoreKeeps ==
  ASSUME HostInv, NEW p \in Processes, CloseStore(p)
  PROVE  HostInv' /\ KeepsIdentity
<1>1. ProcOk(procs[p]) /\ procs[p].at = "closeStore" /\ procs[p].calls = {} /\ UNCHANGED identities
  BY DEF CloseStore, At, HostInv
<1>2. CASE Goes(p, "done") /\ holders' = Released(p)
  <2>1. PICK next : Becomes(p, next) /\ next.at = "done" /\ next.exit = procs[p].exit
    BY <1>2, GoesOn
  <2>2. Lasts(next) = Lasts(procs[p])
    BY <2>1 DEF Lasts, Becomes, Alike
  <2>3. ProcOk(next)
    BY <1>1, <2>1, <2>2 DEF ProcOk, Becomes, Alike, Places
  <2> QED
    BY <1>1, <1>2, <2>1, <2>3, LeavingKeeps DEF Becomes, Over
<1>3. ASSUME NEW exit, Ends(p, "stuck", exit), UNCHANGED holders PROVE HostInv' /\ KeepsIdentity
  <2>1. PICK next : Becomes(p, next) /\ next.at = "stuck"
    BY <1>3, EndsOn
  <2>2. Lasts(next) = Lasts(procs[p]) /\ next.layout = procs[p].layout
    BY <2>1 DEF Lasts, Becomes, Alike
  <2>3. ProcOk(next)
    BY <1>1, <2>1, <2>2 DEF ProcOk, Becomes, Alike, Places, Holding, Working
  <2>4. SettledIn(procs[p], identities)
    BY DEF HostInv
  <2>5. SettledIn(next, identities)
    BY <1>1, <2>1, <2>2, <2>4 DEF SettledIn, Holding, Working
  <2> QED
    BY <1>1, <1>3, <2>1, <2>2, <2>3, <2>5, QuietSteps DEF Becomes, Holding, Working
<1> QED
  BY <1>2, <1>3 DEF CloseStore

-----------------------------------------------------------------------------
LEMMA HostBegins == HostInit => HostInv
<1> SUFFICES ASSUME HostInit PROVE HostInv
  OBVIOUS
<1>1. /\ identities = <<>> /\ holders = <<>> /\ DOMAIN procs = Processes
      /\ \A p \in Processes : procs[p] = Never
  BY DEF HostInit
<1>2. DOMAIN identities = {} /\ DOMAIN holders = {}
  BY <1>1
<1>3. ASSUME NEW p \in Processes PROVE ProcOk(procs[p]) /\ SettledIn(procs[p], identities) /\ procs[p].at \notin Working
  BY <1>1, NeverOk DEF SettledIn, Holding, Working
<1>4. AreFiles(identities)
  BY <1>2 DEF AreFiles
<1>5. HeldRightly(holders, procs)
  BY <1>2, <1>3 DEF HeldRightly
<1> QED
  BY <1>1, <1>3, <1>4, <1>5 DEF HostInv

LEMMA HostSteps ==
  ASSUME FailuresAssumption, HostInv, HostNext
  PROVE  HostInv' /\ KeepsIdentity
<1>1. PICK p \in Processes : Step(p)
  BY DEF HostNext
<1> QED
  BY <1>1, LaunchKeeps, CreateKeeps, WriteKeeps, CompareKeeps, OpenKeeps, RunServiceCommandKeeps, BatchKeeps, AnswerKeeps, ToolKeeps,
     UseKeeps, CatchKeeps, QuitKeeps, KillKeeps, CloseServiceKeeps, CloseStoreKeeps DEF Step

(* Whoever works in a directory is named in it and holds its store.         *)
LEMMA InvIsOwn == HostInv => OwnDirectory
<1> SUFFICES ASSUME HostInv, NEW p \in Processes
             PROVE  /\ procs[p].at \in {"open", "work", "close", "closeStore", "stuck"} =>
                         identities[Directory(p)] = [written |-> TRUE, of |-> procs[p].layout.identity]
                    /\ Holds(p) => procs[p].at # "done"
                    /\ procs[p].at \in {"work", "close", "closeStore"} => Holds(p)
  BY DEF OwnDirectory
<1>1. ASSUME procs[p].at \in {"open", "work", "close", "closeStore", "stuck"}
      PROVE  identities[Directory(p)] = [written |-> TRUE, of |-> procs[p].layout.identity]
  <2>1. SettledIn(procs[p], identities) /\ AreFiles(identities)
    BY DEF HostInv
  <2>2. /\ Directory(p) \in DOMAIN identities /\ identities[Directory(p)].written = TRUE
        /\ identities[Directory(p)].of = procs[p].layout.identity
    BY <1>1, <2>1 DEF SettledIn, Holding, Working, Directory
  <2> QED
    BY <2>1, <2>2 DEF AreFiles
<1>2. ASSUME Holds(p) PROVE procs[p].at # "done"
  BY <1>2 DEF Holds, HostInv, HeldRightly, Holding, Working
<1>3. ASSUME procs[p].at \in {"work", "close", "closeStore"} PROVE Holds(p)
  BY <1>3 DEF Holds, Database, HostInv, HeldRightly, Working
<1> QED
  BY <1>1, <1>2, <1>3

LEMMA InvAnswersTrue == HostInv => AnswersTrue
<1> SUFFICES ASSUME HostInv, NEW p \in Processes, procs[p].reply.code # "none"
             PROVE  /\ procs[p].reply.code = "ok" => procs[p].reply.did = Steps(procs[p].reply.request)
                    /\ procs[p].reply.code = "ATLAS_SCHEMA_HISTORY_DIVERGED" => "backup" \notin Range(procs[p].reply.did)
                    /\ (procs[p].at = "done" /\ Command(procs[p].parsed) \notin Lasting) =>
                          procs[p].exit = ExitCode(procs[p].reply.code)
  BY DEF AnswersTrue
<1>1. ProcOk(procs[p])
  BY DEF HostInv
<1> QED
  BY <1>1 DEF ProcOk, ReplyOk, Lasts

(* However many programs come and are killed: nobody works in a directory   *)
(* that is another's or without holding the store, nobody's success is told *)
(* before every step is taken, and a name once written is never changed.    *)
THEOREM HostsKeepApart ==
  ASSUME FailuresAssumption
  PROVE  HostSpec => HostSound
<1>1. HostInit => HostInv
  BY HostBegins
<1>2. HostInv /\ [HostNext]_hostVars => HostInv' /\ [KeepsIdentity]_hostVars
  <2> SUFFICES ASSUME HostInv, [HostNext]_hostVars PROVE HostInv' /\ [KeepsIdentity]_hostVars
    OBVIOUS
  <2>1. CASE UNCHANGED hostVars
    BY <2>1 DEF hostVars, HostInv
  <2>2. CASE HostNext
    BY <2>2, HostSteps
  <2> QED
    BY <2>1, <2>2
<1>3. HostInv => OwnDirectory /\ AnswersTrue
  BY InvIsOwn, InvAnswersTrue
<1> QED
  BY <1>1, <1>2, <1>3, PTL DEF HostSpec, HostSound

-----------------------------------------------------------------------------
(* What the read service answers.                                           *)

(* A set of naturals that is not empty has a least element: the order is    *)
(* well founded.                                                            *)
LEMMA LeastNat ==
  ASSUME NEW T \in SUBSET Nat, T # {}
  PROVE  \E x \in T : \A y \in T : x <= y
<1>1. IsWellFoundedOn(OpToRel(<, Nat), Nat)
  BY NatLessThanWellFounded
<1>2. PICK x \in T : \A y \in T : <<y, x>> \notin OpToRel(<, Nat)
  BY <1>1, WFMin
<1>3. \A y \in T : ~(y < x)
  BY <1>2 DEF OpToRel
<1> QED
  BY <1>3

(* And, where it is bounded, a greatest one.                                *)
LEMMA GreatestNat ==
  ASSUME NEW T \in SUBSET Nat, T # {}, NEW n \in Nat, \A x \in T : x <= n
  PROVE  \E x \in T : \A y \in T : y <= x
<1> DEFINE U == {n - x : x \in T}
<1>1. U \in SUBSET Nat /\ U # {}
  <2>1. \A x \in T : n - x \in Nat
    OBVIOUS
  <2>2. PICK x \in T : TRUE
    OBVIOUS
  <2>3. n - x \in U
    BY <2>2
  <2> QED
    BY <2>1, <2>3
<1> HIDE DEF U
<1>2. PICK u \in U : \A w \in U : u <= w
  BY <1>1, LeastNat
<1>3. PICK x \in T : u = n - x
  BY <1>2 DEF U
<1>4. ASSUME NEW y \in T PROVE y <= x
  <2>1. n - y \in U
    BY DEF U
  <2>2. u <= n - y
    BY <1>2, <2>1
  <2> QED
    BY <1>3, <2>2
<1> QED
  BY <1>4

(* What the community module calls the Max of such a set is that greatest   *)
(* element.                                                                 *)
LEMMA MaxIsGreatest ==
  ASSUME NEW T \in SUBSET Nat, NEW x \in T, \A y \in T : y <= x
  PROVE  Max(T) = x
<1>1. \A y \in T : x >= y
  OBVIOUS
<1>2. \A z \in T : (\A y \in T : z >= y) => z = x
  BY <1>1
<1> QED
  BY <1>1, <1>2 DEF Max

(* A row: a function of the numbers up to its length.                       *)
IsRow(f) == f \in Seq(Range(f))

(* A function over 1..n is a row.                                           *)
LEMMA RowOfFunction ==
  ASSUME NEW n \in Nat, NEW f, f \in [1..n -> Range(f)]
  PROVE  IsRow(f) /\ Len(f) = n
  BY DEF IsRow

(* A row has a length, and its elements are at the places up to it.         *)
LEMMA RowHasLength ==
  ASSUME NEW f, IsRow(f)
  PROVE  /\ Len(f) \in Nat
         /\ f = [i \in 1..Len(f) |-> f[i]]
         /\ DOMAIN f = 1..Len(f)
  BY DEF IsRow

(* A sequence of whatever set is a row.                                     *)
LEMMA SequenceIsRow ==
  ASSUME NEW S, NEW f \in Seq(S)
  PROVE  IsRow(f)
<1>1. Len(f) \in Nat /\ f \in [1..Len(f) -> Range(f)]
  BY DEF Range
<1> QED
  BY <1>1, RowOfFunction

(* A finite set put in order (ORDER BY) is a row.                           *)
LEMMA SortedIsRow ==
  ASSUME NEW S, IsFiniteSet(S)
  PROVE  IsRow(Sorted(S)) /\ Len(Sorted(S)) = Cardinality(S)
<1>1. Cardinality(S) \in Nat
  BY FS_CardinalityType
<1>2. Sorted(S) \in [1..Cardinality(S) -> Range(Sorted(S))]
  BY DEF Sorted, Range
<1> QED
  BY <1>1, <1>2, RowOfFunction

(* The items of a row of files are a row.                                   *)
LEMMA FileItemsAreRow ==
  ASSUME NEW f, IsRow(f)
  PROVE  IsRow(FileItems(f))
<1>1. Len(f) \in Nat /\ DOMAIN f = 1..Len(f)
  BY RowHasLength
<1>2. FileItems(f) \in [1..Len(f) -> Range(FileItems(f))]
  BY <1>1 DEF FileItems, Range
<1> QED
  BY <1>1, <1>2, RowOfFunction

(* What a limit leaves of a row is a row.                                   *)
LEMMA PrefixIsRow ==
  ASSUME NEW f, IsRow(f), NEW n \in Nat
  PROVE  IsRow(Prefix(f, n))
<1>1. Len(f) \in Nat /\ DOMAIN f = 1..Len(f)
  BY RowHasLength
<1>2. Minimum(Len(f), n) \in 0..Len(f)
  BY <1>1 DEF Minimum
<1>3. \A i \in 1..Minimum(Len(f), n) : f[i] \in Range(f)
  BY <1>1, <1>2 DEF Range
<1>4. SubSeq(f, 1, Minimum(Len(f), n)) \in Seq(Range(f))
  BY <1>2, <1>3, SubSeqProperties
<1> QED
  BY <1>4, SequenceIsRow DEF Prefix

(* Two rows one after the other are a row.                                  *)
LEMMA ConcatIsRow ==
  ASSUME NEW f, IsRow(f), NEW g, IsRow(g)
  PROVE  IsRow(f \o g)
<1> DEFINE S == Range(f) \cup Range(g)
<1>1. f \in Seq(S) /\ g \in Seq(S)
  BY DEF IsRow
<1>2. f \o g \in Seq(S)
  BY <1>1
<1> QED
  BY <1>2, SequenceIsRow


-----------------------------------------------------------------------------
(* What is taken from finitely many things is finite.                       *)
LEMMA ImageIsFinite ==
  ASSUME NEW S, IsFiniteSet(S), NEW f
  PROVE  IsFiniteSet({f[x] : x \in S})
<1> DEFINE T == {f[x] : x \in S}
           g == [x \in S |-> f[x]]
<1>1. g \in Surjection(S, T)
  BY DEF Surjection
<1> QED
  BY <1>1, FS_Surjection

(* What a filter leaves of a finite set is finite.                          *)
LEMMA PartIsFinite ==
  ASSUME NEW S, IsFiniteSet(S), NEW T, T \subseteq S
  PROVE  IsFiniteSet(T)
  BY FS_Subset

(* A request whose numbers are numbers, as one that is not refused is.      *)
Accepted(r) ==
  /\ {"family", "action"} \subseteq DOMAIN r
  /\ \A n \in Numbers \cap DOMAIN r : r[n] \in Nat \ {0}
  /\ "workspaces" \in DOMAIN r => r.workspaces \subseteq Workspaces /\ IsFiniteSet(r.workspaces)

(* What a query reads of a store is finite.                                 *)
StoreIsFinite(store) ==
  /\ IsFiniteSet(store.files) /\ IsFiniteSet(store.entries)
  /\ \A f \in store.files : IsFiniteSet(store.info[f].patterns) /\ IsFiniteSet(store.info[f].lacks)

(* Every store the service may ask is such a store.                         *)
StoresAreGood ==
  /\ 1 \in Workspaces
  /\ \A w \in Workspaces : StoreIsFinite(stores[w])

(* Which the assumption on the stores gives.                                *)
LEMMA StoresGood ==
  ASSUME stores \in Stores
  PROVE  StoresAreGood
  BY StoresAreFinite, RequestsAreRequests DEF StoresAreGood, StoreIsFinite

(* A list is a row of items, or what is asked about does not exist.         *)
IsList(list) == list = Refusal(NOT_FOUND) \/ \E s : IsRow(s) /\ list = ItemsOf(s)

(* The files a request lets through are finitely many.                      *)
LEMMA FilteredAreFinite ==
  ASSUME NEW store, StoreIsFinite(store), NEW r
  PROVE  IsFiniteSet(FilterFiles(store, r)) /\ FilterFiles(store, r) \subseteq store.files
<1>1. FilterFiles(store, r) \subseteq store.files
  BY DEF FilterFiles
<1> QED
  BY <1>1, PartIsFinite DEF StoreIsFinite

(* The hits of a search, as executeQuery counts them before it ranks.       *)
HitsOf(r, maximum) ==
  UNION {{FileItem(w, f) : f \in SearchFts(stores[w], r.query, maximum)} : w \in Field(r, "workspaces", {1})}

(* A search has finitely many hits.                                         *)
LEMMA HitsAreFinite ==
  ASSUME StoresAreGood, NEW r, Accepted(r), NEW maximum
  PROVE  IsFiniteSet(HitsOf(r, maximum))
<1> DEFINE Of == [w \in Field(r, "workspaces", {1}) |-> {FileItem(w, f) : f \in SearchFts(stores[w], r.query, maximum)}]
           asked == Field(r, "workspaces", {1})
           all == {Of[w] : w \in asked}
<1>1. asked \subseteq Workspaces /\ IsFiniteSet(asked)
  <2>1. IsFiniteSet({1})
    BY FS_Singleton
  <2> QED
    BY <2>1 DEF Accepted, StoresAreGood, Field
<1>2. ASSUME NEW w \in asked PROVE IsFiniteSet(Of[w])
  <2> DEFINE item == [f \in SearchFts(stores[w], r.query, maximum) |-> FileItem(w, f)]
  <2>1. SearchFts(stores[w], r.query, maximum) \subseteq stores[w].files
    BY DEF SearchFts
  <2>2. IsFiniteSet(SearchFts(stores[w], r.query, maximum))
    BY <1>1, <2>1, PartIsFinite DEF StoresAreGood, StoreIsFinite
  <2>3. IsFiniteSet({item[f] : f \in SearchFts(stores[w], r.query, maximum)})
    BY <2>2, ImageIsFinite
  <2>4. {item[f] : f \in SearchFts(stores[w], r.query, maximum)} = Of[w]
    OBVIOUS
  <2> QED
    BY <2>3, <2>4
<1>3. IsFiniteSet(all)
  <2> HIDE DEF Of, asked
  <2> QED
    BY <1>1, ImageIsFinite
<1>4. \A T \in all : IsFiniteSet(T)
  BY <1>2
<1>5. IsFiniteSet(UNION all)
  <2> HIDE DEF all
  <2> QED
    BY <1>3, <1>4, FS_UNION
<1>6. UNION all = HitsOf(r, maximum)
  BY DEF HitsOf
<1> HIDE DEF all
<1> QED
  BY <1>5, <1>6

(* The ranked files are a row.                                              *)
LEMMA RankedIsRow ==
  ASSUME StoresAreGood, NEW r, Accepted(r), NEW maximum
  PROVE  IsRow(RankedFiles(stores, r, maximum))
<1> DEFINE matches == HitsOf(r, maximum)
           kept == {h \in matches : h.file \in FilterFiles(stores[h.workspace], r)}
           ranked == RankedFiles(stores, r, maximum)
<1>1. IsFiniteSet(matches)
  BY HitsAreFinite
<1>2. IsFiniteSet(kept)
  <2> HIDE DEF matches
  <2> QED
    BY <1>1, PartIsFinite
<1>3. Cardinality(kept) \in Nat
  BY <1>2, FS_CardinalityType
<1>4. ranked \in [1..Cardinality(kept) -> Range(ranked)]
  BY DEF RankedFiles, HitsOf, InOrder, Range
<1> QED
  BY <1>3, <1>4, RowOfFunction

(* So are they with the near files of a search that expands.                *)
LEMMA ExpandedIsRow ==
  ASSUME NEW store, StoreIsFinite(store), NEW r, NEW matches, IsRow(matches), NEW maximum
  PROVE  IsRow(Expand(store, r, matches, maximum))
<1> DEFINE own == SelectSeq(matches, LAMBDA h : h.workspace = 1)
           near == [k \in DOMAIN Prefix(own, Expanded) |-> Near(store, r, own[k].file, maximum)]
           nearby == UNION Range(near)
           first == [f \in nearby |-> Min({k \in DOMAIN near : f \in near[k]})]
           new == {f \in (nearby \cap store.files) \ {own[k].file : k \in DOMAIN own} : Shown(store, r, f)}
           joining == InOrder(new, LAMBDA f, g : first[f] < first[g] \/ (first[f] = first[g] /\ f < g))
           Again(f) == \E k \in DOMAIN near : k > first[f] /\ f \in near[k]
           left == [k \in DOMAIN matches |-> [matches[k] EXCEPT !.reasons = IF matches[k].workspace = 1 /\ matches[k].file \in nearby THEN 2 ELSE @]]
           right == [k \in DOMAIN joining |-> FileItem(1, joining[k]) @@ [reasons |-> IF Again(joining[k]) THEN 2 ELSE 1]]
<1>1. Expand(store, r, matches, maximum) = left \o right
  BY DEF Expand
<1>2. IsRow(left)
  <2> HIDE DEF nearby
  <2>1. Len(matches) \in Nat /\ DOMAIN matches = 1..Len(matches)
    BY RowHasLength
  <2>2. left \in [1..Len(matches) -> Range(left)]
    BY <2>1 DEF Range
  <2> HIDE DEF left
  <2> QED
    BY <2>1, <2>2, RowOfFunction
<1>3. Cardinality(new) \in Nat
  <2>1. new \subseteq store.files
    OBVIOUS
  <2> HIDE DEF new
  <2>2. IsFiniteSet(new)
    BY <2>1, PartIsFinite DEF StoreIsFinite
  <2> QED
    BY <2>2, FS_CardinalityType
<1>4. DOMAIN joining = 1..Cardinality(new)
  <2> HIDE DEF new, first
  <2> QED
    BY DEF InOrder
<1>5. IsRow(right)
  <2> HIDE DEF joining, Again, new
  <2>1. right \in [1..Cardinality(new) -> Range(right)]
    BY <1>4 DEF Range
  <2> HIDE DEF right
  <2> QED
    BY <1>3, <2>1, RowOfFunction
<1> HIDE DEF left, right
<1> QED
  BY <1>1, <1>2, <1>5, ConcatIsRow

(* Each list of executeQuery and executeAudit is a row, or nothing is       *)
(* found: search,                                                           *)
LEMMA SearchedIsList ==
  ASSUME StoresAreGood, NEW r, Accepted(r)
  PROVE  IsList(Searched(stores, r))
<1> DEFINE maximum == IF r.action = "plan_context" THEN MaxPlan ELSE MaxItems
           ranked == RankedFiles(stores, r, maximum)
           matches == [k \in DOMAIN ranked |-> ranked[k] @@ [reasons |-> 1]]
           near == r.action = "plan_context" /\ Field(r, "includeNeighbors", TRUE)
           all == IF near THEN Expand(stores[1], r, matches, maximum) ELSE matches
<1>1. Searched(stores, r) = ItemsOf(Prefix(all, maximum))
  BY DEF Searched
<1>2. maximum \in Nat
  BY LinesAreNumbers
<1>3. IsRow(ranked)
  BY RankedIsRow
<1>4. IsRow(matches)
  <2> HIDE DEF ranked
  <2>1. Len(ranked) \in Nat /\ DOMAIN ranked = 1..Len(ranked)
    BY <1>3, RowHasLength
  <2>2. matches \in [1..Len(ranked) -> Range(matches)]
    BY <2>1 DEF Range
  <2> HIDE DEF matches
  <2> QED
    BY <2>1, <2>2, RowOfFunction
<1> HIDE DEF matches, maximum
<1>5. IsRow(all)
  BY <1>4, ExpandedIsRow DEF StoresAreGood
<1> HIDE DEF all
<1>6. IsRow(Prefix(all, maximum))
  BY <1>2, <1>5, PrefixIsRow
<1> QED
  BY <1>1, <1>6 DEF IsList

(* the catalog,                                                             *)
LEMMA CatalogIsList ==
  ASSUME NEW store, StoreIsFinite(store), NEW r
  PROVE  IsList(Catalog(store, r))
<1> DEFINE text(f) == store.info[f][Field(r, "field", "blurb")]
           found == {f \in FilterFiles(store, r) : "query" \in DOMAIN r => r.query \in text(f)}
<1>1. Catalog(store, r) = ItemsOf(FileItems(Sorted(found)))
  BY DEF Catalog
<1>2. IsFiniteSet(found)
  BY FilteredAreFinite, PartIsFinite
<1> HIDE DEF found
<1>3. IsRow(FileItems(Sorted(found)))
  BY <1>2, SortedIsRow, FileItemsAreRow
<1> QED
  BY <1>1, <1>3 DEF IsList

(* similar files,                                                           *)
LEMMA SimilarIsList ==
  ASSUME NEW store, StoreIsFinite(store), NEW r
  PROVE  IsList(Similar(store, r))
<1> DEFINE files == FilterFiles(store, r)
           tokens(f) == store.info[f].tokens
           shared(f) == Cardinality(tokens(f) \cap tokens(r.filePath))
           all(f) == Cardinality(tokens(f) \cup tokens(r.filePath))
           others == {f \in files : f # r.filePath /\ shared(f) * 100 >= Field(r, "minScore", 0) * all(f)}
           Closer(f, g) == \/ shared(f) * all(g) > shared(g) * all(f)
                           \/ shared(f) * all(g) = shared(g) * all(f) /\ f < g
           ranked == InOrder(others, Closer)
<1>1. Similar(store, r) = IF r.filePath \notin files THEN Refusal(NOT_FOUND) ELSE ItemsOf(FileItems(ranked))
  BY DEF Similar
<1>2. Cardinality(others) \in Nat
  BY FilteredAreFinite, PartIsFinite, FS_CardinalityType
<1>3. ranked \in [1..Cardinality(others) -> Range(ranked)]
  <2> HIDE DEF others, Closer
  <2> QED
    BY DEF InOrder, Range
<1> HIDE DEF others, ranked
<1>4. IsRow(FileItems(ranked))
  BY <1>2, <1>3, RowOfFunction, FileItemsAreRow
<1> QED
  BY <1>1, <1>4 DEF IsList

(* clusters,                                                                *)
LEMMA ClustersIsList ==
  ASSUME NEW store, StoreIsFinite(store), NEW r
  PROVE  IsList(Clusters(store, r))
<1> DEFINE files == FilterFiles(store, r)
           named == {store.cluster[f] : f \in files} \ {"none"}
           keys == InOrder(named, LAMBDA a, b : PlaceOf(a) < PlaceOf(b))
           counted == [k \in DOMAIN keys |-> [key |-> keys[k], files |-> Cardinality({f \in files : store.cluster[f] = keys[k]})]]
<1>1. Clusters(store, r) = ItemsOf(IF "cluster" \in DOMAIN r THEN FileItems(Sorted(files)) ELSE counted)
  BY DEF Clusters, Keyed
<1>2. IsFiniteSet(files)
  BY FilteredAreFinite
<1> HIDE DEF files
<1>3. Cardinality(named) \in Nat
  <2> DEFINE names == {store.cluster[f] : f \in files}
  <2>1. IsFiniteSet(names)
    BY <1>2, ImageIsFinite
  <2>2. named \subseteq names
    OBVIOUS
  <2> HIDE DEF names, named
  <2> QED
    BY <2>1, <2>2, PartIsFinite, FS_CardinalityType
<1>4. keys \in [1..Cardinality(named) -> Range(keys)]
  <2> HIDE DEF named
  <2> QED
    BY DEF InOrder, Range
<1> HIDE DEF named, keys
<1>5. counted \in [1..Cardinality(named) -> Range(counted)]
  BY <1>4 DEF Range
<1> HIDE DEF counted
<1>6. IsRow(counted)
  BY <1>3, <1>5, RowOfFunction
<1>7. IsRow(FileItems(Sorted(files)))
  BY <1>2, SortedIsRow, FileItemsAreRow
<1> QED
  BY <1>1, <1>6, <1>7 DEF IsList

(* The names of a finite set, each with the file that has them.             *)
LEMMA PatternsIsList ==
  ASSUME NEW store, StoreIsFinite(store), NEW r
  PROVE  IsList(Patterns(store, r))
<1> DEFINE files == FilterFiles(store, r)
           patterns(f) == store.info[f].patterns
           count(p) == Cardinality({f \in files : p \in patterns(f)})
           More(p, q) == count(p) > count(q) \/ (count(p) = count(q) /\ PlaceOf(p) < PlaceOf(q))
           ofFile == InOrder(patterns(r.filePath), LAMBDA p, q : PlaceOf(p) < PlaceOf(q))
           named == [k \in DOMAIN ofFile |-> [key |-> ofFile[k], file |-> r.filePath]]
           having == {f \in files : r.pattern \in patterns(f)}
           every == UNION {patterns(f) : f \in files}
           keys == InOrder(every, More)
           counted == [k \in DOMAIN keys |-> [key |-> keys[k], files |-> count(keys[k])]]
<1>1. Patterns(store, r) = CASE "filePath" \in DOMAIN r -> IF r.filePath \in files THEN ItemsOf(named) ELSE Refusal(NOT_FOUND)
                             [] "pattern" \in DOMAIN r -> ItemsOf(FileItems(Sorted(having)))
                             [] OTHER -> ItemsOf(counted)
  BY DEF Patterns, Keyed
<1>2. IsFiniteSet(files) /\ \A f \in files : IsFiniteSet(patterns(f))
  BY FilteredAreFinite DEF StoreIsFinite
<1> HIDE DEF files
<1>3. ASSUME r.filePath \in files PROVE IsRow(named)
  <2> DEFINE mine == patterns(r.filePath)
  <2>1. Cardinality(mine) \in Nat
    BY <1>2, <1>3, FS_CardinalityType
  <2>2. ofFile \in [1..Cardinality(mine) -> Range(ofFile)]
    <3> HIDE DEF mine
    <3>1. ofFile = InOrder(mine, LAMBDA p, q : PlaceOf(p) < PlaceOf(q))
      BY DEF mine
    <3> HIDE DEF ofFile
    <3> QED
      BY <3>1 DEF InOrder, Range
  <2> HIDE DEF ofFile, mine
  <2>3. named \in [1..Cardinality(mine) -> Range(named)]
    BY <2>2 DEF Range
  <2> HIDE DEF named
  <2> QED
    BY <2>1, <2>3, RowOfFunction
<1>4. IsRow(FileItems(Sorted(having)))
  <2>1. IsFiniteSet(having)
    BY <1>2, PartIsFinite
  <2> HIDE DEF having
  <2> QED
    BY <2>1, SortedIsRow, FileItemsAreRow
<1>5. Cardinality(every) \in Nat
  <2> DEFINE Of == [f \in files |-> patterns(f)]
             all == {Of[f] : f \in files}
  <2>1. IsFiniteSet(all)
    <3> HIDE DEF Of
    <3> QED
      BY <1>2, ImageIsFinite
  <2>2. \A T \in all : IsFiniteSet(T)
    BY <1>2
  <2>3. every = UNION all
    OBVIOUS
  <2> HIDE DEF all, every
  <2> QED
    BY <2>1, <2>2, <2>3, FS_UNION, FS_CardinalityType
<1>6. keys \in [1..Cardinality(every) -> Range(keys)]
  <2> HIDE DEF every, More
  <2> QED
    BY DEF InOrder, Range
<1> HIDE DEF every, keys
<1>7. counted \in [1..Cardinality(every) -> Range(counted)]
  <2> HIDE DEF count
  <2> QED
    BY <1>6 DEF Range
<1> HIDE DEF counted, named, having
<1>8. IsRow(counted)
  BY <1>5, <1>7, RowOfFunction
<1> QED
  BY <1>1, <1>3, <1>4, <1>8 DEF IsList

-----------------------------------------------------------------------------
(* Every page of the history is a window on one list, which is as long as   *)
(* the store says that there is.                                            *)
HistoryIs(store, r, L) ==
  /\ IsRow(L) /\ Len(L) = HistoryTotal(store, r)
  /\ \A limit \in Nat, offset \in Nat : HistoryFrom(store, r, limit, offset) = Window(L, limit, offset)

(* the entries of a history,                                                *)
LEMMA EntriesAreList ==
  ASSUME NEW store, StoreIsFinite(store), NEW r, Field(r, "mode", "entries") # "group"
  PROVE  \E L : HistoryIs(store, r, L)
<1> DEFINE found == Where(store.entries, HistoryFilters(r))
           L == InOrder(found, LAMBDA a, b : Precedes(HistoryFilters(r), a, b))
<1>1. Cardinality(found) \in Nat
  <2>1. found \subseteq store.entries
    BY DEF Where
  <2> HIDE DEF found
  <2> QED
    BY <2>1, PartIsFinite, FS_CardinalityType DEF StoreIsFinite
<1>2. HistoryTotal(store, r) = Cardinality(found)
  BY DEF HistoryTotal, CountAtlasChangelog, Span
<1>3. \A limit, offset : HistoryFrom(store, r, limit, offset) = Window(L, limit, offset)
  BY DEF HistoryFrom, QueryAtlasChangelog
<1>4. L \in [1..Cardinality(found) -> Range(L)]
  <2> HIDE DEF found
  <2> QED
    BY DEF InOrder, Range
<1> HIDE DEF L, found
<1>5. IsRow(L) /\ Len(L) = Cardinality(found)
  BY <1>1, <1>4, RowOfFunction
<1> QED
  BY <1>2, <1>3, <1>5 DEF HistoryIs

(* the groups of a history,                                                 *)
LEMMA GroupsAreList ==
  ASSUME NEW store, StoreIsFinite(store), NEW r, Field(r, "mode", "entries") = "group"
  PROVE  \E L : HistoryIs(store, r, L)
<1> DEFINE filters == HistoryFilters(r)
           column == GroupColumn(r)
           groups == GroupsOf(store.entries, filters, column)
           place == [key \in groups |-> IF column = "file_path" THEN key ELSE PlaceOf(key)]
           SpanOf(key) == Span({e \in Where(store.entries, filters) : e[column] = key})
           Larger(a, b) == \/ SpanOf(a).total > SpanOf(b).total
                           \/ SpanOf(a).total = SpanOf(b).total /\ place[a] < place[b]
           keys == InOrder(groups, Larger)
           rows == [k \in DOMAIN keys |-> [key |-> keys[k], span |-> SpanOf(keys[k])]]
<1>1. Cardinality(groups) \in Nat
  <2> DEFINE found == Where(store.entries, filters)
             column_of == [e \in found |-> e[column]]
  <2>1. found \subseteq store.entries
    BY DEF Where
  <2>2. IsFiniteSet(found)
    <3> HIDE DEF found
    <3> QED
      BY <2>1, PartIsFinite DEF StoreIsFinite
  <2>3. groups = {column_of[e] : e \in found}
    BY DEF GroupsOf
  <2> HIDE DEF found, column_of, groups
  <2> QED
    BY <2>2, <2>3, ImageIsFinite, FS_CardinalityType
<1>2. HistoryTotal(store, r) = IF column \in GroupColumns THEN Cardinality(groups) ELSE 0
  BY DEF HistoryTotal, CountAtlasChangelogGroups
<1>3. \A limit, offset : HistoryFrom(store, r, limit, offset) = IF column \notin GroupColumns THEN <<>> ELSE Window(rows, limit, offset)
  BY DEF HistoryFrom, GroupAtlasChangelog
<1>4. keys \in [1..Cardinality(groups) -> Range(keys)]
  <2> HIDE DEF groups, Larger
  <2> QED
    BY DEF InOrder, Range
<1> HIDE DEF groups, keys
<1>5. rows \in [1..Cardinality(groups) -> Range(rows)]
  <2> HIDE DEF SpanOf
  <2> QED
    BY <1>4 DEF Range
<1> HIDE DEF rows
<1>6. IsRow(rows) /\ Len(rows) = Cardinality(groups)
  BY <1>1, <1>5, RowOfFunction
<1>7. CASE column \in GroupColumns
  BY <1>2, <1>3, <1>6, <1>7 DEF HistoryIs
<1>8. CASE column \notin GroupColumns
  <2>1. IsRow(<<>>) /\ Len(<<>>) = 0
    BY SequenceIsRow, EmptySeq
  <2>2. \A limit \in Nat, offset \in Nat : Window(<<>>, limit, offset) = <<>>
    BY DEF Window
  <2> QED
    BY <1>2, <1>3, <1>8, <2>1, <2>2 DEF HistoryIs
<1> QED
  BY <1>7, <1>8

(* a history of either mode,                                                *)
LEMMA HistoryHasList ==
  ASSUME NEW store, StoreIsFinite(store), NEW r
  PROVE  \E L : HistoryIs(store, r, L)
  BY EntriesAreList, GroupsAreList

(* All of a list is a window on it.                                         *)
LEMMA WholeWindow ==
  ASSUME NEW L, IsRow(L)
  PROVE  Window(L, Len(L), 0) = L
<1>1. Len(L) \in Nat
  BY RowHasLength
<1>2. Window(L, Len(L), 0) = SubSeq(L, 1, Len(L))
  BY <1>1 DEF Window
<1> QED
  BY <1>2, SubSeqFull DEF IsRow

(* a page of the history being a window on that list,                       *)
LEMMA HistoryIsList ==
  ASSUME NEW store, StoreIsFinite(store), NEW r
  PROVE  /\ IsList(History(store, r))
         /\ FromStore(r) => \E L : HistoryIs(store, r, L) /\ History(store, r) = ItemsOf(L)
<1>1. CASE FromStore(r)
  <2>1. PICK L : HistoryIs(store, r, L)
    BY HistoryHasList
  <2>2. History(store, r) = ItemsOf(HistoryFrom(store, r, HistoryTotal(store, r), 0))
    <3>1. Field(r, "mode", "entries") # "count"
      BY <1>1 DEF FromStore
    <3> QED
      BY <1>1, <3>1 DEF History
  <2>3. Len(L) \in Nat
    BY <2>1, RowHasLength DEF HistoryIs
  <2>4. HistoryFrom(store, r, HistoryTotal(store, r), 0) = L
    BY <2>1, <2>3, WholeWindow DEF HistoryIs
  <2> QED
    BY <1>1, <2>1, <2>2, <2>4 DEF IsList, HistoryIs
<1>2. CASE ~FromStore(r) /\ Field(r, "mode", "entries") = "count"
  <2> DEFINE one == <<CountAtlasChangelog(store.entries, HistoryFilters(r))>>
  <2>1. History(store, r) = ItemsOf(one)
    BY <1>2 DEF History
  <2>2. IsRow(one)
    <3> DEFINE c == CountAtlasChangelog(store.entries, HistoryFilters(r))
    <3> HIDE DEF c
    <3>1. <<c>> \in Seq({c})
      OBVIOUS
    <3> QED
      BY <3>1, SequenceIsRow DEF c
  <2> QED
    BY <1>2, <2>1, <2>2 DEF IsList
<1>3. CASE ~FromStore(r) /\ Field(r, "mode", "entries") # "count"
  <2> DEFINE bucket == Field(r, "bucket", "day")
             found == Where(store.entries, HistoryFilters(r))
             In(p) == {e \in found : PeriodOf(e, bucket) = p}
             Who(e) == IF e.author_name # "none" THEN e.author_name ELSE e.author_instance_id
             Row(p) == [period |-> p, count |-> Cardinality(In(p)),
                        unique_files |-> Cardinality({e.file_path : e \in In(p)}),
                        unique_authors |-> Cardinality({Who(e) : e \in In(p)} \ {"none"}),
                        breaking_count |-> Cardinality({e \in In(p) : e.breaking_changes})]
             rowOf == [e \in found |-> Row(PeriodOf(e, bucket))]
             rows == {Row(PeriodOf(e, bucket)) : e \in found}
             L == InOrder(rows, LAMBDA a, b : a.period < b.period)
  <2>1. History(store, r) = ItemsOf(L)
    BY <1>3 DEF History, TimelineAtlasChangelog
  <2>2. IsFiniteSet(found)
    <3>1. found \subseteq store.entries
      BY DEF Where
    <3> HIDE DEF found
    <3> QED
      BY <3>1, PartIsFinite DEF StoreIsFinite
  <2>3. rows = {rowOf[e] : e \in found}
    <3> HIDE DEF Row
    <3> QED
      OBVIOUS
  <2> HIDE DEF found, rowOf, rows
  <2>4. Cardinality(rows) \in Nat
    BY <2>2, <2>3, ImageIsFinite, FS_CardinalityType
  <2>5. L \in [1..Cardinality(rows) -> Range(L)]
    BY DEF InOrder, Range
  <2> HIDE DEF L
  <2> QED
    BY <1>3, <2>1, <2>4, <2>5, RowOfFunction DEF IsList
<1> QED
  BY <1>1, <1>2, <1>3

-----------------------------------------------------------------------------
(* and the findings of an audit, whose files are finitely many,             *)
LEMMA AuditedAreFinite ==
  ASSUME NEW store, StoreIsFinite(store), NEW r
  PROVE  IsFiniteSet(AuditFiles(store, r)) /\ AuditFiles(store, r) \subseteq store.files
<1>1. AuditFiles(store, r) \subseteq FilterFiles(store, r)
  BY DEF AuditFiles
<1> QED
  BY <1>1, FilteredAreFinite, PartIsFinite

(* with finitely many gaps                                                  *)
LEMMA GapsAreFinite ==
  ASSUME NEW store, StoreIsFinite(store), NEW r
  PROVE  IsFiniteSet(Gaps(store, r))
<1> DEFINE types == Field(r, "gapTypes", {})
           wanted(g) == types = {} \/ g \in types
           lacking(f) == {g \in store.info[f].lacks : wanted(g)}
           Of == [f \in AuditFiles(store, r) |-> {Finding({f}, g) : g \in lacking(f)}]
           files == AuditFiles(store, r)
           all == {Of[f] : f \in files}
<1>1. Gaps(store, r) = UNION all
  BY DEF Gaps
<1>2. IsFiniteSet(files)
  BY AuditedAreFinite
<1>3. ASSUME NEW f \in files PROVE IsFiniteSet(Of[f])
  <2> DEFINE lacks == lacking(f)
             finding == [g \in lacks |-> Finding({f}, g)]
  <2>1. IsFiniteSet(lacks)
    BY AuditedAreFinite, PartIsFinite DEF StoreIsFinite
  <2>2. Of[f] = {finding[g] : g \in lacks}
    OBVIOUS
  <2> HIDE DEF lacks, finding, Of
  <2> QED
    BY <2>1, <2>2, ImageIsFinite
<1>4. IsFiniteSet(all)
  <2> HIDE DEF Of, files
  <2> QED
    BY <1>2, ImageIsFinite
<1>5. \A T \in all : IsFiniteSet(T)
  BY <1>3
<1> HIDE DEF all
<1> QED
  BY <1>1, <1>4, <1>5, FS_UNION

(* and, of each file, finitely many findings,                               *)
LEMMA FoundOfFilesAreFinite ==
  ASSUME NEW S, IsFiniteSet(S), NEW T \in SUBSET S, NEW what
  PROVE  IsFiniteSet({Finding({f}, what) : f \in T})
<1> DEFINE finding == [f \in T |-> Finding({f}, what)]
<1>1. {Finding({f}, what) : f \in T} = {finding[f] : f \in T}
  OBVIOUS
<1>2. IsFiniteSet(T)
  BY PartIsFinite
<1> HIDE DEF finding
<1> QED
  BY <1>1, <1>2, ImageIsFinite

(* the smells among them,                                                   *)
LEMMA SmellsAreFinite ==
  ASSUME NEW store, StoreIsFinite(store), NEW r
  PROVE  IsFiniteSet(Smells(store, r))
<1> DEFINE files == AuditFiles(store, r)
           edges == BuildEdges(store)
           ends == files \cup UNION {{e.source, e.target} : e \in edges}
           circles == FindCycles(files, Adjacency(ends, edges)) \cap SUBSET files
           large == {f \in files : store.info[f].loc >= LargeFile}
           coupled == {f \in files : Degree(store, f) >= HighDegree}
           hazardous == {f \in files : store.info[f].hazards >= ManyHazards}
           cyclic == [c \in circles |-> Finding(c, "dependency_cycle")]
<1>1. Smells(store, r) = {Finding({f}, "large_file") : f \in large} \cup {Finding({f}, "high_coupling") : f \in coupled}
                           \cup {Finding({f}, "hazard_density") : f \in hazardous} \cup {cyclic[c] : c \in circles}
  <2> HIDE DEF edges, ends
  <2>1. {Finding(c, "dependency_cycle") : c \in circles} = {cyclic[c] : c \in circles}
    OBVIOUS
  <2> HIDE DEF cyclic
  <2> QED
    BY <2>1 DEF Smells, edges, ends
<1>2. IsFiniteSet(files)
  BY AuditedAreFinite
<1>3. /\ IsFiniteSet({Finding({f}, "large_file") : f \in large})
      /\ IsFiniteSet({Finding({f}, "high_coupling") : f \in coupled})
      /\ IsFiniteSet({Finding({f}, "hazard_density") : f \in hazardous})
  <2>1. large \in SUBSET files /\ coupled \in SUBSET files /\ hazardous \in SUBSET files
    OBVIOUS
  <2> HIDE DEF large, coupled, hazardous, files
  <2> QED
    BY <1>2, <2>1, FoundOfFilesAreFinite
<1>4. IsFiniteSet({cyclic[c] : c \in circles})
  <2>1. circles \subseteq SUBSET files
    OBVIOUS
  <2>2. IsFiniteSet(SUBSET files)
    BY <1>2, FS_SUBSET
  <2> HIDE DEF circles, cyclic, files
  <2> QED
    BY <2>1, <2>2, PartIsFinite, ImageIsFinite
<1> DEFINE a == {Finding({f}, "large_file") : f \in large}
           b == {Finding({f}, "high_coupling") : f \in coupled}
           c == {Finding({f}, "hazard_density") : f \in hazardous}
           d == {cyclic[x] : x \in circles}
<1>5. Smells(store, r) = ((a \cup b) \cup c) \cup d
  BY <1>1
<1>6. IsFiniteSet(a) /\ IsFiniteSet(b) /\ IsFiniteSet(c) /\ IsFiniteSet(d)
  BY <1>3, <1>4
<1> HIDE DEF a, b, c, d
<1>7. IsFiniteSet((a \cup b) \cup c)
  BY <1>6, FS_Union
<1> QED
  BY <1>5, <1>6, <1>7, FS_Union

(* the hotspots in their order.                                             *)
LEMMA HotspotsIsRow ==
  ASSUME NEW store, StoreIsFinite(store), NEW r, Accepted(r)
  PROVE  IsRow(Hotspots(store, r))
<1> DEFINE w == Field(r, "weights", <<>>)
           changed(f) == Cardinality({e \in store.entries : /\ e.file_path = f
                                                            /\ "since" \in DOMAIN r => AtLeast(e.created_at, r.since)})
           score(f) == changed(f) * Field(w, "changes", 3) + Degree(store, f) * Field(w, "degree", 2)
                         + store.info[f].logSize * Field(w, "size", 1)
           Hotter(f, g) == score(f) > score(g) \/ (score(f) = score(g) /\ f < g)
           files == AuditFiles(store, r)
           ranked == InOrder(files, Hotter)
           most == Field(r, "topN", Field(r, "limit", 20))
<1>1. Hotspots(store, r) = Prefix(ranked, most)
  BY DEF Hotspots
<1>2. most \in Nat
  BY DEF Accepted, Numbers, Field
<1>3. Cardinality(files) \in Nat
  BY AuditedAreFinite, FS_CardinalityType
<1>4. ranked \in [1..Cardinality(files) -> Range(ranked)]
  <2> HIDE DEF files, Hotter
  <2> QED
    BY DEF InOrder, Range
<1> HIDE DEF ranked, most, files
<1> QED
  BY <1>1, <1>2, <1>3, <1>4, RowOfFunction, PrefixIsRow

(* So an audit is a row.                                                    *)
LEMMA AuditIsList ==
  ASSUME NEW store, StoreIsFinite(store), NEW r, Accepted(r)
  PROVE  IsList(Audit(store, r))
<1> DEFINE found == IF r.action = "gaps" THEN Gaps(store, r) ELSE Smells(store, r)
           least == SeverityRank[Field(r, "minSeverity", "low")]
           severe == {x \in found : Severity[x.what] >= least}
           ranked == InOrder(severe, FindingOrder)
<1>1. Audit(store, r) = ItemsOf(IF r.action = "hotspots" THEN FileItems(Hotspots(store, r)) ELSE ranked)
  BY DEF Audit
<1>2. IsRow(FileItems(Hotspots(store, r)))
  BY HotspotsIsRow, FileItemsAreRow
<1>3. Cardinality(severe) \in Nat
  <2>1. IsFiniteSet(found)
    BY GapsAreFinite, SmellsAreFinite
  <2> HIDE DEF found, least
  <2>2. IsFiniteSet(severe)
    BY <2>1, PartIsFinite
  <2> QED
    BY <2>2, FS_CardinalityType
<1>4. ranked \in [1..Cardinality(severe) -> Range(ranked)]
  <2> HIDE DEF severe
  <2> QED
    BY DEF InOrder, Range
<1> HIDE DEF ranked, severe
<1> QED
  BY <1>1, <1>2, <1>3, <1>4, RowOfFunction DEF IsList

(* Every list a request can ask for is a row or is not found.               *)
LEMMA EveryListIsList ==
  ASSUME StoresAreGood, NEW r, Accepted(r)
  PROVE  IsList(ListOf(stores, r))
<1>1. StoreIsFinite(stores[1])
  BY DEF StoresAreGood
<1> QED
  BY <1>1, AuditIsList, SearchedIsList, CatalogIsList, SimilarIsList, ClustersIsList, PatternsIsList, HistoryIsList DEF ListOf

-----------------------------------------------------------------------------
(* A page of a list: what is between two places of it, and where to go on.  *)
Part(L, from, to) == SubSeq(L, from + 1, to)

(* The cursor of a page that ends at k: none at the end of the list.        *)
NextIs(scope, L, k) == IF k < Len(L) THEN CreateCursor(scope, k) ELSE <<>>

(* These items are the list from one place on, and next says where they     *)
(* end.                                                                     *)
IsPart(items, next, scope, L, from) ==
  \E k \in from..Len(L) : /\ items = Part(L, from, k)
                          /\ next = NextIs(scope, L, k)
                          /\ k < Len(L) => items # <<>>

(* This answer is such a page, and is not empty while the list goes on.     *)
IsPage(a, scope, L, from) == Paged(a) /\ IsPart(a.items, a.page.next, scope, L, from)

(* A part of a row has the length and the elements it should.               *)
LEMMA PartOfRow ==
  ASSUME NEW L, IsRow(L), NEW from \in 0..Len(L), NEW k \in from..Len(L)
  PROVE  IsRow(Part(L, from, k)) /\ Len(Part(L, from, k)) = k - from /\ (Part(L, from, k) = <<>> <=> k = from)
<1> DEFINE s == Part(L, from, k)
<1>1. Len(L) \in Nat /\ DOMAIN L = 1..Len(L)
  BY RowHasLength
<1>2. \A i \in from + 1..k : L[i] \in Range(L)
  BY <1>1 DEF Range
<1>3. s \in Seq(Range(L)) /\ Len(s) = k - from
  BY <1>1, <1>2, SubSeqProperties DEF Part
<1>4. s = <<>> <=> k = from
  BY <1>1, <1>3
<1> QED
  BY <1>3, <1>4, SequenceIsRow

(* A part and the part after it are one part.                               *)
LEMMA PartContinues ==
  ASSUME NEW L, IsRow(L), NEW from \in 0..Len(L), NEW k \in from..Len(L)
  PROVE  Part(L, 0, from) \o Part(L, from, k) = Part(L, 0, k)
<1>1. Len(L) \in Nat
  BY RowHasLength
<1>2. SubSeq(L, 1, from) \o SubSeq(L, from + 1, k) = SubSeq(L, 1, k)
  BY <1>1, ConcatAdjacentSubSeq DEF IsRow
<1>3. 0 + 1 = 1
  OBVIOUS
<1> QED
  BY <1>2, <1>3 DEF Part

(* A part of a part is a part.                                              *)
LEMMA PartOfPart ==
  ASSUME NEW L, IsRow(L), NEW from \in 0..Len(L), NEW k \in from..Len(L), NEW m \in 0..k - from
  PROVE  Part(Part(L, from, k), 0, m) = Part(L, from, from + m)
<1> DEFINE s == SubSeq(L, from + 1, k)
           t == SubSeq(s, 1, m)
           u == SubSeq(L, from + 1, from + m)
<1>1. Len(L) \in Nat /\ DOMAIN L = 1..Len(L)
  BY RowHasLength
<1>2. \A i \in from + 1..k : L[i] \in Range(L)
  BY <1>1 DEF Range
<1>3. Len(s) = k - from /\ \A i \in 1..k - from : s[i] = L[from + i]
  BY <1>1, <1>2, SubSeqProperties
<1>4. \A i \in 1..m : s[i] \in Range(L)
  BY <1>1, <1>2, <1>3
<1> HIDE DEF s
<1>5. t \in Seq(Range(L)) /\ Len(t) = m /\ \A i \in 1..m : t[i] = s[i]
  BY <1>1, <1>4, SubSeqProperties
<1>6. u \in Seq(Range(L)) /\ Len(u) = m /\ \A i \in 1..m : u[i] = L[from + i]
  BY <1>1, <1>2, SubSeqProperties
<1> HIDE DEF t, u
<1>7. \A i \in 1..m : t[i] = u[i]
  BY <1>1, <1>3, <1>5, <1>6
<1>8. t = u
  BY <1>5, <1>6, <1>7, SeqEqual
<1> QED
  BY <1>8 DEF t, u, s, Part

(* A cursor is never the empty one.                                         *)
LEMMA CursorIsNotNone ==
  ASSUME NEW scope, NEW k
  PROVE  CreateCursor(scope, k) # <<>>
  BY DEF CreateCursor

(* paginateAtlasItems gives a part of its list that begins at the cursor.   *)
LEMMA PaginateGivesPart ==
  ASSUME NEW L, IsRow(L), NEW r, Accepted(r), NEW scope, NEW at, at = Parsed(r, scope), at.ok => at.offset \in Nat,
         NEW p, p = Paginate(L, r, scope), p.ok
  PROVE  /\ at.ok /\ at.offset \in 0..Len(L)
         /\ IsPart(p.items, p.page.next, scope, L, at.offset)
<1>1. Len(L) \in Nat
  BY RowHasLength
<1>2. PICK limit \in Nat : limit = Clamped(r, "limit", 20, 1, 500) /\ limit >= 1
  BY DEF Clamped, ClampInteger, Accepted, Numbers
<1>3. PICK end : end = IF at.offset + limit < Len(L) THEN at.offset + limit ELSE Len(L)
  OBVIOUS
<1>4. PICK taken : taken = SubSeq(L, at.offset + 1, end) /\ taken = Part(L, at.offset, end)
  BY DEF Part
<1>5. p = IF ~at.ok THEN at
          ELSE IF at.offset > Len(L) THEN [ok |-> FALSE, code |-> "CURSOR_OUT_OF_RANGE"]
          ELSE [ok |-> TRUE, items |-> taken, page |-> PageOf(scope, at.offset, Len(taken), Len(L))]
  BY <1>2, <1>3, <1>4 DEF Paginate
<1>6. at.ok /\ ~(at.offset > Len(L))
  BY <1>5
<1>7. p.items = taken /\ p.page = PageOf(scope, at.offset, Len(taken), Len(L))
  BY <1>5, <1>6
<1>8. PICK from \in 0..Len(L) : from = at.offset
  BY <1>1, <1>6
<1>9. end \in from..Len(L) /\ (end < Len(L) => from < end)
  BY <1>1, <1>2, <1>3, <1>8
<1>10. Len(taken) = end - from /\ (taken = <<>> <=> end = from)
  <2>1. taken = Part(L, from, end)
    BY <1>4, <1>8
  <2>2. Len(Part(L, from, end)) = end - from /\ (Part(L, from, end) = <<>> <=> end = from)
    BY <1>9, PartOfRow, Zenon
  <2> QED
    BY <2>1, <2>2
<1>11. from + Len(taken) = end
  BY <1>1, <1>9, <1>10
<1>12. p.page.next = NextIs(scope, L, end)
  BY <1>7, <1>8, <1>11 DEF PageOf, NextIs
<1>13. end < Len(L) => taken # <<>>
  BY <1>1, <1>9, <1>10
<1>14. IsPart(p.items, p.page.next, scope, L, from)
  BY <1>4, <1>7, <1>8, <1>9, <1>12, <1>13 DEF IsPart
<1> QED
  BY <1>6, <1>8, <1>14

(* The beginning of a page that the budget has room for.                    *)
LEMMA FittingIsBeginning ==
  ASSUME NEW page, IsRow(page), NEW budget
  PROVE  \E m \in 0..Len(page) : Fitting(page, budget) = Part(page, 0, m)
<1> DEFINE fits == {n \in 0..Len(page) : n = 0 \/ Size(SubSeq(page, 1, n)) <= budget}
<1>1. Len(page) \in Nat
  BY RowHasLength
<1>2. fits \in SUBSET Nat /\ fits # {} /\ \A n \in fits : n <= Len(page)
  BY <1>1
<1>3. fits \subseteq 0..Len(page)
  OBVIOUS
<1>4. Fitting(page, budget) = Part(page, 0, Max(fits))
  BY DEF Fitting, Part
<1> HIDE DEF fits
<1>5. PICK m \in fits : \A n \in fits : n <= m
  BY <1>1, <1>2, GreatestNat
<1>6. Max(fits) = m
  BY <1>2, <1>5, MaxIsGreatest
<1> QED
  BY <1>3, <1>4, <1>6

(* What applyCharacterBudget keeps of this part is a beginning of it.       *)
FitsPart(L, from, k, budget) ==
  \E m \in 0..k - from : Fitting(Part(L, from, k), budget) = Part(L, from, from + m)

(* It is so of every part, whatever the budget.                             *)
LEMMA FittingIsPart ==
  ASSUME NEW L, IsRow(L), NEW from \in 0..Len(L), NEW k \in from..Len(L), NEW budget
  PROVE  FitsPart(L, from, k, budget)
<1>0. PICK page : page = Part(L, from, k)
  OBVIOUS
<1>1. IsRow(page) /\ Len(page) = k - from
  BY <1>0, PartOfRow, Zenon
<1>2. PICK m \in 0..k - from : Fitting(page, budget) = Part(page, 0, m)
  BY <1>1, FittingIsBeginning, Zenon
<1>3. Part(Part(L, from, k), 0, m) = Part(L, from, from + m)
  BY PartOfPart
<1> QED
  BY <1>0, <1>2, <1>3 DEF FitsPart

(* Cut by its budget, a page is a page: the cursor moves back to what was   *)
(* kept.                                                                    *)
LEMMA BudgetGivesPage ==
  ASSUME NEW L, IsRow(L), NEW r, NEW scope, scope = CursorScope(r), NEW from \in 0..Len(L), from = Parsed(r, scope).offset,
         NEW page, NEW next, IsPart(page, next, scope, L, from),
         NEW a, a = WithinBudget(r, page, Len(L)), Paged(a)
  PROVE  IsPage(a, scope, L, from)
<1>1. Len(L) \in Nat
  BY RowHasLength
<1>2. PICK k \in from..Len(L) : page = Part(L, from, k) /\ (k < Len(L) => page # <<>>)
  BY DEF IsPart
<1>3. IsRow(page) /\ Len(page) = k - from /\ (page = <<>> <=> k = from)
  <2>1. IsRow(Part(L, from, k)) /\ Len(Part(L, from, k)) = k - from /\ (Part(L, from, k) = <<>> <=> k = from)
    BY PartOfRow, ZenonT(60)
  <2> QED
    BY <1>2, <2>1
<1>0. PICK budget : budget = Field(r, "characterBudget", 50000)
  OBVIOUS
<1>4. PICK m \in 0..k - from : Fitting(page, budget) = Part(L, from, from + m)
  <2>1. FitsPart(L, from, k, budget)
    BY FittingIsPart, Zenon
  <2> QED
    BY <1>2, <2>1 DEF FitsPart
<1>5. PICK returned : returned = Part(L, from, from + m)
  OBVIOUS
<1>6. Fitting(page, budget) = returned
  BY <1>4, <1>5
<1>7. from + m \in from..Len(L)
  BY <1>1, <1>2, <1>4
<1>8. Len(returned) = (from + m) - from /\ (returned = <<>> <=> from + m = from)
  BY <1>5, <1>7, PartOfRow, Zenon, SMTT(30)
<1>9. Len(returned) = m /\ (returned = <<>> <=> m = 0)
  BY <1>1, <1>4, <1>8
<1>10. a = IF returned = <<>> /\ page # <<>> THEN Refusal(INVALID)
           ELSE [ok |-> TRUE, items |-> returned, page |-> PageOf(scope, from, Len(returned), Len(L))]
  <2>1. a = Returned(r, scope, page, returned, Len(L))
    <3>1. a = Returned(r, CursorScope(r), page, Fitting(page, budget), Len(L))
      BY <1>0 DEF WithinBudget
    <3> QED
      BY <1>6, <3>1
  <2>2. Returned(r, scope, page, returned, Len(L)) =
          IF returned = <<>> /\ page # <<>> THEN Refusal(INVALID)
          ELSE [ok |-> TRUE, items |-> returned, page |-> PageOf(scope, Parsed(r, scope).offset, Len(returned), Len(L))]
    BY DEF Returned, NextPage
  <2> QED
    BY <2>1, <2>2
<1>11. ~(returned = <<>> /\ page # <<>>)
  BY <1>10 DEF Paged, Refusal
<1>12. a.items = returned /\ a.page = PageOf(scope, from, m, Len(L))
  BY <1>9, <1>10, <1>11
<1>13. a.page.next = NextIs(scope, L, from + m)
  BY <1>12 DEF PageOf, NextIs
<1>14. from + m < Len(L) => returned # <<>>
  <2> SUFFICES ASSUME returned = <<>> PROVE ~(from + m < Len(L))
    OBVIOUS
  <2>1. page = <<>> /\ m = 0
    BY <1>9, <1>11
  <2>2. k = from /\ ~(k < Len(L))
    BY <1>2, <1>3, <2>1
  <2> QED
    BY <2>1, <2>2
<1>15. IsPart(a.items, a.page.next, scope, L, from)
  BY <1>5, <1>7, <1>12, <1>13, <1>14 DEF IsPart
<1> QED
  BY <1>15 DEF IsPage

(* The history, whose offset the store applies, gives pages of the same     *)
(* list.                                                                    *)
LEMMA HistoryGivesPage ==
  ASSUME NEW store, NEW L, NEW r, Accepted(r), NEW scope, scope = CursorScope(r), HistoryIs(store, scope, L),
         NEW at, at = Parsed(r, scope), at.ok => at.offset \in Nat,
         NEW a, a = HistoryPage(store, r), Paged(a)
  PROVE  at.ok /\ at.offset \in 0..Len(L) /\ IsPage(a, scope, L, at.offset)
<1>1. IsRow(L) /\ Len(L) \in Nat /\ Len(L) = HistoryTotal(store, scope)
  BY RowHasLength DEF HistoryIs
<1>2. PICK limit \in Nat : limit = Field(scope, "limit", 20) /\ limit >= 1
  BY DEF Field, Accepted, Numbers, CursorScope
<1>3. PICK items : items = HistoryFrom(store, scope, limit, at.offset)
  OBVIOUS
<1>4. a = IF ~at.ok THEN Refusal(INVALID) ELSE IF at.offset > Len(L) THEN Refusal(INVALID)
          ELSE [ok |-> TRUE, items |-> items, page |-> PageOf(scope, at.offset, Len(items), Len(L))]
  BY <1>1, <1>2, <1>3 DEF HistoryPage
<1>5. at.ok /\ ~(at.offset > Len(L))
  BY <1>4 DEF Paged, Refusal
<1>6. a.items = items /\ a.page = PageOf(scope, at.offset, Len(items), Len(L))
  BY <1>4, <1>5
<1>7. PICK from \in 0..Len(L) : from = at.offset
  BY <1>1, <1>5
<1>8. PICK end : end = IF from + limit < Len(L) THEN from + limit ELSE Len(L)
  OBVIOUS
<1>9. end \in from..Len(L) /\ (end < Len(L) => from < end)
  BY <1>1, <1>2, <1>7, <1>8
<1>10. items = Part(L, from, end)
  <2>1. items = Window(L, limit, from)
    BY <1>2, <1>3, <1>5, <1>7 DEF HistoryIs
  <2> QED
    BY <1>8, <2>1 DEF Window, Part
<1>11. Len(items) = end - from /\ (items = <<>> <=> end = from)
  <2>1. Len(Part(L, from, end)) = end - from /\ (Part(L, from, end) = <<>> <=> end = from)
    BY <1>1, <1>9, PartOfRow, Zenon
  <2> QED
    BY <1>10, <2>1
<1>12. from + Len(items) = end
  BY <1>1, <1>9, <1>11
<1>13. a.page.next = NextIs(scope, L, end)
  BY <1>6, <1>7, <1>12 DEF PageOf, NextIs
<1>14. end < Len(L) => items # <<>>
  BY <1>1, <1>9, <1>11
<1>15. IsPart(a.items, a.page.next, scope, L, from)
  BY <1>6, <1>9, <1>10, <1>13, <1>14 DEF IsPart
<1> QED
  BY <1>5, <1>7, <1>15 DEF IsPage

(* A request that is a request, whether or not it is accepted.              *)
Genuine(r) ==
  /\ {"family", "action"} \subseteq DOMAIN r
  /\ \A n \in Numbers \cap DOMAIN r : r[n] # Bad => r[n] \in Nat \ {0}
  /\ ("workspaces" \in DOMAIN r /\ r.workspaces # Bad) => r.workspaces \subseteq Workspaces /\ IsFiniteSet(r.workspaces)

(* A genuine request that has no error is accepted.                         *)
LEMMA GenuineIsAccepted ==
  ASSUME NEW r, Genuine(r), RequestError(r) = "none"
  PROVE  Accepted(r) /\ (r.family = "audit" => r.action # "history")
<1>1. \A f \in DOMAIN r : r[f] # Bad
  BY DEF RequestError, INVALID, UNSUPPORTED
<1>2. r.action \in DOMAIN Fields[r.family]
  BY DEF RequestError, INVALID, UNSUPPORTED
<1>3. r.family = "audit" => r.action # "history"
  BY <1>2 DEF Fields
<1> QED
  BY <1>1, <1>3 DEF Accepted, Genuine, Numbers

(* The scope of an accepted request is not empty and keeps what its list    *)
(* depends on.                                                              *)
LEMMA ScopeOfAccepted ==
  ASSUME NEW r, Accepted(r)
  PROVE  /\ Accepted(CursorScope(r)) /\ CursorScope(r) # <<>>
         /\ CursorScope(r).action = r.action /\ CursorScope(r).family = r.family
         /\ FromStore(CursorScope(r)) <=> FromStore(r)
<1>1. {"family", "action"} \subseteq DOMAIN CursorScope(r)
  BY DEF CursorScope, Accepted
<1>2. \A f \in DOMAIN CursorScope(r) : f \in DOMAIN r /\ CursorScope(r)[f] = r[f]
  BY DEF CursorScope
<1>3. Accepted(CursorScope(r))
  BY <1>1, <1>2 DEF Accepted
<1>4. CursorScope(r) # <<>>
  BY <1>1
<1>5. CursorScope(r).action = r.action /\ CursorScope(r).family = r.family
  BY <1>1, <1>2
<1>6. Field(CursorScope(r), "mode", "entries") = Field(r, "mode", "entries")
  BY DEF CursorScope, Field
<1> QED
  BY <1>3, <1>4, <1>5, <1>6 DEF FromStore

(* The list of a request whose page the store cuts is the list of the       *)
(* history.                                                                 *)
LEMMA StoredListIsHistory ==
  ASSUME StoresAreGood, NEW r, Accepted(r), FromStore(r), r.family # "audit"
  PROVE  \E L : HistoryIs(stores[1], r, L) /\ ListOf(stores, r) = ItemsOf(L)
<1>1. ListOf(stores, r) = History(stores[1], r)
  BY DEF ListOf, FromStore
<1>2. StoreIsFinite(stores[1])
  BY DEF StoresAreGood
<1> QED
  BY <1>1, <1>2, HistoryIsList

(* A page that is handed out is a page of the list the request is about.    *)
LEMMA ListAnswerIsPage ==
  ASSUME StoresAreGood, NEW r, Accepted(r), r.family = "audit" => r.action # "history",
         NEW scope, scope = CursorScope(r), NEW at, at = Parsed(r, scope), at.ok => at.offset \in Nat,
         NEW a, a = ListAnswer(r), Paged(a)
  PROVE  \E L : /\ IsRow(L) /\ ListOf(stores, scope) = ItemsOf(L)
                /\ at.ok /\ at.offset \in 0..Len(L) /\ IsPage(a, scope, L, at.offset)
<1>1. Accepted(scope) /\ (FromStore(scope) <=> FromStore(r)) /\ scope.family = r.family /\ scope.action = r.action
  BY ScopeOfAccepted
<1>2. PICK list : list = ListOf(stores, scope)
  OBVIOUS
<1>3. IsList(list)
  BY <1>1, <1>2, EveryListIsList
<1>4. a = FromList(r, list)
  BY <1>2 DEF ListAnswer, List
<1>5. PICK L : IsRow(L) /\ list = ItemsOf(L)
  <2> SUFFICES ASSUME list = Refusal(NOT_FOUND) PROVE FALSE
    BY <1>3 DEF IsList
  <2>1. "error" \in DOMAIN list
    BY DEF Refusal
  <2> QED
    BY <1>4, <2>1 DEF FromList, Refusal, Paged
<1>6. list.items = L /\ "error" \notin DOMAIN list
  BY <1>5 DEF ItemsOf
<1>7. CASE FromStore(r)
  <2>1. PICK M : HistoryIs(stores[1], scope, M) /\ list = ItemsOf(M)
    BY <1>1, <1>2, <1>7, StoredListIsHistory DEF FromStore
  <2>2. M = L
    BY <1>6, <2>1 DEF ItemsOf
  <2>3. a = HistoryPage(stores[1], r)
    BY <1>4, <1>6, <1>7 DEF FromList
  <2>4. at.ok /\ at.offset \in 0..Len(L) /\ IsPage(a, scope, L, at.offset)
    BY <2>1, <2>2, <2>3, HistoryGivesPage
  <2> QED
    BY <1>2, <1>5, <2>4
<1>8. CASE ~FromStore(r)
  <2>1. PICK p : p = Paginate(L, r, scope)
    OBVIOUS
  <2>2. a = PageOfList(r, p, Len(L))
    BY <1>4, <1>6, <1>8, <2>1 DEF FromList
  <2>3. p.ok
    BY <2>2 DEF PageOfList, Refusal, Paged
  <2>4. at.ok /\ at.offset \in 0..Len(L) /\ IsPart(p.items, p.page.next, scope, L, at.offset)
    BY <1>5, <2>1, <2>3, PaginateGivesPart
  <2>5. CASE r.action \in {"search", "ask", "plan_context"}
    <3>1. a = WithinBudget(r, p.items, Len(L))
      BY <2>2, <2>3, <2>5 DEF PageOfList
    <3>2. IsPage(a, scope, L, at.offset)
      BY <1>5, <2>4, <3>1, BudgetGivesPage
    <3> QED
      BY <1>2, <1>5, <2>4, <3>2
  <2>6. CASE r.action \notin {"search", "ask", "plan_context"}
    <3>1. a = [ok |-> TRUE, items |-> p.items, page |-> p.page]
      BY <2>2, <2>3, <2>6 DEF PageOfList
    <3>2. IsPage(a, scope, L, at.offset)
      BY <2>4, <3>1 DEF IsPage, Paged
    <3> QED
      BY <1>2, <1>5, <2>4, <3>2
  <2> QED
    BY <2>5, <2>6
<1> QED
  BY <1>7, <1>8

-----------------------------------------------------------------------------
(* What is answered of one file is no page of a list.                       *)
LEMMA SnippetIsNoPage ==
  ASSUME NEW r, NEW range, range = SnippetRange(stores[1], r), "error" \in DOMAIN range
  PROVE  ~Paged(range)
<1>1. PICK first, last : range \in {Refusal(NOT_FOUND), Refusal(INVALID), [first |-> first, last |-> last]}
  BY DEF SnippetRange
<1> QED
  BY <1>1 DEF Refusal, Paged

LEMMA FileAnswerIsNoPage ==
  ASSUME NEW r, NEW hash, NEW source, NEW a, a = FileAnswer(r, hash, source)
  PROVE  ~Paged(a)
<1>1. PICK range : range = IF r.action = "snippet" THEN SnippetRange(stores[1], r) ELSE LookupRange(r, source)
  OBVIOUS
<1>2. \/ a = Refusal(UNAVAILABLE) \/ a = Refusal(INVALID)
      \/ a = range /\ "error" \in DOMAIN range
      \/ \E record : a = [ok |-> TRUE, record |-> record]
      \/ \E record, lines : a = [ok |-> TRUE, record |-> record, source |-> source, lines |-> lines]
  BY <1>1 DEF FileAnswer
<1>3. "error" \in DOMAIN range => ~Paged(range)
  BY <1>1, SnippetIsNoPage DEF LookupRange
<1> QED
  BY <1>2, <1>3 DEF Refusal, Paged

(* A graph answers without pages.                                           *)
LEMMA GraphAnswerIsNoPage ==
  ASSUME NEW r, NEW a, a = GraphAnswer(r)
  PROVE  ~Paged(a)
<1>1. PICK found : a = IF "error" \in DOMAIN found THEN Refusal(found.error) ELSE [ok |-> TRUE, graph |-> found]
  BY DEF GraphAnswer, FromGraph
<1> QED
  BY <1>1 DEF Paged, Refusal

LEMMA RefusalIsNoPage ==
  ASSUME NEW code
  PROVE  ~Paged(Refusal(code))
  BY DEF Refusal, Paged

-----------------------------------------------------------------------------
(* The invariant: what a client has got by following its cursors is a       *)
(* beginning of the list as the stores have it now, and the last answer     *)
(* says where it ends.                                                      *)
Chained ==
  /\ Paged(answer) /\ chain.scope # <<>>
  /\ IsRow(chain.whole) /\ ListOf(stores, chain.scope) = ItemsOf(chain.whole)
  /\ chain = [scope |-> chain.scope, items |-> chain.items, whole |-> chain.whole]
  /\ \E k \in 0..Len(chain.whole) :
       /\ chain.items = Part(chain.whole, 0, k)
       /\ answer.page.next = NextIs(chain.scope, chain.whole, k)
       /\ k < Len(chain.whole) => answer.items # <<>>

(* A client follows nothing, or what it follows is such a beginning.        *)
ChainInv == chain = NoChain \/ Chained

(* With what the answer that is shown was asked.                            *)
ReadInv ==
  /\ stores \in Stores
  /\ Paged(answer) => Genuine(request)
  /\ ChainInv

(* The invariant implies the property.                                      *)
LEMMA ChainedIsWhole ==
  ASSUME ChainInv
  PROVE  PagesWhole
<1>1. CASE chain = NoChain
  BY <1>1 DEF NoChain, PagesWhole
<1>2. CASE Chained
  <2>1. PICK k \in 0..Len(chain.whole) : /\ chain.items = Part(chain.whole, 0, k)
                                         /\ answer.page.next = NextIs(chain.scope, chain.whole, k)
                                         /\ k < Len(chain.whole) => answer.items # <<>>
    BY <1>2 DEF Chained
  <2>2. IsRow(chain.whole) /\ Len(chain.whole) \in Nat
    BY <1>2, RowHasLength DEF Chained
  <2>3. Len(chain.items) = k
    <3>1. 0 \in 0..Len(chain.whole)
      BY <2>2
    <3>2. Len(Part(chain.whole, 0, k)) = k - 0
      BY <2>2, <3>1, PartOfRow, Zenon
    <3> QED
      BY <2>1, <3>2
  <2>4. Prefix(chain.whole, k) = Part(chain.whole, 0, k)
    <3>1. Minimum(Len(chain.whole), k) = k
      BY <2>1, <2>2 DEF Minimum
    <3>2. 0 + 1 = 1
      OBVIOUS
    <3> QED
      BY <3>1, <3>2 DEF Prefix, Part
  <2>5. answer.page.next = <<>> <=> ~(k < Len(chain.whole))
    BY <2>1, CursorIsNotNone DEF NextIs
  <2>6. answer.page.next = <<>> => k = Len(chain.whole)
    BY <2>2, <2>5
  <2> QED
    BY <2>1, <2>3, <2>4, <2>5, <2>6 DEF PagesWhole
<1> QED
  BY <1>1, <1>2 DEF ChainInv

(* What the stores do not change, the lists do not.                         *)
LEMMA ListsStay ==
  ASSUME UNCHANGED stores, NEW r
  PROVE  ListOf(stores, r)' = ListOf(stores, r)
  OBVIOUS

(* An answer to a request that continues nothing is the first page, and     *)
(* one that continues the chain is its next page.                           *)
LEMMA FollowedIsChained ==
  ASSUME StoresAreGood, ChainInv, UNCHANGED stores, NEW r, Accepted(r), r.family = "audit" => r.action # "history",
         "cursor" \in DOMAIN r => r.cursor = answer.page.next,
         NEW a, a = ListAnswer(r), answer' = a, chain' = Followed(r, a)
  PROVE  ChainInv'
<1>1. PICK scope : scope = CursorScope(r)
  OBVIOUS
<1>2. PICK at : at = Parsed(r, scope)
  OBVIOUS
<1>3. scope # <<>>
  BY <1>1, ScopeOfAccepted
<1>4. CASE ~Paged(a)
  BY <1>4 DEF Followed, ChainInv
<1>5. CASE Paged(a) /\ "cursor" \notin DOMAIN r
  <2>1. at.offset = 0 /\ at.ok
    BY <1>2, <1>5 DEF Parsed, Start
  <2>2. PICK L : /\ IsRow(L) /\ ListOf(stores, scope) = ItemsOf(L)
                 /\ at.ok /\ at.offset \in 0..Len(L) /\ IsPage(a, scope, L, at.offset)
    BY <1>1, <1>2, <1>5, <2>1, ListAnswerIsPage
  <2>3. chain' = [scope |-> scope, items |-> a.items, whole |-> L]
    BY <1>1, <1>5, <2>2 DEF Followed, List, ItemsOf
  <2>4. PICK k \in 0..Len(L) : a.items = Part(L, 0, k) /\ a.page.next = NextIs(scope, L, k) /\ (k < Len(L) => a.items # <<>>)
    BY <2>1, <2>2 DEF IsPage, IsPart
  <2>5. ListOf(stores, scope)' = ItemsOf(L)
    BY <2>2, ListsStay
  <2>6. chain'.scope = scope /\ chain'.items = a.items /\ chain'.whole = L
    BY <2>3
  <2>7. ListOf(stores, chain.scope)' = ItemsOf(L)
    BY <2>5, <2>6
  <2>8. Chained'
    BY <1>3, <1>5, <2>2, <2>3, <2>4, <2>6, <2>7 DEF Chained
  <2> QED
    BY <2>8 DEF ChainInv
<1>6. CASE Paged(a) /\ "cursor" \in DOMAIN r /\ chain.scope # scope
  BY <1>1, <1>6 DEF Followed, ChainInv
<1>7. CASE Paged(a) /\ "cursor" \in DOMAIN r /\ chain.scope = scope
  <2>1. Chained
    BY <1>3, <1>7 DEF ChainInv, NoChain
  <2>2. PICK L : L = chain.whole
    OBVIOUS
  <2>3. IsRow(L) /\ ListOf(stores, scope) = ItemsOf(L) /\ Len(L) \in Nat
    BY <1>7, <2>1, <2>2, RowHasLength DEF Chained
  <2>4. PICK k \in 0..Len(L) : chain.items = Part(L, 0, k) /\ answer.page.next = NextIs(scope, L, k)
    BY <1>7, <2>1, <2>2 DEF Chained
  <2>5. at.ok => at.offset = k /\ k < Len(L)
    BY <1>2, <1>7, <2>4 DEF Parsed, ParseCursor, NextIs, CreateCursor
  <2>6. PICK M : /\ IsRow(M) /\ ListOf(stores, scope) = ItemsOf(M)
                 /\ at.ok /\ at.offset \in 0..Len(M) /\ IsPage(a, scope, M, at.offset)
    BY <1>1, <1>2, <1>7, <2>3, <2>5, ListAnswerIsPage
  <2>7. M = L
    BY <2>3, <2>6 DEF ItemsOf
  <2>8. PICK n \in k..Len(L) : a.items = Part(L, k, n) /\ a.page.next = NextIs(scope, L, n) /\ (n < Len(L) => a.items # <<>>)
    BY <2>5, <2>6, <2>7 DEF IsPage, IsPart
  <2>9. chain' = [chain EXCEPT !.items = @ \o a.items]
    BY <1>1, <1>7 DEF Followed
  <2>10. chain = [scope |-> chain.scope, items |-> chain.items, whole |-> chain.whole]
    BY <2>1 DEF Chained
  <2>11. chain' = [scope |-> scope, items |-> chain.items \o a.items, whole |-> L]
    BY <1>7, <2>2, <2>9, <2>10
  <2>12. chain.items \o a.items = Part(L, 0, n)
    BY <2>3, <2>4, <2>8, PartContinues
  <2>13. n \in 0..Len(L)
    BY <2>3, <2>4, <2>8
  <2>14. chain'.scope = scope /\ chain'.items = Part(L, 0, n) /\ chain'.whole = L
    BY <2>11, <2>12
  <2>15. ListOf(stores, chain.scope)' = ItemsOf(L)
    <3>1. ListOf(stores, scope)' = ItemsOf(L)
      BY <2>3, ListsStay
    <3> QED
      BY <2>14, <3>1
  <2>16. Chained'
    BY <1>3, <1>7, <2>3, <2>8, <2>11, <2>12, <2>13, <2>14, <2>15 DEF Chained
  <2> QED
    BY <2>16 DEF ChainInv
<1> QED
  BY <1>4, <1>5, <1>6, <1>7

(* What a client sends on its own is genuine and continues nothing.         *)
LEMMA RequestIsGenuine ==
  ASSUME NEW r \in Requests
  PROVE  Genuine(r) /\ "cursor" \notin DOMAIN r
  BY RequestsAreRequests DEF Genuine

(* It holds at first.                                                       *)
LEMMA ReadBegins ==
  ASSUME Init
  PROVE  ReadInv
  BY DEF Init, ReadInv, ChainInv, NoAnswer, Paged

(* An answer that is no page ends what the client follows.                  *)
LEMMA SingleAnswerKeeps ==
  ASSUME ReadInv, NEW r, NEW a, ~Paged(a), Answered(r, a)
  PROVE  ReadInv'
<1>1. answer' = a /\ chain' = NoChain /\ UNCHANGED stores
  BY DEF Answered, Followed
<1>2. ~Paged(answer)'
  BY <1>1 DEF Paged
<1> QED
  BY <1>1, <1>2 DEF ReadInv, ChainInv

(* Every step keeps it: a request, answered at once or waiting for the      *)
(* disk,                                                                    *)
LEMMA AskKeeps ==
  ASSUME ReadInv, NEW r, Genuine(r), "cursor" \in DOMAIN r => r.cursor = answer.page.next, Ask(r)
  PROVE  ReadInv'
<1>1. CASE Awaits(r)
  <2>1. answer' = NoAnswer /\ chain' = NoChain /\ UNCHANGED stores
    BY <1>1 DEF Ask
  <2>2. ~Paged(answer)'
    BY <2>1 DEF Paged, NoAnswer
  <2> QED
    BY <2>1, <2>2 DEF ReadInv, ChainInv
<1>2. CASE ~Awaits(r)
  <2>1. Answered(r, Direct(r))
    BY <1>2 DEF Ask
  <2>2. PICK a : a = Direct(r)
    OBVIOUS
  <2>3. StoresAreGood
    BY StoresGood DEF ReadInv
  <2>4. CASE closed
    <3>1. a = Refusal("ATLAS_INTERNAL")
      BY <2>2, <2>4 DEF Direct
    <3> QED
      BY <2>1, <2>2, <3>1, RefusalIsNoPage, SingleAnswerKeeps
  <2>5. CASE ~closed /\ RequestError(r) # "none"
    <3>1. a = Refusal(RequestError(r))
      BY <2>2, <2>5 DEF Direct
    <3> QED
      BY <2>1, <2>2, <3>1, RefusalIsNoPage, SingleAnswerKeeps
  <2>6. CASE ~closed /\ RequestError(r) = "none"
    <3>1. Accepted(r) /\ (r.family = "audit" => r.action # "history")
      BY <2>6, GenuineIsAccepted
    <3>2. a = CASE r.family = "graph" -> GraphAnswer(r)
                [] OfFile(r) -> IF r.filePath \notin stores[1].files THEN Refusal(NOT_FOUND)
                                ELSE FileAnswer(r, stores[1].info[r.filePath].hash, 0)
                [] OTHER -> ListAnswer(r)
      BY <2>2, <2>6 DEF Direct
    <3>3. CASE r.family = "graph"
      <4>1. a = GraphAnswer(r)
        BY <3>2, <3>3 DEF OfFile
      <4> QED
        BY <2>1, <2>2, <4>1, GraphAnswerIsNoPage, SingleAnswerKeeps
    <3>4. CASE OfFile(r) /\ r.filePath \notin stores[1].files
      <4>1. a = Refusal(NOT_FOUND)
        BY <3>2, <3>4 DEF OfFile
      <4> QED
        BY <2>1, <2>2, <4>1, RefusalIsNoPage, SingleAnswerKeeps
    <3>5. CASE OfFile(r) /\ r.filePath \in stores[1].files
      <4>1. a = FileAnswer(r, stores[1].info[r.filePath].hash, 0)
        BY <3>2, <3>5 DEF OfFile
      <4>2. ~Paged(a)
        BY <4>1, FileAnswerIsNoPage
      <4> QED
        BY <2>1, <2>2, <4>2, SingleAnswerKeeps
    <3>6. CASE r.family # "graph" /\ ~OfFile(r)
      <4>1. a = ListAnswer(r)
        BY <3>2, <3>6
      <4>2. answer' = a /\ chain' = Followed(r, a) /\ request' = r /\ UNCHANGED stores
        BY <2>1, <2>2 DEF Answered
      <4>3. ChainInv'
        BY <2>3, <3>1, <4>1, <4>2, FollowedIsChained DEF ReadInv
      <4>4. Genuine(request)'
        BY <4>2 DEF Genuine
      <4> QED
        BY <4>2, <4>3, <4>4 DEF ReadInv
    <3> QED
      BY <3>3, <3>4, <3>5, <3>6
  <2> QED
    BY <2>4, <2>5, <2>6
<1> QED
  BY <1>1, <1>2

(* a request that follows the cursor of the last answer,                    *)
LEMMA FollowKeeps ==
  ASSUME ReadInv, Follow
  PROVE  ReadInv'
<1>1. PICK q \in {request} \cup {q \in Requests : q.family = request.family /\ "cursor" \notin DOMAIN q} :
        Ask([f \in DOMAIN q \cup {"cursor"} |-> IF f = "cursor" THEN answer.page.next ELSE q[f]])
  BY DEF Follow
<1>2. Genuine(q)
  BY <1>1, RequestIsGenuine DEF ReadInv, Follow
<1>3. PICK r : r = [f \in DOMAIN q \cup {"cursor"} |-> IF f = "cursor" THEN answer.page.next ELSE q[f]]
  OBVIOUS
<1>4. Genuine(r) /\ r.cursor = answer.page.next
  BY <1>2, <1>3 DEF Genuine, Numbers
<1> QED
  BY <1>1, <1>3, <1>4, AskKeeps

(* the read of the file that a request waited for,                          *)
LEMMA ReadKeeps ==
  ASSUME ReadInv, Read
  PROVE  ReadInv'
<1>1. PICK a : a = FileAnswer(request, stores[1].info[request.filePath].hash, disk)
  OBVIOUS
<1>2. ~Paged(a)
  BY <1>1, FileAnswerIsNoPage
<1> QED
  BY <1>1, <1>2, SingleAnswerKeeps DEF Read

(* and every other step.                                                    *)
LEMMA OthersKeep ==
  ASSUME ReadInv, StoresChange \/ DiskChanges \/ Close \/ UNCHANGED retrievalVars
  PROVE  ReadInv'
<1>1. CASE StoresChange
  BY <1>1 DEF StoresChange, ReadInv, ChainInv, Genuine, Paged
<1>2. CASE DiskChanges \/ Close \/ UNCHANGED retrievalVars
  <2>1. UNCHANGED <<stores, request, answer, chain>>
    BY <1>2 DEF DiskChanges, Close, retrievalVars, ReadInv
  <2>2. ChainInv'
    BY <2>1 DEF ReadInv, ChainInv, Chained, Paged
  <2> QED
    BY <2>1, <2>2 DEF ReadInv, Genuine, Paged
<1> QED
  BY <1>1, <1>2

(* So the next-state relation keeps it.                                     *)
LEMMA ReadStepKeeps ==
  ASSUME ReadInv, [Next]_retrievalVars
  PROVE  ReadInv'
<1>1. CASE \E r \in Requests : Ask(r)
  BY <1>1, RequestIsGenuine, AskKeeps
<1>2. CASE Follow
  BY <1>2, FollowKeeps
<1>3. CASE Read
  BY <1>3, ReadKeeps
<1>4. CASE \E code \in Codes : Throw(code)
  <2>1. PICK code \in Codes : Throw(code)
    BY <1>4
  <2> QED
    BY <2>1, RefusalIsNoPage, SingleAnswerKeeps DEF Throw
<1>5. CASE StoresChange \/ DiskChanges \/ Close \/ UNCHANGED retrievalVars
  BY <1>5, OthersKeep
<1> QED
  BY <1>1, <1>2, <1>3, <1>4, <1>5 DEF Next

(* Of every reader, the pages of a list that is not changed are the list.   *)
THEOREM FollowingIsWhole ==
  ReadSpec => []PagesWhole
<1>1. Init => ReadInv
  BY ReadBegins
<1>2. ReadInv /\ [Next]_retrievalVars => ReadInv'
  BY ReadStepKeeps
<1>3. ReadInv => PagesWhole
  BY ChainedIsWhole DEF ReadInv
<1> QED
  BY <1>1, <1>2, <1>3, PTL DEF ReadSpec

-----------------------------------------------------------------------------
(* What an embedding request gets.                                          *)

(* Numbers of which 0 is one, and each the next of which is one, are all    *)
(* there are.                                                               *)
LEMMA AllNumbers ==
  ASSUME NEW l \in Nat, NEW T \in SUBSET (0..l), 0 \in T, \A n \in 1..l : n - 1 \in T => n \in T
  PROVE  T = 0..l
<1> DEFINE rest == (0..l) \ T
<1>1. ASSUME rest # {} PROVE FALSE
  <2>1. rest \in SUBSET Nat
    OBVIOUS
  <2>2. PICK n \in rest : \A m \in rest : n <= m
    <3> HIDE DEF rest
    <3> QED
      BY <1>1, <2>1, LeastNat
  <2>3. n \in 1..l /\ n - 1 \in 0..l /\ n - 1 \notin rest
    BY <2>2
  <2> QED
    BY <2>2, <2>3
<1> QED
  BY <1>1

(* What leads from a value to the next.                                     *)
StepsOn(S) == [Nat \X S -> S]
Made(f, S, l, first, step) ==
  f \in [0..l -> S] /\ f[0] = first /\ \A n \in 1..l : f[n] = step[<<n, f[n - 1]>>]

(* A first value and a step to the next make a row of values of any length. *)
LEMMA StepsMakeRow ==
  ASSUME NEW S, NEW first \in S, NEW step \in StepsOn(S), NEW l \in Nat
  PROVE  \E f : Made(f, S, l, first, step)
<1> DEFINE has == {k \in 0..l : \E f : Made(f, S, k, first, step)}
<1>1. 0 \in has
  <2> DEFINE g == [n \in 0..0 |-> first]
  <2>1. g \in [0..0 -> S] /\ g[0] = first /\ 0 \in 0..l
    OBVIOUS
  <2>2. Made(g, S, 0, first, step)
    BY <2>1 DEF Made
  <2> QED
    BY <2>1, <2>2
<1>2. ASSUME NEW k \in 1..l, k - 1 \in has PROVE k \in has
  <2>1. PICK f : Made(f, S, k - 1, first, step)
    BY <1>2
  <2> DEFINE g == [n \in 0..k |-> IF n = k THEN step[<<k, f[k - 1]>>] ELSE f[n]]
  <2>2. g \in [0..k -> S] /\ g[0] = first /\ g[k] = step[<<k, f[k - 1]>>]
    BY <2>1 DEF StepsOn, Made
  <2>3. \A n \in 0..k - 1 : g[n] = f[n]
    OBVIOUS
  <2> HIDE DEF g
  <2>4. ASSUME NEW n \in 1..k PROVE g[n] = step[<<n, g[n - 1]>>]
    <3>1. n - 1 \in 0..k - 1 /\ g[n - 1] = f[n - 1]
      BY <2>3
    <3>2. CASE n = k
      BY <2>2, <3>1, <3>2
    <3>3. CASE n # k
      <4>1. n \in 1..k - 1 /\ g[n] = f[n]
        BY <2>3, <3>3
      <4> QED
        BY <2>1, <3>1, <4>1 DEF Made
    <3> QED
      BY <3>2, <3>3
  <2>5. Made(g, S, k, first, step)
    BY <2>2, <2>4 DEF Made
  <2> QED
    BY <2>2, <2>5
<1>3. has \in SUBSET (0..l)
  OBVIOUS
<1>4. has = 0..l
  <2> HIDE DEF has
  <2> QED
    BY <1>1, <1>2, <1>3, AllNumbers
<1>5. l \in has
  BY <1>4
<1> QED
  BY <1>5

(* The bytes of the first items are the bytes of those before, and the      *)
(* bytes of the last.                                                       *)
LEMMA BytesAddUp ==
  /\ Len(Items) \in Nat /\ DOMAIN Items = 1..Len(Items)
  /\ \A n \in 1..Len(Items) : Items[n] \in ItemSet /\ Bytes[Items[n]] \in Nat
  /\ Upto \in [0..Len(Items) -> Nat] /\ Upto[0] = 0
  /\ \A n \in 1..Len(Items) : Upto[n] = Upto[n - 1] + Bytes[Items[n]]
<1> DEFINE l == Len(Items)
           step == [p \in Nat \X Nat |-> IF p[1] \in 1..l THEN p[2] + Bytes[Items[p[1]]] ELSE 0]
           Shape(f) == [n \in 0..l |-> IF n = 0 THEN 0 ELSE f[n - 1] + Bytes[Items[n]]]
<1>1. /\ l \in Nat /\ DOMAIN Items = 1..l
      /\ \A n \in 1..l : Items[n] \in ItemSet /\ Bytes[Items[n]] \in Nat
  BY EmbeddingAssumption
<1>2. step \in StepsOn(Nat)
  BY <1>1 DEF StepsOn
<1> HIDE DEF l
<1>3. \E f : Made(f, Nat, l, 0, step)
  <2> HIDE DEF step
  <2>1. PICK first \in Nat : first = 0
    OBVIOUS
  <2> QED
    BY <1>1, <1>2, <2>1, StepsMakeRow
<1>4. PICK f : Made(f, Nat, l, 0, step)
  BY <1>3
<1>44. f \in [0..l -> Nat] /\ f[0] = 0 /\ \A n \in 1..l : f[n] = step[<<n, f[n - 1]>>]
  BY <1>4 DEF Made
<1>5. \A n \in 1..l : n - 1 \in 0..l /\ f[n] = f[n - 1] + Bytes[Items[n]]
  <2> SUFFICES ASSUME NEW n \in 1..l PROVE n - 1 \in 0..l /\ f[n] = f[n - 1] + Bytes[Items[n]]
    OBVIOUS
  <2>1. n \in Nat /\ n - 1 \in 0..l /\ f[n - 1] \in Nat
    BY <1>1, <1>44
  <2>2. step[<<n, f[n - 1]>>] = f[n - 1] + Bytes[Items[n]]
    BY <2>1
  <2> QED
    BY <1>44, <2>1, <2>2
<1>6. f = Shape(f)
  BY <1>1, <1>44, <1>5
<1>7. Upto = CHOOSE h : h = Shape(h)
  BY DEF Upto, l
<1>8. Upto = Shape(Upto)
  BY <1>6, <1>7
<1>9. Upto[0] = 0 /\ \A n \in 1..l : Upto[n] = Upto[n - 1] + Bytes[Items[n]]
  <2>1. \A n \in 0..l : Shape(Upto)[n] = IF n = 0 THEN 0 ELSE Upto[n - 1] + Bytes[Items[n]]
    OBVIOUS
  <2> QED
    BY <1>1, <1>8, <2>1
<1>10. DOMAIN Upto = 0..l
  BY <1>8
<1> HIDE DEF step, Shape
<1>11. \A n \in 0..l : Upto[n] = f[n]
  <2> DEFINE same == {n \in 0..l : Upto[n] = f[n]}
  <2>1. same \in SUBSET (0..l) /\ 0 \in same
    BY <1>1, <1>44, <1>9
  <2>2. \A n \in 1..l : n - 1 \in same => n \in same
    BY <1>1, <1>5, <1>9
  <2>3. same = 0..l
    <3> HIDE DEF same
    <3> QED
      BY <1>1, <2>1, <2>2, AllNumbers
  <2> QED
    BY <2>3
<1>12. Upto = f
  BY <1>44, <1>8, <1>11 DEF Shape
<1> QED
  BY <1>1, <1>44, <1>9, <1>12 DEF l
(* What splitBatches has made of some items is batches that are done, one   *)
(* that is not, and its bytes.                                              *)
SplitStates == [done : Seq(Seq(ItemSet)), current : Seq(ItemSet), bytes : Nat]
NoBatches == [done |-> <<>>, current |-> <<>>, bytes |-> 0]

(* An item more makes a state of it.                                        *)
LEMMA PutIsState ==
  ASSUME NEW s \in SplitStates, NEW item \in ItemSet
  PROVE  Put(s, item) \in SplitStates
<1>1. Bytes[item] \in Nat
  BY EmbeddingAssumption
<1>2. /\ Append(s.done, s.current) \in Seq(Seq(ItemSet)) /\ <<item>> \in Seq(ItemSet)
      /\ Append(s.current, item) \in Seq(ItemSet) /\ s.bytes + Bytes[item] \in Nat
  BY <1>1 DEF SplitStates
<1> QED
  BY <1>1, <1>2 DEF Put, SplitStates

(* Each item is put where splitBatches puts it.                             *)
LEMMA SplitGoesOn ==
  /\ Split \in [0..Len(Items) -> SplitStates] /\ Split[0] = NoBatches
  /\ \A n \in 1..Len(Items) : Split[n] = Put(Split[n - 1], Items[n])
<1> DEFINE l == Len(Items)
           step == [p \in Nat \X SplitStates |-> IF p[1] \in 1..l THEN Put(p[2], Items[p[1]]) ELSE NoBatches]
           Shape(f) == [n \in 0..l |-> IF n = 0 THEN NoBatches ELSE Put(f[n - 1], Items[n])]
<1>1. l \in Nat /\ \A n \in 1..l : Items[n] \in ItemSet
  BY BytesAddUp
<1> HIDE DEF l
<1>0. NoBatches \in SplitStates
  BY DEF NoBatches, SplitStates
<1>2. step \in StepsOn(SplitStates)
  <2>1. \A p \in Nat \X SplitStates : p[1] \in 1..l => Put(p[2], Items[p[1]]) \in SplitStates
    BY <1>1, PutIsState
  <2> QED
    BY <1>0, <2>1 DEF StepsOn
<1>3. \E f : Made(f, SplitStates, l, NoBatches, step)
  <2> HIDE DEF step
  <2> QED
    BY <1>0, <1>1, <1>2, StepsMakeRow
<1>4. PICK f : Made(f, SplitStates, l, NoBatches, step)
  BY <1>3
<1>5. f \in [0..l -> SplitStates] /\ f[0] = NoBatches /\ \A n \in 1..l : f[n] = step[<<n, f[n - 1]>>]
  BY <1>4 DEF Made
<1>6. \A n \in 1..l : f[n] = Put(f[n - 1], Items[n])
  <2> SUFFICES ASSUME NEW n \in 1..l PROVE f[n] = Put(f[n - 1], Items[n])
    OBVIOUS
  <2>1. n \in Nat /\ n - 1 \in 0..l /\ f[n - 1] \in SplitStates
    BY <1>1, <1>5
  <2>2. step[<<n, f[n - 1]>>] = Put(f[n - 1], Items[n])
    BY <2>1
  <2> QED
    BY <1>5, <2>1, <2>2
<1>7. f = Shape(f)
  BY <1>1, <1>5, <1>6
<1>8. Split = CHOOSE h : h = Shape(h)
  BY DEF Split, NoBatches, l
<1>9. Split = Shape(Split)
  BY <1>7, <1>8
<1>10. Split[0] = NoBatches /\ \A n \in 1..l : Split[n] = Put(Split[n - 1], Items[n])
  <2>1. \A n \in 0..l : Shape(Split)[n] = IF n = 0 THEN NoBatches ELSE Put(Split[n - 1], Items[n])
    OBVIOUS
  <2> QED
    BY <1>1, <1>9, <2>1
<1>11. \A n \in 0..l : Split[n] = f[n]
  <2> DEFINE same == {n \in 0..l : Split[n] = f[n]}
  <2>1. same \in SUBSET (0..l) /\ 0 \in same
    BY <1>1, <1>5, <1>10
  <2>2. ASSUME NEW n \in 1..l, n - 1 \in same PROVE n \in same
    BY <1>1, <1>6, <1>10, <2>2
  <2>3. same = 0..l
    <3> HIDE DEF same
    <3> QED
      BY <1>1, <2>1, <2>2, AllNumbers
  <2> QED
    BY <2>3
<1>12. Split = f
  BY <1>5, <1>9, <1>11
<1> QED
  BY <1>5, <1>10, <1>12 DEF l

(* The batches cut the first n items in pieces that end where ends says.    *)
Pieces(batches, n, ends) ==
  /\ ends \in [0..Len(batches) -> 0..n] /\ ends[0] = 0 /\ ends[Len(batches)] = n
  /\ \A j, k \in 0..Len(batches) : j < k => ends[j] < ends[k]
  /\ \A k \in 1..Len(batches) : /\ batches[k] = SubSeq(Items, ends[k - 1] + 1, ends[k])
                                /\ ends[k] - ends[k - 1] <= MaxBatchItems
                                /\ Upto[ends[k]] - Upto[ends[k - 1]] <= MaxBatchBytes

(* While each item is small enough, every batch is a piece within the       *)
(* limits.                                                                  *)
IsCut(s, n) ==
  s.current # <<>> /\ \E ends : /\ Pieces(Append(s.done, s.current), n, ends)
                                /\ s.bytes = Upto[n] - Upto[ends[Len(s.done)]]

(* An item that begins a batch of its own is one more piece.                *)
LEMMA NewPiece ==
  ASSUME ValidInput, NEW batches \in Seq(Seq(ItemSet)), NEW n \in 1..Len(Items),
         NEW ends, Pieces(batches, n - 1, ends)
  PROVE  /\ Pieces(Append(batches, <<Items[n]>>), n, [k \in 0..Len(batches) + 1 |-> IF k = Len(batches) + 1 THEN n ELSE ends[k]])
         /\ Bytes[Items[n]] = Upto[n] - Upto[ends[Len(batches)]]
<1> DEFINE more == Append(batches, <<Items[n]>>)
<1>1. PICK l \in Nat : l = Len(batches)
  OBVIOUS
<1>2. PICK after : after = [k \in 0..l + 1 |-> IF k = l + 1 THEN n ELSE ends[k]]
  OBVIOUS
<1>3. /\ ends \in [0..l -> 0..n - 1] /\ ends[0] = 0 /\ ends[l] = n - 1
      /\ \A j, k \in 0..l : j < k => ends[j] < ends[k]
      /\ \A k \in 1..l : /\ batches[k] = SubSeq(Items, ends[k - 1] + 1, ends[k])
                         /\ ends[k] - ends[k - 1] <= MaxBatchItems
                         /\ Upto[ends[k]] - Upto[ends[k - 1]] <= MaxBatchBytes
  BY <1>1 DEF Pieces
<1>4. /\ Len(more) = l + 1 /\ more[l + 1] = <<Items[n]>>
      /\ \A k \in 1..l : more[k] = batches[k]
  BY <1>1, AppendProperties
<1>5. /\ n \in Nat /\ n - 1 \in Nat /\ DOMAIN after = 0..l + 1 /\ after[l + 1] = n
      /\ \A k \in 0..l : after[k] = ends[k]
  BY <1>1, <1>2, BytesAddUp
<1>6. Bytes[Items[n]] = Upto[n] - Upto[n - 1] /\ Bytes[Items[n]] <= MaxBatchBytes /\ Bytes[Items[n]] \in Nat
  <2>0. n \in 0..Len(Items) /\ n - 1 \in 0..Len(Items)
    BY BytesAddUp
  <2>1. Upto[n] = Upto[n - 1] + Bytes[Items[n]] /\ Upto[n] \in Nat /\ Upto[n - 1] \in Nat
    BY <2>0, BytesAddUp
  <2>2. Items[n] \in ItemSet /\ Bytes[Items[n]] \in Nat
    BY BytesAddUp
  <2>3. Bytes[Items[n]] <= MaxItemBytes
    BY <2>2 DEF ValidInput
  <2> QED
    BY <2>1, <2>2, <2>3, EmbeddingAssumption, SMTT(30)
<1>7. SubSeq(Items, n - 1 + 1, n) = <<Items[n]>>
  <2>1. n - 1 + 1 = n /\ Len(Items) \in Nat /\ n - n + 1 = 1
    BY <1>5, BytesAddUp
  <2>2. SubSeq(Items, n, n) = [k \in 1..1 |-> Items[n + k - 1]]
    BY <2>1
  <2>3. SubSeq(Items, n, n) = <<Items[n]>>
    BY <1>5, <2>2
  <2> QED
    BY <2>1, <2>3
<1>8. after \in [0..l + 1 -> 0..n] /\ after[0] = 0
  BY <1>1, <1>2, <1>3, <1>5
<1>9. \A j, k \in 0..l + 1 : j < k => after[j] < after[k]
  <2> SUFFICES ASSUME NEW j \in 0..l + 1, NEW k \in 0..l + 1, j < k PROVE after[j] < after[k]
    OBVIOUS
  <2>0. j \in 0..l
    BY <1>1
  <2>1. j \in 0..l /\ ends[j] \in 0..n - 1
    BY <1>3, <2>0
  <2>2. CASE k = l + 1
    BY <1>5, <2>1, <2>2
  <2>3. CASE k # l + 1
    BY <1>3, <1>5, <2>1, <2>3
  <2> QED
    BY <2>2, <2>3
<1>10. ASSUME NEW k \in 1..l + 1
       PROVE  /\ more[k] = SubSeq(Items, after[k - 1] + 1, after[k])
              /\ after[k] - after[k - 1] <= MaxBatchItems
              /\ Upto[after[k]] - Upto[after[k - 1]] <= MaxBatchBytes
  <2>1. CASE k = l + 1
    <3>1. after[k] = n /\ after[k - 1] = n - 1
      BY <1>1, <1>3, <1>5, <2>1
    <3>2. more[k] = <<Items[n]>> /\ n - (n - 1) = 1 /\ 1 <= MaxBatchItems
      BY <1>4, <1>5, <2>1, EmbeddingAssumption
    <3>3. more[k] = SubSeq(Items, after[k - 1] + 1, after[k])
      BY <1>7, <3>1, <3>2
    <3>4. Upto[after[k]] - Upto[after[k - 1]] <= MaxBatchBytes
      BY <1>6, <3>1
    <3> QED
      BY <3>1, <3>2, <3>3, <3>4
  <2>2. CASE k # l + 1
    <3>1. k \in 1..l /\ k - 1 \in 0..l /\ k \in 0..l
      BY <1>1, <2>2
    <3>2. more[k] = batches[k] /\ after[k] = ends[k] /\ after[k - 1] = ends[k - 1]
      BY <1>4, <1>5, <3>1
    <3> QED
      BY <1>3, <3>1, <3>2
  <2> QED
    BY <2>1, <2>2
<1>11. Pieces(more, n, after)
  <2> HIDE DEF more
  <2> QED
    BY <1>1, <1>4, <1>5, <1>8, <1>9, <1>10 DEF Pieces
<1> QED
  BY <1>1, <1>2, <1>3, <1>6, <1>11

(* A piece of the request has its items, in their places.                   *)
LEMMA PieceIs ==
  ASSUME NEW a \in 0..Len(Items), NEW b \in 0..Len(Items), a <= b
  PROVE  /\ SubSeq(Items, a + 1, b) \in Seq(ItemSet) /\ Len(SubSeq(Items, a + 1, b)) = b - a
         /\ \A k \in 1..b - a : SubSeq(Items, a + 1, b)[k] = Items[a + k]
<1>1. a \in Nat /\ b \in Nat /\ Len(Items) \in Nat
  BY BytesAddUp
<1>2. PICK m \in Int : m = a + 1
  BY <1>1
<1>3. b \in Int /\ \A k \in m..b : Items[k] \in ItemSet
  BY <1>1, <1>2, BytesAddUp
<1>4. /\ SubSeq(Items, m, b) \in Seq(ItemSet) /\ Len(SubSeq(Items, m, b)) = IF m <= b THEN b - m + 1 ELSE 0
      /\ \A k \in 1..b - m + 1 : SubSeq(Items, m, b)[k] = Items[m + k - 1]
  BY <1>2, <1>3, SubSeqProperties
<1>5. b - m + 1 = b - a /\ \A k \in Int : m + k - 1 = a + k
  BY <1>1, <1>2
<1>6. Len(SubSeq(Items, m, b)) = b - a
  BY <1>1, <1>2, <1>4, <1>5
<1>7. \A k \in 1..b - a : SubSeq(Items, m, b)[k] = Items[a + k]
  BY <1>1, <1>4, <1>5
<1> QED
  BY <1>2, <1>4, <1>6, <1>7

(* A piece and the item after it are a longer piece.                        *)
LEMMA PieceGrows ==
  ASSUME NEW m \in Nat, NEW n \in 1..Len(Items), m < n
  PROVE  Append(SubSeq(Items, m + 1, n - 1), Items[n]) = SubSeq(Items, m + 1, n)
<1>1. Len(Items) \in Nat /\ n \in Nat /\ Items[n] \in ItemSet
  BY BytesAddUp
<1>2. PICK b \in 0..Len(Items) : b = n - 1
  BY <1>1
<1>3. n \in 0..Len(Items) /\ m \in 0..Len(Items) /\ m <= b /\ m <= n
  BY <1>1, <1>2
<1>4. PICK old : old = SubSeq(Items, m + 1, b)
  OBVIOUS
<1>5. PICK new : new = SubSeq(Items, m + 1, n)
  OBVIOUS
<1>6. old \in Seq(ItemSet) /\ Len(old) = b - m /\ \A k \in 1..b - m : old[k] = Items[m + k]
  BY <1>3, <1>4, PieceIs
<1>7. new \in Seq(ItemSet) /\ Len(new) = n - m /\ \A k \in 1..n - m : new[k] = Items[m + k]
  BY <1>3, <1>5, PieceIs
<1>8. PICK more : more = Append(old, Items[n])
  OBVIOUS
<1>9. more \in Seq(ItemSet) /\ Len(more) = n - m /\ more[n - m] = Items[n] /\ \A k \in 1..b - m : more[k] = old[k]
  BY <1>1, <1>2, <1>6, <1>8, AppendProperties
<1>10. ASSUME NEW k \in 1..n - m PROVE more[k] = new[k]
  <2>1. CASE k = n - m
    <3>1. m + k = n
      BY <1>1, <2>1
    <3> QED
      BY <1>7, <1>9, <2>1, <3>1
  <2>2. CASE k # n - m
    <3>1. k \in 1..b - m
      BY <1>1, <1>2, <2>2
    <3> QED
      BY <1>6, <1>7, <1>9, <3>1
  <2> QED
    BY <2>1, <2>2
<1>11. more = new
  BY <1>7, <1>9, <1>10, SeqEqual
<1> QED
  BY <1>2, <1>4, <1>5, <1>8, <1>11

(* An item that joins the last batch makes a longer piece of it.            *)
LEMMA LongerPiece ==
  ASSUME ValidInput, NEW batches \in Seq(Seq(ItemSet)), NEW current \in Seq(ItemSet), current # <<>>,
         NEW n \in 1..Len(Items), n > 1,
         NEW ends, Pieces(Append(batches, current), n - 1, ends), Len(current) < MaxBatchItems,
         Upto[n] - Upto[ends[Len(batches)]] <= MaxBatchBytes
  PROVE  \E after : /\ Pieces(Append(batches, Append(current, Items[n])), n, after)
                    /\ after[Len(batches)] = ends[Len(batches)]
<1> DEFINE old == Append(batches, current)
           more == Append(batches, Append(current, Items[n]))
<1>1. PICK l \in Nat : l = Len(batches)
  OBVIOUS
<1>2. PICK after : after = [k \in 0..l + 1 |-> IF k = l + 1 THEN n ELSE ends[k]]
  OBVIOUS
<1>3. /\ Len(old) = l + 1 /\ old[l + 1] = current /\ \A k \in 1..l : old[k] = batches[k]
      /\ Len(more) = l + 1 /\ more[l + 1] = Append(current, Items[n]) /\ \A k \in 1..l : more[k] = batches[k]
  <2>1. Append(current, Items[n]) \in Seq(ItemSet)
    BY BytesAddUp
  <2> QED
    BY <1>1, <2>1, AppendProperties
<1>4. /\ ends \in [0..l + 1 -> 0..n - 1] /\ ends[0] = 0 /\ ends[l + 1] = n - 1
      /\ \A j, k \in 0..l + 1 : j < k => ends[j] < ends[k]
      /\ \A k \in 1..l + 1 : /\ old[k] = SubSeq(Items, ends[k - 1] + 1, ends[k])
                             /\ ends[k] - ends[k - 1] <= MaxBatchItems
                             /\ Upto[ends[k]] - Upto[ends[k - 1]] <= MaxBatchBytes
  <2> HIDE DEF old
  <2> QED
    BY <1>3 DEF Pieces, old
<1>5. /\ n \in Nat /\ n - 1 \in Nat /\ DOMAIN after = 0..l + 1 /\ after[l + 1] = n
      /\ \A k \in 0..l : after[k] = ends[k]
  BY <1>1, <1>2, BytesAddUp
<1>0. n \in Nat /\ n <= Len(Items) /\ Len(Items) \in Nat
  BY BytesAddUp
<1>6. PICK m \in Nat : m = ends[l] /\ m < n - 1 /\ current = SubSeq(Items, m + 1, n - 1)
  <2>1. l \in 0..l + 1 /\ l + 1 \in 0..l + 1 /\ l < l + 1 /\ l + 1 - 1 = l /\ l + 1 \in 1..l + 1
    BY <1>1
  <2>2. ends[l] \in 0..n - 1 /\ ends[l] < ends[l + 1]
    BY <1>4, <2>1
  <2>3. ends[l] \in Nat /\ ends[l] < n - 1
    BY <1>0, <1>4, <2>2
  <2>4. PICK k \in 1..l + 1 : k = l + 1 /\ k - 1 = l
    BY <2>1
  <2>5. old[k] = SubSeq(Items, ends[k - 1] + 1, ends[k])
    BY <1>4
  <2>6. current = SubSeq(Items, ends[l] + 1, n - 1)
    BY <1>3, <1>4, <2>4, <2>5
  <2> QED
    BY <2>3, <2>6
<1>7. Append(current, Items[n]) = SubSeq(Items, m + 1, n)
  <2>1. m < n
    BY <1>0, <1>6
  <2>2. Append(SubSeq(Items, m + 1, n - 1), Items[n]) = SubSeq(Items, m + 1, n)
    BY <2>1, PieceGrows
  <2> QED
    BY <1>6, <2>2
<1>8. Len(current) = n - 1 - m
  <2>1. PICK b \in 0..Len(Items) : b = n - 1
    BY <1>0
  <2>2. m \in 0..Len(Items) /\ m <= b
    BY <1>0, <1>6, <2>1, SMTT(30)
  <2> QED
    BY <1>6, <2>1, <2>2, PieceIs
<1>9. after \in [0..l + 1 -> 0..n] /\ after[0] = 0
  BY <1>1, <1>2, <1>4, <1>5
<1>10. \A j, k \in 0..l + 1 : j < k => after[j] < after[k]
  <2> SUFFICES ASSUME NEW j \in 0..l + 1, NEW k \in 0..l + 1, j < k PROVE after[j] < after[k]
    OBVIOUS
  <2>0. j \in 0..l
    BY <1>1
  <2>1. ends[j] \in 0..n - 1
    BY <1>4
  <2>2. CASE k = l + 1
    BY <1>5, <2>0, <2>1, <2>2
  <2>3. CASE k # l + 1
    BY <1>4, <1>5, <2>0, <2>3
  <2> QED
    BY <2>2, <2>3
<1>11. ASSUME NEW k \in 1..l + 1
       PROVE  /\ more[k] = SubSeq(Items, after[k - 1] + 1, after[k])
              /\ after[k] - after[k - 1] <= MaxBatchItems
              /\ Upto[after[k]] - Upto[after[k - 1]] <= MaxBatchBytes
  <2>1. CASE k = l + 1
    <3>1. after[k] = n /\ after[k - 1] = m /\ l \in 0..l
      BY <1>1, <1>5, <1>6, <2>1
    <3>2. more[k] = SubSeq(Items, after[k - 1] + 1, after[k])
      BY <1>3, <1>7, <2>1, <3>1
    <3>3. n - m <= MaxBatchItems
      <4>1. Len(current) < MaxBatchItems /\ MaxBatchItems \in Nat
        BY EmbeddingAssumption
      <4> QED
        BY <1>0, <1>6, <1>8, <4>1
    <3>4. Upto[n] - Upto[m] <= MaxBatchBytes
      BY <1>1, <1>6
    <3> QED
      BY <3>1, <3>2, <3>3, <3>4
  <2>2. CASE k # l + 1
    <3>1. k \in 1..l /\ k - 1 \in 0..l /\ k \in 0..l
      BY <1>1, <2>2
    <3>2. more[k] = old[k] /\ after[k] = ends[k] /\ after[k - 1] = ends[k - 1]
      BY <1>3, <1>5, <3>1
    <3> QED
      BY <1>4, <3>2
  <2> QED
    BY <2>1, <2>2
<1>12. Pieces(more, n, after)
  <2> HIDE DEF more
  <2> QED
    BY <1>1, <1>3, <1>5, <1>9, <1>10, <1>11 DEF Pieces
<1> QED
  BY <1>1, <1>5, <1>12

(* A batch that is full is done, and another one begins with the item; else *)
(* the item joins.                                                          *)
LEMMA PutIs ==
  ASSUME NEW s \in SplitStates, NEW item \in ItemSet
  PROVE  /\ Full(s.current, s.bytes, item) =>
              /\ Put(s, item).done = Append(s.done, s.current)
              /\ Put(s, item).current = <<item>> /\ Put(s, item).bytes = Bytes[item]
         /\ ~Full(s.current, s.bytes, item) =>
              /\ Put(s, item).done = s.done
              /\ Put(s, item).current = Append(s.current, item) /\ Put(s, item).bytes = s.bytes + Bytes[item]
<1>1. CASE Full(s.current, s.bytes, item)
  <2>1. Put(s, item) = [done |-> Append(s.done, s.current), current |-> <<item>>, bytes |-> Bytes[item]]
    BY <1>1 DEF Put
  <2> QED
    BY <1>1, <2>1
<1>2. CASE ~Full(s.current, s.bytes, item)
  <2>1. Put(s, item) = [s EXCEPT !.current = Append(@, item), !.bytes = @ + Bytes[item]]
    BY <1>2 DEF Put
  <2>2. DOMAIN s = {"done", "current", "bytes"}
    BY DEF SplitStates
  <2> QED
    BY <1>2, <2>1, <2>2
<1> QED
  BY <1>1, <1>2

(* What something was appended to is longer and not empty.                  *)
LEMMA AppendIsNot ==
  ASSUME NEW S, NEW q \in Seq(S), NEW x \in S
  PROVE  /\ Append(q, x) \in Seq(S) /\ Len(Append(q, x)) = Len(q) + 1 /\ Len(q) \in Nat
         /\ Append(q, x) # <<>>
  BY AppendProperties

(* What splitBatches has made of the first items is pieces of them.         *)
LEMMA SplitIsCut ==
  ASSUME ValidInput
  PROVE  \A n \in 1..Len(Items) : IsCut(Split[n], n)
<1> DEFINE cut == {n \in 0..Len(Items) : n # 0 => IsCut(Split[n], n)}
<1>1. Len(Items) \in Nat
  BY BytesAddUp
<1>2. cut \in SUBSET (0..Len(Items)) /\ 0 \in cut
  BY <1>1
<1>3. ASSUME NEW n \in 1..Len(Items), n - 1 \in cut PROVE IsCut(Split[n], n)
  <2>1. PICK s \in SplitStates : s = Split[n - 1]
    <3>1. n - 1 \in 0..Len(Items)
      BY <1>1
    <3> QED
      BY <3>1, SplitGoesOn
  <2>2. PICK item \in ItemSet : item = Items[n] /\ Bytes[item] \in Nat
    BY BytesAddUp
  <2>3. Split[n] = Put(s, item)
    BY <2>1, <2>2, SplitGoesOn
  <2>4. s.done \in Seq(Seq(ItemSet)) /\ s.current \in Seq(ItemSet) /\ s.bytes \in Nat
    BY DEF SplitStates
  <2>5. CASE n = 1
    <3>1. s.done = <<>> /\ s.current = <<>> /\ s.bytes = 0
      BY <2>1, <2>5, SplitGoesOn DEF NoBatches
    <3>2. PICK t : t = Put(s, item) /\ t.done = <<>> /\ t.current = <<item>> /\ t.bytes = Bytes[item]
      <4>1. ~Full(s.current, s.bytes, item)
        BY <3>1 DEF Full
      <4>2. Append(s.current, item) = <<item>> /\ s.bytes + Bytes[item] = Bytes[item]
        BY <2>2, <3>1
      <4> QED
        BY <3>1, <4>1, <4>2, PutIs
    <3>3. PICK ends : ends = [k \in 0..0 |-> 0]
      OBVIOUS
    <3>4. PICK none \in Seq(Seq(ItemSet)) : none = <<>> /\ Len(none) = 0
      <4>1. <<>> \in Seq(Seq(ItemSet)) /\ Len(<<>>) = 0
        OBVIOUS
      <4> QED
        BY <4>1
    <3>5. Pieces(none, n - 1, ends)
      BY <2>5, <3>3, <3>4 DEF Pieces
    <3>6. PICK after : /\ after = [k \in 0..Len(none) + 1 |-> IF k = Len(none) + 1 THEN n ELSE ends[k]]
                       /\ Pieces(Append(none, <<Items[n]>>), n, after)
                       /\ Bytes[Items[n]] = Upto[n] - Upto[ends[Len(none)]]
      BY <3>5, NewPiece
    <3>7. after[Len(t.done)] = ends[Len(none)]
      BY <3>2, <3>3, <3>4, <3>6
    <3>8. t.current # <<>>
      BY <3>2
    <3> QED
      BY <2>2, <2>3, <3>2, <3>4, <3>6, <3>7, <3>8 DEF IsCut
  <2>6. CASE n # 1
    <3>1. n - 1 \in 1..Len(Items) /\ n > 1 /\ n \in Nat
      BY <1>1, <2>6
    <3>2. s.current # <<>> /\ \E ends : /\ Pieces(Append(s.done, s.current), n - 1, ends)
                                        /\ s.bytes = Upto[n - 1] - Upto[ends[Len(s.done)]]
      <4>1. IsCut(Split[n - 1], n - 1)
        BY <1>3, <3>1
      <4> QED
        BY <2>1, <4>1 DEF IsCut
    <3>3. PICK ends : /\ Pieces(Append(s.done, s.current), n - 1, ends)
                      /\ s.bytes = Upto[n - 1] - Upto[ends[Len(s.done)]]
      BY <3>2
    <3>4. PICK batches \in Seq(Seq(ItemSet)) : batches = Append(s.done, s.current) /\ Len(batches) = Len(s.done) + 1
      BY <2>4, AppendIsNot
    <3>5. CASE Full(s.current, s.bytes, item)
      <4>1. PICK t : t = Put(s, item) /\ t.done = batches /\ t.current = <<item>> /\ t.bytes = Bytes[item]
        BY <3>4, <3>5, PutIs
      <4>2. PICK after : /\ after = [k \in 0..Len(batches) + 1 |-> IF k = Len(batches) + 1 THEN n ELSE ends[k]]
                         /\ Pieces(Append(batches, <<Items[n]>>), n, after)
                         /\ Bytes[Items[n]] = Upto[n] - Upto[ends[Len(batches)]]
        <5>1. Pieces(batches, n - 1, ends)
          BY <3>3, <3>4
        <5> QED
          BY <5>1, NewPiece
      <4>3. after[Len(t.done)] = ends[Len(batches)]
        <5>1. Len(batches) \in Nat
          OBVIOUS
        <5> QED
          BY <4>1, <4>2, <5>1
      <4>4. t.current # <<>>
        BY <4>1
      <4> QED
        BY <2>2, <2>3, <4>1, <4>2, <4>3, <4>4 DEF IsCut
    <3>6. CASE ~Full(s.current, s.bytes, item)
      <4>1. PICK t : /\ t = Put(s, item) /\ t.done = s.done /\ t.current = Append(s.current, item)
                     /\ t.bytes = s.bytes + Bytes[item]
        BY <3>6, PutIs
      <4>2. Len(s.current) < MaxBatchItems /\ s.bytes + Bytes[item] <= MaxBatchBytes
        <5>1. MaxBatchItems \in Nat /\ MaxBatchBytes \in Nat /\ Len(s.current) \in Nat
          BY <2>4, EmbeddingAssumption
        <5>2. ~(Len(s.current) >= MaxBatchItems) /\ ~(s.bytes + Bytes[item] > MaxBatchBytes)
          BY <3>2, <3>6 DEF Full
        <5> QED
          BY <2>2, <2>4, <5>1, <5>2
      <4>3. Upto[n] = Upto[n - 1] + Bytes[item] /\ Upto[n] \in Nat /\ Upto[n - 1] \in Nat
        <5>1. n \in 0..Len(Items) /\ n - 1 \in 0..Len(Items)
          BY <1>1
        <5> QED
          BY <2>2, <5>1, BytesAddUp
      <4>4. Upto[ends[Len(s.done)]] \in Nat
        <5>1. Len(s.done) \in 0..Len(batches) /\ ends \in [0..Len(batches) -> 0..n - 1]
          BY <2>4, <3>3, <3>4 DEF Pieces
        <5>2. ends[Len(s.done)] \in 0..Len(Items)
          BY <1>1, <3>1, <5>1
        <5> QED
          BY <5>2, BytesAddUp
      <4>5. t.bytes = Upto[n] - Upto[ends[Len(s.done)]]
        BY <2>2, <3>3, <4>1, <4>3, <4>4
      <4>6. PICK after : /\ Pieces(Append(s.done, Append(s.current, Items[n])), n, after)
                         /\ after[Len(s.done)] = ends[Len(s.done)]
        <5>1. Upto[n] - Upto[ends[Len(s.done)]] <= MaxBatchBytes
          BY <4>1, <4>2, <4>5
        <5>2. PICK done \in Seq(Seq(ItemSet)), current \in Seq(ItemSet) : done = s.done /\ current = s.current
          BY <2>4
        <5>3. /\ current # <<>> /\ Pieces(Append(done, current), n - 1, ends) /\ Len(current) < MaxBatchItems
              /\ Upto[n] - Upto[ends[Len(done)]] <= MaxBatchBytes
          BY <3>2, <3>3, <4>2, <5>1, <5>2
        <5>4. \E after : /\ Pieces(Append(done, Append(current, Items[n])), n, after)
                         /\ after[Len(done)] = ends[Len(done)]
          BY <3>1, <5>3, LongerPiece
        <5> QED
          BY <5>2, <5>4
      <4>7. t.current # <<>>
        BY <2>4, <4>1, AppendIsNot
      <4> QED
        BY <2>2, <2>3, <4>1, <4>5, <4>6, <4>7 DEF IsCut
    <3> QED
      BY <3>5, <3>6
  <2> QED
    BY <2>5, <2>6
<1>4. ASSUME NEW n \in 1..Len(Items), n - 1 \in cut PROVE n \in cut
  <2>1. IsCut(Split[n], n) /\ n \in 0..Len(Items)
    BY <1>1, <1>3, <1>4
  <2> QED
    BY <2>1
<1>5. cut = 0..Len(Items)
  <2> HIDE DEF cut
  <2> QED
    BY <1>1, <1>2, <1>4, AllNumbers
<1>6. ASSUME NEW n \in 1..Len(Items) PROVE IsCut(Split[n], n)
  <2>1. n \in 0..Len(Items) /\ n # 0
    BY <1>1
  <2>2. n \in cut
    BY <1>5, <2>1
  <2> QED
    BY <2>1, <2>2
<1> QED
  BY <1>6

(* The batches are pieces of the whole request.                             *)
LEMMA BatchesAre ==
  /\ Batches \in Seq(Seq(ItemSet)) /\ Len(Batches) \in Nat
  /\ ValidInput => \E ends : Pieces(Batches, Len(Items), ends)
<1>1. Len(Items) \in Nat /\ Len(Items) \in 0..Len(Items)
  BY BytesAddUp
<1>2. PICK s \in SplitStates : s = Split[Len(Items)]
  BY <1>1, SplitGoesOn
<1>3. Batches = IF s.current = <<>> THEN s.done ELSE Append(s.done, s.current)
  BY <1>2 DEF Batches
<1>4. s.done \in Seq(Seq(ItemSet)) /\ s.current \in Seq(ItemSet)
  BY DEF SplitStates
<1>5. Batches \in Seq(Seq(ItemSet)) /\ Len(Batches) \in Nat
  BY <1>3, <1>4, AppendIsNot
<1>6. CASE Len(Items) = 0
  <2>1. s.done = <<>> /\ s.current = <<>>
    BY <1>2, <1>6, SplitGoesOn DEF NoBatches
  <2>2. Batches = <<>> /\ Len(Batches) = 0
    BY <1>3, <2>1
  <2>3. PICK ends : ends = [k \in 0..0 |-> 0]
    OBVIOUS
  <2>4. Pieces(Batches, Len(Items), ends)
    BY <1>6, <2>2, <2>3 DEF Pieces
  <2> QED
    BY <1>5, <2>4
<1>7. CASE Len(Items) # 0 /\ ValidInput
  <2>1. IsCut(s, Len(Items))
    BY <1>1, <1>2, <1>7, SplitIsCut
  <2> QED
    BY <1>3, <1>5, <2>1 DEF IsCut
<1> QED
  BY <1>5, <1>6, <1>7

(* The k-th batch is a piece that begins where the one before ends.         *)
LEMMA BatchIsPiece ==
  ASSUME NEW ends, Pieces(Batches, Len(Items), ends), NEW k \in 1..Len(Batches)
  PROVE  /\ ends[k - 1] \in 0..Len(Items) /\ ends[k] \in 0..Len(Items) /\ ends[k - 1] < ends[k]
         /\ Batches[k] = SubSeq(Items, ends[k - 1] + 1, ends[k])
         /\ Len(Batches[k]) = ends[k] - ends[k - 1]
         /\ Len(Batches[k]) <= MaxBatchItems /\ Upto[ends[k]] - Upto[ends[k - 1]] <= MaxBatchBytes
         /\ \A i : i \in Range(Batches[k]) <=> \E p \in DOMAIN Items : ends[k - 1] < p /\ p <= ends[k] /\ i = Items[p]
<1>1. Len(Batches) \in Nat /\ Len(Items) \in Nat /\ DOMAIN Items = 1..Len(Items)
  BY BatchesAre, BytesAddUp
<1>2. k - 1 \in 0..Len(Batches) /\ k \in 0..Len(Batches) /\ k - 1 < k
  BY <1>1
<1>3. PICK a \in 0..Len(Items), b \in 0..Len(Items) : a = ends[k - 1] /\ b = ends[k] /\ a < b
  BY <1>2 DEF Pieces
<1>4. /\ Batches[k] = SubSeq(Items, a + 1, b) /\ b - a <= MaxBatchItems
      /\ Upto[ends[k]] - Upto[ends[k - 1]] <= MaxBatchBytes
  BY <1>3 DEF Pieces
<1>5. /\ Batches[k] \in Seq(ItemSet) /\ Len(Batches[k]) = b - a
      /\ \A j \in 1..b - a : Batches[k][j] = Items[a + j]
  <2>1. a <= b
    BY <1>1, <1>3
  <2> QED
    BY <1>4, <2>1, PieceIs
<1>6. ASSUME NEW i, i \in Range(Batches[k])
      PROVE  \E p \in DOMAIN Items : a < p /\ p <= b /\ i = Items[p]
  <2>1. PICK j \in 1..b - a : i = Batches[k][j]
    BY <1>1, <1>5, <1>6 DEF Range
  <2>2. a + j \in DOMAIN Items /\ a < a + j /\ a + j <= b
    BY <1>1, <1>3
  <2> QED
    BY <1>5, <2>1, <2>2
<1>7. ASSUME NEW p \in DOMAIN Items, a < p, p <= b
      PROVE  Items[p] \in Range(Batches[k])
  <2>1. PICK j \in 1..b - a : j = p - a /\ a + j = p
    BY <1>1, <1>3, <1>7
  <2>2. Batches[k][j] = Items[p] /\ j \in DOMAIN Batches[k]
    BY <1>1, <1>5, <2>1
  <2> QED
    BY <2>2 DEF Range
<1> QED
  BY <1>3, <1>4, <1>5, <1>6, <1>7

(* Every batch is a piece of the request that the provider can take.        *)
LEMMA BatchesFit ==
  ASSUME ValidInput, NEW k \in 1..Len(Batches)
  PROVE  Fits(Batches[k])
<1>1. PICK ends : Pieces(Batches, Len(Items), ends)
  BY BatchesAre
<1>2. PICK a \in 0..Len(Items), b \in 0..Len(Items) : a = ends[k - 1] /\ b = ends[k]
  BY <1>1, BatchIsPiece
<1>3. /\ a < b /\ Batches[k] = SubSeq(Items, a + 1, b)
      /\ Len(Batches[k]) <= MaxBatchItems /\ Upto[b] - Upto[a] <= MaxBatchBytes
  BY <1>1, <1>2, BatchIsPiece
<1>4. PICK first \in DOMAIN Items : first = a + 1 /\ first - 1 = a /\ first <= b
  BY <1>3, BytesAddUp, SMTT(30)
<1>5. b \in DOMAIN Items
  BY <1>3, BytesAddUp
<1> QED
  BY <1>3, <1>4, <1>5 DEF Fits

(* Every item is in a batch.                                                *)
LEMMA BatchesCover ==
  ASSUME ValidInput, NEW i \in ItemSet
  PROVE  \E k \in 1..Len(Batches) : i \in Range(Batches[k])
<1>1. PICK ends : Pieces(Batches, Len(Items), ends)
  BY BatchesAre
<1>2. PICK p \in 1..Len(Items) : i = Items[p]
  BY BytesAddUp DEF ItemSet, Range
<1>3. Len(Batches) \in Nat /\ Len(Items) \in Nat /\ DOMAIN Items = 1..Len(Items)
  BY BatchesAre, BytesAddUp
<1>4. /\ ends \in [0..Len(Batches) -> 0..Len(Items)]
      /\ ends[0] = 0 /\ ends[Len(Batches)] = Len(Items)
  BY <1>1 DEF Pieces
<1> DEFINE reach == {k \in 0..Len(Batches) : p <= ends[k]}
<1>5. reach \in SUBSET Nat /\ Len(Batches) \in reach
  BY <1>3, <1>4
<1>6. PICK k \in reach : \A j \in reach : k <= j
  <2> HIDE DEF reach
  <2> QED
    BY <1>5, LeastNat
<1>7. k \in 1..Len(Batches) /\ k - 1 \in 0..Len(Batches) /\ k - 1 \notin reach
  BY <1>3, <1>4, <1>6
<1>8. ends[k - 1] < p /\ p <= ends[k]
  BY <1>3, <1>4, <1>6, <1>7
<1> QED
  BY <1>1, <1>2, <1>3, <1>7, <1>8, BatchIsPiece

(* No item is in two batches, since no item is twice in the request.        *)
LEMMA BatchesApart ==
  ASSUME ValidInput, Distinct, NEW j \in 1..Len(Batches), NEW k \in 1..Len(Batches), j < k
  PROVE  Range(Batches[j]) \cap Range(Batches[k]) = {}
<1>1. PICK ends : Pieces(Batches, Len(Items), ends)
  BY BatchesAre
<1>2. \A i \in Range(Batches[j]) : \E p \in DOMAIN Items : p <= ends[j] /\ i = Items[p]
  <2>1. \A i : i \in Range(Batches[j]) <=> \E p \in DOMAIN Items : ends[j - 1] < p /\ p <= ends[j] /\ i = Items[p]
    BY ONLY <1>1, BatchIsPiece, j \in 1..Len(Batches), Zenon
  <2> QED
    BY ONLY <2>1, Zenon
<1>3. \A i \in Range(Batches[k]) : \E p \in DOMAIN Items : ends[k - 1] < p /\ i = Items[p]
  <2>1. \A i : i \in Range(Batches[k]) <=> \E p \in DOMAIN Items : ends[k - 1] < p /\ p <= ends[k] /\ i = Items[p]
    BY ONLY <1>1, BatchIsPiece, k \in 1..Len(Batches), Zenon, SMTT(30)
  <2> QED
    BY ONLY <2>1, Zenon
<1>4. Len(Batches) \in Nat /\ Len(Items) \in Nat /\ DOMAIN Items = 1..Len(Items)
  BY BatchesAre, BytesAddUp
<1>5. /\ ends \in [0..Len(Batches) -> 0..Len(Items)]
      /\ \A a, b \in 0..Len(Batches) : a < b => ends[a] < ends[b]
  BY <1>1 DEF Pieces
<1>6. PICK m \in 0..Len(Batches) : m = k - 1 /\ j <= m
  BY <1>4
<1>7. ends[j] <= ends[m] /\ ends[j] \in Nat /\ ends[m] \in Nat
  <2>1. j \in 0..Len(Batches)
    BY <1>4
  <2>2. ends[j] \in 0..Len(Items) /\ ends[m] \in 0..Len(Items) /\ (j = m \/ ends[j] < ends[m])
    BY <1>4, <1>5, <1>6, <2>1
  <2> QED
    BY <1>4, <2>2
<1>8. ASSUME NEW i, i \in Range(Batches[j]), i \in Range(Batches[k]) PROVE FALSE
  <2>1. PICK p \in DOMAIN Items : p <= ends[j] /\ i = Items[p]
    BY <1>2, <1>8
  <2>2. PICK q \in DOMAIN Items : ends[m] < q /\ i = Items[q]
    BY <1>3, <1>6, <1>8
  <2>3. p = q
    BY <2>1, <2>2 DEF Distinct, IsInjective
  <2> QED
    BY <1>4, <1>7, <2>1, <2>2, <2>3
<1> QED
  BY <1>8

(* What is in a list has a place in it, the last that it is at.             *)
LEMMA PlaceIsOne ==
  ASSUME NEW list, list \in Seq(Range(list)), NEW x \in Range(list)
  PROVE  Place(list, x) \in DOMAIN list /\ Place(list, x) \in Nat \ {0}
<1> DEFINE at == {i \in DOMAIN list : list[i] = x}
<1>1. Len(list) \in Nat /\ DOMAIN list = 1..Len(list)
  OBVIOUS
<1>2. at \in SUBSET Nat /\ at # {} /\ \A i \in at : i <= Len(list)
  BY <1>1 DEF Range
<1>3. PICK i \in at : \A j \in at : j <= i
  <2> HIDE DEF at
  <2> QED
    BY <1>1, <1>2, GreatestNat
<1>4. i \in DOMAIN list /\ list[i] = x /\ \A j \in DOMAIN list : list[j] = x => j <= i
  BY <1>3
<1>5. Place(list, x) \in DOMAIN list
  BY <1>4 DEF Place
<1> QED
  BY <1>1, <1>5

(* A product grows with its factor.                                         *)
LEMMA LargerProduct ==
  ASSUME NEW a \in Nat, NEW b \in Nat, a < b, NEW c \in Nat \ {0}
  PROVE  a * c < b * c /\ c * a < c * b
<1>1. PICK d \in Nat \ {0} : b = a + d
  <2>1. b - a \in Nat \ {0} /\ b = a + (b - a)
    OBVIOUS
  <2> QED
    BY <2>1
<1>2. d * c > 0
  BY SMTT(30)
<1>3. b * c = a * c + d * c
  BY <1>1
<1>4. a * c \in Nat /\ d * c \in Nat /\ c * a = a * c /\ c * b = b * c
  OBVIOUS
<1> QED
  BY <1>2, <1>3, <1>4

(* Where both rankings agree the sum of the reciprocal ranks does too: the  *)
(* item that is ahead has the larger one, or has one more.                  *)
LEMMA AheadIsBefore ==
  ASSUME NEW dense \in Dense, NEW x \in Range(Lexical), NEW y \in Range(Lexical), Ahead(dense, x, y)
  PROVE  Before(dense, x, y)
<1>1. PICK l \in Nat, m \in Nat : l = 60 + Place(Lexical, x) /\ m = 60 + Place(Lexical, y) /\ l < m /\ l # 0
  <2>1. Place(Lexical, x) \in Nat /\ Place(Lexical, y) \in Nat
    BY PlaceIsOne, EmbeddingAssumption
  <2>2. Place(Lexical, x) < Place(Lexical, y)
    BY DEF Ahead
  <2> QED
    BY <2>1, <2>2
<1>2. CASE x \notin Range(dense)
  <2>1. y \notin Range(dense)
    BY <1>2 DEF Ahead
  <2>2. Score(dense, x) = [num |-> 1, den |-> l] /\ Score(dense, y) = [num |-> 1, den |-> m]
    BY <1>1, <1>2, <2>1 DEF Score
  <2>3. 1 * m > 1 * l
    BY <1>1
  <2> QED
    BY <2>2, <2>3 DEF Before
<1>3. CASE x \in Range(dense)
  <2>1. PICK d \in Nat : d = 60 + Place(dense, x) /\ d # 0
    <3>1. Place(dense, x) \in Nat
      BY <1>3, PlaceIsOne, EmbeddingAssumption
    <3> QED
      BY <3>1
  <2>2. Score(dense, x) = [num |-> l + d, den |-> l * d]
    BY <1>1, <1>3, <2>1 DEF Score
  <2>3. CASE y \notin Range(dense)
    <3>1. Score(dense, y) = [num |-> 1, den |-> m]
      BY <1>1, <2>3 DEF Score
    <3>2. (l + d) * m = l * m + d * m
      BY <1>1, <2>1
    <3>3. d * l < d * m
      BY <1>1, <2>1, LargerProduct
    <3>4. l * m \in Nat /\ d * m \in Nat /\ d * l = l * d /\ l * d \in Nat
      BY <1>1, <2>1
    <3>5. (l + d) * m > 1 * (l * d)
      BY <3>2, <3>3, <3>4
    <3> QED
      BY <2>2, <3>1, <3>5 DEF Before
  <2>4. CASE y \in Range(dense)
    <3>1. PICK e \in Nat : e = 60 + Place(dense, y) /\ d < e
      <4>1. Place(dense, x) \in Nat /\ Place(dense, y) \in Nat
        BY <1>3, <2>4, PlaceIsOne, EmbeddingAssumption
      <4>2. Place(dense, x) < Place(dense, y)
        BY <2>4 DEF Ahead
      <4> QED
        BY <2>1, <4>1, <4>2
    <3>2. Score(dense, y) = [num |-> m + e, den |-> m * e]
      BY <1>1, <2>4, <3>1 DEF Score
    <3>3. PICK p \in Nat \ {0}, q \in Nat \ {0} : p = l * m /\ q = d * e
      <4>1. l * m \in Nat /\ d * e \in Nat
        OBVIOUS
      <4>2. l * m # 0 /\ d * e # 0
        BY <1>1, <2>1, <3>1, SMTT(30)
      <4> QED
        BY <4>1, <4>2
    <3>4. (l + d) * (m * e) = p * e + q * m
      BY <3>3
    <3>5. (m + e) * (l * d) = p * d + q * l
      BY <3>3
    <3>6. p * d < p * e /\ q * l < q * m
      BY <1>1, <3>1, <3>3, LargerProduct
    <3>7. p * d \in Nat /\ p * e \in Nat /\ q * l \in Nat /\ q * m \in Nat
      OBVIOUS
    <3>8. (l + d) * (m * e) > (m + e) * (l * d)
      BY <3>4, <3>5, <3>6, <3>7
    <3> QED
      BY <2>2, <3>2, <3>8 DEF Before
  <2> QED
    BY <2>3, <2>4
<1> QED
  BY <1>2, <1>3

(* The sorted list is the lexical one in another order, and agrees with     *)
(* both rankings where they agree.                                          *)
LEMMA FusedAgrees ==
  ASSUME NEW dense \in Dense, NEW items \in Fused(dense)
  PROVE  /\ \E order \in Orders : items = [n \in DOMAIN Lexical |-> Lexical[order[n]]]
         /\ \A n, m \in DOMAIN items : Ahead(dense, items[n], items[m]) => n < m
<1>1. PICK order \in Orders :
        /\ items = [n \in DOMAIN Lexical |-> Lexical[order[n]]]
        /\ \A n, m \in DOMAIN Lexical : n < m => ~Before(dense, Lexical[order[m]], Lexical[order[n]])
  BY DEF Fused
<1>2. order \in [DOMAIN Lexical -> DOMAIN Lexical] /\ DOMAIN Lexical \in SUBSET Nat
  BY EmbeddingAssumption DEF Orders
<1>3. ASSUME NEW n \in DOMAIN items, NEW m \in DOMAIN items, Ahead(dense, items[n], items[m]) PROVE n < m
  <2>1. n \in DOMAIN Lexical /\ m \in DOMAIN Lexical /\ n \in Nat /\ m \in Nat
    BY <1>1, <1>2
  <2>2. items[n] \in Range(Lexical) /\ items[m] \in Range(Lexical)
    BY <1>1, <1>2, <2>1 DEF Range
  <2>3. Before(dense, items[n], items[m])
    BY <1>3, <2>2, AheadIsBefore
  <2>4. ~(m < n)
    BY <1>1, <2>1, <2>3
  <2>5. n # m
    <3>1. Place(Lexical, items[n]) < Place(Lexical, items[m])
      BY <1>3 DEF Ahead
    <3>2. Place(Lexical, items[n]) \in Nat /\ Place(Lexical, items[m]) \in Nat
      BY <2>2, PlaceIsOne, EmbeddingAssumption
    <3> QED
      BY <3>1, <3>2
  <2> QED
    BY <2>1, <2>4, <2>5
<1> QED
  BY <1>1, <1>3

(* An answer that came, or what has not come yet.                           *)
Sound(i, output) ==
  output # None => /\ output.value \in {"vector", "error"} /\ output.batch \in 1..Len(Batches)
                   /\ i \in Range(Batches[output.batch])

(* A batch that was taken is with a worker, or its answers are here.        *)
WithWorker(k) == \E w \in Workers : workers[w] = k
Got(k) == \A i \in Range(Batches[k]) : outputs[i] # None

EmbedTypes ==
  /\ workers \in [Workers -> 0..Len(Batches)] /\ cursor \in Nat \ {0} /\ calls \in Seq(1..Len(Batches))
  /\ course \in {"new", "pending", "resolved", "rejected", "ranked", "fallback"}

AskedOnce ==
  /\ \A w \in Workers : workers[w] < cursor
  /\ \A n \in DOMAIN calls : calls[n] < cursor
  /\ \A n, m \in DOMAIN calls : n # m => calls[n] # calls[m]

(* Whatever was begun was begun with a request that is right.               *)
RequestIsRight ==
  (\E w \in Workers : workers[w] # Idle) \/ calls # <<>> \/ course \in {"pending", "resolved", "ranked"}
     => ValidInput /\ Distinct

NothingLost ==
  /\ DOMAIN outputs = ItemSet /\ \A i \in ItemSet : Sound(i, outputs[i])
  /\ course = "pending" => \A k \in 1..Len(Batches) : k < cursor => WithWorker(k) \/ Got(k)
  /\ course \in {"resolved", "ranked"} => \A i \in ItemSet : outputs[i] # None

RankedRight ==
  /\ \E order \in Orders : ranking.items = [n \in DOMAIN Lexical |-> Lexical[order[n]]]
  /\ course = "ranked" =>
       \A n, m \in DOMAIN ranking.items : Ahead(ranking.dense, ranking.items[n], ranking.items[m]) => n < m

EmbedInv == EmbedTypes /\ AskedOnce /\ RequestIsRight /\ NothingLost /\ RankedRight

(* There are as many workers as batches, up to the limit.                   *)
LEMMA WorkersAre ==
  \E n \in Nat : /\ Workers = 1..n /\ n <= Len(Batches) /\ n <= MaxConcurrentBatches
                 /\ IsFiniteSet(Workers) /\ Cardinality(Workers) = n
                 /\ n = 0 => Len(Batches) = 0
<1>1. PICK n \in Nat : n = IF MaxConcurrentBatches < Len(Batches) THEN MaxConcurrentBatches ELSE Len(Batches)
  BY BatchesAre, EmbeddingAssumption
<1>2. Workers = 1..n
  BY <1>1 DEF Workers
<1>3. IsFiniteSet(1..n) /\ Cardinality(1..n) = n
  BY FS_Interval
<1>4. n <= Len(Batches) /\ n <= MaxConcurrentBatches /\ (n = 0 => Len(Batches) = 0)
  BY <1>1, BatchesAre, EmbeddingAssumption
<1> QED
  BY <1>2, <1>3, <1>4

(* The invariant says what a request that succeeds has.                     *)
LEMMA InvIsWhole ==
  EmbedInv => EmbedWhole
<1> SUFFICES ASSUME EmbedInv PROVE EmbedWhole
  OBVIOUS
<1> USE DEF EmbedInv
<1>1. course \in {"resolved", "ranked"} =>
        \A i \in ItemSet : /\ outputs[i] # None /\ outputs[i].value \in {"vector", "error"}
                           /\ i \in Range(Batches[outputs[i].batch])
  BY DEF NothingLost, Sound
<1>2. ASSUME NEW n \in DOMAIN calls
      PROVE  calls[n] \in 1..Len(Batches) /\ ValidInput /\ Distinct
  <2>1. calls # <<>> /\ calls \in [DOMAIN calls -> 1..Len(Batches)]
    BY DEF EmbedTypes
  <2> QED
    BY <2>1 DEF RequestIsRight
<1>3. \A n \in DOMAIN calls : Fits(Batches[calls[n]])
  BY <1>2, BatchesFit
<1>4. ASSUME NEW n \in DOMAIN calls, NEW m \in DOMAIN calls, n # m
      PROVE  Range(Batches[calls[n]]) \cap Range(Batches[calls[m]]) = {}
  <2>1. PICK j \in 1..Len(Batches), k \in 1..Len(Batches) : j = calls[n] /\ k = calls[m]
    BY <1>2
  <2>2. j < k \/ k < j
    BY <1>4, <2>1 DEF AskedOnce
  <2>3. Range(Batches[j]) \cap Range(Batches[k]) = {}
    BY <1>2, <2>2, BatchesApart
  <2> QED
    BY <2>1, <2>3
<1>5. Cardinality({w \in DOMAIN workers : workers[w] # Idle}) <= MaxConcurrentBatches
  <2>1. PICK n \in Nat : Workers = 1..n /\ n <= MaxConcurrentBatches /\ IsFiniteSet(Workers) /\ Cardinality(Workers) = n
    BY WorkersAre
  <2>2. {w \in DOMAIN workers : workers[w] # Idle} \subseteq Workers
    BY DEF EmbedTypes
  <2>3. Cardinality({w \in DOMAIN workers : workers[w] # Idle}) <= n
    BY <2>1, <2>2, FS_Subset
  <2>4. Cardinality({w \in DOMAIN workers : workers[w] # Idle}) \in Nat
    BY <2>1, <2>2, FS_Subset, FS_CardinalityType
  <2> QED
    BY <2>1, <2>3, <2>4, EmbeddingAssumption
<1> QED
  BY <1>1, <1>3, <1>4, <1>5 DEF EmbedWhole, RankedRight

(* Nothing was asked yet, and the list is as it was.                        *)
LEMMA EmbedBegins ==
  EmbedInit => EmbedInv
<1> SUFFICES ASSUME EmbedInit PROVE EmbedInv
  OBVIOUS
<1>0. Len(Batches) \in Nat
  BY BatchesAre
<1>1. EmbedTypes /\ AskedOnce /\ RequestIsRight
  BY <1>0 DEF EmbedInit, EmbedTypes, AskedOnce, RequestIsRight, Idle
<1>2. NothingLost
  BY DEF EmbedInit, NothingLost, Sound
<1>3. RankedRight
  <2>1. PICK order : order = [n \in DOMAIN Lexical |-> n]
    OBVIOUS
  <2>2. order \in Orders
    BY <2>1 DEF Orders, IsInjective
  <2>3. Lexical = [n \in DOMAIN Lexical |-> Lexical[order[n]]]
    <3>1. Lexical \in Seq(Range(Lexical))
      BY EmbeddingAssumption
    <3> QED
      BY <2>1, <3>1
  <2>4. ranking.items = Lexical /\ course = "new"
    BY DEF EmbedInit
  <2> QED
    BY <2>2, <2>3, <2>4 DEF RankedRight
<1> QED
  BY <1>1, <1>2, <1>3 DEF EmbedInv

(* A request that is right gives each worker a batch; without a batch there *)
(* is nothing to ask for.                                                   *)
LEMMA EmbedKeeps ==
  ASSUME EmbedInv, Embed
  PROVE  EmbedInv'
<1> USE DEF EmbedInv
<1>0. PICK n \in Nat : /\ Workers = 1..n /\ n <= Len(Batches) /\ Cardinality(Workers) = n /\ Len(Batches) \in Nat
                       /\ (n = 0 => Len(Batches) = 0)
  BY WorkersAre, BatchesAre
<1>00. \A v \in Int : v \in Workers <=> 1 <= v /\ v <= n
  BY <1>0
<1>1. course = "new" /\ UNCHANGED <<embedClosed, aborted, identity, outputs, ranking>>
  BY DEF Embed
<1>2. CASE course' = "rejected" /\ UNCHANGED <<cursor, workers, calls>>
  BY <1>1, <1>2 DEF EmbedTypes, AskedOnce, RequestIsRight, NothingLost, RankedRight
<1>3. CASE /\ ValidInput /\ Distinct
           /\ workers' = [w \in Workers |-> w] /\ cursor' = Cardinality(Workers) + 1
           /\ calls' = [w \in Workers |-> w]
           /\ course' = IF Workers = {} THEN "resolved" ELSE "pending"
  <2>0. /\ workers' = [w \in 1..n |-> w] /\ cursor' = n + 1 /\ calls' = [w \in 1..n |-> w]
        /\ course' \in {"resolved", "pending"}
    <3>1. [w \in Workers |-> w] = [w \in 1..n |-> w]
      <4>1. Workers = 1..n
        BY <1>0
      <4> QED
        BY ONLY <4>1, Zenon
    <3> QED
      BY <1>0, <1>3, <3>1
  <2>1a. EmbedTypes'
    <3>1. workers' \in [Workers -> 0..Len(Batches)] /\ cursor' \in Nat \ {0}
      BY <1>0, <2>0
    <3>2. calls' \in [1..n -> 1..Len(Batches)]
      BY <1>0, <2>0
    <3>3. calls' \in Seq(1..Len(Batches))
      BY <3>2
    <3> QED
      BY <2>0, <3>1, <3>3 DEF EmbedTypes
  <2>1b. AskedOnce'
    BY <1>0, <2>0 DEF AskedOnce
  <2>1. EmbedTypes' /\ AskedOnce'
    BY <2>1a, <2>1b
  <2>2. RequestIsRight'
    BY <1>3 DEF RequestIsRight, ValidInput, Distinct
  <2>3. \A k \in 1..Len(Batches) : k < cursor' => WithWorker(k)'
    <3> SUFFICES ASSUME NEW k \in 1..Len(Batches), k < cursor' PROVE \E w \in Workers : workers'[w] = k
      BY DEF WithWorker
    <3>1. k \in 1..n /\ k \in Workers
      BY <1>0, <1>00, <2>0
    <3> QED
      BY <2>0, <3>1
  <2>4. course' = "resolved" => ItemSet = {}
    <3>1. Workers = {} => Len(Batches) = 0
      <4>1. n # 0 => 1 \in Workers
        BY <1>00
      <4> QED
        BY <1>0, <4>1
    <3>2. Len(Batches) = 0 => ItemSet = {}
      BY <1>3, BatchesCover
    <3> QED
      BY <1>3, <3>1, <3>2
  <2>5. NothingLost'
    BY <1>1, <1>3, <2>3, <2>4 DEF NothingLost, Sound, WithWorker, Got
  <2>6. RankedRight'
    BY <1>1, <1>3 DEF RankedRight
  <2> QED
    BY <2>1, <2>2, <2>5, <2>6
<1> QED
  BY <1>2, <1>3 DEF Embed

(* A worker that fails settles the request, so nobody waits for what it     *)
(* held.                                                                    *)
LEMMA FailKeeps ==
  ASSUME EmbedInv, NEW w \in Workers, workers[w] # Idle, Fail(w), UNCHANGED <<outputs, ranking>>
  PROVE  EmbedInv'
<1> USE DEF EmbedInv
<1>1. /\ workers' = [workers EXCEPT ![w] = 0] /\ UNCHANGED <<cursor, calls, outputs, ranking>>
      /\ course' = IF course = "pending" THEN "rejected" ELSE course
  BY DEF Fail, Idle
<1>2. EmbedTypes'
  BY <1>1, BatchesAre DEF EmbedTypes
<1>3. AskedOnce'
  BY <1>1 DEF AskedOnce, EmbedTypes
<1>4. ValidInput /\ Distinct
  BY DEF RequestIsRight
<1>5. RequestIsRight'
  BY <1>4 DEF RequestIsRight, ValidInput, Distinct
<1>6. NothingLost'
  BY <1>1 DEF NothingLost, Sound, WithWorker, Got
<1>7. RankedRight'
  BY <1>1 DEF RankedRight, EmbedTypes
<1> QED
  BY <1>2, <1>3, <1>5, <1>6, <1>7

(* An answer that is accepted is the whole of its batch, so what the worker *)
(* held is here when it goes on; the last worker to end finds that nothing  *)
(* is held.                                                                 *)
LEMMA HeedKeeps ==
  ASSUME EmbedInv, NEW w \in Workers, workers[w] # Idle, NEW reply \in Answers(Batches[workers[w]]), Heed(w, reply)
  PROVE  EmbedInv'
<1> USE DEF EmbedInv
<1>1. CASE ~Accepts(w, reply)
  BY <1>1, FailKeeps DEF Heed
<1>2. CASE Accepts(w, reply)
  <2>0. PICK b \in 1..Len(Batches) : b = workers[w] /\ b < cursor
    BY DEF EmbedTypes, AskedOnce, Idle
  <2>1. outputs' = Filled(w, reply) /\ Proceed(w) /\ UNCHANGED <<aborted, ranking>>
    BY <1>2 DEF Heed
  <2>2. ValidInput /\ Distinct
    BY DEF RequestIsRight
  <2>3. RequestIsRight'
    BY <2>2 DEF RequestIsRight, ValidInput, Distinct
  <2>4. Len(Batches) \in Nat
    BY BatchesAre
  (* What the worker did with the answer. *)
  <2>5. \A o \in reply.items : o.value \in {"vector", "error", "invalid"}
    BY DEF Answers
  <2>6. ASSUME NEW i \in ItemSet, \E o \in reply.items : o.id = i
        PROVE  Sound(i, outputs'[i]) /\ outputs'[i] # None
    <3>1. PICK o \in reply.items : o = CHOOSE out \in reply.items : out.id = i
      BY <2>6
    <3>2. o.id = i
      BY <2>6, <3>1
    <3>3. o.value \in {"vector", "error"} /\ i \in Range(Batches[b])
      BY <1>2, <2>0, <2>5, <3>2 DEF Accepts, Expected
    <3>4. outputs'[i] = [value |-> o.value, batch |-> b]
      BY <2>0, <2>1, <2>6, <3>1 DEF Filled
    <3>5. outputs'[i].value = o.value /\ outputs'[i].batch = b
      BY <3>4
    <3>6. Sound(i, outputs'[i])
      BY <3>3, <3>5 DEF Sound
    <3>7. "value" \in DOMAIN outputs'[i] /\ "value" \notin DOMAIN None
      BY <3>4 DEF None
    <3> QED
      BY <3>6, <3>7
  <2>7. ASSUME NEW i \in ItemSet, ~\E o \in reply.items : o.id = i
        PROVE  outputs'[i] = outputs[i]
    BY <2>1, <2>7 DEF Filled
  <2>8. DOMAIN outputs' = ItemSet
    BY <2>1 DEF Filled
  <2>9. \A i \in ItemSet : Sound(i, outputs'[i]) /\ (outputs[i] # None => outputs'[i] # None)
    BY <2>6, <2>7 DEF NothingLost, Sound
  <2>10. \A k \in 1..Len(Batches) : Range(Batches[k]) \subseteq ItemSet
    BY BatchesAre DEF Range
  <2>11. Got(b)'
    BY <1>2, <2>0, <2>6, <2>10 DEF Got, Accepts, Expected
  <2>12. \A k \in 1..Len(Batches) : Got(k) => Got(k)'
    BY <2>9, <2>10 DEF Got
  (* And where it goes from there. *)
  <2>13. CASE cursor > Len(Batches)
    <3>1. /\ workers' = [workers EXCEPT ![w] = 0] /\ UNCHANGED <<cursor, calls, ranking>>
          /\ course' = IF course = "pending" /\ \A v \in Workers \ {w} : workers[v] = 0 THEN "resolved" ELSE course
      BY <2>1, <2>4, <2>13 DEF Proceed, Idle, EmbedTypes
    <3>2. EmbedTypes' /\ AskedOnce'
      BY <2>4, <3>1 DEF EmbedTypes, AskedOnce
    <3>3. ASSUME course = "pending", NEW k \in 1..Len(Batches), k < cursor PROVE WithWorker(k)' \/ Got(k)'
      <4>1. CASE k = b
        BY <2>11, <4>1
      <4>2. CASE k # b /\ Got(k)
        BY <2>12, <4>2
      <4>3. CASE k # b /\ WithWorker(k)
        <5>1. PICK v \in Workers : workers[v] = k
          BY <4>3 DEF WithWorker
        <5>2. v # w /\ workers'[v] = k
          BY <2>0, <3>1, <4>3, <5>1 DEF EmbedTypes
        <5> QED
          BY <5>2 DEF WithWorker
      <4> QED
        BY <3>3, <4>1, <4>2, <4>3 DEF NothingLost
    <3>4. course' = "pending" => \A k \in 1..Len(Batches) : k < cursor' => (WithWorker(k) \/ Got(k))'
      BY <3>1, <3>3
    <3>5. ASSUME course = "pending", course' = "resolved" PROVE \A i \in ItemSet : outputs'[i] # None
      <4>1. \A v \in Workers : workers'[v] = 0
        BY <3>1, <3>5 DEF EmbedTypes
      <4>2. ASSUME NEW k \in 1..Len(Batches) PROVE Got(k)'
        <5>1. k < cursor
          BY <2>4, <2>13 DEF EmbedTypes
        <5>2. ~WithWorker(k)'
          BY <4>1 DEF WithWorker
        <5> QED
          BY <3>3, <3>5, <5>1, <5>2
      <4>3. ASSUME NEW i \in ItemSet PROVE outputs'[i] # None
        <5>1. PICK k \in 1..Len(Batches) : i \in Range(Batches[k])
          BY <2>2, BatchesCover
        <5> QED
          BY <4>2, <5>1 DEF Got
      <4> QED
        BY <4>3
    <3>6. course' \in {"resolved", "ranked"} => \A i \in ItemSet : outputs'[i] # None
      BY <2>9, <3>1, <3>5 DEF NothingLost
    <3>7. NothingLost'
      BY <2>8, <2>9, <3>4, <3>6 DEF NothingLost, Sound
    <3>8. RankedRight'
      BY <3>1 DEF RankedRight
    <3> QED
      BY <2>3, <3>2, <3>7, <3>8
  <2>14. CASE ~(cursor > Len(Batches)) /\ aborted
    <3>1. /\ workers' = [workers EXCEPT ![w] = 0] /\ cursor' = cursor + 1 /\ UNCHANGED <<calls, ranking>>
          /\ course' = IF course = "pending" THEN "rejected" ELSE course
      BY <2>1, <2>4, <2>14 DEF Proceed, Idle, EmbedTypes
    <3>2. EmbedTypes'
      BY <2>4, <3>1 DEF EmbedTypes
    <3>3. AskedOnce'
      <4>1. \A v \in Workers : workers[v] \in Nat /\ workers[v] < cursor /\ cursor \in Nat
        BY <2>4 DEF EmbedTypes, AskedOnce
      <4>2. \A v \in Workers : workers'[v] < cursor'
        BY <3>1, <4>1 DEF EmbedTypes
      <4>3. \A n \in DOMAIN calls : calls[n] \in Nat /\ calls[n] < cursor
        BY <2>4 DEF EmbedTypes, AskedOnce
      <4>4. \A n \in DOMAIN calls : calls[n] < cursor'
        BY <3>1, <4>3 DEF EmbedTypes
      <4> QED
        BY <3>1, <4>2, <4>4 DEF AskedOnce
    <3>4. course' # "pending" /\ (course' \in {"resolved", "ranked"} => course' = course)
      BY <3>1
    <3>5. NothingLost'
      BY <2>8, <2>9, <3>4 DEF NothingLost
    <3>6. RankedRight'
      BY <3>1 DEF RankedRight
    <3> QED
      BY <2>3, <3>2, <3>3, <3>5, <3>6
  <2>15. CASE ~(cursor > Len(Batches)) /\ ~aborted
    <3>1. /\ workers' = [workers EXCEPT ![w] = cursor] /\ cursor' = cursor + 1 /\ calls' = Append(calls, cursor)
          /\ UNCHANGED <<course, ranking>>
      BY <2>1, <2>4, <2>15 DEF Proceed, EmbedTypes
    <3>2. cursor \in 1..Len(Batches) /\ cursor \in Nat
      BY <2>4, <2>15 DEF EmbedTypes
    <3>3. EmbedTypes'
      BY <2>4, <3>1, <3>2 DEF EmbedTypes
    <3>4. \A v \in Workers : workers'[v] < cursor'
      <4>1. \A v \in Workers : workers[v] \in Nat /\ workers[v] < cursor
        BY <2>4 DEF EmbedTypes, AskedOnce
      <4> QED
        BY <3>1, <3>2, <4>1 DEF EmbedTypes
    <3>5. PICK l \in Nat : l = Len(calls) /\ DOMAIN calls = 1..l
      BY DEF EmbedTypes
    <3>6. DOMAIN calls' = 1..l + 1 /\ calls'[l + 1] = cursor /\ \A n \in 1..l : calls'[n] = calls[n]
      BY <3>1, <3>2, <3>5, AppendProperties DEF EmbedTypes
    <3>7. \A n \in 1..l : calls[n] \in Nat /\ calls[n] < cursor
      BY <2>4, <3>5 DEF EmbedTypes, AskedOnce
    <3>8. \A n \in DOMAIN calls' : calls'[n] < cursor' /\ (n # l + 1 => n \in 1..l /\ calls'[n] < cursor)
      BY <3>1, <3>2, <3>5, <3>6, <3>7
    <3>9. \A n, m \in DOMAIN calls' : n # m => calls'[n] # calls'[m]
      BY <3>2, <3>5, <3>6, <3>7, <3>8 DEF AskedOnce
    <3>10. AskedOnce'
      BY <3>4, <3>8, <3>9 DEF AskedOnce
    <3>11. ASSUME course = "pending", NEW k \in 1..Len(Batches), k < cursor' PROVE WithWorker(k)' \/ Got(k)'
      <4>1. CASE k = b
        BY <2>11, <4>1
      <4>2. CASE k = cursor
        BY <3>1, <4>2 DEF WithWorker, EmbedTypes
      <4>3. CASE k # b /\ k # cursor
        <5>0. k < cursor
          BY <3>1, <3>2, <3>11, <4>3
        <5>1. CASE Got(k)
          BY <2>12, <5>1
        <5>2. CASE WithWorker(k)
          <6>1. PICK v \in Workers : workers[v] = k
            BY <5>2 DEF WithWorker
          <6>2. v # w /\ workers'[v] = k
            BY <2>0, <3>1, <4>3, <6>1 DEF EmbedTypes
          <6> QED
            BY <6>2 DEF WithWorker
        <5> QED
          BY <3>11, <5>0, <5>1, <5>2 DEF NothingLost
      <4> QED
        BY <4>1, <4>2, <4>3
    <3>12. course' = "pending" => \A k \in 1..Len(Batches) : k < cursor' => (WithWorker(k) \/ Got(k))'
      BY <3>1, <3>11
    <3>13. course' \in {"resolved", "ranked"} => \A i \in ItemSet : outputs'[i] # None
      BY <2>9, <3>1 DEF NothingLost
    <3>14. NothingLost'
      BY <2>8, <2>9, <3>12, <3>13 DEF NothingLost, Sound
    <3>15. RankedRight'
      BY <3>1 DEF RankedRight
    <3> QED
      BY <2>3, <3>3, <3>10, <3>14, <3>15
  <2> QED
    BY <2>13, <2>14, <2>15
<1> QED
  BY <1>1, <1>2

(* The ranking is made from answers that are here.                          *)
LEMMA RerankKeeps ==
  ASSUME EmbedInv, NEW dense \in Dense, Rerank(dense)
  PROVE  EmbedInv'
<1> USE DEF EmbedInv
<1>1. PICK items \in Fused(dense) : ranking' = [items |-> items, dense |-> dense]
  BY DEF Rerank
<1>2. course = "resolved" /\ course' = "ranked" /\ UNCHANGED <<cursor, workers, outputs, calls>>
  BY DEF Rerank
<1>3. EmbedTypes' /\ AskedOnce' /\ RequestIsRight'
  BY <1>2 DEF EmbedTypes, AskedOnce, RequestIsRight, ValidInput, Distinct
<1>4. NothingLost'
  BY <1>2 DEF NothingLost, Sound
<1>5. RankedRight'
  <2>1. ranking'.items = items /\ ranking'.dense = dense
    BY <1>1
  <2> QED
    BY <2>1, FusedAgrees DEF RankedRight
<1> QED
  BY <1>3, <1>4, <1>5

(* Closing, aborting, another identity and a fallback leave the answers     *)
(* alone.                                                                   *)
LEMMA EmbedStays ==
  ASSUME EmbedInv, UNCHANGED <<cursor, workers, outputs, calls, ranking>>, course' = course \/ course' = "fallback"
  PROVE  EmbedInv'
  BY DEF EmbedInv, EmbedTypes, AskedOnce, RequestIsRight, ValidInput, Distinct, NothingLost, Sound, WithWorker, Got, RankedRight

(* Whatever a provider answers, and whoever closes, aborts or fails in       *)
(* between, a request that succeeds has for each of its items an answer to  *)
(* the batch the item was sent in; no batch goes beyond the limits, no item  *)
(* is sent twice; and the list that is ranking by the answers is the list     *)
(* there was, in an order both rankings agree to.                            *)
THEOREM EmbeddingIsWhole ==
  EmbedSpec => []EmbedWhole
<1>1. EmbedInv /\ [EmbedNext]_embedVars => EmbedInv'
  <2> SUFFICES ASSUME EmbedInv, [EmbedNext]_embedVars PROVE EmbedInv'
    OBVIOUS
  <2>1. CASE Embed
    BY <2>1, EmbedKeeps
  <2>2. CASE Abort \/ CloseProvider \/ Mutate \/ FallBack
    BY <2>2, EmbedStays DEF Abort, CloseProvider, Mutate, FallBack
  <2>3. ASSUME NEW w \in Workers, workers[w] # Idle, Refuse(w) PROVE EmbedInv'
    BY <2>3, FailKeeps DEF Refuse
  <2>4. ASSUME NEW w \in Workers, workers[w] # Idle, NEW reply \in Answers(Batches[workers[w]]), Heed(w, reply)
        PROVE  EmbedInv'
    BY <2>4, HeedKeeps
  <2>5. ASSUME NEW dense \in Dense, Rerank(dense) PROVE EmbedInv'
    BY <2>5, RerankKeeps
  <2>6. CASE UNCHANGED embedVars
    BY <2>6, EmbedStays DEF embedVars
  <2> QED
    BY <2>1, <2>2, <2>3, <2>4, <2>5, <2>6 DEF EmbedNext
<1> QED
  BY <1>1, EmbedBegins, InvIsWhole, PTL DEF EmbedSpec

-----------------------------------------------------------------------------
(* Finitely many numbers have a bound.                                      *)
LEMMA FinitelyBounded ==
  ASSUME NEW S \in SUBSET Nat, IsFiniteSet(S)
  PROVE  \E b \in Nat : \A y \in S : y <= b
<1>1. PICK f : f \in Bijection(1..Cardinality(S), S)
  BY FS_CardinalityType DEF ExistsBijection
<1>2. Cardinality(S) \in Nat
  BY FS_CardinalityType
<1> DEFINE N == Cardinality(S)
           good == {n \in 0..N : \E b \in Nat : \A i \in 1..n : f[i] <= b}
<1>3. f \in [1..N -> S] /\ \A y \in S : \E i \in 1..N : f[i] = y
  BY <1>1 DEF Bijection, Injection, Surjection
<1> HIDE DEF N
<1>4. N \in Nat
  BY <1>2 DEF N
<1>5. 0 \in good
  BY <1>4
<1>6. ASSUME NEW n \in 1..N, n - 1 \in good PROVE n \in good
  <2>1. PICK b \in Nat : \A i \in 1..n - 1 : f[i] <= b
    BY <1>6
  <2>2. f[n] \in Nat
    BY <1>3
  <2>3. b + f[n] \in Nat /\ \A i \in 1..n : f[i] <= b + f[n]
    <3>1. \A i \in 1..n : i \in 1..N /\ (i \in 1..n - 1 \/ i = n)
      BY <1>4
    <3>2. \A i \in 1..n : f[i] \in Nat
      BY <1>3, <3>1
    <3> QED
      BY <2>1, <2>2, <3>1, <3>2
  <2> QED
    BY <2>3
<1>7. good = 0..N
  <2>1. good \in SUBSET (0..N)
    OBVIOUS
  <2> HIDE DEF good
  <2> QED
    BY <1>4, <1>5, <1>6, <2>1, AllNumbers
<1>8. N \in good
  <2> HIDE DEF good
  <2> QED
    BY <1>4, <1>7
<1>9. PICK b \in Nat : \A i \in 1..N : f[i] <= b
  BY <1>8
<1> QED
  BY <1>3, <1>9

-----------------------------------------------------------------------------
(* What the walks through the graph find.                                   *)

(* The rank of a number: how many of a set are smaller.                     *)
Below(S, x) == {y \in S : y < x}
Rank(S, x) == Cardinality(Below(S, x))

LEMMA RanksAre ==
  ASSUME NEW S \in SUBSET Nat, IsFiniteSet(S), NEW x
  PROVE  /\ Below(S, x) \in SUBSET S /\ IsFiniteSet(Below(S, x)) /\ Rank(S, x) \in Nat
         /\ Rank(S, x) <= Cardinality(S)
<1>1. Below(S, x) \in SUBSET S
  BY DEF Below
<1> QED
  BY <1>1, FS_Subset, FS_CardinalityType DEF Rank

(* A larger number has a larger rank.                                       *)
LEMMA RanksGrow ==
  ASSUME NEW S \in SUBSET Nat, IsFiniteSet(S), NEW x \in S, NEW y \in S, x < y
  PROVE  Rank(S, x) < Rank(S, y)
<1>1. Below(S, x) \in SUBSET Below(S, y) /\ x \in Below(S, y) /\ x \notin Below(S, x)
  <2>1. x \in Nat /\ y \in Nat /\ ~(x < x) /\ \A z \in S : z \in Nat
    OBVIOUS
  <2>2. \A z \in S : z < x => z < y
    BY <2>1
  <2> QED
    BY <2>1, <2>2 DEF Below
<1>2. /\ IsFiniteSet(Below(S, y)) /\ IsFiniteSet(Below(S, x))
      /\ Rank(S, x) \in Nat /\ Rank(S, y) \in Nat
  BY RanksAre
<1>3. Cardinality(Below(S, x)) <= Cardinality(Below(S, y)) /\ Cardinality(Below(S, y)) # Cardinality(Below(S, x))
  BY <1>1, <1>2, FS_Subset
<1> QED
  BY <1>2, <1>3 DEF Rank

(* So no two have the same.                                                 *)
LEMMA RanksDiffer ==
  ASSUME NEW S \in SUBSET Nat, IsFiniteSet(S), NEW x \in S, NEW y \in S, Rank(S, x) = Rank(S, y)
  PROVE  x = y
<1>1. Rank(S, x) \in Nat /\ Rank(S, y) \in Nat
  BY RanksAre
<1>2. ~(x < y) /\ ~(y < x)
  BY <1>1, RanksGrow
<1> QED
  BY <1>2

(* Each member's rank is smaller than their number, and each smaller number *)
(* is the rank of one.                                                      *)
LEMMA RankIsSmaller ==
  ASSUME NEW S \in SUBSET Nat, IsFiniteSet(S), NEW x \in S
  PROVE  Rank(S, x) \in 0..Cardinality(S) - 1
<1>1. Below(S, x) \in SUBSET S /\ x \notin Below(S, x)
  BY DEF Below
<1>2. Rank(S, x) \in Nat /\ Rank(S, x) <= Cardinality(S) /\ Cardinality(S) \in Nat
  BY RanksAre, FS_CardinalityType
<1>3. Cardinality(S) # Cardinality(Below(S, x))
  BY <1>1, FS_Subset
<1> QED
  BY <1>2, <1>3 DEF Rank

LEMMA RankIsTaken ==
  ASSUME NEW S \in SUBSET Nat, IsFiniteSet(S), NEW n \in 0..Cardinality(S) - 1
  PROVE  \E x \in S : Rank(S, x) = n
<1> DEFINE enough == {k \in Nat : Rank(S, k) > n}
<1>1. Cardinality(S) \in Nat /\ n \in Nat /\ n < Cardinality(S)
  BY FS_CardinalityType
<1>2. S # {}
  BY <1>1, FS_EmptySet
<1>3. \A k \in Nat : Rank(S, k) \in Nat
  BY RanksAre
<1>4. \E k \in Nat : \A y \in S : y < k
  <2>1. \E b \in Nat : \A y \in S : y <= b
    BY FinitelyBounded
  <2>2. PICK b \in Nat : \A y \in S : y <= b
    BY <2>1
  <2>3. b + 1 \in Nat /\ \A y \in S : y < b + 1
    BY <2>2
  <2> QED
    BY <2>3
<1>5. PICK top \in Nat : \A y \in S : y < top
  BY <1>4
<1>6. top \in enough
  <2>1. Below(S, top) = S
    BY <1>5 DEF Below
  <2> QED
    BY <1>1, <2>1 DEF Rank
<1>7. PICK k \in enough : \A m \in enough : k <= m
  <2>1. enough \in SUBSET Nat /\ enough # {}
    BY <1>6
  <2> HIDE DEF enough
  <2> QED
    BY <2>1, LeastNat
<1>8. k # 0
  <2>1. Below(S, 0) = {}
    <3>1. \A y \in S : y \in Nat /\ ~(y < 0)
      OBVIOUS
    <3> QED
      BY <3>1 DEF Below
  <2>2. Rank(S, 0) = 0
    BY <2>1, FS_EmptySet DEF Rank
  <2> QED
    BY <1>1, <1>7, <2>2
<1>9. k - 1 \in Nat /\ k \in Nat /\ Rank(S, k) > n /\ Rank(S, k - 1) <= n
  <2>1. k - 1 \in Nat /\ k \in Nat
    BY <1>7, <1>8
  <2>2. k - 1 \notin enough
    BY <1>7, <2>1
  <2> QED
    BY <1>1, <1>3, <1>7, <2>1, <2>2
<1>10. Below(S, k) = IF k - 1 \in S THEN Below(S, k - 1) \cup {k - 1} ELSE Below(S, k - 1)
  <2>1. \A y \in S : y < k <=> y < k - 1 \/ y = k - 1
    BY <1>9
  <2> QED
    BY <2>1 DEF Below
<1>11. IsFiniteSet(Below(S, k - 1)) /\ k - 1 \notin Below(S, k - 1) /\ Rank(S, k) \in Nat /\ Rank(S, k - 1) \in Nat
  BY <1>3, <1>9, RanksAre DEF Below
<1>12. k - 1 \in S
  <2>1. k - 1 \notin S => Rank(S, k) = Rank(S, k - 1)
    BY <1>10 DEF Rank
  <2> QED
    BY <1>1, <1>9, <1>11, <2>1
<1>13. Rank(S, k) = Rank(S, k - 1) + 1
  BY <1>10, <1>11, <1>12, FS_AddElement DEF Rank
<1>14. Rank(S, k - 1) = n
  BY <1>1, <1>9, <1>11, <1>13
<1> QED
  BY <1>12, <1>14

(* The beginning of a set has as many of it as there may be, or all.        *)
LEMMA FirstAre ==
  ASSUME NEW S \in SUBSET Nat, IsFiniteSet(S), NEW n \in Nat
  PROVE  /\ First(S, n) \in SUBSET S /\ IsFiniteSet(First(S, n)) /\ Cardinality(First(S, n)) \in Nat
         /\ Cardinality(First(S, n)) <= n
         /\ First(S, n) # S => Cardinality(First(S, n)) = n
<1> DEFINE T == First(S, n)
           f == [x \in T |-> Rank(S, x)]
<1>1. T = {x \in S : Rank(S, x) < n} /\ T \in SUBSET S
  BY DEF First, Rank, Below
<1>2. IsFiniteSet(T) /\ Cardinality(T) \in Nat
  BY <1>1, FS_Subset, FS_CardinalityType
<1> HIDE DEF T
<1>3. IsFiniteSet(0..n - 1) /\ Cardinality(0..n - 1) = n
  BY FS_Interval
<1>4. f \in Injection(T, 0..n - 1)
  <2>1. \A x \in T : x \in S /\ Rank(S, x) \in 0..n - 1
    <3>1. \A x \in T : Rank(S, x) \in Nat
      BY RanksAre
    <3> QED
      BY <1>1, <3>1
  <2>2. \A x, y \in T : Rank(S, x) = Rank(S, y) => x = y
    BY <1>1, RanksDiffer
  <2> QED
    BY <2>1, <2>2 DEF Injection, IsInjective
<1>5. Cardinality(T) <= n /\ (Cardinality(T) = n <=> f \in Surjection(T, 0..n - 1))
  <2> HIDE DEF f
  <2> QED
    BY <1>3, <1>4, FS_Injection
<1>6. ASSUME T # S PROVE f \in Surjection(T, 0..n - 1)
  <2>1. PICK x \in S : Rank(S, x) >= n
    <3>1. PICK x \in S : x \notin T
      BY <1>1, <1>6
    <3>2. Rank(S, x) \in Nat /\ ~(Rank(S, x) < n)
      BY <1>1, <3>1, RanksAre
    <3> QED
      BY <3>2
  <2>2. Rank(S, x) \in 0..Cardinality(S) - 1 /\ Cardinality(S) \in Nat
    BY RankIsSmaller, FS_CardinalityType
  <2>3. ASSUME NEW i \in 0..n - 1 PROVE \E y \in T : f[y] = i
    <3>1. i \in 0..Cardinality(S) - 1
      BY <2>1, <2>2
    <3>2. PICK y \in S : Rank(S, y) = i
      BY <3>1, RankIsTaken
    <3> QED
      BY <1>1, <3>2
  <2> QED
    BY <1>4, <2>3 DEF Injection, IsInjective, Surjection
<1> QED
  BY <1>1, <1>2, <1>5, <1>6 DEF T

(* What is sorted has each member of the set at one place.                  *)
LEMMA SortedIsAll ==
  ASSUME NEW S \in SUBSET Nat, IsFiniteSet(S)
  PROVE  /\ Sorted(S) \in [1..Cardinality(S) -> S]
         /\ \A x \in S : \E i \in 1..Cardinality(S) : Sorted(S)[i] = x
         /\ \A i, j \in 1..Cardinality(S) : Sorted(S)[i] = Sorted(S)[j] => i = j
<1> DEFINE N == Cardinality(S)
<1>1. N \in Nat
  BY FS_CardinalityType
<1>2. Sorted(S) = [i \in 1..N |-> CHOOSE x \in S : Rank(S, x) = i - 1]
  BY DEF Sorted, Rank, Below
<1> HIDE DEF N
<1>3. ASSUME NEW i \in 1..N PROVE Sorted(S)[i] \in S /\ Rank(S, Sorted(S)[i]) = i - 1
  <2>1. i - 1 \in 0..Cardinality(S) - 1
    BY <1>1 DEF N
  <2>2. \E x \in S : Rank(S, x) = i - 1
    BY <2>1, RankIsTaken
  <2>3. Sorted(S)[i] = CHOOSE x \in S : Rank(S, x) = i - 1
    BY <1>2
  <2> QED
    BY <2>2, <2>3
<1>4. ASSUME NEW x \in S PROVE \E i \in 1..N : Sorted(S)[i] = x
  <2>1. Rank(S, x) \in 0..N - 1
    BY RankIsSmaller DEF N
  <2>2. PICK i \in 1..N : i - 1 = Rank(S, x)
    BY <1>1, <2>1
  <2>3. Rank(S, Sorted(S)[i]) = Rank(S, x) /\ Sorted(S)[i] \in S
    BY <1>3, <2>2
  <2>4. \A y \in S : Rank(S, y) = Rank(S, x) => y = x
    BY RanksDiffer
  <2> QED
    BY <2>3, <2>4
<1>5. ASSUME NEW i \in 1..N, NEW j \in 1..N, Sorted(S)[i] = Sorted(S)[j] PROVE i = j
  <2>1. i - 1 = j - 1
    BY <1>3, <1>5
  <2> QED
    BY <1>1, <2>1
<1>6. Sorted(S) \in [1..N -> S]
  BY <1>2, <1>3
<1> QED
  BY <1>4, <1>5, <1>6 DEF N

(* A graph of finitely many files, which leads to no others.                *)
IsGraph(graph) ==
  /\ DOMAIN graph \in SUBSET Nat /\ IsFiniteSet(DOMAIN graph)
  /\ \A n \in DOMAIN graph : graph[n] \in SUBSET DOMAIN graph

(* A route from a file along the graph.                                     *)
IsRoute(p, start, graph) ==
  /\ p \in Seq(Nat) /\ Len(p) >= 1 /\ p[1] = start
  /\ \A i \in 1..Len(p) - 1 : p[i + 1] \in After(graph, p[i])

(* What a search has noted: routes that are no longer than asked for, the   *)
(* shorter ones first, one for each file it has seen.                       *)
Routed(paths, seen, start, graph, depth) ==
  /\ paths \in Seq(Seq(Nat)) /\ Len(paths) >= 1 /\ paths[1] = <<start>>
  /\ \A k \in 1..Len(paths) : IsRoute(paths[k], start, graph) /\ Len(paths[k]) <= depth + 1
  /\ \A j, k \in 1..Len(paths) : j <= k => Len(paths[j]) <= Len(paths[k])
  /\ \A j, k \in 1..Len(paths) : Last(paths[j]) = Last(paths[k]) => j = k
  /\ seen = {Last(paths[k]) : k \in 1..Len(paths)}

(* Once a route has been taken from the queue, each file that its last one  *)
(* leads to has one that is longer by one at most.                          *)
EachFollowed(paths, q, graph, depth) ==
  \A i \in 1..q : Len(paths[i]) <= depth =>
    \A f \in After(graph, Last(paths[i])) :
      \E j \in 1..Len(paths) : Last(paths[j]) = f /\ Len(paths[j]) <= Len(paths[i]) + 1

(* One sequence is another's end, after q of it.                            *)
Trails(Q, P, q) == Len(Q) = Len(P) - q /\ \A i \in 1..Len(Q) : Q[i] = P[q + i]

States == [seen : SUBSET Nat, paths : Seq(Seq(Nat)), queue : Seq(Seq(Nat))]

(* A search that has taken q routes from its queue.                         *)
Going(s, q, start, graph, depth, maximum) ==
  /\ s \in States /\ q \in 0..Len(s.paths)
  /\ Routed(s.paths, s.seen, start, graph, depth)
  /\ Trails(s.queue, s.paths, q)
  /\ q < Len(s.paths) => \A k \in 1..Len(s.paths) : Len(s.paths[k]) <= Len(s.paths[q + 1]) + 1
  /\ IsFiniteSet(s.seen) /\ Cardinality(s.seen) <= maximum
  /\ Cardinality(s.seen) = maximum \/ EachFollowed(s.paths, q, graph, depth)

(* A route is longer by a file at its end.                                  *)
LEMMA LongerRoute ==
  ASSUME NEW start, NEW graph, NEW p, IsRoute(p, start, graph), NEW f \in After(graph, Last(p)), f \in Nat
  PROVE  /\ IsRoute(Append(p, f), start, graph) /\ Last(Append(p, f)) = f /\ Len(Append(p, f)) = Len(p) + 1
         /\ Last(p) \in Nat
<1> DEFINE r == Append(p, f)
<1>1. p \in Seq(Nat) /\ Len(p) \in Nat /\ Len(p) >= 1 /\ p[1] = start
  BY DEF IsRoute
<1>2. r \in Seq(Nat) /\ Len(r) = Len(p) + 1 /\ r[Len(p) + 1] = f /\ \A i \in 1..Len(p) : r[i] = p[i]
  BY <1>1
<1> HIDE DEF r
<1>3. r[1] = start /\ Last(r) = f /\ Last(p) = p[Len(p)] /\ p[Len(p)] \in Nat
  BY <1>1, <1>2 DEF Last
<1>4. ASSUME NEW i \in 1..Len(r) - 1 PROVE r[i + 1] \in After(graph, r[i])
  <2>1. CASE i = Len(p)
    BY <1>1, <1>2, <1>3, <2>1
  <2>2. CASE i # Len(p)
    <3>1. i \in 1..Len(p) - 1 /\ i \in 1..Len(p) /\ i + 1 \in 1..Len(p)
      BY <1>1, <1>2, <2>2
    <3> QED
      BY <1>2, <3>1 DEF IsRoute
  <2> QED
    BY <2>1, <2>2
<1> QED
  BY <1>1, <1>2, <1>3, <1>4 DEF IsRoute, r

(* A search begins at its file.                                             *)
LEMMA SearchBegins ==
  ASSUME NEW start \in Nat, NEW graph, NEW depth \in Nat, NEW maximum \in Nat \ {0}
  PROVE  Going(SearchFrom(start), 0, start, graph, depth, maximum)
<1> DEFINE s == SearchFrom(start)
<1>1. s.seen = {start} /\ s.paths = <<<<start>>>> /\ s.queue = <<<<start>>>>
  BY DEF SearchFrom
<1>2. <<start>> \in Seq(Nat) /\ Len(<<start>>) = 1 /\ <<start>>[1] = start /\ Last(<<start>>) = start
  BY DEF Last
<1>3. <<<<start>>>> \in Seq(Seq(Nat)) /\ Len(<<<<start>>>>) = 1 /\ <<<<start>>>>[1] = <<start>>
  BY <1>2
<1>4. IsRoute(<<start>>, start, graph)
  BY <1>2 DEF IsRoute
<1>5. s \in States
  BY <1>2, <1>3 DEF SearchFrom, States
<1> HIDE DEF s
<1>6. Routed(s.paths, s.seen, start, graph, depth)
  <2> DEFINE r == <<start>>
             P == <<r>>
  <2>1. r \in Seq(Nat) /\ Len(r) = 1 /\ Last(r) = start /\ IsRoute(r, start, graph)
    BY <1>2, <1>4
  <2>2. P \in Seq(Seq(Nat)) /\ Len(P) = 1 /\ P[1] = r /\ s.paths = P
    BY <1>1, <1>3
  <2> HIDE DEF P
  <2>3. 1..Len(P) = {1}
    BY <2>2
  <2>4. P[1] = <<start>>
    BY <2>2
  <2> HIDE DEF r
  <2>5. \A k \in 1..Len(P) : IsRoute(P[k], start, graph) /\ Len(P[k]) <= depth + 1
    <3>1. \A k \in 1..Len(P) : P[k] = r
      BY <2>2, <2>3
    <3>2. Len(r) <= depth + 1
      BY <2>1
    <3> QED
      BY <2>1, <3>1, <3>2
  <2>6. \A j, k \in 1..Len(P) : j = k /\ Len(P[j]) <= Len(P[k])
    BY <2>1, <2>2, <2>3
  <2>7. s.seen = {Last(P[k]) : k \in 1..Len(P)}
    BY <1>1, <2>1, <2>2, <2>3
  <2>8. Len(P) >= 1
    BY <2>2
  <2>9. Routed(P, s.seen, start, graph, depth)
    BY <2>2, <2>4, <2>5, <2>6, <2>7, <2>8 DEF Routed
  <2> QED
    BY <2>2, <2>9
<1>7. IsFiniteSet(s.seen) /\ Cardinality(s.seen) <= maximum
  <2>1. IsFiniteSet({start}) /\ Cardinality({start}) = 1
    BY FS_Singleton
  <2> QED
    BY <1>1, <2>1
<1>8. EachFollowed(s.paths, 0, graph, depth)
  BY DEF EachFollowed
<1>9. Len(s.paths) = 1 /\ Len(s.queue) = 1 /\ s.queue = s.paths
  BY <1>1
<1>10. 0 \in 0..Len(s.paths) /\ Len(s.queue) = Len(s.paths) - 0 /\ \A i \in 1..Len(s.queue) : s.queue[i] = s.paths[0 + i]
  BY <1>9
<1>11. \A k \in 1..Len(s.paths) : Len(s.paths[k]) <= Len(s.paths[0 + 1]) + 1
  <2>1. \A k \in 1..Len(s.paths) : k = 1
    BY <1>9
  <2>2. Len(s.paths[1]) = 1
    BY <1>1, <1>2, <1>3
  <2> QED
    BY <2>1, <2>2
<1> QED
  BY <1>5, <1>6, <1>7, <1>8, <1>10, <1>11 DEF Going, Trails, s

(* Different files that a route leads to and that were not seen.            *)
Unseen(F, m, c, graph, seen) ==
  /\ F \in [1..m -> Nat] /\ \A i \in 1..m : F[i] \in After(graph, Last(c)) /\ F[i] \notin seen
  /\ \A i, j \in 1..m : F[i] = F[j] => i = j

NoShorter(paths, c) == \A k \in 1..Len(paths) : Len(paths[k]) <= Len(c) + 1

(* More routes, of which the new ones are longer than c by one.             *)
Grown(more, paths, c, F, m) ==
  /\ more \in Seq(Seq(Nat)) /\ Onward(c, F) \in Seq(Seq(Nat)) /\ Len(more) = Len(paths) + m
  /\ \A k \in 1..Len(paths) : more[k] = paths[k]
  /\ \A i \in 1..m : Last(more[Len(paths) + i]) = F[i] /\ Len(more[Len(paths) + i]) = Len(c) + 1

(* New routes, to files that were not seen, are noted behind the others.    *)
LEMMA RoutesGrow ==
  ASSUME NEW start, NEW graph, NEW depth \in Nat, NEW paths, NEW seen, Routed(paths, seen, start, graph, depth),
         NEW c, IsRoute(c, start, graph), Len(c) <= depth, NoShorter(paths, c),
         NEW m \in Nat, NEW F, Unseen(F, m, c, graph, seen)
  PROVE  /\ Grown(paths \o Onward(c, F), paths, c, F, m)
         /\ Routed(paths \o Onward(c, F), seen \cup Range(F), start, graph, depth)
<1> DEFINE O == Onward(c, F)
           more == paths \o O
           l == Len(paths)
<1>0. /\ F \in [1..m -> Nat] /\ \A i \in 1..m : F[i] \in After(graph, Last(c)) /\ F[i] \notin seen
      /\ \A i, j \in 1..m : F[i] = F[j] => i = j
  BY DEF Unseen
<1>1. /\ paths \in Seq(Seq(Nat)) /\ l \in Nat /\ l >= 1 /\ paths[1] = <<start>>
      /\ c \in Seq(Nat) /\ Len(c) \in Nat
  BY DEF Routed, IsRoute
<1>2. ASSUME NEW i \in 1..m
      PROVE  /\ IsRoute(Append(c, F[i]), start, graph) /\ Last(Append(c, F[i])) = F[i]
             /\ Len(Append(c, F[i])) = Len(c) + 1 /\ Append(c, F[i]) \in Seq(Nat)
  <2>1. F[i] \in After(graph, Last(c)) /\ F[i] \in Nat
    BY <1>0
  <2> QED
    BY <1>1, <2>1, LongerRoute
<1>3. O = [i \in 1..m |-> Append(c, F[i])]
  BY <1>0 DEF Onward
<1>4. O \in Seq(Seq(Nat)) /\ Len(O) = m /\ \A i \in 1..m : O[i] = Append(c, F[i])
  <2>1. O \in [1..m -> Seq(Nat)]
    BY <1>2, <1>3
  <2> QED
    BY <1>3, <2>1
<1> HIDE DEF O
<1>5. /\ more \in Seq(Seq(Nat)) /\ Len(more) = l + m
      /\ \A k \in 1..l : more[k] = paths[k]
      /\ \A i \in 1..m : more[l + i] = O[i]
  <2>1. more \in Seq(Seq(Nat)) /\ Len(more) = Len(paths) + Len(O)
    BY <1>1, <1>4, ConcatProperties
  <2>2. \A k \in 1..Len(paths) + Len(O) : more[k] = IF k <= Len(paths) THEN paths[k] ELSE O[k - Len(paths)]
    BY <1>1, <1>4, ConcatProperties
  <2> HIDE DEF more, l
  <2>3. l = Len(paths) /\ Len(O) = m
    BY <1>4 DEF l
  <2>4. \A k \in 1..l : k \in 1..l + m /\ k <= l
    BY <1>1
  <2>5. \A i \in 1..m : l + i \in 1..l + m /\ ~(l + i <= l) /\ l + i - l = i
    BY <1>1
  <2>6. \A k \in 1..l + m : more[k] = IF k <= l THEN paths[k] ELSE O[k - l]
    BY <2>2, <2>3
  <2>7. \A k \in 1..l : more[k] = paths[k]
    BY <2>4, <2>6
  <2>8. \A i \in 1..m : more[l + i] = O[i]
    <3> SUFFICES ASSUME NEW i \in 1..m PROVE more[l + i] = O[i]
      OBVIOUS
    <3> DEFINE k == l + i
    <3>1. k \in 1..l + m /\ ~(k <= l) /\ k - l = i
      BY <1>1
    <3> HIDE DEF k
    <3>2. more[k] = O[k - l]
      BY <2>6, <3>1
    <3>3. more[k] = O[i]
      BY <3>1, <3>2
    <3> QED
      BY <3>3 DEF k
  <2> QED
    BY <2>1, <2>3, <2>7, <2>8
<1> HIDE DEF more, l
<1>6. \A k \in 1..l + m : k \in 1..l \/ \E i \in 1..m : k = l + i
  <2> SUFFICES ASSUME NEW k \in 1..l + m, k \notin 1..l PROVE \E i \in 1..m : k = l + i
    OBVIOUS
  <2>1. k - l \in 1..m /\ k = l + (k - l)
    BY <1>1
  <2> QED
    BY <2>1
<1>7. /\ \A k \in 1..l : /\ IsRoute(paths[k], start, graph) /\ Len(paths[k]) <= depth + 1 /\ Len(paths[k]) \in Nat
                         /\ Last(paths[k]) \in seen /\ Len(paths[k]) <= Len(c) + 1
      /\ \A f \in seen : \E k \in 1..l : Last(paths[k]) = f
      /\ \A j, k \in 1..l : Last(paths[j]) = Last(paths[k]) => j = k
      /\ \A j, k \in 1..l : j <= k => Len(paths[j]) <= Len(paths[k])
  <2>1. /\ \A k \in 1..l : IsRoute(paths[k], start, graph) /\ Len(paths[k]) <= depth + 1
        /\ \A j, k \in 1..l : Last(paths[j]) = Last(paths[k]) => j = k
        /\ \A j, k \in 1..l : j <= k => Len(paths[j]) <= Len(paths[k])
        /\ seen = {Last(paths[k]) : k \in 1..l}
    BY DEF Routed, l
  <2>2. \A p : IsRoute(p, start, graph) => Len(p) \in Nat
    BY DEF IsRoute
  <2>3. \A k \in 1..l : Len(paths[k]) <= Len(c) + 1
    BY DEF l, NoShorter
  <2> QED
    BY <2>1, <2>2, <2>3
<1>8. \A i \in 1..m : /\ IsRoute(more[l + i], start, graph) /\ Last(more[l + i]) = F[i] /\ Len(more[l + i]) = Len(c) + 1
                      /\ more[l + i] = O[i]
  <2> SUFFICES ASSUME NEW i \in 1..m
               PROVE  /\ IsRoute(more[l + i], start, graph) /\ Last(more[l + i]) = F[i] /\ Len(more[l + i]) = Len(c) + 1
                      /\ more[l + i] = O[i]
    OBVIOUS
  <2>1. more[l + i] = Append(c, F[i]) /\ more[l + i] = O[i]
    BY <1>4, <1>5
  <2> QED
    BY <1>2, <2>1
<1>9. \A k \in 1..l + m : IsRoute(more[k], start, graph) /\ Len(more[k]) <= depth + 1
  <2> SUFFICES ASSUME NEW k \in 1..l + m PROVE IsRoute(more[k], start, graph) /\ Len(more[k]) <= depth + 1
    OBVIOUS
  <2>1. CASE k \in 1..l
    BY <1>5, <1>7, <2>1
  <2>2. ASSUME NEW i \in 1..m, k = l + i PROVE IsRoute(more[k], start, graph) /\ Len(more[k]) <= depth + 1
    <3>1. IsRoute(more[k], start, graph) /\ Len(more[k]) = Len(c) + 1
      BY <1>8, <2>2
    <3> QED
      BY <1>1, <3>1
  <2> QED
    BY <1>6, <2>1, <2>2
<1>10. \A j, k \in 1..l + m : j <= k => Len(more[j]) <= Len(more[k])
  <2> SUFFICES ASSUME NEW j \in 1..l + m, NEW k \in 1..l + m, j <= k PROVE Len(more[j]) <= Len(more[k])
    OBVIOUS
  <2>1. CASE k \in 1..l
    <3>1. j \in 1..l
      BY <1>1, <2>1
    <3> QED
      BY <1>5, <1>7, <2>1, <3>1
  <2>2. ASSUME NEW i \in 1..m, k = l + i PROVE Len(more[j]) <= Len(more[k])
    <3>1. Len(more[k]) = Len(c) + 1
      BY <1>8, <2>2
    <3>2. CASE j \in 1..l
      <4>1. more[j] = paths[j] /\ Len(paths[j]) <= Len(c) + 1
        BY <1>5, <1>7, <3>2
      <4> QED
        BY <3>1, <4>1
    <3>3. ASSUME NEW h \in 1..m, j = l + h PROVE Len(more[j]) <= Len(more[k])
      <4>1. Len(more[j]) = Len(c) + 1
        BY <1>8, <3>3
      <4> QED
        BY <1>1, <3>1, <4>1
    <3> QED
      BY <1>6, <3>2, <3>3
  <2> QED
    BY <1>6, <2>1, <2>2
<1>11. \A j, k \in 1..l + m : Last(more[j]) = Last(more[k]) => j = k
  <2> SUFFICES ASSUME NEW j \in 1..l + m, NEW k \in 1..l + m, Last(more[j]) = Last(more[k]) PROVE j = k
    OBVIOUS
  <2>1. \A n \in 1..l : Last(more[n]) \in seen /\ more[n] = paths[n]
    BY <1>5, <1>7
  <2>2. \A i \in 1..m : Last(more[l + i]) \notin seen /\ Last(more[l + i]) = F[i]
    BY <1>0, <1>8
  <2>3. CASE j \in 1..l /\ k \in 1..l
    BY <1>7, <2>1, <2>3
  <2>4. ASSUME NEW h \in 1..m, NEW i \in 1..m, j = l + h, k = l + i PROVE j = k
    <3>1. F[h] = F[i]
      BY <1>0, <2>2, <2>4
    <3> QED
      BY <1>0, <2>4, <3>1
  <2>5. ~(j \in 1..l /\ \E i \in 1..m : k = l + i) /\ ~(k \in 1..l /\ \E i \in 1..m : j = l + i)
    BY <2>1, <2>2
  <2> QED
    BY <1>6, <2>3, <2>4, <2>5
<1>12. seen \cup Range(F) = {Last(more[k]) : k \in 1..l + m}
  <2>1. \A f \in seen : \E k \in 1..l + m : f = Last(more[k])
    <3> SUFFICES ASSUME NEW f \in seen PROVE \E k \in 1..l + m : f = Last(more[k])
      OBVIOUS
    <3>1. PICK k \in 1..l : Last(paths[k]) = f
      BY <1>7
    <3>2. k \in 1..l + m
      BY <1>1
    <3>3. more[k] = paths[k]
      BY <1>5
    <3> QED
      BY <3>1, <3>2, <3>3
  <2>2. \A f \in Range(F) : \E k \in 1..l + m : f = Last(more[k])
    <3> SUFFICES ASSUME NEW i \in 1..m PROVE \E k \in 1..l + m : F[i] = Last(more[k])
      BY <1>0 DEF Range
    <3>1. l + i \in 1..l + m
      BY <1>1
    <3> QED
      BY <1>8, <3>1
  <2>3. \A k \in 1..l + m : Last(more[k]) \in seen \cup Range(F)
    <3> SUFFICES ASSUME NEW k \in 1..l + m PROVE Last(more[k]) \in seen \cup Range(F)
      OBVIOUS
    <3>1. CASE k \in 1..l
      BY <1>5, <1>7, <3>1
    <3>2. ASSUME NEW i \in 1..m, k = l + i PROVE Last(more[k]) \in seen \cup Range(F)
      BY <1>0, <1>8, <3>2 DEF Range
    <3> QED
      BY <1>6, <3>1, <3>2
  <2> QED
    BY <2>1, <2>2, <2>3
<1>13. Len(more) >= 1 /\ more[1] = <<start>>
  <2>1. 1 \in 1..l
    BY <1>1
  <2> QED
    BY <1>1, <1>5, <2>1
<1>14. Routed(more, seen \cup Range(F), start, graph, depth)
  BY <1>5, <1>9, <1>10, <1>11, <1>12, <1>13 DEF Routed
<1>15. Grown(more, paths, c, F, m)
  BY <1>4, <1>5, <1>8 DEF Grown, O, l
<1> QED
  BY <1>14, <1>15 DEF more, O

(* The files a round goes on to: none that was seen, no more than there may *)
(* be, and all there are unless that is reached.                            *)
RoundChooses(T, c, seen, graph, depth, maximum) ==
  /\ T \in SUBSET Nat /\ IsFiniteSet(T) /\ Cardinality(T) \in Nat
  /\ \A f \in T : f \in After(graph, Last(c)) /\ f \notin seen
  /\ IsFiniteSet(seen \cup T) /\ Cardinality(seen \cup T) = Cardinality(seen) + Cardinality(T)
  /\ Cardinality(seen \cup T) <= maximum
  /\ T # {} => Len(c) <= depth
  /\ Len(c) <= depth /\ Cardinality(seen \cup T) # maximum => T = After(graph, Last(c)) \ seen

LEMMA FreshAre ==
  ASSUME NEW graph, IsGraph(graph), NEW depth \in Nat, NEW maximum \in Nat, NEW s,
         s.seen \in SUBSET Nat, IsFiniteSet(s.seen), Cardinality(s.seen) < maximum,
         Len(Head(s.queue)) \in Nat
  PROVE  RoundChooses(Fresh(s, graph, depth, maximum), Head(s.queue), s.seen, graph, depth, maximum)
<1> DEFINE c == Head(s.queue)
           T == Fresh(s, graph, depth, maximum)
           next == After(graph, Last(c)) \ s.seen
           n == Cardinality(s.seen)
           room == maximum - n
<1>1. n \in Nat /\ room \in Nat
  BY FS_CardinalityType
<1>0. Len(c) \in Nat
  OBVIOUS
<1>2. T = IF Len(c) - 1 >= depth THEN {} ELSE First(next, room)
  BY DEF Fresh
<1> HIDE DEF c
<1>3. next \in SUBSET Nat /\ IsFiniteSet(next) /\ \A f \in next : f \in After(graph, Last(c)) /\ f \notin s.seen
  <2>1. After(graph, Last(c)) \in SUBSET DOMAIN graph
    BY DEF After, IsGraph
  <2>2. next \in SUBSET DOMAIN graph /\ DOMAIN graph \in SUBSET Nat /\ IsFiniteSet(DOMAIN graph)
    BY <2>1 DEF IsGraph
  <2> QED
    BY <2>2, FS_Subset
<1> HIDE DEF next, room, T
<1>4. /\ T \in SUBSET next /\ IsFiniteSet(T) /\ Cardinality(T) \in Nat /\ Cardinality(T) <= room
      /\ T # {} => Len(c) <= depth
      /\ Len(c) <= depth => T = next \/ Cardinality(T) = room
  <2>1. CASE Len(c) - 1 >= depth
    <3>1. T = {} /\ ~(Len(c) <= depth)
      BY <1>0, <1>2, <2>1
    <3>2. IsFiniteSet({}) /\ Cardinality({}) = 0
      BY FS_EmptySet
    <3> QED
      BY <1>1, <3>1, <3>2
  <2>2. CASE ~(Len(c) - 1 >= depth)
    <3>1. T = First(next, room) /\ Len(c) <= depth
      BY <1>0, <1>2, <2>2
    <3>2. /\ First(next, room) \in SUBSET next /\ IsFiniteSet(First(next, room)) /\ Cardinality(First(next, room)) \in Nat
          /\ Cardinality(First(next, room)) <= room
          /\ First(next, room) # next => Cardinality(First(next, room)) = room
      BY <1>1, <1>3, FirstAre
    <3> QED
      BY <3>1, <3>2
  <2> QED
    BY <2>1, <2>2
<1>5. T \in SUBSET Nat /\ \A f \in T : f \in After(graph, Last(c)) /\ f \notin s.seen
  BY <1>3, <1>4
<1>6. IsFiniteSet(s.seen \cup T) /\ Cardinality(s.seen \cup T) = n + Cardinality(T)
  <2>1. s.seen \cap T = {}
    BY <1>5
  <2>2. Cardinality(s.seen \cap T) = 0
    BY <2>1, FS_EmptySet
  <2>3. IsFiniteSet(s.seen \cup T) /\ Cardinality(s.seen \cup T) = n + Cardinality(T) - Cardinality(s.seen \cap T)
    BY <1>4, FS_Union
  <2> QED
    BY <1>1, <1>4, <2>2, <2>3
<1> HIDE DEF n
<1>7. n + Cardinality(T) <= maximum /\ (Cardinality(T) = room => n + Cardinality(T) = maximum)
  BY <1>1, <1>4 DEF room
<1> QED
  BY <1>4, <1>5, <1>6, <1>7 DEF n, next, T, c, RoundChooses

(* The queue stays the end of what was noted when its first is taken and    *)
(* more is put behind both.                                                 *)
LEMMA QueueMoves ==
  ASSUME NEW R, NEW P \in Seq(R), NEW Q \in Seq(R), NEW O \in Seq(R), NEW q \in Nat, Q # <<>>, Trails(Q, P, q)
  PROVE  /\ Head(Q) = P[q + 1] /\ q + 1 \in 1..Len(P)
         /\ Tail(Q) \o O \in Seq(R) /\ Trails(Tail(Q) \o O, P \o O, q + 1)
<1> DEFINE l == Len(P)
           r == Len(Tail(Q))
           m == Len(O)
           A == P \o O
           B == Tail(Q) \o O
<1>1. l \in Nat /\ m \in Nat /\ Len(Q) \in Nat /\ Len(Q) >= 1
  BY EmptySeq, LenProperties
<1>2. Head(Q) = Q[1] /\ Tail(Q) \in Seq(R) /\ r = Len(Q) - 1 /\ \A i \in 1..r : Tail(Q)[i] = Q[i + 1]
  BY HeadTailProperties
<1>3. A \in Seq(R) /\ Len(A) = l + m /\ \A k \in 1..l + m : A[k] = IF k <= l THEN P[k] ELSE O[k - l]
  BY ConcatProperties
<1>4. B \in Seq(R) /\ Len(B) = r + m /\ \A k \in 1..r + m : B[k] = IF k <= r THEN Tail(Q)[k] ELSE O[k - r]
  BY <1>2, ConcatProperties
<1>5. \A i \in 1..Len(Q) : Q[i] = P[q + i]
  BY DEF Trails
<1>6. Len(Q) = l - q
  BY DEF Trails
<1> HIDE DEF l, r, m, A, B
<1>7. q + 1 \in 1..l /\ 1 \in 1..Len(Q) /\ r = l - (q + 1) /\ r \in Nat /\ l + m - (q + 1) = r + m
  <2> DEFINE w == Len(Q)
  <2>1. w \in Nat /\ w >= 1 /\ w = l - q /\ r = w - 1 /\ l \in Nat /\ m \in Nat /\ q \in Nat
    BY <1>1, <1>2, <1>6
  <2> HIDE DEF w
  <2>2. q + 1 \in 1..l /\ 1 \in 1..w /\ r = l - (q + 1) /\ r \in Nat
    BY <2>1
  <2>3. l + m - (q + 1) = r + m
    BY <2>1, <2>2
  <2> QED
    BY <2>2, <2>3 DEF w
<1>8. ASSUME NEW i \in 1..r + m PROVE B[i] = A[q + 1 + i]
  <2> DEFINE k == q + 1 + i
  <2>1. k \in 1..l + m /\ k = i + (l - r)
    BY <1>1, <1>7
  <2> HIDE DEF k
  <2>2. CASE i <= r
    <3>1. k <= l /\ i \in 1..r /\ i + 1 \in 1..Len(Q) /\ q + (i + 1) = k
      BY <1>1, <1>6, <1>7, <2>2 DEF k
    <3>2. B[i] = Tail(Q)[i] /\ Tail(Q)[i] = Q[i + 1]
      BY <1>2, <1>4, <2>2, <3>1
    <3>3. Q[i + 1] = P[q + (i + 1)]
      BY <1>5, <3>1
    <3>4. A[k] = P[k]
      BY <1>3, <2>1, <3>1
    <3> QED
      BY <3>1, <3>2, <3>3, <3>4 DEF k
  <2>3. CASE ~(i <= r)
    <3>1. ~(k <= l) /\ k - l = i - r
      BY <1>1, <1>7, <2>1, <2>3
    <3>2. B[i] = O[i - r]
      BY <1>4, <2>3
    <3>3. A[k] = O[k - l]
      BY <1>3, <2>1, <3>1
    <3> QED
      BY <3>1, <3>2, <3>3 DEF k
  <2> QED
    BY <2>2, <2>3
<1>9. Head(Q) = P[q + 1]
  BY <1>2, <1>5, <1>7
<1>10. B \in Seq(R) /\ Len(B) = Len(A) - (q + 1)
  BY <1>1, <1>3, <1>4, <1>7
<1>11. \A i \in 1..Len(B) : B[i] = A[q + 1 + i]
  BY <1>4, <1>8
<1>12. q + 1 \in 1..l
  BY <1>7
<1> QED
  BY <1>9, <1>10, <1>11, <1>12 DEF l, A, B, Trails

(* A round takes the first route from the queue, and keeps all this.        *)
LEMMA RoundKeeps ==
  ASSUME NEW start \in Nat, NEW graph, IsGraph(graph), NEW depth \in Nat, NEW maximum \in Nat \ {0},
         NEW s, NEW q, Going(s, q, start, graph, depth, maximum),
         s.queue # <<>>, ~(Cardinality(s.seen) >= maximum)
  PROVE  q + 1 \in Nat /\ Going(Widened(s, graph, depth, maximum), q + 1, start, graph, depth, maximum)
<1> DEFINE P == s.paths
           Q == s.queue
           l == Len(P)
           c == Head(Q)
           T == Fresh(s, graph, depth, maximum)
           F == Sorted(T)
           m == Cardinality(T)
           O == Onward(c, F)
           A == P \o O
           B == Tail(Q) \o O
           t == Entered(s, F)
<1>1. /\ s \in States /\ q \in 0..l /\ Routed(P, s.seen, start, graph, depth)
      /\ Trails(Q, P, q)
      /\ q < l => \A k \in 1..l : Len(P[k]) <= Len(P[q + 1]) + 1
      /\ IsFiniteSet(s.seen)
      /\ Cardinality(s.seen) = maximum \/ EachFollowed(P, q, graph, depth)
  BY DEF Going
<1>2. P \in Seq(Seq(Nat)) /\ s.seen \in SUBSET Nat /\ Q \in Seq(Seq(Nat)) /\ l \in Nat /\ q \in Nat
  BY <1>1 DEF States
<1>3. Cardinality(s.seen) \in Nat /\ Cardinality(s.seen) < maximum /\ Cardinality(s.seen) # maximum
  BY <1>1, FS_CardinalityType
<1>4. EachFollowed(P, q, graph, depth)
  BY <1>1, <1>3
<1>5. t = Widened(s, graph, depth, maximum)
  BY <1>3 DEF Widened
<1>6. t = [seen |-> s.seen \cup Range(F), paths |-> A, queue |-> B]
  BY DEF Entered
<1> HIDE DEF P, Q, t
<1>7. c = P[q + 1] /\ q + 1 \in 1..l
  <2>1. <<>> \in Seq(Seq(Nat)) /\ Q # <<>>
    BY DEF Q
  <2> QED
    BY <1>1, <1>2, <2>1, QueueMoves
<1> HIDE DEF l
<1>8. l = Len(P) /\ q < l
  BY <1>2, <1>7 DEF l
<1>9. /\ IsRoute(c, start, graph) /\ Len(c) \in Nat /\ Len(c) >= 1
      /\ \A k \in 1..l : Len(P[k]) <= Len(c) + 1
  <2>1. IsRoute(P[q + 1], start, graph)
    BY <1>1, <1>7, <1>8 DEF Routed
  <2>2. \A k \in 1..l : Len(P[k]) <= Len(c) + 1
    BY <1>1, <1>7, <1>8
  <2>3. IsRoute(c, start, graph)
    BY <1>7, <2>1
  <2> HIDE DEF c
  <2>4. c \in Seq(Nat) /\ Len(c) >= 1
    BY <2>3 DEF IsRoute
  <2> QED
    BY <2>2, <2>3, <2>4
<1>10. c = Head(s.queue)
  BY DEF Q
<1> HIDE DEF c
<1>11. /\ T \in SUBSET Nat /\ IsFiniteSet(T) /\ Cardinality(T) \in Nat
       /\ \A f \in T : f \in After(graph, Last(c)) /\ f \notin s.seen
       /\ IsFiniteSet(s.seen \cup T) /\ Cardinality(s.seen \cup T) <= maximum
       /\ T # {} => Len(c) <= depth
       /\ Len(c) <= depth /\ Cardinality(s.seen \cup T) # maximum => T = After(graph, Last(c)) \ s.seen
  <2>1. s.seen \in SUBSET Nat /\ IsFiniteSet(s.seen) /\ Cardinality(s.seen) < maximum /\ maximum \in Nat
    BY <1>1, <1>2, <1>3
  <2>2. Len(Head(s.queue)) \in Nat
    BY <1>9, <1>10
  <2>3. RoundChooses(T, Head(s.queue), s.seen, graph, depth, maximum)
    BY <2>1, <2>2, FreshAre
  <2> HIDE DEF T
  <2> QED
    BY <1>10, <2>3 DEF RoundChooses
<1> HIDE DEF T
<1>12. /\ F \in [1..m -> T] /\ \A x \in T : \E i \in 1..m : F[i] = x
       /\ \A i, j \in 1..m : F[i] = F[j] => i = j
  BY <1>11, SortedIsAll
<1>13. m \in Nat /\ (T = {} => m = 0)
  BY <1>11, FS_EmptySet
<1> HIDE DEF F, m
<1>14. Range(F) = T
  BY <1>12 DEF Range
<1>15. Unseen(F, m, c, graph, s.seen)
  BY <1>11, <1>12 DEF Unseen
<1>16. /\ O \in Seq(Seq(Nat)) /\ Len(A) = l + m
       /\ \A k \in 1..l : A[k] = P[k]
       /\ \A i \in 1..m : Last(A[l + i]) = F[i] /\ Len(A[l + i]) = Len(c) + 1
       /\ Routed(A, s.seen \cup T, start, graph, depth)
  <2>1. CASE Len(c) <= depth
    <3>1. Routed(P, s.seen, start, graph, depth) /\ IsRoute(c, start, graph) /\ m \in Nat /\ NoShorter(P, c)
      BY <1>1, <1>8, <1>9, <1>13 DEF NoShorter
    <3>2. Grown(A, P, c, F, m) /\ Routed(A, s.seen \cup Range(F), start, graph, depth)
      BY <1>15, <2>1, <3>1, RoutesGrow
    <3> HIDE DEF A
    <3> QED
      BY <1>8, <1>14, <3>2 DEF Grown
  <2>2. CASE T = {}
    <3>1. m = 0 /\ s.seen \cup T = s.seen
      BY <1>13, <2>2
    <3>2. O = [i \in 1..0 |-> Append(c, F[i])]
      BY <1>12, <3>1 DEF Onward
    <3>3. O = <<>>
      BY <3>2
    <3>4. A = P
      BY <1>2, <3>3, ConcatEmptySeq
    <3>5. O \in Seq(Seq(Nat))
      BY <3>3
    <3>6. l + m = Len(P) /\ 1..m = {}
      BY <1>2, <1>8, <3>1
    <3> HIDE DEF A, O
    <3> QED
      BY <1>1, <3>1, <3>4, <3>5, <3>6
  <2> QED
    BY <1>11, <2>1, <2>2
<1> HIDE DEF O
<1>17. A \in Seq(Seq(Nat)) /\ Len(A) \in Nat /\ B \in Seq(Seq(Nat)) /\ Trails(B, A, q + 1)
  <2>1. Q # <<>> /\ Trails(Q, P, q)
    BY <1>1 DEF Q
  <2>2. A \in Seq(Seq(Nat))
    BY <1>2, <1>16
  <2>3. B \in Seq(Seq(Nat)) /\ Trails(B, A, q + 1)
    BY <1>2, <1>16, <2>1, QueueMoves
  <2> HIDE DEF A, B
  <2> QED
    BY <2>2, <2>3, LenProperties
<1> HIDE DEF A, B
<1>18. q + 1 \in 0..Len(A) /\ q + 1 \in Nat /\ \A k \in 1..l : k \in 1..Len(A)
  BY <1>2, <1>7, <1>13, <1>16
<1>19. q + 1 < Len(A) => \A k \in 1..Len(A) : Len(A[k]) <= Len(A[q + 1 + 1]) + 1
  <2> SUFFICES ASSUME q + 1 < Len(A), NEW k \in 1..Len(A) PROVE Len(A[k]) <= Len(A[q + 1 + 1]) + 1
    OBVIOUS
  <2>1. q + 1 \in 1..Len(A) /\ q + 1 + 1 \in 1..Len(A) /\ q + 1 <= q + 1 + 1
    BY <1>2, <1>17
  <2>2. Len(A[q + 1]) <= Len(A[q + 1 + 1])
    BY <1>16, <2>1 DEF Routed
  <2>3. \A n \in 1..Len(A) : Len(A[n]) \in Nat
    BY <1>16 DEF Routed, IsRoute
  <2>4. A[q + 1] = c
    BY <1>7, <1>16
  <2>5. Len(A[k]) <= Len(c) + 1
    <3>1. CASE k \in 1..l
      BY <1>9, <1>16, <3>1
    <3>2. CASE k \notin 1..l
      <4>1. k - l \in 1..m /\ k = l + (k - l)
        BY <1>2, <1>13, <1>16, <3>2
      <4>2. PICK i \in 1..m : k = l + i
        BY <4>1
      <4>3. Len(A[k]) = Len(c) + 1
        BY <1>16, <4>2
      <4> QED
        BY <1>9, <4>3
    <3> QED
      BY <3>1, <3>2
  <2>6. Len(A[k]) \in Nat /\ Len(A[q + 1 + 1]) \in Nat
    BY <2>1, <2>3
  <2>7. Len(c) <= Len(A[q + 1 + 1])
    BY <2>2, <2>4
  <2> QED
    BY <1>9, <2>5, <2>6, <2>7
<1>20. ASSUME Cardinality(s.seen \cup T) # maximum PROVE EachFollowed(A, q + 1, graph, depth)
  <2> SUFFICES ASSUME NEW i \in 1..q + 1, Len(A[i]) <= depth, NEW f \in After(graph, Last(A[i]))
               PROVE  \E j \in 1..Len(A) : Last(A[j]) = f /\ Len(A[j]) <= Len(A[i]) + 1
    BY DEF EachFollowed
  <2>1. i \in 1..l /\ A[i] = P[i]
    BY <1>2, <1>7, <1>16
  <2>2. CASE i # q + 1
    <3>1. i \in 1..q
      BY <1>2, <2>2
    <3>2. PICK j \in 1..l : Last(P[j]) = f /\ Len(P[j]) <= Len(P[i]) + 1
      BY <1>4, <1>8, <2>1, <3>1 DEF EachFollowed
    <3>3. A[j] = P[j] /\ j \in 1..Len(A)
      BY <1>16, <1>18
    <3> QED
      BY <2>1, <3>2, <3>3
  <2>3. CASE i = q + 1
    <3>1. A[i] = c
      BY <1>7, <2>1, <2>3
    <3>2. T = After(graph, Last(c)) \ s.seen /\ f \in After(graph, Last(c))
      BY <1>11, <1>20, <3>1
    <3>3. CASE f \in s.seen
      <4>1. PICK j \in 1..l : Last(P[j]) = f
        BY <1>1, <1>8, <3>3 DEF Routed
      <4>2. Len(P[j]) <= Len(c) + 1 /\ A[j] = P[j] /\ j \in 1..Len(A)
        BY <1>9, <1>16, <1>18
      <4> QED
        BY <3>1, <4>1, <4>2
    <3>4. CASE f \notin s.seen
      <4>1. PICK j \in 1..m : F[j] = f
        BY <1>12, <3>2, <3>4
      <4>2. Last(A[l + j]) = f /\ Len(A[l + j]) = Len(c) + 1
        BY <1>16, <4>1
      <4>3. l + j \in 1..Len(A)
        BY <1>2, <1>13, <1>16
      <4>4. Len(A[l + j]) <= Len(A[i]) + 1
        BY <1>9, <3>1, <4>2
      <4> QED
        BY <4>2, <4>3, <4>4
    <3> QED
      BY <3>3, <3>4
  <2> QED
    BY <2>2, <2>3
<1>21. t.seen = s.seen \cup T /\ t.paths = A /\ t.queue = B /\ t \in States
  <2>1. t = [seen |-> s.seen \cup T, paths |-> A, queue |-> B] /\ s.seen \cup T \in SUBSET Nat
    BY <1>2, <1>6, <1>11, <1>14
  <2> QED
    BY <1>17, <2>1 DEF States
<1>22. Going(t, q + 1, start, graph, depth, maximum)
  <2>1. Routed(t.paths, t.seen, start, graph, depth) /\ IsFiniteSet(t.seen) /\ Cardinality(t.seen) <= maximum
    BY <1>11, <1>16, <1>21
  <2>2. q + 1 \in 0..Len(t.paths) /\ Trails(t.queue, t.paths, q + 1)
    BY <1>17, <1>18, <1>21
  <2>3. q + 1 < Len(t.paths) => \A k \in 1..Len(t.paths) : Len(t.paths[k]) <= Len(t.paths[q + 1 + 1]) + 1
    BY <1>19, <1>21
  <2>4. Cardinality(t.seen) = maximum \/ EachFollowed(t.paths, q + 1, graph, depth)
    BY <1>20, <1>21
  <2> QED
    BY <1>21, <2>1, <2>2, <2>3, <2>4 DEF Going
<1> QED
  BY <1>5, <1>18, <1>22

(* A search has ended once its queue is empty or it has found enough.       *)
Ended(s, maximum) == s.queue = <<>> \/ Cardinality(s.seen) >= maximum

(* A route ends in its first file or in one of the graph.                   *)
LEMMA RouteStays ==
  ASSUME NEW start \in Nat, NEW graph, IsGraph(graph), NEW p, IsRoute(p, start, graph)
  PROVE  Last(p) \in DOMAIN graph \cup {start}
<1>1. p \in Seq(Nat) /\ Len(p) \in Nat /\ Len(p) >= 1 /\ p[1] = start
  BY DEF IsRoute
<1>2. CASE Len(p) = 1
  BY <1>1, <1>2 DEF Last
<1>3. CASE Len(p) # 1
  <2> DEFINE l == Len(p)
             i == l - 1
  <2>1. l \in Nat /\ l # 1 /\ l >= 1
    BY <1>1, <1>3
  <2> HIDE DEF l
  <2>2. i \in 1..l - 1 /\ i + 1 = l
    BY <2>1
  <2> HIDE DEF i
  <2>3. p[i + 1] \in After(graph, p[i])
    BY <2>2 DEF IsRoute, l
  <2>4. \A n : After(graph, n) \in SUBSET DOMAIN graph
    BY DEF After, IsGraph
  <2>5. p[l] \in DOMAIN graph
    BY <2>2, <2>3, <2>4
  <2> QED
    BY <2>5 DEF Last, l
<1> QED
  BY <1>2, <1>3

(* No more routes are noted than there are files.                           *)
LEMMA RoutesAreFew ==
  ASSUME NEW start \in Nat, NEW graph, IsGraph(graph), NEW depth \in Nat, NEW paths, NEW seen,
         Routed(paths, seen, start, graph, depth), IsFiniteSet(seen)
  PROVE  /\ Len(paths) = Cardinality(seen) /\ Len(paths) <= Cardinality(DOMAIN graph) + 1
         /\ Cardinality(DOMAIN graph) \in Nat
<1> DEFINE l == Len(paths)
           f == [k \in 1..l |-> Last(paths[k])]
<1>1. paths \in Seq(Seq(Nat)) /\ l \in Nat /\ seen = {Last(paths[k]) : k \in 1..l}
      /\ \A j, k \in 1..l : Last(paths[j]) = Last(paths[k]) => j = k
  BY DEF Routed
<1>2. \A k \in 1..l : IsRoute(paths[k], start, graph)
  BY DEF Routed
<1> HIDE DEF l
<1>3. f \in Bijection(1..l, seen)
  <2>1. f \in [1..l -> seen] /\ \A j, k \in 1..l : f[j] = f[k] => j = k
    BY <1>1
  <2>2. \A x \in seen : \E k \in 1..l : f[k] = x
    BY <1>1
  <2> HIDE DEF f
  <2> QED
    BY <2>1, <2>2 DEF Bijection, Injection, IsInjective, Surjection
<1>4. IsFiniteSet(1..l) /\ Cardinality(1..l) = l
  BY <1>1, FS_Interval
<1>5. Cardinality(seen) = l
  <2> HIDE DEF f
  <2> QED
    BY <1>3, <1>4, FS_Bijection DEF ExistsBijection
<1> DEFINE all == DOMAIN graph \cup {start}
<1>6. seen \in SUBSET all
  BY <1>1, <1>2, RouteStays
<1>7. IsFiniteSet(DOMAIN graph) /\ Cardinality(DOMAIN graph) \in Nat
  BY FS_CardinalityType DEF IsGraph
<1>8. IsFiniteSet(all) /\ Cardinality(all) \in Nat /\ Cardinality(all) <= Cardinality(DOMAIN graph) + 1
  <2>1. IsFiniteSet(all) /\ (Cardinality(all) = Cardinality(DOMAIN graph) \/ Cardinality(all) = Cardinality(DOMAIN graph) + 1)
    BY <1>7, FS_AddElement
  <2> QED
    BY <1>7, <2>1
<1>9. Cardinality(seen) <= Cardinality(all)
  <2> HIDE DEF all
  <2> QED
    BY <1>6, <1>8, FS_Subset
<1>10. l <= Cardinality(DOMAIN graph) + 1
  <2> HIDE DEF all
  <2>1. l <= Cardinality(all)
    BY <1>5, <1>9
  <2> QED
    BY <1>1, <1>7, <1>8, <2>1
<1> QED
  BY <1>5, <1>7, <1>10 DEF l

(* The rounds of a search are as many as it needs: it ends.                 *)
LEMMA SearchEnds ==
  ASSUME NEW start \in Nat, NEW graph, IsGraph(graph), NEW depth \in Nat, NEW maximum \in Nat \ {0}
  PROVE  \E s : \E q : /\ Traverse(start, graph, depth, maximum) = Found(s)
                       /\ Going(s, q, start, graph, depth, maximum) /\ Ended(s, maximum)
<1> DEFINE l == Cardinality(DOMAIN graph) + 1
           S == {s \in States : \E q : Going(s, q, start, graph, depth, maximum)}
           Next1(s) == Widened(s, graph, depth, maximum)
           step == [p \in Nat \X S |-> Next1(p[2])]
           Shape(f) == [n \in 0..l |-> IF n = 0 THEN SearchFrom(start) ELSE Widened(f[n - 1], graph, depth, maximum)]
<1>1. l \in Nat /\ Cardinality(DOMAIN graph) \in Nat
  BY FS_CardinalityType DEF IsGraph
<1>2. SearchFrom(start) \in S /\ Going(SearchFrom(start), 0, start, graph, depth, maximum)
  <2>1. Going(SearchFrom(start), 0, start, graph, depth, maximum)
    BY SearchBegins
  <2> QED
    BY <2>1 DEF Going
<1>3. \A s, q : Going(s, q, start, graph, depth, maximum) /\ ~Ended(s, maximum)
                => q + 1 \in Nat /\ Going(Next1(s), q + 1, start, graph, depth, maximum)
  BY RoundKeeps DEF Ended
<1>4. \A s : Ended(s, maximum) => Next1(s) = s
  BY DEF Ended, Widened
<1>5. \A s \in S : Next1(s) \in S
  <2> SUFFICES ASSUME NEW s \in S PROVE Next1(s) \in S
    OBVIOUS
  <2>1. PICK q : Going(s, q, start, graph, depth, maximum)
    OBVIOUS
  <2>2. CASE Ended(s, maximum)
    <3>1. Next1(s) = s
      BY <1>4, <2>2
    <3> QED
      BY <3>1
  <2>3. CASE ~Ended(s, maximum)
    <3>1. Going(Next1(s), q + 1, start, graph, depth, maximum)
      BY <1>3, <2>1, <2>3
    <3>2. Next1(s) \in States
      BY <3>1 DEF Going
    <3> QED
      BY <3>1, <3>2
  <2> QED
    BY <2>2, <2>3
<1>6. step \in StepsOn(S)
  <2> HIDE DEF S, Next1
  <2> QED
    BY <1>5 DEF StepsOn
<1> HIDE DEF l
<1>7. \E f : Made(f, S, l, SearchFrom(start), step)
  <2> HIDE DEF step, S
  <2> QED
    BY <1>1, <1>2, <1>6, StepsMakeRow
<1>8. PICK f : Made(f, S, l, SearchFrom(start), step)
  BY <1>7
<1>9. f \in [0..l -> S] /\ f[0] = SearchFrom(start) /\ \A n \in 1..l : f[n] = step[<<n, f[n - 1]>>]
  BY <1>8 DEF Made
<1>10. \A n \in 1..l : n - 1 \in 0..l /\ f[n - 1] \in S /\ f[n] = Next1(f[n - 1])
  <2> SUFFICES ASSUME NEW n \in 1..l PROVE n - 1 \in 0..l /\ f[n - 1] \in S /\ f[n] = Next1(f[n - 1])
    OBVIOUS
  <2>1. n \in Nat /\ n - 1 \in 0..l
    BY <1>1
  <2> HIDE DEF S, Next1
  <2>2. f[n - 1] \in S
    BY <1>9, <2>1
  <2>3. step[<<n, f[n - 1]>>] = Next1(f[n - 1])
    BY <2>1, <2>2
  <2> QED
    BY <1>9, <2>1, <2>2, <2>3
<1> HIDE DEF step
<1>11. f = Shape(f)
  <2> HIDE DEF S
  <2>1. f = [n \in 0..l |-> f[n]]
    BY <1>9
  <2>2. \A n \in 0..l : f[n] = IF n = 0 THEN SearchFrom(start) ELSE Next1(f[n - 1])
    <3> SUFFICES ASSUME NEW n \in 0..l PROVE f[n] = IF n = 0 THEN SearchFrom(start) ELSE Next1(f[n - 1])
      OBVIOUS
    <3> HIDE DEF Next1
    <3>1. n = 0 \/ n \in 1..l
      BY <1>1
    <3> QED
      BY <1>9, <1>10, <3>1
  <2> QED
    BY <2>1, <2>2
<1> DEFINE search == CHOOSE w : w = Shape(w)
<1>12. Traverse(start, graph, depth, maximum) = Found(search[l])
  BY DEF Traverse, l
<1>13. search = Shape(search)
  BY <1>11
<1> HIDE DEF search
<1>14. search[0] = SearchFrom(start) /\ \A n \in 1..l : search[n] = Next1(search[n - 1])
  <2>1. \A n \in 0..l : Shape(search)[n] = IF n = 0 THEN SearchFrom(start) ELSE Next1(search[n - 1])
    OBVIOUS
  <2> HIDE DEF Shape, Next1
  <2> QED
    BY <1>1, <1>13, <2>1
<1> HIDE DEF S, Next1, Shape
(* After n rounds it has ended or taken n routes from its queue.            *)
<1> DEFINE kept == {n \in 0..l : \E q : /\ Going(search[n], q, start, graph, depth, maximum)
                                        /\ Ended(search[n], maximum) \/ q >= n}
<1>15. 0 \in kept
  <2>1. Going(search[0], 0, start, graph, depth, maximum)
    BY <1>2, <1>14
  <2> QED
    BY <1>1, <2>1
<1>16. ASSUME NEW n \in 1..l, n - 1 \in kept PROVE n \in kept
  <2>1. PICK q : /\ Going(search[n - 1], q, start, graph, depth, maximum)
                 /\ Ended(search[n - 1], maximum) \/ q >= n - 1
    BY <1>16
  <2>2. search[n] = Next1(search[n - 1]) /\ n \in 0..l /\ n \in Nat
    BY <1>1, <1>14
  <2>3. CASE Ended(search[n - 1], maximum)
    <3>1. search[n] = search[n - 1]
      BY <1>4, <2>2, <2>3
    <3> QED
      BY <2>1, <2>2, <2>3, <3>1
  <2>4. CASE ~Ended(search[n - 1], maximum)
    <3>1. q + 1 \in Nat /\ Going(search[n], q + 1, start, graph, depth, maximum)
      BY <1>3, <2>1, <2>2, <2>4
    <3>2. q \in Nat
      BY <2>1 DEF Going
    <3>3. q + 1 >= n
      BY <2>1, <2>2, <2>4, <3>2
    <3> QED
      BY <2>2, <3>1, <3>3
  <2> QED
    BY <2>3, <2>4
<1>17. kept = 0..l
  <2>1. kept \in SUBSET (0..l)
    OBVIOUS
  <2> HIDE DEF kept
  <2> QED
    BY <1>1, <1>15, <1>16, <2>1, AllNumbers
<1>18. l \in kept
  <2> HIDE DEF kept
  <2> QED
    BY <1>1, <1>17
<1>19. PICK q : /\ Going(search[l], q, start, graph, depth, maximum)
                /\ Ended(search[l], maximum) \/ q >= l
  BY <1>18
<1>20. ASSUME q >= l PROVE Ended(search[l], maximum)
  <2> DEFINE s == search[l]
  <2>1. /\ s \in States /\ q \in 0..Len(s.paths) /\ Trails(s.queue, s.paths, q)
        /\ Routed(s.paths, s.seen, start, graph, depth) /\ IsFiniteSet(s.seen)
    BY <1>19 DEF Going
  <2> HIDE DEF s
  <2>2. Len(s.paths) <= Cardinality(DOMAIN graph) + 1 /\ Len(s.paths) \in Nat /\ s.queue \in Seq(Seq(Nat))
    BY <2>1, RoutesAreFew DEF States
  <2>3. q = Len(s.paths)
    BY <1>1, <1>20, <2>1, <2>2 DEF l
  <2>4. Len(s.queue) = 0
    BY <2>1, <2>2, <2>3 DEF Trails
  <2>5. s.queue = <<>>
    BY <2>2, <2>4, EmptySeq
  <2> QED
    BY <2>5 DEF Ended, s
<1> QED
  BY <1>12, <1>19, <1>20

(* A search that was not cut short has a route, and none longer, to each    *)
(* file that a route leads to.                                              *)
LEMMA RoutesAreFound ==
  ASSUME NEW start \in Nat, NEW graph, IsGraph(graph), NEW depth \in Nat, NEW maximum \in Nat \ {0},
         NEW s, NEW q, Going(s, q, start, graph, depth, maximum), Ended(s, maximum),
         Cardinality(s.seen) # maximum,
         NEW p, IsRoute(p, start, graph), Len(p) <= depth + 1
  PROVE  \E j \in 1..Len(s.paths) : Last(s.paths[j]) = Last(p) /\ Len(s.paths[j]) <= Len(p)
<1> DEFINE P == s.paths
           l == Len(p)
           led == {n \in 0..l : n = 0 \/ \E j \in 1..Len(P) : Last(P[j]) = p[n] /\ Len(P[j]) <= n}
<1>1. p \in Seq(Nat) /\ l \in Nat /\ l >= 1 /\ p[1] = start /\ \A i \in 1..l - 1 : p[i + 1] \in After(graph, p[i])
  BY DEF IsRoute
<1>2. /\ P \in Seq(Seq(Nat)) /\ P[1] = <<start>> /\ Len(P) \in Nat /\ Len(P) >= 1
      /\ \A k \in 1..Len(P) : Len(P[k]) \in Nat
  <2>1. P \in Seq(Seq(Nat)) /\ P[1] = <<start>> /\ Len(P) >= 1
    BY DEF Going, Routed
  <2>2. Len(P) \in Nat /\ \A k \in 1..Len(P) : P[k] \in Seq(Nat)
    BY <2>1
  <2> HIDE DEF P
  <2> QED
    BY <2>1, <2>2
<1>3. EachFollowed(P, Len(P), graph, depth)
  <2>1. /\ Cardinality(s.seen) \in Nat /\ Cardinality(s.seen) <= maximum /\ EachFollowed(P, q, graph, depth)
        /\ Trails(s.queue, P, q) /\ q \in Nat
    BY FS_CardinalityType DEF Going
  <2>2. s.queue = <<>>
    BY <2>1 DEF Ended
  <2>3. Len(s.queue) = 0 /\ Len(s.queue) = Len(P) - q
    BY <2>1, <2>2 DEF Trails
  <2>4. q = Len(P)
    BY <1>2, <2>1, <2>3
  <2> QED
    BY <2>1, <2>4
<1> HIDE DEF P, l
<1>4. ASSUME NEW n \in 1..l, n - 1 \in led PROVE n \in led
  <2>1. CASE n = 1
    <3>1. Last(P[1]) = start /\ Len(P[1]) <= 1 /\ 1 \in 1..Len(P)
      BY <1>2 DEF Last
    <3> QED
      BY <1>1, <2>1, <3>1
  <2>2. CASE n # 1
    <3>1. n - 1 \in 1..l - 1 /\ n - 1 + 1 = n /\ n \in 0..l
      BY <1>1, <2>2
    <3>2. PICK j \in 1..Len(P) : Last(P[j]) = p[n - 1] /\ Len(P[j]) <= n - 1
      BY <1>4, <3>1
    <3>3. p[n] \in After(graph, Last(P[j]))
      BY <1>1, <3>1, <3>2
    <3>4. Len(P[j]) <= depth
      BY <1>1, <1>2, <3>1, <3>2, SMTT(30) DEF l
    <3>5. PICK k \in 1..Len(P) : Last(P[k]) = p[n] /\ Len(P[k]) <= Len(P[j]) + 1
      BY <1>3, <3>3, <3>4 DEF EachFollowed
    <3>6. Len(P[k]) <= n
      <4>1. Len(P[j]) \in Nat /\ Len(P[k]) \in Nat /\ Len(P[j]) <= n - 1 /\ Len(P[k]) <= Len(P[j]) + 1
        BY <1>2, <3>2, <3>5
      <4>2. n \in Nat
        BY <1>1
      <4> QED
        BY <4>1, <4>2
    <3> QED
      BY <3>1, <3>5, <3>6
  <2> QED
    BY <2>1, <2>2
<1>5. led = 0..l
  <2>1. led \in SUBSET (0..l) /\ 0 \in led
    BY <1>1
  <2> HIDE DEF led
  <2> QED
    BY <1>1, <1>4, <2>1, AllNumbers
<1>6. l \in led
  <2> HIDE DEF led
  <2> QED
    BY <1>1, <1>5
<1> QED
  BY <1>1, <1>6 DEF l, P, Last

(* The files that routes of at most so many steps lead to.                  *)
Led(start, graph, depth) == {Last(p) : p \in {p \in Seq(Nat) : IsRoute(p, start, graph) /\ Len(p) <= depth + 1}}

(* What a search answers: a route to each file it found, and of the files   *)
(* that routes lead to all, by none longer, unless there are too many.      *)
Reached(t, start, graph, depth, maximum) ==
  /\ t.paths \in Seq(Seq(Nat)) /\ t.nodes = {Last(t.paths[k]) : k \in 1..Len(t.paths)}
  /\ \A k \in 1..Len(t.paths) : IsRoute(t.paths[k], start, graph) /\ Len(t.paths[k]) <= depth + 1
  /\ \A j, k \in 1..Len(t.paths) : Last(t.paths[j]) = Last(t.paths[k]) => j = k
  /\ t.nodes \in SUBSET Nat /\ IsFiniteSet(t.nodes) /\ Cardinality(t.nodes) \in Nat
  /\ Cardinality(t.nodes) <= Cardinality(DOMAIN graph) + 1
  /\ Cardinality(t.nodes) < maximum =>
       \A p : IsRoute(p, start, graph) /\ Len(p) <= depth + 1 =>
         \E j \in 1..Len(t.paths) : Last(t.paths[j]) = Last(p) /\ Len(t.paths[j]) <= Len(p)

LEMMA TraverseFinds ==
  ASSUME NEW start \in Nat, NEW graph, IsGraph(graph), NEW depth \in Nat, NEW maximum \in Nat \ {0}
  PROVE  Reached(Traverse(start, graph, depth, maximum), start, graph, depth, maximum)
<1> DEFINE t == Traverse(start, graph, depth, maximum)
<1>1. PICK s, q : t = Found(s) /\ Going(s, q, start, graph, depth, maximum) /\ Ended(s, maximum)
  BY SearchEnds
<1> HIDE DEF t
<1>2. t.nodes = s.seen /\ t.paths = s.paths
  BY <1>1 DEF Found
<1>3. /\ s.seen \in SUBSET Nat /\ IsFiniteSet(s.seen) /\ Routed(s.paths, s.seen, start, graph, depth)
  BY <1>1 DEF Going, States
<1>4. Cardinality(s.seen) \in Nat /\ Cardinality(s.seen) <= Cardinality(DOMAIN graph) + 1
  BY <1>3, RoutesAreFew, FS_CardinalityType
<1>5. ASSUME Cardinality(s.seen) < maximum, NEW p, IsRoute(p, start, graph), Len(p) <= depth + 1
      PROVE  \E j \in 1..Len(s.paths) : Last(s.paths[j]) = Last(p) /\ Len(s.paths[j]) <= Len(p)
  <2>1. Cardinality(s.seen) # maximum
    BY <1>4, <1>5
  <2> QED
    BY <1>1, <1>5, <2>1, RoutesAreFound
<1>6. /\ s.paths \in Seq(Seq(Nat)) /\ s.seen = {Last(s.paths[k]) : k \in 1..Len(s.paths)}
      /\ \A k \in 1..Len(s.paths) : IsRoute(s.paths[k], start, graph) /\ Len(s.paths[k]) <= depth + 1
      /\ \A j, k \in 1..Len(s.paths) : Last(s.paths[j]) = Last(s.paths[k]) => j = k
  BY <1>3 DEF Routed
<1>7. Reached(t, start, graph, depth, maximum)
  BY <1>2, <1>3, <1>4, <1>5, <1>6 DEF Reached
<1> QED
  BY <1>7 DEF t

LEMMA TraverseIsWhole ==
  ASSUME NEW start \in Nat, NEW graph, IsGraph(graph), NEW depth \in Nat, NEW maximum \in Nat \ {0},
         NEW t, Reached(t, start, graph, depth, maximum)
  PROVE  /\ t.nodes \in SUBSET Led(start, graph, depth)
         /\ Cardinality(t.nodes) < maximum => t.nodes = Led(start, graph, depth)
<1>1. /\ t.nodes = {Last(t.paths[k]) : k \in 1..Len(t.paths)}
      /\ \A k \in 1..Len(t.paths) : IsRoute(t.paths[k], start, graph) /\ Len(t.paths[k]) <= depth + 1
      /\ Cardinality(t.nodes) < maximum =>
           \A p : IsRoute(p, start, graph) /\ Len(p) <= depth + 1 =>
             \E j \in 1..Len(t.paths) : Last(t.paths[j]) = Last(p)
  BY DEF Reached
<1>2. \A p : IsRoute(p, start, graph) => p \in Seq(Nat)
  BY DEF IsRoute
<1>3. t.nodes \in SUBSET Led(start, graph, depth)
  BY <1>1, <1>2 DEF Led
<1>4. ASSUME Cardinality(t.nodes) < maximum, NEW f \in Led(start, graph, depth) PROVE f \in t.nodes
  <2>1. PICK p : IsRoute(p, start, graph) /\ Len(p) <= depth + 1 /\ f = Last(p)
    BY DEF Led
  <2> QED
    BY <1>1, <1>4, <2>1
<1> QED
  BY <1>3, <1>4

(* What the graph is of a store's files.                                    *)
LEMMA GraphsAre ==
  ASSUME NEW store, store.files \in SUBSET Nat, IsFiniteSet(store.files), NEW r
  PROVE  /\ IsGraph(Forward(store, r)) /\ IsGraph(Backward(store, r))
         /\ FileSet(store, r) \in SUBSET store.files /\ DOMAIN Forward(store, r) = FileSet(store, r)
<1> DEFINE files == FileSet(store, r)
           edges == Edges(store, r)
<1>1. files \in SUBSET store.files /\ files \in SUBSET Nat /\ IsFiniteSet(files)
  <2>1. files \in SUBSET store.files
    BY DEF FileSet
  <2> QED
    BY <2>1, FS_Subset
<1>2. \A e \in edges : e.source \in files /\ e.target \in files
  BY DEF Edges
<1> HIDE DEF files, edges
<1>3. /\ DOMAIN Adjacency(files, edges) = files /\ DOMAIN Reversed(files, edges) = files
      /\ \A n \in files : Adjacency(files, edges)[n] \in SUBSET files /\ Reversed(files, edges)[n] \in SUBSET files
  BY <1>2 DEF Adjacency, Reversed
<1>4. IsGraph(Adjacency(files, edges)) /\ IsGraph(Reversed(files, edges))
  BY <1>1, <1>3 DEF IsGraph
<1> QED
  BY <1>1, <1>3, <1>4 DEF Forward, Backward, files, edges

(* A route from one file to another than which none is shorter.             *)
ShortestOf(route, from, to, graph, hops) ==
  /\ IsRoute(route.path, from, graph) /\ Last(route.path) = to
  /\ Len(route.path) <= hops + 1 /\ route.cost = 100 * (Len(route.path) - 1)
  /\ \A p : IsRoute(p, from, graph) /\ Last(p) = to /\ Len(p) <= hops + 1 => Len(route.path) <= Len(p)

(* A trace that counts steps is a route none is shorter than, and there is  *)
(* none where it finds nothing: as many may be seen as there are.           *)
LEMMA ShortestPathIs ==
  ASSUME NEW from \in Nat, NEW to, NEW graph, IsGraph(graph), NEW hops \in Nat
  PROVE  /\ ShortestPath(from, to, graph, hops) = NoRoute => to \notin Led(from, graph, hops)
         /\ ShortestPath(from, to, graph, hops) # NoRoute => ShortestOf(ShortestPath(from, to, graph, hops), from, to, graph, hops)
<1> DEFINE route == ShortestPath(from, to, graph, hops)
           maximum == Cardinality(DOMAIN graph) + 2
           t == Traverse(from, graph, hops, maximum)
           leading == {k \in DOMAIN t.paths : Last(t.paths[k]) = to}
<1>1. maximum \in Nat \ {0} /\ Cardinality(DOMAIN graph) \in Nat
  BY FS_CardinalityType DEF IsGraph
<1>2. route = IF leading = {} THEN NoRoute ELSE Hops(t.paths[Min(leading)])
  BY DEF ShortestPath
<1> HIDE DEF route
<1> HIDE DEF maximum
<1>3. Reached(t, from, graph, hops, maximum)
  BY <1>1, TraverseFinds
<1> HIDE DEF t
<1>4. /\ t.paths \in Seq(Seq(Nat))
      /\ \A k \in 1..Len(t.paths) : IsRoute(t.paths[k], from, graph) /\ Len(t.paths[k]) <= hops + 1
      /\ \A j, k \in 1..Len(t.paths) : Last(t.paths[j]) = Last(t.paths[k]) => j = k
      /\ Cardinality(t.nodes) \in Nat /\ Cardinality(t.nodes) <= Cardinality(DOMAIN graph) + 1
      /\ Cardinality(t.nodes) < maximum =>
           \A p : IsRoute(p, from, graph) /\ Len(p) <= hops + 1 =>
             \E j \in 1..Len(t.paths) : Last(t.paths[j]) = Last(p) /\ Len(t.paths[j]) <= Len(p)
  BY <1>3 DEF Reached
<1>5. Cardinality(t.nodes) < maximum
  BY <1>1, <1>4 DEF maximum
<1>6. \A p : IsRoute(p, from, graph) /\ Last(p) = to /\ Len(p) <= hops + 1 =>
               \E j \in leading : Len(t.paths[j]) <= Len(p)
  BY <1>4, <1>5
<1>7. leading \in SUBSET (1..Len(t.paths)) /\ \A j, k \in leading : j = k
  <2>1. DOMAIN t.paths = 1..Len(t.paths)
    BY <1>4
  <2>2. \A k \in leading : k \in 1..Len(t.paths) /\ Last(t.paths[k]) = to
    BY <2>1
  <2> HIDE DEF leading
  <2> QED
    BY <1>4, <2>2
<1>8. CASE leading = {}
  <2>1. route = NoRoute
    BY <1>2, <1>8
  <2>2. to \notin Led(from, graph, hops)
    BY <1>6, <1>8 DEF Led
  <2> QED
    BY <2>1, <2>2 DEF route
<1>9. CASE leading # {}
  <2>1. PICK j \in leading : leading = {j}
    BY <1>7, <1>9
  <2> HIDE DEF leading
  <2>2. j \in 1..Len(t.paths) /\ j \in Nat
    BY <1>7
  <2>3. Min(leading) = j
    BY <2>1, <2>2 DEF Min
  <2>4. route = Hops(t.paths[j])
    BY <1>2, <1>9, <2>3
  <2>5. IsRoute(t.paths[j], from, graph) /\ Len(t.paths[j]) <= hops + 1 /\ Last(t.paths[j]) = to
    BY <1>4, <2>2 DEF leading
  <2>6. route.path = t.paths[j] /\ route.cost = 100 * (Len(t.paths[j]) - 1)
    BY <2>4 DEF Hops
  <2>7. route # NoRoute
    <3>1. Len(t.paths[j]) >= 1
      BY <2>5 DEF IsRoute
    <3>2. Len(NoRoute.path) = 0
      BY DEF NoRoute
    <3> QED
      BY <2>6, <3>1, <3>2
  <2>8. \A p : IsRoute(p, from, graph) /\ Last(p) = to /\ Len(p) <= hops + 1 => Len(t.paths[j]) <= Len(p)
    BY <1>6, <2>1
  <2> QED
    BY <2>5, <2>6, <2>7, <2>8 DEF route, ShortestOf
<1> QED
  BY <1>8, <1>9

(* What is chosen is answered whole, unless it is said to be cut short.     *)
LEMMA AnswerIsChosen ==
  ASSUME NEW store, NEW r, NEW s, s = Selected(store, r), "error" \notin DOMAIN s
  PROVE  /\ ExecuteGraph(store, r).nodes = s.nodes /\ ExecuteGraph(store, r).cost = s.cost
         /\ ExecuteGraph(store, r).paths = Prefix(s.paths, Field(r, "limit", 20))
         /\ ~ExecuteGraph(store, r).truncated => ~(Cardinality(s.nodes) >= MaxNodes(r))
<1> DEFINE n == Cardinality(Between(Edges(store, r), s.nodes))
<1>1. ExecuteGraph(store, r) = Capped(store, r, s, n)
  BY DEF ExecuteGraph, Bounded
<1> HIDE DEF n
<1>2. /\ Capped(store, r, s, n).nodes = s.nodes /\ Capped(store, r, s, n).cost = s.cost
      /\ Capped(store, r, s, n).paths = Prefix(s.paths, Field(r, "limit", 20))
      /\ ~Capped(store, r, s, n).truncated => ~(Cardinality(s.nodes) >= MaxNodes(r))
  BY DEF Capped
<1> QED
  BY <1>1, <1>2

(* How far a request goes from its file, and along which of the graphs.     *)
StepsOf(r) == Field(r, "depth", IF r.action = "impact" THEN 3 ELSE IF r.action = "neighbors" THEN 1 ELSE 2)

DirectionOf(r) ==
  IF r.action = "impact" THEN "importers"
  ELSE Field(r, "direction", IF r.action = "neighbors" THEN "both" ELSE "imports")

WaysOf(store, r) ==
  (IF DirectionOf(r) # "importers" THEN {Forward(store, r)} ELSE {})
    \cup (IF DirectionOf(r) # "imports" THEN {Backward(store, r)} ELSE {})

(* The request for what is around a file.                                   *)
AsksAround(store, r) ==
  /\ store.files \in SUBSET Nat /\ IsFiniteSet(store.files)
  /\ r.action \in {"impact", "neighbors", "graph"} /\ (r.action = "impact" => "symbol" \notin DOMAIN r)
  /\ "filePath" \in DOMAIN r /\ r.filePath \in FileSet(store, r)
  /\ DirectionOf(r) \in {"imports", "importers", "both"}
  /\ StepsOf(r) \in Nat /\ MaxNodes(r) \in Nat \ {0}

(* What goes one way is one search, and both ways the first of two.         *)
LEMMA OneWayIs ==
  ASSUME NEW store, NEW r, NEW graph, NEW depth
  PROVE  LET s == OneWay(store, r, graph, depth)
         IN  /\ s.nodes = Traverse(r.filePath, graph, depth, MaxNodes(r)).nodes /\ "error" \notin DOMAIN s
  BY DEF OneWay, WithPaths, Nodes

LEMMA JoinedIs ==
  ASSUME NEW r, NEW out, NEW in
  PROVE  /\ Joined(r, out, in).nodes = First(out.nodes \cup in.nodes, MaxNodes(r))
         /\ "error" \notin DOMAIN Joined(r, out, in)
  BY DEF Joined, Nodes

(* What is chosen around a file.                                            *)
LEMMA AroundIs ==
  ASSUME NEW store, NEW r, AsksAround(store, r)
  PROVE  LET Way(graph) == Traverse(r.filePath, graph, StepsOf(r), MaxNodes(r)).nodes
         IN  /\ "error" \notin DOMAIN Selected(store, r)
             /\ DirectionOf(r) = "imports" => Selected(store, r).nodes = Way(Forward(store, r))
             /\ DirectionOf(r) = "importers" => Selected(store, r).nodes = Way(Backward(store, r))
             /\ DirectionOf(r) = "both" =>
                  Selected(store, r).nodes = First(Way(Forward(store, r)) \cup Way(Backward(store, r)), MaxNodes(r))
<1> DEFINE steps == StepsOf(r)
           F == OneWay(store, r, Forward(store, r), steps)
           B == OneWay(store, r, Backward(store, r), steps)
<1>1. /\ r.action \in {"impact", "neighbors", "graph"} /\ (r.action = "impact" => "symbol" \notin DOMAIN r)
      /\ "filePath" \in DOMAIN r /\ r.filePath \in FileSet(store, r)
      /\ DirectionOf(r) \in {"imports", "importers", "both"}
  BY DEF AsksAround
<1>2. Selected(store, r) = CASE DirectionOf(r) = "imports" -> F
                             [] DirectionOf(r) = "importers" -> B
                             [] DirectionOf(r) = "both" -> Joined(r, F, B)
  <2>1. Both(store, r, steps) = Joined(r, F, B)
    BY DEF Both
  <2> HIDE DEF F, B
  <2>2. CASE r.action = "impact"
    <3>1. Selected(store, r) = Neighbourhood(store, r) /\ DirectionOf(r) = "importers" /\ steps = Field(r, "depth", 3)
      BY <2>2 DEF Selected, DirectionOf, StepsOf
    <3>2. Neighbourhood(store, r) = B
      BY <1>1, <2>2, <3>1 DEF Neighbourhood, B
    <3> QED
      BY <3>1, <3>2
  <2>3. CASE r.action = "neighbors"
    <3>1. Selected(store, r) = Neighbourhood(store, r) /\ DirectionOf(r) = Field(r, "direction", "both")
          /\ steps = Field(r, "depth", 1)
      BY <2>3 DEF Selected, DirectionOf, StepsOf
    <3>2. DirectionOf(r) = "imports" => Neighbourhood(store, r) = F
      BY <1>1, <2>3, <3>1 DEF Neighbourhood, F
    <3>3. DirectionOf(r) = "importers" => Neighbourhood(store, r) = B
      BY <1>1, <2>3, <3>1 DEF Neighbourhood, B
    <3>4. DirectionOf(r) = "both" => Neighbourhood(store, r) = Both(store, r, steps)
      BY <1>1, <2>3, <3>1 DEF Neighbourhood
    <3> QED
      BY <1>1, <2>1, <3>1, <3>2, <3>3, <3>4
  <2>4. CASE r.action = "graph"
    <3>1. Selected(store, r) = WholeGraph(store, r) /\ DirectionOf(r) = Field(r, "direction", "imports")
          /\ steps = Field(r, "depth", 2)
      BY <2>4 DEF Selected, DirectionOf, StepsOf
    <3>2. DirectionOf(r) = "imports" => WholeGraph(store, r) = F
      BY <1>1, <3>1 DEF WholeGraph, F
    <3>3. DirectionOf(r) = "importers" => WholeGraph(store, r) = B
      BY <1>1, <3>1 DEF WholeGraph, B
    <3>4. DirectionOf(r) = "both" => WholeGraph(store, r) = Both(store, r, steps)
      BY <1>1, <3>1 DEF WholeGraph
    <3> QED
      BY <1>1, <2>1, <3>1, <3>2, <3>3, <3>4
  <2> QED
    BY <1>1, <2>2, <2>3, <2>4
<1>3. /\ F.nodes = Traverse(r.filePath, Forward(store, r), steps, MaxNodes(r)).nodes /\ "error" \notin DOMAIN F
      /\ B.nodes = Traverse(r.filePath, Backward(store, r), steps, MaxNodes(r)).nodes /\ "error" \notin DOMAIN B
  BY OneWayIs
<1> HIDE DEF F, B
<1>4. /\ Joined(r, F, B).nodes = First(F.nodes \cup B.nodes, MaxNodes(r))
      /\ "error" \notin DOMAIN Joined(r, F, B)
  BY JoinedIs
<1> HIDE DEF steps
<1>5. DirectionOf(r) = "imports" => Selected(store, r) = F
  BY <1>2
<1>6. DirectionOf(r) = "importers" => Selected(store, r) = B
  BY <1>2
<1>7. DirectionOf(r) = "both" => Selected(store, r) = Joined(r, F, B)
  BY <1>2
<1> QED
  BY <1>1, <1>3, <1>4, <1>5, <1>6, <1>7 DEF steps

(* An answer that is not said to be cut short has every file that is around *)
(* the one asked for, and none has another: neither the walk, which stops   *)
(* when it has seen enough, nor the cut after two walks hides a file that   *)
(* an edge leads to (traverse and executeGraph of retrieval/engine.ts).     *)
THEOREM AroundIsWhole ==
  ASSUME NEW store, NEW r, AsksAround(store, r)
  PROVE  LET around == UNION {Led(r.filePath, graph, StepsOf(r)) : graph \in WaysOf(store, r)}
             result == ExecuteGraph(store, r)
         IN  result.nodes \in SUBSET around /\ (~result.truncated => result.nodes = around)
<1> DEFINE f == r.filePath
           steps == StepsOf(r)
           most == MaxNodes(r)
           out == Traverse(f, Forward(store, r), steps, most)
           in == Traverse(f, Backward(store, r), steps, most)
           s == Selected(store, r)
           outs == Led(f, Forward(store, r), steps)
           ins == Led(f, Backward(store, r), steps)
           around == UNION {Led(f, graph, steps) : graph \in WaysOf(store, r)}
<1>1. /\ store.files \in SUBSET Nat /\ IsFiniteSet(store.files) /\ f \in FileSet(store, r)
      /\ DirectionOf(r) \in {"imports", "importers", "both"} /\ steps \in Nat /\ most \in Nat \ {0}
  BY DEF AsksAround
<1>2. IsGraph(Forward(store, r)) /\ IsGraph(Backward(store, r)) /\ f \in Nat
  BY <1>1, GraphsAre
<1>3. /\ "error" \notin DOMAIN s
      /\ DirectionOf(r) = "imports" => s.nodes = out.nodes
      /\ DirectionOf(r) = "importers" => s.nodes = in.nodes
      /\ DirectionOf(r) = "both" => s.nodes = First(out.nodes \cup in.nodes, most)
  BY AroundIs
<1>4. /\ DirectionOf(r) = "imports" => around = outs
      /\ DirectionOf(r) = "importers" => around = ins
      /\ DirectionOf(r) = "both" => around = outs \cup ins
  BY DEF WaysOf
<1> HIDE DEF f, steps, most, s, around
<1>5. Reached(out, f, Forward(store, r), steps, most) /\ Reached(in, f, Backward(store, r), steps, most)
  BY <1>1, <1>2, TraverseFinds
<1> HIDE DEF out, in
<1>6. /\ out.nodes \in SUBSET outs /\ (Cardinality(out.nodes) < most => out.nodes = outs)
      /\ in.nodes \in SUBSET ins /\ (Cardinality(in.nodes) < most => in.nodes = ins)
  BY <1>1, <1>2, <1>5, TraverseIsWhole
<1>7. /\ out.nodes \in SUBSET Nat /\ IsFiniteSet(out.nodes) /\ Cardinality(out.nodes) \in Nat
      /\ in.nodes \in SUBSET Nat /\ IsFiniteSet(in.nodes) /\ Cardinality(in.nodes) \in Nat
  BY <1>5 DEF Reached
<1> HIDE DEF outs, ins
<1>8. s.nodes \in SUBSET around /\ (~(Cardinality(s.nodes) >= most) => s.nodes = around)
  <2>1. CASE DirectionOf(r) = "imports"
    BY <1>1, <1>3, <1>4, <1>6, <1>7, <2>1
  <2>2. CASE DirectionOf(r) = "importers"
    BY <1>1, <1>3, <1>4, <1>6, <1>7, <2>2
  <2>3. CASE DirectionOf(r) = "both"
    <3> DEFINE U == out.nodes \cup in.nodes
               V == First(U, most)
    <3>1. U \in SUBSET Nat /\ IsFiniteSet(U)
      BY <1>7, FS_Union
    <3> HIDE DEF U
    <3>2. V \in SUBSET U /\ Cardinality(V) \in Nat /\ (V # U => Cardinality(V) = most)
      BY <1>1, <3>1, FirstAre
    <3>3. s.nodes = V /\ around = outs \cup ins
      BY <1>3, <1>4, <2>3 DEF U
    <3> HIDE DEF V
    <3>4. s.nodes \in SUBSET around
      BY <1>6, <3>2, <3>3 DEF U
    <3>5. ASSUME ~(Cardinality(s.nodes) >= most) PROVE s.nodes = around
      <4>1. V = U /\ Cardinality(U) < most /\ Cardinality(U) \in Nat
        BY <1>1, <3>2, <3>3, <3>5
      <4>2. Cardinality(out.nodes) <= Cardinality(U) /\ Cardinality(in.nodes) <= Cardinality(U)
        <5>1. out.nodes \in SUBSET U /\ in.nodes \in SUBSET U
          BY DEF U
        <5> QED
          BY <3>1, <5>1, FS_Subset
      <4>3. Cardinality(out.nodes) < most /\ Cardinality(in.nodes) < most
        BY <1>1, <1>7, <4>1, <4>2
      <4> QED
        BY <1>6, <3>3, <4>1, <4>3 DEF U
    <3> QED
      BY <3>4, <3>5
  <2> QED
    BY <1>1, <2>1, <2>2, <2>3
<1>9. ExecuteGraph(store, r).nodes = s.nodes /\ (~ExecuteGraph(store, r).truncated => ~(Cardinality(s.nodes) >= most))
  BY <1>3, AnswerIsChosen DEF s, most
<1> QED
  BY <1>8, <1>9 DEF around, f, steps

(* The request for the users of a symbol: every file that refers to it, and *)
(* what depends on one of them within a step less.                          *)
AsksSymbol(store, r) ==
  /\ store.files \in SUBSET Nat /\ IsFiniteSet(store.files)
  /\ IsFiniteSet(store.references) /\ \A e \in store.references : e.source \in Nat
  /\ r.action = "impact" /\ "symbol" \in DOMAIN r /\ r.filePath \in FileSet(store, r)
  /\ StepsOf(r) \in Nat /\ MaxNodes(r) \in Nat \ {0}

SymbolsOf(store, r) == {x \in store.symbols : x.file = r.filePath /\ x.name = r.symbol}

UsersOf(store, r) ==
  LET symbol == CHOOSE x \in SymbolsOf(store, r) : TRUE
  IN  {e.source : e \in {e \in store.references : e.symbol = symbol.id}}

LeftOf(r) == IF StepsOf(r) = 0 THEN 0 ELSE StepsOf(r) - 1

(* The impact of a symbol has each of its users and all that depends on one *)
(* of them, when it is not said to be cut short: a walk that stopped early  *)
(* for one user is not covered up by joining it with the others'            *)
(* (executeGraph of retrieval/engine.ts).                                   *)
THEOREM SymbolImpactIsWhole ==
  ASSUME NEW store, NEW r, AsksSymbol(store, r), SymbolsOf(store, r) # {}
  PROVE  LET around == {r.filePath} \cup UNION {Led(i, Backward(store, r), LeftOf(r)) : i \in UsersOf(store, r)}
             result == ExecuteGraph(store, r)
         IN  result.nodes \in SUBSET around /\ (~result.truncated => result.nodes = around)
<1> DEFINE f == r.filePath
           graph == Backward(store, r)
           left == LeftOf(r)
           most == MaxNodes(r)
           users == UsersOf(store, r)
           From(i) == Traverse(i, graph, left, most)
           U == {f} \cup UNION {From(i).nodes : i \in users}
           s == Selected(store, r)
           around == {f} \cup UNION {Led(i, graph, left) : i \in users}
<1>1. /\ store.files \in SUBSET Nat /\ IsFiniteSet(store.files) /\ f \in FileSet(store, r) /\ most \in Nat \ {0}
      /\ r.action = "impact" /\ "symbol" \in DOMAIN r /\ StepsOf(r) \in Nat
  BY DEF AsksSymbol
<1>2. left \in Nat
  BY <1>1 DEF LeftOf
<1>3. IsGraph(graph) /\ f \in Nat
  BY <1>1, GraphsAre
<1>4. users \in SUBSET Nat /\ IsFiniteSet(users)
  <2> DEFINE symbol == CHOOSE x \in SymbolsOf(store, r) : TRUE
             some == {e \in store.references : e.symbol = symbol.id}
  <2>1. users = {e.source : e \in some}
    BY DEF UsersOf
  <2>2. IsFiniteSet(some) /\ \A e \in some : e.source \in Nat
    BY FS_Subset DEF AsksSymbol
  <2> HIDE DEF some
  <2>3. users \in SUBSET Nat
    BY <2>1, <2>2
  <2> DEFINE g == [e \in some |-> e.source]
  <2>4. IsFiniteSet({g[e] : e \in some})
    BY <2>2, ImageIsFinite
  <2>5. {g[e] : e \in some} = {e.source : e \in some}
    OBVIOUS
  <2> QED
    BY <2>1, <2>3, <2>4, <2>5
<1>5. s.nodes = First(U, most) /\ "error" \notin DOMAIN s
  <2>1. s = Neighbourhood(store, r)
    BY <1>1 DEF Selected
  <2>2. Neighbourhood(store, r) = ImpactOfSymbol(store, r)
    BY <1>1 DEF Neighbourhood
  <2>3. StepsOf(r) = Field(r, "depth", 3)
    BY <1>1 DEF StepsOf
  <2>4. ImpactOfSymbol(store, r).nodes = First(U, most) /\ "error" \notin DOMAIN ImpactOfSymbol(store, r)
    BY <2>3 DEF ImpactOfSymbol, SymbolsOf, UsersOf, LeftOf, Nodes
  <2> QED
    BY <2>1, <2>2, <2>4
<1> HIDE DEF f, graph, left, most, users, s
<1>6. ASSUME NEW i \in users
      PROVE  /\ From(i).nodes \in SUBSET Led(i, graph, left)
             /\ Cardinality(From(i).nodes) < most => From(i).nodes = Led(i, graph, left)
             /\ From(i).nodes \in SUBSET Nat /\ IsFiniteSet(From(i).nodes) /\ Cardinality(From(i).nodes) \in Nat
  <2>1. i \in Nat
    BY <1>4
  <2>2. Reached(From(i), i, graph, left, most)
    BY <1>1, <1>2, <1>3, <2>1, TraverseFinds
  <2> HIDE DEF From
  <2>3. /\ From(i).nodes \in SUBSET Led(i, graph, left)
        /\ Cardinality(From(i).nodes) < most => From(i).nodes = Led(i, graph, left)
    BY <1>1, <1>2, <1>3, <2>1, <2>2, TraverseIsWhole
  <2> QED
    BY <2>2, <2>3 DEF Reached
<1> HIDE DEF From
<1>7. U \in SUBSET Nat /\ IsFiniteSet(U)
  <2> DEFINE all == {From(i).nodes : i \in users}
             g == [i \in users |-> From(i).nodes]
  <2>1. IsFiniteSet(all)
    <3>1. IsFiniteSet({g[i] : i \in users})
      BY <1>4, ImageIsFinite
    <3>2. {g[i] : i \in users} = all
      OBVIOUS
    <3> QED
      BY <3>1, <3>2
  <2>2. \A T \in all : IsFiniteSet(T) /\ T \in SUBSET Nat
    BY <1>6
  <2> HIDE DEF all
  <2>3. IsFiniteSet(UNION all) /\ UNION all \in SUBSET Nat
    BY <2>1, <2>2, FS_UNION
  <2>4. IsFiniteSet({f})
    BY FS_Singleton
  <2>5. IsFiniteSet({f} \cup UNION all) /\ {f} \cup UNION all \in SUBSET Nat
    BY <1>3, <2>3, <2>4, FS_Union
  <2> QED
    BY <2>5 DEF all
<1> DEFINE V == First(U, most)
<1>8. V \in SUBSET U /\ Cardinality(V) \in Nat /\ (V # U => Cardinality(V) = most)
  <2> HIDE DEF U
  <2> QED
    BY <1>1, <1>7, FirstAre
<1>9. s.nodes = V
  BY <1>5
<1> HIDE DEF V
<1>10. s.nodes \in SUBSET around
  <2>1. U \in SUBSET around
    BY <1>6
  <2> QED
    BY <1>8, <1>9, <2>1
<1>11. ASSUME ~(Cardinality(s.nodes) >= most) PROVE s.nodes = around
  <2>1. V = U /\ Cardinality(U) < most /\ Cardinality(U) \in Nat
    <3> HIDE DEF U
    <3> QED
      BY <1>1, <1>8, <1>9, <1>11
  <2>2. ASSUME NEW i \in users PROVE From(i).nodes = Led(i, graph, left)
    <3>1. From(i).nodes \in SUBSET U
      OBVIOUS
    <3> HIDE DEF U
    <3>2. Cardinality(From(i).nodes) <= Cardinality(U)
      BY <1>7, <3>1, FS_Subset
    <3>3. Cardinality(From(i).nodes) < most
      BY <1>1, <1>6, <2>1, <3>2
    <3> QED
      BY <1>6, <3>3
  <2>3. U = around
    BY <2>2
  <2> QED
    BY <1>9, <2>1, <2>3
<1>12. ExecuteGraph(store, r).nodes = s.nodes /\ (~ExecuteGraph(store, r).truncated => ~(Cardinality(s.nodes) >= most))
  BY <1>5, AnswerIsChosen DEF s, most
<1> HIDE DEF around
<1>13. ExecuteGraph(store, r).nodes \in SUBSET around /\ (~ExecuteGraph(store, r).truncated => ExecuteGraph(store, r).nodes = around)
  BY <1>10, <1>11, <1>12
<1> QED
  BY <1>13 DEF around, f, graph, left, users

(* A trace between two files that counts steps is a route from the one to   *)
(* the other within the steps allowed, none is shorter, and where it has no *)
(* route there is none (shortestPath of retrieval/engine.ts).               *)
THEOREM TraceIsShortest ==
  ASSUME NEW store, store.files \in SUBSET Nat, IsFiniteSet(store.files),
         NEW r, r.action = "trace", "fromSymbol" \notin DOMAIN r, r.from \in Nat,
         Field(r, "weighted", FALSE) = FALSE, Field(r, "maxHops", 8) \in Nat, Field(r, "limit", 20) \in Nat \ {0}
  PROVE  LET hops == Field(r, "maxHops", 8)
             result == ExecuteGraph(store, r)
         IN  /\ result.paths = <<>> => r.to \notin Led(r.from, Forward(store, r), hops)
             /\ result.paths # <<>> =>
                  /\ Len(result.paths) = 1 /\ IsRoute(result.paths[1], r.from, Forward(store, r))
                  /\ Last(result.paths[1]) = r.to /\ Len(result.paths[1]) <= hops + 1
                  /\ result.cost = 100 * (Len(result.paths[1]) - 1)
                  /\ \A p : IsRoute(p, r.from, Forward(store, r)) /\ Last(p) = r.to /\ Len(p) <= hops + 1
                            => Len(result.paths[1]) <= Len(p)
<1> DEFINE graph == Forward(store, r)
           hops == Field(r, "maxHops", 8)
           limit == Field(r, "limit", 20)
           route == ShortestPath(r.from, r.to, graph, hops)
           s == Selected(store, r)
           result == ExecuteGraph(store, r)
<1>1. IsGraph(graph) /\ hops \in Nat /\ r.from \in Nat
  BY GraphsAre
<1>2. /\ s.paths = IF route = NoRoute THEN <<>> ELSE <<route.path>>
      /\ s.cost = route.cost /\ "error" \notin DOMAIN s
  <2>1. s = Trace(store, r)
    BY DEF Selected
  <2>2. /\ Trace(store, r).paths = IF route = NoRoute THEN <<>> ELSE <<route.path>>
        /\ Trace(store, r).cost = route.cost /\ "error" \notin DOMAIN Trace(store, r)
    BY DEF Trace, Nodes
  <2> QED
    BY <2>1, <2>2
<1>3. result.paths = Prefix(s.paths, limit) /\ result.cost = s.cost
  BY <1>2, AnswerIsChosen
<1>4. limit \in Nat /\ limit >= 1
  OBVIOUS
<1> HIDE DEF graph, hops, limit, s, result
<1>5. /\ route = NoRoute => r.to \notin Led(r.from, graph, hops)
      /\ route # NoRoute => ShortestOf(route, r.from, r.to, graph, hops)
  BY <1>1, ShortestPathIs
<1> HIDE DEF route
<1>6. CASE route = NoRoute
  <2>1. s.paths = <<>>
    BY <1>2, <1>6
  <2>2. Prefix(<<>>, limit) = <<>>
    BY <1>4 DEF Prefix, Minimum
  <2>3. result.paths = <<>>
    BY <1>3, <2>1, <2>2
  <2> QED
    BY <1>5, <1>6, <2>3 DEF graph, hops, result
<1>7. CASE route # NoRoute
  <2>1. s.paths = <<route.path>> /\ s.cost = route.cost
    BY <1>2, <1>7
  <2>2. Prefix(<<route.path>>, limit) = <<route.path>>
    <3>1. Len(<<route.path>>) = 1 /\ Minimum(1, limit) = 1
      BY <1>4 DEF Minimum
    <3>2. SubSeq(<<route.path>>, 1, 1) = <<route.path>>
      <4> DEFINE p == route.path
                 t == SubSeq(<<p>>, 1, 1)
      <4>1. t = [i \in 1..1 |-> <<p>>[i]]
        OBVIOUS
      <4>2. <<p>> = [i \in 1..1 |-> p]
        OBVIOUS
      <4>3. \A i \in 1..1 : <<p>>[i] = p
        OBVIOUS
      <4> QED
        BY <4>1, <4>2, <4>3
    <3> QED
      BY <3>1, <3>2 DEF Prefix
  <2>3. result.paths = <<route.path>> /\ result.cost = route.cost
    BY <1>3, <2>1, <2>2
  <2>4. result.paths # <<>> /\ Len(result.paths) = 1 /\ result.paths[1] = route.path
    BY <2>3
  <2> QED
    BY <1>5, <1>7, <2>3, <2>4 DEF graph, hops, result, ShortestOf
<1> QED
  BY <1>6, <1>7
=============================================================================
