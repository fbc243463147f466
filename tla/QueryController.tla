-------------------------- MODULE QueryController --------------------------
(* AtlasQueryController (core/queryControl.ts): the budget one request may *)
(* spend, its deadline, and the loads it shares.  A load is numbered; it   *)
(* is pending, or has succeeded or failed.                                 *)
EXTENDS QueryControl, SequencesExt

CONSTANTS Keys,          \* what the request loads
          Args,          \* the sets of control arguments it may have
          CacheEntries,  \* MAX_REQUEST_CACHE_ENTRIES
          Snapshots,     \* MAX_PROGRESS_SNAPSHOTS
          YieldInterval, \* YIELD_INTERVAL_UNITS
          MaxLoads       \* bound: calls of cached

ControllerAssumption ==
  /\ CacheEntries \in Nat \ {0} /\ Snapshots \in Nat /\ YieldInterval \in Nat \ {0}
  /\ \A args \in Args : \A name \in DOMAIN args : args[name] \in Int

VARIABLES plan, late, units, yieldedAt, yielding, reason, progress, cache, loads, hits, misses

controlVars == <<plan, late, units, yieldedAt, yielding, reason, progress, cache, loads, hits, misses>>

Stages == {"scan_nodes", "edge_scan"}

ControlInit ==
  /\ \E args \in Args : ~PlanConflicts(args) /\ plan = PlanQuery("search", args)
  /\ late = FALSE /\ units = 0 /\ yieldedAt = 0 /\ yielding = FALSE
  /\ reason = "none" /\ progress = <<>>
  /\ cache = <<>> /\ loads = <<>> /\ hits = 0 /\ misses = 0

UnitCost(stage) == IF stage = "edge_scan" THEN plan.cost.edge ELSE plan.cost.node

Observed(stage) ==
  IF Len(progress) < Snapshots /\ (progress = <<>> \/ Last(progress) # stage) THEN Append(progress, stage) ELSE progress

(* The deadline is only looked at when the budget allows the work.         *)
Verdict(spent) ==
  IF spent > plan.work THEN "work_budget_exhausted" ELSE IF late THEN "deadline_exceeded" ELSE "none"

(* checkpoint: work that would go beyond the budget is not counted.        *)
Checkpoint(stage, n) ==
  LET spent == units + n * UnitCost(stage)
  IN  /\ reason = "none"
      /\ reason' = Verdict(spent)
      /\ units' = IF Verdict(spent) = "work_budget_exhausted" THEN units ELSE spent
      /\ progress' = Observed(stage)

(* cooperate: once enough has been spent since the last time, the event    *)
(* loop gets a turn, and then the deadline is looked at again.             *)
Cooperate(stage, n) ==
  /\ ~yielding
  /\ Checkpoint(stage, n)
  /\ yielding' = (reason' = "none" /\ units' - yieldedAt >= YieldInterval)
  /\ yieldedAt' = IF yielding' THEN units' ELSE yieldedAt
  /\ UNCHANGED <<plan, late, cache, loads, hits, misses>>

Resume(stage) ==
  /\ yielding
  /\ yielding' = FALSE
  /\ IF reason = "none" THEN Checkpoint(stage, 0) ELSE UNCHANGED <<reason, units, progress>>
  /\ UNCHANGED <<plan, late, yieldedAt, cache, loads, hits, misses>>

Cancel(stage) ==
  /\ reason = "none"
  /\ reason' = "work_budget_exhausted"
  /\ progress' = IF Len(progress) < Snapshots THEN Append(progress, stage) ELSE progress
  /\ UNCHANGED <<plan, late, units, yieldedAt, yielding, cache, loads, hits, misses>>

(* The deadline passes.                                                    *)
TimeUp ==
  /\ ~late
  /\ late' = TRUE
  /\ UNCHANGED <<plan, units, yieldedAt, yielding, reason, progress, cache, loads, hits, misses>>

(* cached: the cache keeps the promise of a load, pending or not, and the  *)
(* oldest one goes when it is full.                                        *)
CachedKeys == {entry.key : entry \in Range(cache)}

Hit(key) ==
  /\ key \in CachedKeys /\ hits + misses < MaxLoads
  /\ hits' = hits + 1
  /\ UNCHANGED <<plan, late, units, yieldedAt, yielding, reason, progress, cache, loads, misses>>

Miss(key) ==
  /\ key \notin CachedKeys /\ hits + misses < MaxLoads
  /\ misses' = misses + 1
  /\ loads' = Append(loads, [key |-> key, status |-> "pending"])
  /\ cache' = Append(IF Len(cache) >= CacheEntries THEN Tail(cache) ELSE cache,
                     [key |-> key, load |-> Len(loads) + 1])
  /\ UNCHANGED <<plan, late, units, yieldedAt, yielding, reason, progress, hits>>

LoadSucceeds(i) ==
  /\ loads[i].status = "pending"
  /\ loads' = [loads EXCEPT ![i].status = "done"]
  /\ UNCHANGED <<plan, late, units, yieldedAt, yielding, reason, progress, cache, hits, misses>>

(* A failed load takes the entry of its key with it, whichever load the    *)
(* entry is of by now.                                                     *)
MutantForget(key) == cache

Forget(key) ==
  IF key \in CachedKeys THEN RemoveAt(cache, CHOOSE n \in DOMAIN cache : cache[n].key = key) ELSE cache

LoadFails(i) ==
  /\ loads[i].status = "pending"
  /\ loads' = [loads EXCEPT ![i].status = "failed"]
  /\ cache' = Forget(loads[i].key)
  /\ UNCHANGED <<plan, late, units, yieldedAt, yielding, reason, progress, hits, misses>>

(* snapshot: one more checkpoint, and the answer is complete unless it, or *)
(* one before it, has cancelled the request.                               *)
Snapshot ==
  /\ ~yielding
  /\ Checkpoint("complete", 0)
  /\ UNCHANGED <<plan, late, yieldedAt, yielding, cache, loads, hits, misses>>

ControlNext ==
  \/ \E stage \in Stages, n \in 1..2 : Cooperate(stage, n)
  \/ \E stage \in Stages : Resume(stage) \/ Cancel(stage)
  \/ TimeUp \/ Snapshot
  \/ \E key \in Keys : Hit(key) \/ Miss(key)
  \/ \E i \in DOMAIN loads : LoadSucceeds(i) \/ LoadFails(i)

ControlSpec == ControlInit /\ [][ControlNext]_controlVars

-----------------------------------------------------------------------------
(* A request never spends more than its plan, which is no more than it was *)
(* asked for; and what it remembers of its loads is one load of a key, and *)
(* not one that has failed.                                                *)
ControlSound ==
  /\ units <= plan.work /\ plan.planned <= plan.work
  /\ Len(progress) <= Snapshots /\ Len(cache) <= CacheEntries
  /\ \A n \in DOMAIN cache : loads[cache[n].load].status # "failed"
  /\ \A n, m \in DOMAIN cache : cache[n].key = cache[m].key => n = m
=============================================================================
