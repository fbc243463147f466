---------------------------- MODULE StoreContract ----------------------------
(***************************************************************************)
(* What an AtlasStore promises its callers, whatever happens to the worker *)
(* behind it (ARCHITECTURE.md, "Atomic commands" and "Worker failure and   *)
(* recovery"; AtlasStore.execute in src/persistence/types.ts).             *)
(*                                                                         *)
(* A call is settled once: acknowledged, refused or unknown.  An           *)
(* acknowledged write is in the database.  A refused write is not, and     *)
(* never will be.  Only a call whose outcome is unknown may still take     *)
(* effect after it is settled.  Of the writes that share an idempotency    *)
(* key at most one takes effect; its retries are acknowledged from it.     *)
(***************************************************************************)
CONSTANTS
  Requests,
  Writes,            \* requests that change the database
  Gradual,           \* writes that become durable in several steps
  Key, Intent, NoKey

VARIABLES
  stage,             \* where the caller's promise is
  effect             \* what the request has left in the database

vars == <<stage, effect>>

Verdicts == {"acknowledged", "refused", "unknown"}
Stages == {"idle", "pending"} \cup Verdicts
Effects == {"none", "partial", "done"}

SameKey(r, s) == Key[r] # NoKey /\ Key[r] = Key[s]
Replays(r, s) == SameKey(r, s) /\ Intent[r] = Intent[s]

Init ==
  /\ stage = [r \in Requests |-> "idle"]
  /\ effect = [r \in Requests |-> "none"]

\* The store accepts a call.
Submit(r) ==
  /\ stage[r] = "idle"
  /\ stage' = [stage EXCEPT ![r] = "pending"]
  /\ UNCHANGED effect

\* A call that is pending, or whose caller has been told that the outcome is
\* unknown, takes effect.
Begin(r) ==
  /\ r \in Gradual
  /\ stage[r] \in {"pending", "unknown"}
  /\ effect[r] = "none"
  /\ effect' = [effect EXCEPT ![r] = "partial"]
  /\ UNCHANGED stage

Apply(r) ==
  /\ r \in Writes
  /\ stage[r] \in {"pending", "unknown"}
  /\ effect[r] # "done"
  /\ \A s \in Requests : SameKey(r, s) => effect[s] # "done"
  /\ effect' = [effect EXCEPT ![r] = "done"]
  /\ UNCHANGED stage

\* When a verdict on r may be given.
Justified(r, verdict) ==
  CASE verdict = "acknowledged" ->
         /\ stage[r] = "pending"
         /\ r \in Writes => \E s \in Requests : effect[s] = "done" /\ (s = r \/ Replays(r, s))
    [] verdict = "refused" ->
         /\ stage[r] \in {"idle", "pending"}
         /\ r \in Writes \ Gradual => effect[r] = "none"
    [] verdict = "unknown" -> stage[r] = "pending"

\* Some calls are settled at once: one, or all that are pending when the
\* store closes or fails.
Conclude ==
  \E S \in (SUBSET {r \in Requests : stage[r] \in {"idle", "pending"}}) \ {{}} :
    \E verdict \in [S -> Verdicts] :
      /\ \A r \in S : Justified(r, verdict[r])
      /\ stage' = [r \in Requests |-> IF r \in S THEN verdict[r] ELSE stage[r]]
      /\ UNCHANGED effect

Next == Conclude \/ \E r \in Requests : Submit(r) \/ Begin(r) \/ Apply(r)

Spec == Init /\ [][Next]_vars

-------------------------------------------------------------------------------
\* What a caller may rely on whatever it was told: an acknowledged write is in
\* the database (or the one it repeats is), a refused one has left nothing, and
\* of the writes that share an idempotency key at most one took effect.
Promises ==
  /\ \A r \in Writes : stage[r] = "acknowledged" =>
        \E s \in Requests : effect[s] = "done" /\ (s = r \/ Replays(r, s))
  /\ \A r \in Writes \ Gradual : stage[r] = "refused" => effect[r] = "none"
  /\ \A r, s \in Requests :
        SameKey(r, s) /\ effect[r] = "done" /\ effect[s] = "done" => r = s
===============================================================================
