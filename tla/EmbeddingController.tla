------------------------ MODULE EmbeddingController ------------------------
(* AtlasEmbeddingController (embedding/controller.ts): a list of texts is  *)
(* cut into batches, a few workers take them in turn, and whatever the     *)
(* provider answers is checked before it is believed.  An item is its      *)
(* number; Bytes gives the length of its text.                             *)
EXTENDS Integers, Sequences, FiniteSets, SequencesExt

CONSTANTS Items, Bytes,                 \* the items of the request, in a sequence
          MaxBatchItems, MaxItemBytes, MaxBatchBytes, MaxConcurrentBatches,
          Lexical, Dense                \* a lexical ranking and the dense ones a search may answer

VARIABLES embedClosed, aborted, identity, cursor, workers, outputs, course, calls, ranking

embedVars == <<embedClosed, aborted, identity, cursor, workers, outputs, course, calls, ranking>>

ItemSet == Range(Items)

ASSUME EmbeddingAssumption ==
  /\ Items \in Seq(ItemSet) /\ Bytes \in [ItemSet -> Nat]
  /\ {MaxBatchItems, MaxItemBytes, MaxBatchBytes, MaxConcurrentBatches} \subseteq Nat \ {0}
  /\ MaxItemBytes <= MaxBatchBytes
  /\ \A list \in {Lexical} \cup Dense : list \in Seq(Range(list))

(* splitBatches, which the limits bind only once a batch has an item: what  *)
(* it has made of the first n items.                                        *)
Full(batch, bytes, item) ==
  batch # <<>> /\ (Len(batch) >= MaxBatchItems \/ bytes + Bytes[item] > MaxBatchBytes)

Put(s, item) ==
  IF Full(s.current, s.bytes, item)
  THEN [done |-> Append(s.done, s.current), current |-> <<item>>, bytes |-> Bytes[item]]
  ELSE [s EXCEPT !.current = Append(@, item), !.bytes = @ + Bytes[item]]

Split[n \in 0..Len(Items)] ==
  IF n = 0 THEN [done |-> <<>>, current |-> <<>>, bytes |-> 0] ELSE Put(Split[n - 1], Items[n])

Batches ==
  LET s == Split[Len(Items)]
  IN  IF s.current = <<>> THEN s.done ELSE Append(s.done, s.current)

Workers == 1..(IF MaxConcurrentBatches < Len(Batches) THEN MaxConcurrentBatches ELSE Len(Batches))

Idle == 0
None == [none |-> TRUE]

EmbedInit ==
  /\ embedClosed = FALSE /\ aborted = FALSE /\ identity = "current"
  /\ cursor = 1 /\ workers = [w \in Workers |-> Idle]
  /\ outputs = [i \in ItemSet |-> None]
  /\ course = "new" /\ calls = <<>> /\ ranking = [items |-> Lexical, dense |-> <<>>]

(* embed: what is wrong with the request is found before the provider is   *)
(* asked, and the workers have all begun when it returns its promise.      *)
ValidInput == \A i \in ItemSet : Bytes[i] <= MaxItemBytes
Distinct == IsInjective(Items)

Embed ==
  /\ course = "new"
  /\ IF embedClosed \/ aborted \/ identity # "current" \/ ~ValidInput \/ ~Distinct
     THEN course' = "rejected" /\ UNCHANGED <<cursor, workers, calls>>
     ELSE /\ workers' = [w \in Workers |-> w]
          /\ cursor' = Cardinality(Workers) + 1
          /\ calls' = [w \in Workers |-> w]
          /\ course' = IF Workers = {} THEN "resolved" ELSE "pending"
  /\ UNCHANGED <<embedClosed, aborted, identity, outputs, ranking>>

(* What the provider may answer to a batch: an identity and the items it   *)
(* has, each with a vector, a vector that is not valid, or an error.       *)
Expected(w) == Range(Batches[workers[w]])

MutantAccepts(w, answer) ==
  /\ answer.identity = "current"
  /\ \A o \in answer.items : o.id \in Expected(w) /\ outputs[o.id] = None /\ o.value # "invalid"
  /\ \A o, p \in answer.items : o.id = p.id => o = p

Accepts(w, answer) ==
  /\ answer.identity = "current"
  /\ \A o \in answer.items : o.id \in Expected(w) /\ outputs[o.id] = None /\ o.value # "invalid"
  /\ \A o, p \in answer.items : o.id = p.id => o = p
  /\ \A i \in Expected(w) : \E o \in answer.items : o.id = i

Filled(w, answer) ==
  [i \in ItemSet |-> IF \E o \in answer.items : o.id = i
                     THEN [value |-> (CHOOSE o \in answer.items : o.id = i).value, batch |-> workers[w]]
                     ELSE outputs[i]]

(* The worker has its answer and goes on to the next batch, or has none    *)
(* left.  Promise.all settles with the first worker that fails; the others *)
(* do not know.                                                            *)
Fail(w) ==
  /\ workers' = [workers EXCEPT ![w] = Idle]
  /\ course' = IF course = "pending" THEN "rejected" ELSE course
  /\ UNCHANGED <<cursor, calls>>

Proceed(w) ==
  \/ /\ cursor > Len(Batches)
     /\ workers' = [workers EXCEPT ![w] = Idle]
     /\ course' = IF course = "pending" /\ \A v \in Workers \ {w} : workers[v] = Idle
                   THEN "resolved" ELSE course
     /\ UNCHANGED <<cursor, calls>>
  \/ /\ cursor <= Len(Batches) /\ aborted \* the batch is taken and not asked for
     /\ workers' = [workers EXCEPT ![w] = Idle]
     /\ cursor' = cursor + 1
     /\ course' = IF course = "pending" THEN "rejected" ELSE course
     /\ UNCHANGED calls
  \/ /\ cursor <= Len(Batches) /\ ~aborted
     /\ workers' = [workers EXCEPT ![w] = cursor]
     /\ cursor' = cursor + 1
     /\ calls' = Append(calls, cursor)
     /\ UNCHANGED course

Heed(w, answer) ==
  /\ workers[w] # Idle
  /\ IF Accepts(w, answer)
     THEN outputs' = Filled(w, answer) /\ Proceed(w)
     ELSE Fail(w) /\ UNCHANGED outputs
  /\ UNCHANGED <<embedClosed, aborted, identity, ranking>>

Refuse(w) ==
  /\ workers[w] # Idle
  /\ Fail(w)
  /\ UNCHANGED <<embedClosed, aborted, identity, outputs, ranking>>

Abort == ~aborted /\ aborted' = TRUE /\ UNCHANGED <<embedClosed, identity, cursor, workers, outputs, course, calls, ranking>>

(* close lets the provider go and waits for no request.                    *)
CloseProvider == ~embedClosed /\ embedClosed' = TRUE /\ UNCHANGED <<aborted, identity, cursor, workers, outputs, course, calls, ranking>>

Mutate == identity = "current" /\ identity' = "changed"
          /\ UNCHANGED <<embedClosed, aborted, cursor, workers, outputs, course, calls, ranking>>

(* rerankWithEmbeddings: reciprocal ranks of both lists added up, compared  *)
(* here as fractions.  A Map keeps the last place of an id.                 *)
Place(list, x) == CHOOSE i \in DOMAIN list : list[i] = x /\ \A j \in DOMAIN list : list[j] = x => j <= i

Score(dense, x) ==
  LET l == 60 + Place(Lexical, x)
      d == 60 + Place(dense, x)
  IN  IF x \in Range(dense) THEN [num |-> l + d, den |-> l * d] ELSE [num |-> 1, den |-> l]

Before(dense, x, y) ==
  LET a == Score(dense, x)
      b == Score(dense, y)
  IN  \/ a.num * b.den > b.num * a.den
      \/ a.num * b.den = b.num * a.den /\ Place(Lexical, x) < Place(Lexical, y)

(* What the lexical list is after the sort.                                 *)
Orders == {order \in [DOMAIN Lexical -> DOMAIN Lexical] : IsInjective(order)}

Fused(dense) ==
  {[n \in DOMAIN Lexical |-> Lexical[order[n]]] :
     order \in {order \in Orders : \A n, m \in DOMAIN Lexical :
                  n < m => ~Before(dense, Lexical[order[m]], Lexical[order[n]])}}

Rerank(dense) ==
  /\ course = "resolved" /\ Items # <<>> /\ outputs[Items[1]].value # "error"
  /\ \E items \in Fused(dense) : ranking' = [items |-> items, dense |-> dense]
  /\ course' = "ranked"
  /\ UNCHANGED <<embedClosed, aborted, identity, cursor, workers, outputs, calls>>

(* Without a vector, or if the search fails, the lexical list is returned   *)
(* as it is.                                                                *)
FallBack ==
  /\ course \in {"resolved", "rejected"}
  /\ course' = "fallback"
  /\ UNCHANGED <<embedClosed, aborted, identity, cursor, workers, outputs, calls, ranking>>

Answers(batch) ==
  LET Whole(v) == {[id |-> i, value |-> v] : i \in Range(batch)}
  IN  {[identity |-> n, items |-> items] :
         n \in {"current", "changed"},
         items \in {Whole("vector"), Whole("error"), Whole("invalid"), {}, Whole("vector") \cup Whole("error")}
                     \cup {Whole("vector") \cup {[id |-> i, value |-> "vector"]} : i \in ItemSet}
                     \cup {Whole("vector") \ {[id |-> i, value |-> "vector"]} : i \in Range(batch)}}

EmbedNext ==
  \/ Embed \/ Abort \/ CloseProvider \/ Mutate
  \/ \E w \in Workers : /\ workers[w] # Idle
                        /\ Refuse(w) \/ \E answer \in Answers(Batches[workers[w]]) : Heed(w, answer)
  \/ \E dense \in Dense : Rerank(dense)
  \/ FallBack

EmbedSpec == EmbedInit /\ [][EmbedNext]_embedVars

-----------------------------------------------------------------------------
(* The first n items have so many bytes.                                    *)
Upto[n \in 0..Len(Items)] == IF n = 0 THEN 0 ELSE Upto[n - 1] + Bytes[Items[n]]

(* What the provider is asked for is a piece of the request that it can     *)
(* take.                                                                    *)
Fits(batch) ==
  \E first, last \in DOMAIN Items :
    /\ first <= last /\ batch = SubSeq(Items, first, last)
    /\ Len(batch) <= MaxBatchItems /\ Upto[last] - Upto[first - 1] <= MaxBatchBytes

(* Both rankings have x above y.                                            *)
Ahead(dense, x, y) ==
  /\ Place(Lexical, x) < Place(Lexical, y)
  /\ y \in Range(dense) => x \in Range(dense) /\ Place(dense, x) < Place(dense, y)

(* An embedding request that succeeds has for every item a vector, or its   *)
(* error, from the answer to the batch that the item was sent in; every     *)
(* batch is within the provider's limits, no item is sent twice and no more *)
(* batches are under way than are allowed; and what is ranked by it is what *)
(* there was to rank, in an order that agrees with both lists where they    *)
(* agree.                                                                   *)
EmbedWhole ==
  /\ course \in {"resolved", "ranked"} =>
       \A i \in ItemSet : /\ outputs[i] # None /\ outputs[i].value \in {"vector", "error"}
                          /\ i \in Range(Batches[outputs[i].batch])
  /\ \A n \in DOMAIN calls : Fits(Batches[calls[n]])
  /\ \A n, m \in DOMAIN calls : n # m => Range(Batches[calls[n]]) \cap Range(Batches[calls[m]]) = {}
  /\ Cardinality({w \in DOMAIN workers : workers[w] # Idle}) <= MaxConcurrentBatches
  /\ \E order \in Orders : ranking.items = [n \in DOMAIN Lexical |-> Lexical[order[n]]]
  /\ course = "ranked" =>
       \A n, m \in DOMAIN ranking.items : Ahead(ranking.dense, ranking.items[n], ranking.items[m]) => n < m
=============================================================================
