------------------------------ MODULE MCHistory ------------------------------
(* The history of one file, with the callers that write it; and, in runs of *)
(* their own, two contents that are edited line by line and compared.       *)
EXTENDS History, Catalogue, Comparison

CONSTANT MaxLines

VARIABLE mode

Hazard(hazards, ranges) ==
  [words |-> {"purpose"}, hazards |-> hazards, ranges |-> ranges, patterns |-> {}, model |-> "agent"]

MCRecords == {Hazard({}, {"race"}), Hazard({"race", "the"}, {})}

MCEvents ==
  [interaction : {"read", "edited", "glanced"}, event : {"e1", "e2"}, at : {1}]
  \cup {[interaction |-> "read", event |-> "e1", at |-> 2]}

MCCalls ==
  (MCEvents \X {NoRow})
  \cup {<<[interaction |-> "read", event |-> "e1", at |-> 1], 5>>, <<[interaction |-> "edited", event |-> "e2", at |-> 1], -1>>}

MCContents == {<<"a">>, <<"b">>}

(* What the callers write is followed in one session and what is remembered *)
(* of a file's contents in another, so that the two do not multiply.        *)
MCInit ==
  /\ Init /\ CatalogueInit /\ ComparisonInit
  /\ mode \in {"writing", "warning", "remembering", "maintaining", "comparing", "searching", "embedding", "linking", "witnessing"}
  /\ mode # "remembering" => \A f \in Files : disk[f] = <<"a">>

MCRequests ==
  {[field \in Identity |-> "x"]} \cup {[field \in {f} |-> v] : f \in {"purpose", "tags"}, v \in {"y", ""}}
  \cup {[field \in {"blurb", "evidence"} |-> IF field = "blurb" THEN "y" ELSE v] : v \in {"verified-external", "mismatched"}}
  \cup {[field \in {"author"} |-> v] : v \in {"me", "malformed"}}
  \cup {[field \in {"hazards"} |-> hazards] : hazards \in {{"race"}, {"leak"}, {}}}

Symmetric == Permutations(Callers)

OneWriter ==
  /\ Cardinality({c \in Callers : callers'[c] # NoCall}) <= 1
  /\ \A c \in Callers : callers'[c].status = "looked" => callers'[c].expected = AnyVersion
  /\ \A f \in Files : records'[f] \in {NoRecord, [field \in DOMAIN NoRecord |-> IF field \in Identity THEN "x" ELSE NoRecord[field]]}

Harmless == \A f \in Files, column \in Columns : records'[f][column] = {}

(* Callers send hazards, and little else.                                   *)
Warning ==
  /\ \A e \in entries' : e.verification_status = "pending" /\ e.author_name = "none"
  /\ \A f \in Files, field \in Texts \cup {"tags"} : records'[f][field] \in {"", "x"}

Untouched == \A e \in entries' : e.verification_status = "pending" /\ e.author_name = "none"

(* The tables of one file with its full-text index, or with its vectors; or *)
(* two files with their symbols and references, rarely written; or its      *)
(* witnesses, starting afresh when the bound on calls is reached.           *)
OneFile == \A f \in Paths \ {1} : atlasFiles'[f] = NoRow

Tabulate ==
  \/ /\ mode = "searching" /\ UNCHANGED vectors /\ NextFile /\ OneFile
     /\ \A r \in references' : r.provenance # "ast" /\ r.to # r.file
  \/ /\ mode = "embedding" /\ UNCHANGED <<flag, symbols, references>> /\ NextFile /\ OneFile
     /\ \A f \in Paths : atlasFiles'[f] # NoRow => atlasFiles'[f].hash = 1 /\ atlasFiles'[f].words = {}
  \/ /\ mode = "linking" /\ UNCHANGED vectors /\ NextFile
     /\ \A f \in Paths : atlasFiles'[f] # NoRow => atlasFiles'[f].hash = 1 /\ atlasFiles'[f].words = {}
     /\ \A r \in references' : r.to # r.file /\ (r.file # 1 => r.provenance # "ast")
     /\ ids' <= Cardinality(Paths)
  \/ /\ mode = "witnessing" /\ NextWitness
  \/ /\ mode = "witnessing" /\ Len(events) = MaxEvents /\ events' = <<>> /\ witnesses' = [i \in Instances |-> NoRow]
     /\ UNCHANGED <<atlasFiles, searched, graph, ids, flag, todo, indexed>>

MCNext ==
  \/ /\ mode = "writing" /\ UNCHANGED <<second, snapshots, mode, comparisonVars, catalogueVars>> /\ Next /\ Harmless
     /\ Cardinality(entries') < MaxEntries
     /\ entries \subseteq entries'
  \/ /\ mode = "remembering" /\ Next /\ OneWriter /\ Untouched /\ UNCHANGED <<mode, comparisonVars, catalogueVars>>
  \/ /\ mode = "maintaining" /\ UNCHANGED <<second, disk, snapshots, mode, comparisonVars, catalogueVars>> /\ Next /\ OneWriter
  \/ /\ mode = "warning" /\ UNCHANGED <<second, disk, snapshots, mode, comparisonVars, catalogueVars>> /\ Next /\ Warning
  \/ /\ mode = "comparing"
     /\ ComparisonNext /\ Len(newLines') <= MaxLines
     /\ UNCHANGED <<mode, historyVars, catalogueVars>>
  \/ Tabulate /\ UNCHANGED <<mode, historyVars, comparisonVars>>

MCSpec == MCInit /\ [][MCNext]_<<historyVars, mode, comparisonVars, catalogueVars>>

(* A highlight is annotated if, and only if, a line of it has changed: not  *)
(* so after a hunk that inserts or deletes.                                 *)
HighlightsExact ==
  LET script == Script(oldLines, newLines)
      inserted == {CountWithout(SubSeq(script, 1, k), "-") : k \in {k \in DOMAIN script : script[k].op = "+"}}
      highlights == {[startLine |-> k, endLine |-> k] : k \in DOMAIN newLines}
  IN  AnnotateWithHighlights(Hunks(script, 1), highlights) = {h \in highlights : h.startLine \in inserted}
=============================================================================
