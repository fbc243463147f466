------------------------------ MODULE Policies ------------------------------
(* The rules of src/src/core/ that hosts and reports share, each asked of   *)
(* one subject: the name of a text, the records of a corpus, the entries of *)
(* a report, the hazards of a file, the evidence of a result.               *)
EXTENDS Paths

CONSTANTS NoTime, Nothing, Skew, Markers, Negations, Suppressed

VARIABLE subject   \* what the rules are asked about, a record with a kind

Records == INSTANCE Quality
Evidence == INSTANCE EvidenceAuthority

-----------------------------------------------------------------------------
(* Of the records of one identity the best is taken, whatever the order     *)
(* they come in, and one that the disk contradicts only if it is asked for. *)
Reversed(candidates) == [i \in DOMAIN candidates |-> candidates[Len(candidates) + 1 - i]]

Best(candidates, options) == {candidates[i] : i \in Records!SelectIndexedRecords(candidates, options).selected}

RankOf(c) == Records!Rank(c, 0)

SelectionHolds(candidates, options) ==
  LET there == Best(candidates, options)
      back == Best(Reversed(candidates), options)
  IN  /\ {<<c.identity, RankOf(c)>> : c \in there} = {<<c.identity, RankOf(c)>> : c \in back}
      /\ \A c, d \in there : c.identity = d.identity => c = d
      /\ \A c \in there, i \in DOMAIN candidates :
           (candidates[i].identity = c.identity /\ Records!RecordQuality(candidates[i]) = "current")
              => Records!RecordQuality(c) = "current"

(* A record is as fresh to the evidence as it is to the selection, if the   *)
(* file has been looked for.                                                *)
Observation(c) ==
  [observed |-> c.pathState = "current", missing |-> c.pathState = "missing", sourceHash |-> c.currentHash,
   indexedHash |-> c.indexedHash, snapshot |-> FALSE, pending |-> FALSE, historical |-> FALSE, inferred |-> FALSE,
   set |-> "unknown", narrated |-> FALSE, status |-> Nothing]

FreshnessOf(quality) ==
  CASE quality = "current" -> "fresh" [] quality = "stale_advisory" -> "stale"
    [] quality = "historical" -> "historical_tombstone" [] OTHER -> "unverified"

FreshnessAgrees(c) ==
  c.pathState # "unknown" => Evidence!IndexedFreshness(Observation(c)) = FreshnessOf(Records!RecordQuality(c))

(* A file that is complete for its size has no identity left to supply, and *)
(* a report counts and lists every finding or says that it does not.        *)
CompleteAgrees(file, lines) ==
  LET score == Records!ComputeCompleteness(lines, file.filled)
  IN  (score.missingRequired = {} /\ score.tier # "tiny" /\ file.provider = "other") => Records!IdentityMissing(file) = {}

ReportHolds(files, pathState) ==
  LET found == FoldLeft(LAMBDA all, f : all \o Records!ClassifyIncompleteEntry(f, pathState), <<>>, files)
      sorted == Records!SortIncompleteEntryFindings(found)
      report == Records!BuildIncompleteEntryReport(sorted, 1, 1)
      listed == UNION {Range(report.lines[i]) : i \in 1..3}
  IN  /\ Range(sorted) = Range(found) /\ Len(sorted) = Len(found)
      /\ report.actionableFindings + report.enrichment.fileCount = report.totalFindings
      /\ report.truncated \/ \A f \in Range(found) : f \in listed \/ f.tier = "enrichment"
      /\ \A i, j \in DOMAIN sorted : i < j => Records!TierRank(sorted[i].tier) <= Records!TierRank(sorted[j].tier)

(* What is left of hazards says nothing twice, nothing new is lost, and     *)
(* there is nothing to take out of it again.                                *)
HazardsHold(entries) ==
  LET kept == Records!DedupeHazardsFuzzy(entries)
  IN  /\ Records!DedupeHazardsFuzzy(kept) = kept
      /\ \A h \in Range(entries) \ Range(kept) : \E k \in Range(kept) : k.key = h.key \/ Records!NearDuplicate(h, k)
      /\ \A i, j \in DOMAIN kept : (i # j /\ kept[i].words # {}) => ~Records!NearDuplicate(kept[i], kept[j])

(* current_disk_source_overrides_indexed_metadata_on_conflict: with the     *)
(* source at hand neither the index nor the narration changes how fresh or  *)
(* certain a result is; without it nothing is current.                      *)
Summary(args) == Evidence!SummarizeEvidenceAuthority(Evidence!BuildEvidenceAuthority(args))

SourceOverrides(args) ==
  LET bare == [args EXCEPT !.indexedHash = Nothing, !.narrated = FALSE, !.snapshot = FALSE, !.pending = FALSE]
  IN  IF args.observed /\ ~args.missing
      THEN /\ Summary(args).freshness = "current" /\ Summary(args).confidence = Summary(bare).confidence
           /\ Summary(args).authority \in {"mixed", "workspace_disk"}
      ELSE /\ Summary(args).freshness # "current" /\ Summary(args).authority \in {"atlas_store", "unknown"}
           /\ Summary(args).freshness = "historical" => args.missing \/ Evidence!Narrated(args)

-----------------------------------------------------------------------------
(* The rules agree with each other and with what they are asked about.      *)
RulesSound ==
  CASE subject.kind = "path" ->
         LET result == CanonicalizeRepositoryPath(subject.text, subject.context)
         IN  result.ok => NameHolds(subject.text, subject.context, result)
    [] subject.kind = "records" ->
         /\ SelectionHolds(subject.candidates, subject.options)
         /\ \A c \in Range(subject.candidates) : FreshnessAgrees(c)
    [] subject.kind = "entries" ->
         /\ \A f \in Range(subject.files) : CompleteAgrees(f, subject.lines)
         /\ ReportHolds(subject.files, subject.pathState)
    [] subject.kind = "hazards" -> HazardsHold(subject.entries)
    [] subject.kind = "evidence" -> SourceOverrides(subject.args)
    [] OTHER -> TRUE
=============================================================================
