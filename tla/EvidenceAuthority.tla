-------------------------- MODULE EvidenceAuthority --------------------------
(***************************************************************************)
(* src/src/core/evidenceAuthority.ts: what a result says of the source it  *)
(* was read from, of the record it was indexed as and of the narration in  *)
(* the changelog, and how the three are summed up.                         *)
(*                                                                         *)
(* The arguments are a record [observed, missing, sourceHash, indexedHash, *)
(* snapshot, pending, historical, inferred, set, narrated, status].        *)
(***************************************************************************)
CONSTANT Nothing

Fact(freshness, confidence, completeness, authoritative) ==
  [freshness |-> freshness, confidence |-> confidence, completeness |-> completeness, authoritative |-> authoritative]

(* A fact that is there or is not.                                         *)
FactIf(there, fact, completeness) ==
  IF there THEN fact ELSE Fact("unknown", "unknown", completeness, FALSE)

BuildChangelogFactAuthority(status) ==
  CASE status = "verified"     -> Fact("verified", "high", "complete", TRUE)
    [] status = "disputed"     -> Fact("disputed", "high", "complete", FALSE)
    [] status = "pending"      -> Fact("pending", "low", "partial", FALSE)
    [] status = "needs_review" -> Fact("unverified", "low", "partial", FALSE)
    [] OTHER                   -> Fact("historical", "medium", "complete", FALSE)

Comparable(args) == args.observed /\ args.sourceHash # Nothing /\ args.indexedHash # Nothing

IndexIsStale(args) == Comparable(args) /\ args.sourceHash # args.indexedHash

IndexIsFresh(args) == Comparable(args) /\ args.sourceHash = args.indexedHash

IndexedFreshness(args) ==
  CASE args.missing -> "historical_tombstone"
    [] ~args.missing /\ IndexIsStale(args) -> "stale"
    [] ~args.missing /\ IndexIsFresh(args) -> "fresh"
    [] OTHER -> "unverified"

(* A source is what was observed of it, unless it is known to be gone.     *)
CurrentSource(args) ==
  [authority |-> IF args.missing THEN "unavailable" ELSE IF args.observed THEN "authoritative" ELSE "not_observed",
   state |-> IF args.missing THEN "missing" ELSE IF args.observed THEN "current" ELSE "not_observed",
   freshness |-> IF args.missing THEN "missing" ELSE IF args.observed THEN "current" ELSE "unknown",
   confidence |-> CASE args.observed -> IF args.sourceHash # Nothing THEN "high" ELSE "medium"
                    [] ~args.observed /\ args.missing -> "high"
                    [] OTHER -> "unknown",
   completeness |-> IF ~args.observed THEN "unknown" ELSE IF args.sourceHash # Nothing THEN "complete" ELSE "partial"]

HistoricalArtifact(args) == args.missing \/ args.historical

IndexedMetadata(args) ==
  [freshness |-> IndexedFreshness(args), recorded |-> args.indexedHash,
   confidence |-> CASE IndexIsFresh(args) -> "high" [] IndexIsStale(args) -> "low"
                    [] ~Comparable(args) /\ HistoricalArtifact(args) -> "medium" [] OTHER -> "unknown",
   completeness |-> IF args.set = "partial" THEN "partial" ELSE IF IndexIsFresh(args) THEN "complete" ELSE "unknown"]

Narrated(args) == args.narrated \/ args.snapshot \/ args.pending

Status(args) ==
  CASE args.status # Nothing -> args.status
    [] args.status = Nothing /\ args.snapshot -> "verified"
    [] args.status = Nothing /\ ~args.snapshot /\ args.pending -> "pending"
    [] OTHER -> "none"

Changelog(args) == FactIf(Narrated(args), BuildChangelogFactAuthority(Status(args)), "unknown")

IncompleteSet(args) ==
  Fact(IF args.set = "complete" THEN "current" ELSE "unknown",
       CASE args.set = "complete" -> "high" [] args.set = "partial" -> "low" [] OTHER -> "unknown", args.set, FALSE)

Facts(args) ==
  [current_parsed_source |->
     Fact(CurrentSource(args).freshness, IF args.observed THEN CurrentSource(args).confidence ELSE "unknown",
          CurrentSource(args).completeness, args.observed /\ ~args.missing),
   verified_snapshot |-> FactIf(args.snapshot, Fact("verified", "high", "complete", TRUE), "unknown"),
   pending_narration |-> FactIf(args.pending, Fact("pending", "low", "partial", FALSE), "not_applicable"),
   historical_deleted_artifact |->
     FactIf(HistoricalArtifact(args), Fact("historical", "medium", "complete", FALSE), "not_applicable"),
   inferred_relationship |-> FactIf(args.inferred, Fact("inferred", "medium", args.set, FALSE), "not_applicable"),
   incomplete_set |-> IncompleteSet(args)]

BuildEvidenceAuthority(args) ==
  [current_source |-> CurrentSource(args), indexed_metadata |-> IndexedMetadata(args),
   changelog |-> Changelog(args), facts |-> Facts(args)]

-----------------------------------------------------------------------------
(* The summary *)

HasCurrentSource(a) == a.current_source.authority = "authoritative"

HasIndexedMetadata(a) ==
  a.indexed_metadata.recorded # Nothing \/ a.indexed_metadata.freshness = "historical_tombstone"

HasChangelog(a) == a.changelog.freshness # "unknown"

HasInferred(a) == a.facts.inferred_relationship.freshness = "inferred"

AggregateAuthority(a) ==
  CASE HasCurrentSource(a) /\ (HasIndexedMetadata(a) \/ HasChangelog(a) \/ HasInferred(a)) -> "mixed"
    [] HasCurrentSource(a) /\ ~(HasIndexedMetadata(a) \/ HasChangelog(a) \/ HasInferred(a)) -> "workspace_disk"
    [] ~HasCurrentSource(a) /\ (HasIndexedMetadata(a) \/ HasChangelog(a)) -> "atlas_store"
    [] OTHER -> "unknown"

SummaryFreshness(a) ==
  IF HasCurrentSource(a) THEN "current"
  ELSE IF a.current_source.state = "missing" \/ a.changelog.freshness \in {"historical", "verified", "disputed"} THEN "historical"
  ELSE IF a.indexed_metadata.freshness = "stale" THEN "stale" ELSE "unknown"

SummaryConfidence(a) ==
  CASE HasCurrentSource(a) -> a.current_source.confidence
    [] ~HasCurrentSource(a) /\ a.facts.verified_snapshot.authoritative -> "high"
    [] ~HasCurrentSource(a) /\ ~a.facts.verified_snapshot.authoritative /\ HasChangelog(a) -> a.changelog.confidence
    [] ~HasCurrentSource(a) /\ ~HasChangelog(a) /\ HasIndexedMetadata(a) ->
         IF a.indexed_metadata.freshness = "fresh" THEN "high" ELSE a.indexed_metadata.confidence
    [] ~HasCurrentSource(a) /\ ~HasChangelog(a) /\ ~HasIndexedMetadata(a) /\ HasInferred(a) ->
         a.facts.inferred_relationship.confidence
    [] OTHER -> a.facts.incomplete_set.confidence

SummarizeEvidenceAuthority(a) ==
  [authority |-> AggregateAuthority(a), freshness |-> SummaryFreshness(a), confidence |-> SummaryConfidence(a),
   completeness |-> a.facts.incomplete_set.completeness]
=============================================================================
