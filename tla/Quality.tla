------------------------------- MODULE Quality -------------------------------
(***************************************************************************)
(* The rules of src/src/core/quality.ts: which records of a workspace are  *)
(* complete, which of several records of one file is believed, and which   *)
(* hazards say the same.                                                   *)
(*                                                                         *)
(* A text is whether there is one, a list whether it has entries.  A time  *)
(* is a number and NoTime one that is missing or has no zone.  A hazard is *)
(* [key, words]: its normal form, and the tokens of it.                    *)
(***************************************************************************)
EXTENDS Integers, FiniteSets, Sequences, SequencesExt, FiniteSetsExt

CONSTANTS NoTime, Nothing,
          Skew,           \* CROSS_REFERENCE_STALENESS_SKEW_MS
          Markers,        \* the numbers, modal verbs and relations that a signature is made of
          Negations,      \* the tokens that deny
          Suppressed      \* the keys of hazards that are not shown

-----------------------------------------------------------------------------
(* Completeness *)

IdentityFields ==
  {"purpose", "blurb", "tags", "patterns", "hazards", "conventions", "key_types", "data_flows",
   "public_api", "source_highlights"}

TierForLineCount(lines) ==
  CASE lines <= 0 -> "small" [] lines \in 1..50 -> "tiny" [] lines \in 51..200 -> "small"
    [] lines \in 201..600 -> "medium" [] lines \in 601..1500 -> "large" [] OTHER -> "huge"

Required(tier) ==
  CASE tier = "tiny"   -> {"blurb", "tags"}
    [] tier = "small"  -> {"blurb", "purpose", "tags"}
    [] tier = "medium" -> {"blurb", "purpose", "tags", "hazards"}
    [] tier = "large"  -> {"blurb", "purpose", "tags", "hazards", "patterns", "source_highlights"}
    [] tier = "huge"   -> {"blurb", "purpose", "tags", "hazards", "patterns", "source_highlights", "key_types"}

Recommended(tier) ==
  CASE tier = "tiny"   -> {"purpose"}
    [] tier = "small"  -> {"hazards", "patterns"}
    [] tier = "medium" -> {"patterns", "key_types", "data_flows"}
    [] tier = "large"  -> {"key_types", "data_flows", "public_api"}
    [] tier = "huge"   -> {"data_flows", "public_api", "conventions"}

ComputeCompleteness(lines, filled) ==
  LET tier == TierForLineCount(lines)
  IN  [tier |-> tier, filled |-> filled \cap IdentityFields,
       missingRequired |-> Required(tier) \ filled, missingRecommended |-> Recommended(tier) \ filled]

-----------------------------------------------------------------------------
(* Incomplete entries.  A file is [path, filled, provider, crossed,        *)
(* extracted]: `crossed` is Nothing or [symbols, at].                      *)

TierOrder == <<"identity", "path_integrity", "crossref_freshness", "enrichment">>

IdentityMissing(file) ==
  ({"blurb", "purpose", "tags"} \ file.filled)
    \cup (IF file.provider \in {"none", "scaffold"} THEN {"extraction"} ELSE {})

CrossReferencesMissing(file) ==
  CASE file.crossed = Nothing -> {"cross_references"}
    [] file.crossed # Nothing /\ ~file.crossed.symbols /\ file.crossed.at = NoTime /\ ~file.crossed.dated -> {"cross_references"}
    [] file.crossed.at = NoTime -> {"valid cross_reference timestamp"}
    [] file.extracted = NoTime -> {"valid extraction timestamp"}
    [] file.extracted - file.crossed.at > Skew -> {"fresh cross_references"}
    [] OTHER -> {}

EnrichmentMissing(file) == {"hazards", "conventions", "key_types", "data_flows"} \ file.filled

MissingOf(tier, file, pathState) ==
  CASE tier = "identity" -> IdentityMissing(file)
    [] tier = "path_integrity" -> IF pathState = "missing" THEN {"current file"} ELSE {}
    [] tier = "crossref_freshness" -> CrossReferencesMissing(file)
    [] tier = "enrichment" -> EnrichmentMissing(file)

Finding(tier, path, missing) == [tier |-> tier, path |-> path, missing |-> missing]

ClassifyIncompleteEntry(file, pathState) ==
  SelectSeq([i \in 1..4 |-> Finding(TierOrder[i], file.path, MissingOf(TierOrder[i], file, pathState))],
            LAMBDA finding : finding.missing # {})

TierRank(tier) == CHOOSE i \in 1..4 : TierOrder[i] = tier

SortIncompleteEntryFindings(findings) ==
  SortSeq(findings, LAMBDA a, b : \/ TierRank(a.tier) < TierRank(b.tier)
                                  \/ a.tier = b.tier /\ a.path < b.path)

OfTier(findings, tier) == SelectSeq(findings, LAMBDA finding : finding.tier = tier)

Paths(findings) == [i \in DOMAIN findings |-> findings[i].path]

RollupEnrichmentFindings(enrichment, maxExamples) ==
  [fileCount |-> Len(enrichment),
   fieldCounts |-> [field \in UNION {f.missing : f \in Range(enrichment)} |->
                      Len(SelectSeq(enrichment, LAMBDA f : field \in f.missing))],
   exampleFiles |-> SubSeq(Paths(enrichment), 1, Min({maxExamples, Len(enrichment)}))]

(* What the report lists: of each tier the first few, and of the files that*)
(* could be richer some examples.                                          *)
BuildIncompleteEntryReport(findings, maxDetail, maxExamples) ==
  [totalFindings |-> Len(findings),
   actionableFindings |-> Len(findings) - Len(OfTier(findings, "enrichment")),
   truncated |-> \E tier \in Range(TierOrder) \ {"enrichment"} : Len(OfTier(findings, tier)) > maxDetail,
   lines |-> [i \in 1..3 |-> SubSeq(OfTier(findings, TierOrder[i]), 1, Min({maxDetail, Len(OfTier(findings, TierOrder[i]))}))],
   enrichment |-> RollupEnrichmentFindings(OfTier(findings, "enrichment"), maxExamples)]

DeriveClusterFromPath(parts, twoSegmentRoots) ==
  CASE Len(parts) <= 1 -> <<"root">>
    [] Len(parts) >= 3 /\ parts[1] \in twoSegmentRoots -> SubSeq(parts, 1, 2)
    [] OTHER -> SubSeq(parts, 1, 1)

-----------------------------------------------------------------------------
(* Hazards *)

ShouldRenderHazardText(hazard) == hazard.key \notin Suppressed

Jaccard(left, right) == <<Cardinality(left \cap right), Cardinality(left \cup right)>>

(* The two sets have 0.85 of their tokens in common.                       *)
AtThreshold(ratio) == 100 * ratio[1] >= 85 * ratio[2] /\ ratio[2] > 0

(* Which numbers, modal verbs and relations are in it, and whether anything *)
(* is denied.                                                              *)
SemanticSignature(words) == <<words \cap Markers, words \cap Negations # {}>>

NearDuplicate(left, right) ==
  /\ SemanticSignature(left.words) = SemanticSignature(right.words)
  /\ AtThreshold(Jaccard(left.words, right.words))

(* Of entries that say the same the first is kept, and those without words.*)
Keep(kept, hazard) ==
  IF \/ hazard.words = {}
     \/ \A i \in DOMAIN kept : /\ kept[i].words # {} => kept[i].key # hazard.key
                               /\ kept[i].words = {} \/ ~NearDuplicate(hazard, kept[i])
  THEN Append(kept, hazard) ELSE kept

DedupeHazardsFuzzy(entries) == FoldLeft(LAMBDA kept, hazard : Keep(kept, hazard), <<>>, entries)

FilterHazards(entries, deduplicate) ==
  LET visible == SelectSeq(entries, ShouldRenderHazardText)
  IN  IF deduplicate THEN DedupeHazardsFuzzy(visible) ELSE visible

-----------------------------------------------------------------------------
(* Records.  A candidate is [identity, pathState, indexedHash, currentHash,*)
(* completeness, indexedAt]; its identity may be empty.                    *)

Comparable(c) == c.indexedHash # Nothing /\ c.currentHash # Nothing

RecordQuality(c) ==
  CASE c.pathState = "missing" -> "historical"
    [] c.pathState # "missing" /\ Comparable(c) /\ c.indexedHash # c.currentHash -> "stale_advisory"
    [] c.pathState = "current" /\ Comparable(c) /\ c.indexedHash = c.currentHash -> "current"
    [] OTHER -> "unverified"

QualityRank(c) ==
  CASE RecordQuality(c) = "current" -> 2 [] RecordQuality(c) = "unverified" -> 1
    [] RecordQuality(c) = "stale_advisory" -> 0 [] RecordQuality(c) = "historical" -> -1

PathRank(c) == CASE c.pathState = "current" -> 2 [] c.pathState = "unknown" -> 1 [] c.pathState = "missing" -> 0

BoundedRate(rate) == IF rate = Nothing THEN 0 ELSE Min({10, Max({0, rate})})

TimeRank(c) == IF c.indexedAt = NoTime THEN -1 ELSE c.indexedAt

Rank(c, index) == <<QualityRank(c), PathRank(c), BoundedRate(c.completeness), TimeRank(c), -index>>

Higher(a, b) == \E i \in DOMAIN a : a[i] > b[i] /\ \A j \in 1..i - 1 : a[j] = b[j]

(* Why a candidate is left out at once, or "none".                         *)
ExclusionReason(c, options) ==
  CASE c.identity = "" -> "invalid_identity"
    [] c.identity # "" /\ c.pathState = "missing" /\ ~options.includeHistorical -> "missing_current_source"
    [] c.identity # "" /\ RecordQuality(c) = "stale_advisory" /\ ~options.includeStale -> "stale_hash"
    [] OTHER -> "none"

Grouped(candidates, options) ==
  {i \in DOMAIN candidates : ExclusionReason(candidates[i], options) = "none"}

Winner(candidates, group) ==
  CHOOSE i \in group : \A j \in group \ {i} : Higher(Rank(candidates[i], i), Rank(candidates[j], j))

SelectedFrom(candidates, grouped) ==
  {Winner(candidates, {j \in grouped : candidates[j].identity = candidates[i].identity}) : i \in grouped}

Exclusion(candidates, i, options) ==
  IF ExclusionReason(candidates[i], options) = "none" THEN "duplicate_lower_quality" ELSE ExclusionReason(candidates[i], options)

SelectionOf(candidates, options, selected) ==
  [selected |-> selected,
   excluded |-> [i \in DOMAIN candidates \ selected |-> Exclusion(candidates, i, options)],
   staleCount |-> Cardinality({i \in DOMAIN candidates : RecordQuality(candidates[i]) = "stale_advisory"}),
   missingCount |-> Cardinality({i \in DOMAIN candidates : candidates[i].pathState = "missing"})]

SelectIndexedRecords(candidates, options) ==
  SelectionOf(candidates, options, SelectedFrom(candidates, Grouped(candidates, options)))
=============================================================================
