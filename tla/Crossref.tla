------------------------------ MODULE Crossref ------------------------------
(* The cross references of one file (pipeline/crossref.ts): the symbols it  *)
(* exports, by whom each is used and how far a change of it reaches.  What  *)
(* the parser stored comes first; a text search stands in for it.           *)
EXTENDS Integers, Sequences, FiniteSets, SequencesExt

(* A declaration has a form and a name; a use stored by the parser says     *)
(* which symbol, from which file, how and how often; a hit of the search is *)
(* a file, the number of lines that match, and the shapes these lines have. *)
MaxGrepHits == 10

ExportPatterns ==
  <<{"function"}, {"class"}, {"interface"}, {"type"}, {"enum"}, {"const", "let", "var"}, {"namespace"}, {"re-export"}>>

ScanPatterns == <<{"function"}, {"class"}, {"interface"}, {"type"}, {"const"}, {"enum"}, {"default"}>>

Matching(declared, patterns) ==
  FlattenSeq([i \in DOMAIN patterns |-> SelectSeq(declared, LAMBDA d : d.form \in patterns[i])])

Exported(d) == [name |-> d.name, type |-> IF d.form \in {"const", "let", "var"} THEN "value" ELSE d.form]

(* Of several of a name the first counts.                                   *)
ByName(symbols) ==
  [n \in {s.name : s \in Range(symbols)} |-> symbols[CHOOSE i \in DOMAIN symbols : symbols[i].name = n /\ \A j \in 1..(i - 1) : symbols[j].name # n].type]

ExtractExportedSymbols(declared) ==
  LET listed == Matching(declared, ExportPatterns)
  IN  SelectSeq([i \in DOMAIN listed |-> Exported(listed[i])], LAMBDA s : s.name # "default")

ExtractExports(declared) ==
  LET listed == Matching(declared, ScanPatterns)
  IN  [i \in DOMAIN listed |-> [name |-> listed[i].name, type |-> listed[i].form]]

(* Stored symbols, or else the exports of the scan, or else of the text.    *)
GetDeterministicExportedSymbols(stored, scanned, declared) ==
  ByName(IF stored # <<>> THEN stored ELSE IF scanned # <<>> THEN scanned ELSE ExtractExportedSymbols(declared))

-----------------------------------------------------------------------------
Largest(a, b) == IF a < b THEN b ELSE a

UsageTypes == [CALLS |-> "call", DATA_FLOWS_TO |-> "data-flow", PRODUCES |-> "produces", CONSUMES |-> "consumes", TRIGGERS |-> "triggers"]

(* listDeterministicUsages leaves out the uses in the file itself.          *)
ListDeterministicUsages(uses, file) == {u \in uses : u.edge \in DOMAIN UsageTypes /\ u.file # file}

Site(file, type, count) == [file |-> file, usage_type |-> type, count |-> count]

BuildDeterministicCallSites(usages) ==
  LET sum(S) == FoldSet(LAMBDA u, n : n + Largest(1, u.count), 0, S)
  IN  {Site(u.file, UsageTypes[u.edge], sum({v \in usages : v.file = u.file /\ v.edge = u.edge})) : u \in usages}

InferUsageType(shapes) ==
  IF "from" \in shapes THEN "import"
  ELSE IF "export" \in shapes THEN "re-export"
  ELSE IF "call" \in shapes THEN "call"
  ELSE IF "type" \in shapes THEN "type-reference" ELSE "reference"

(* Where a name is found most comes first; beyond the limit nothing counts. *)
Before(a, b) == a.matches > b.matches \/ (a.matches = b.matches /\ a.file < b.file)

BuildFallbackCallSites(groups) ==
  {Site(g.file, InferUsageType(g.shapes), g.matches) :
     g \in {h \in groups : h.matches > 0 /\ Cardinality({k \in groups : Before(k, h)}) < MaxGrepHits}}

EvaluateBlastRadius(files) ==
  IF files <= 1 THEN "low" ELSE IF files <= 5 THEN "medium" ELSE IF files <= 15 THEN "high" ELSE "critical"

BuildHeuristicCrossRef(type, usages, groups) ==
  LET sites == IF usages # {} THEN BuildDeterministicCallSites(usages) ELSE BuildFallbackCallSites(groups)
  IN  [type |-> type, call_sites |-> sites,
       total_usages |-> FoldSet(LAMBDA s, n : n + s.count, 0, sites),
       blast_radius |-> EvaluateBlastRadius(Cardinality({s.file : s \in sites}))]

RunCrossref(file, stored, scanned, declared, uses, hits) ==
  LET exports == GetDeterministicExportedSymbols(stored, scanned, declared)
      usages == ListDeterministicUsages(uses, file)
  IN  [n \in DOMAIN exports |->
         BuildHeuristicCrossRef(exports[n], {u \in usages : u.symbol = n /\ \E s \in Range(stored) : s.name = n},
                                {h \in hits : h.symbol = n /\ h.file # file})]

-----------------------------------------------------------------------------
(* What is stored of a file whose text has been parsed, only scanned, or    *)
(* neither: a use is stored with the symbol that it is a use of.            *)
StoredOf(reading, declared) ==
  IF reading = "parsed" THEN ExtractExportedSymbols(declared)
  ELSE IF reading = "scanned" THEN ExtractExports(declared) ELSE <<>>

Naming(hits, n, file) == {h.file : h \in {g \in hits : g.symbol = n /\ g.file # file}}

Using(uses, n, file) == {u.file : u \in {v \in uses : v.symbol = n /\ v.file # file}}

(* Every exported symbol is listed (and the word default for a file without *)
(* any other export, which the scan calls one), with other files than its own, all of   *)
(* which name it, and with none only if none does.  A symbol whose uses are *)
(* stored is given the reach these have, whatever else names it; that of    *)
(* any other is understated when many files do, so that it is never called  *)
(* critical, but one that many files name is never called low.              *)
CrossrefSound(subject) ==
  LET file == subject.file
      stored == StoredOf(subject.reading, subject.declared)
      uses == IF subject.reading = "parsed" THEN subject.uses ELSE {}
      refs == RunCrossref(file, stored, ExtractExports(subject.declared), subject.declared, uses, subject.hits)
      Files(n) == {s.file : s \in refs[n].call_sites}
  IN  /\ subject.reading = "parsed" => DOMAIN refs \ {"default"} = {d.name : d \in Range(subject.declared)} \ {"default"}
      /\ DOMAIN refs \subseteq {d.name : d \in Range(subject.declared)}
      /\ \A n \in DOMAIN refs :
           /\ Files(n) \subseteq Naming(subject.hits, n, file)
           /\ Files(n) = {} => Naming(subject.hits, n, file) = {}
           /\ Using(uses, n, file) # {} => Files(n) = Using(uses, n, file)
           /\ refs[n].blast_radius = "critical" <=> Cardinality(Using(uses, n, file)) > 15
           /\ refs[n].blast_radius = "low" => 1 \in {Cardinality(Using(uses, n, file)), Cardinality(Naming(subject.hits, n, file))} \/ Files(n) = {}
=============================================================================
