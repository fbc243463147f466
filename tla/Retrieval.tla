------------------------------ MODULE Retrieval ------------------------------
(* The reads of a store (retrieval/engine.ts) behind the service that hands *)
(* them to a client (service/AtlasReadService.ts).  A workspace is a number *)
(* and has a store: the graph of RetrievalGraph, the entries of Changelog   *)
(* and, of every file, what searches and audits look at.  A request is a    *)
(* record of the fields that are present; Bad is a value out of its bounds, *)
(* and a prefix the set of the paths that have it.                          *)
EXTENDS RetrievalGraph, Changelog

CONSTANTS Bad,
          Workspaces,      \* of which 1 is the service's own
          Stores,          \* what the stores may hold: functions from workspaces
          Sources,         \* what the file that is looked up may hold: 0, nothing, or the number of its lines, its hash as well
          KeyOrder,        \* the order of the keys of groups that are not files
          Requests,        \* what the client asks
          Codes,           \* the errors the executor may throw
          MaxItems, MaxPlan, Expanded, MaxSourceLines,  \* 500, 100, 20 and 500
          HighDegree, ManyHazards, LargeFile,           \* 10, 5 and 1000
          MaxChanges       \* bound: changes of the stores and of the disk

(* What a repository and the interface of its store allow: finitely many    *)
(* files, entries and names in each; numbers of lines; limits of at least   *)
(* one; and no cursor but those that answers bring.                         *)
ASSUME StoresAreFinite ==
  \A s \in Stores, w \in Workspaces :
    /\ IsFiniteSet(s[w].files) /\ IsFiniteSet(s[w].entries)
    /\ \A f \in s[w].files : IsFiniteSet(s[w].info[f].patterns) /\ IsFiniteSet(s[w].info[f].lacks)

ASSUME LinesAreNumbers == Sources \subseteq Nat /\ MaxSourceLines \in Nat /\ {MaxItems, MaxPlan} \subseteq Nat

Numbers == {"limit", "topN", "startLine", "endLine", "sourceStart", "sourceEnd"}

ASSUME RequestsAreRequests ==
  /\ 1 \in Workspaces
  /\ \A r \in Requests :
       /\ {"family", "action"} \subseteq DOMAIN r /\ "cursor" \notin DOMAIN r
       /\ \A n \in Numbers \cap DOMAIN r : r[n] # Bad => r[n] \in Nat \ {0}
       /\ ("workspaces" \in DOMAIN r /\ r.workspaces # Bad) => r.workspaces \subseteq Workspaces /\ IsFiniteSet(r.workspaces)

VARIABLES stores, disk, closed, phase, request, answer, chain, changes

retrievalVars == <<stores, disk, closed, phase, request, answer, chain, changes>>

INVALID == "ATLAS_INVALID_REQUEST"
UNSUPPORTED == "ATLAS_UNSUPPORTED_ACTION"
NOT_FOUND == "ATLAS_NOT_FOUND"
UNAVAILABLE == "ATLAS_CAPABILITY_UNAVAILABLE"

Refusal(code) == [ok |-> FALSE, error |-> code]

-----------------------------------------------------------------------------
(* What a request may have, and what it must.                               *)
QueryActionFields ==
  [search |-> {"query", "workspaces", "pathPrefix", "cluster", "includeTestFiles"},
   lookup |-> {"filePath", "includeSource", "includeNeighbors", "includeCrossRefs", "sourceStart", "sourceEnd"},
   brief |-> {"filePath"},
   snippet |-> {"filePath", "symbol", "startLine", "endLine"},
   similar |-> {"filePath", "minScore", "includeTestFiles"},
   plan_context |-> {"query", "includeNeighbors", "neighborDepth", "characterBudget", "includeTestFiles"},
   cluster |-> {"cluster", "pathPrefix", "includeTestFiles"},
   patterns |-> {"pattern", "filePath", "includeTestFiles"},
   history |-> {"mode", "filePath", "cluster", "query", "since", "until", "order", "bucket", "groupBy",
                "breakingChanges", "principalId", "runtimeName", "verificationStatus"},
   catalog |-> {"query", "pathPrefix", "cluster", "field", "includeTestFiles"},
   ask |-> {"query", "workspaces", "pathPrefix", "includeTestFiles", "characterBudget"},
   snapshot |-> {"filePath", "changelogId", "at", "maxLines"},
   diff |-> {"filePath", "changelogId", "from", "to", "contextLines"}]

GraphActionFields ==
  [impact |-> {"filePath", "symbol", "depth", "edgeTypes", "includeReferences", "includeSymbols"},
   neighbors |-> {"filePath", "depth", "direction", "edgeTypes", "includeReferences", "includeSymbols"},
   trace |-> {"from", "to", "fromSymbol", "toSymbol", "maxHops", "weighted", "edgeTypes"},
   cycles |-> {"filePath", "minSize", "edgeTypes"},
   reachability |-> {"mode", "filePath", "from", "to", "symbol", "direction", "includeSymbols"},
   graph |-> {"filePath", "depth", "direction", "edgeTypes", "includeSymbols"},
   cluster |-> {"cluster"}]

AuditFields == {"cluster", "filePath", "cursor", "includeTestFiles", "gapTypes", "minSeverity", "since", "topN", "weights"}

Fields == [query |-> QueryActionFields, graph |-> GraphActionFields,
           audit |-> [action \in {"gaps", "smells", "hotspots"} |-> AuditFields]]

Common == [query |-> {"cursor"}, graph |-> {"includeTestFiles", "maxNodes", "maxEdges"}, audit |-> {}]

(* What is checked before the action is known to be one.                    *)
Early(family) ==
  IF family = "audit" THEN {"limit", "cursor"}
  ELSE (UNION {Fields[family][a] : a \in DOMAIN Fields[family]} \cup Common[family] \cup {"limit"})
         \ {"mode", "order", "bucket", "groupBy", "verificationStatus", "direction"}

Given(r, names) == names \cap DOMAIN r # {}

QueryComplete(r) ==
  CASE r.action \in {"search", "ask", "plan_context"} -> Given(r, {"query"})
    [] r.action \in {"lookup", "brief", "similar"} -> Given(r, {"filePath"})
    [] r.action = "snippet" -> Given(r, {"filePath"}) /\ (Given(r, {"symbol"}) # Given(r, {"startLine", "endLine"}))
    [] r.action \in {"snapshot", "diff"} -> Given(r, {"filePath", "changelogId"})
    [] OTHER -> TRUE

GraphComplete(r) ==
  CASE r.action = "trace" -> \/ {"from", "to"} \subseteq DOMAIN r /\ ~Given(r, {"fromSymbol", "toSymbol"})
                             \/ {"fromSymbol", "toSymbol"} \subseteq DOMAIN r /\ ~Given(r, {"from", "to"})
    [] r.action \in {"impact", "neighbors"} -> Given(r, {"filePath"})
    [] r.action = "cluster" -> Given(r, {"cluster"})
    [] r.action = "reachability" -> /\ Given(r, {"mode"})
                                    /\ r.mode = "path_query" => {"from", "to"} \subseteq DOMAIN r
    [] OTHER -> TRUE

Complete(r) ==
  CASE r.family = "query" -> QueryComplete(r)
    [] r.family = "graph" -> GraphComplete(r)
    [] OTHER -> TRUE

RequestError(r) ==
  LET accepted == Fields[r.family]
      known == {"family", "action", "workspace", "format", "limit"} \cup Common[r.family]
  IN  IF \E f \in DOMAIN r \cap Early(r.family) : r[f] = Bad THEN INVALID
      ELSE IF r.action \notin DOMAIN accepted THEN UNSUPPORTED
      ELSE IF \/ ~(DOMAIN r \subseteq known \cup accepted[r.action])
              \/ \E f \in DOMAIN r : r[f] = Bad
              \/ ~Complete(r) THEN INVALID
      ELSE "none"

-----------------------------------------------------------------------------
(* Lists.                                                                   *)
ItemsOf(items) == [items |-> items]

Shown(store, r, f) == Field(r, "includeTestFiles", FALSE) \/ f \notin store.tests

FilterFiles(store, r) ==
  {f \in store.files :
     /\ Shown(store, r, f)
     /\ "pathPrefix" \in DOMAIN r => f \in r.pathPrefix
     /\ "cluster" \in DOMAIN r => store.cluster[f] = r.cluster}

FileItem(w, f) == [workspace |-> w, file |-> f]

FileItems(files) == [k \in DOMAIN files |-> FileItem(1, files[k])]

(* searchFts of every workspace that is asked for: as many hits as allowed, *)
(* from which the filters then take some away.                              *)
SearchFts(store, word, maximum) ==
  LET info == store.info
      found == {f \in store.files : word \in DOMAIN info[f].words}
      Better(f, g) == \/ info[f].words[word] < info[g].words[word]
                      \/ info[f].words[word] = info[g].words[word] /\ f < g
  IN  {f \in found : Cardinality({g \in found : Better(g, f)}) < maximum}

HitBefore(all, r, a, b) ==
  LET Score(h) == all[h.workspace].info[h.file].words[r.query]
  IN  \/ Score(a) < Score(b)
      \/ Score(a) = Score(b) /\ a.workspace < b.workspace
      \/ Score(a) = Score(b) /\ a.workspace = b.workspace /\ a.file < b.file

RankedFiles(all, r, maximum) ==
  LET hits == UNION {{FileItem(w, f) : f \in SearchFts(all[w], r.query, maximum)} : w \in Field(r, "workspaces", {1})}
      kept == {h \in hits : h.file \in FilterFiles(all[h.workspace], r)}
  IN  InOrder(kept, LAMBDA a, b : HitBefore(all, r, a, b))

(* The first hits look around in the graph one after the other: what is     *)
(* near one of them joins at the end, once; a hit that is near, or a file   *)
(* that has joined and is near a later one, is said to match and to be      *)
(* near, which makes it longer, whether or not it does match.               *)
Near(store, r, f, maximum) ==
  LET edges == BuildEdges(store)
      ends == store.files \cup UNION {{e.source, e.target} : e \in edges}
      depth == Field(r, "neighborDepth", 1)
  IN  Traverse(f, Adjacency(ends, edges), depth, maximum).nodes \cup Traverse(f, Reversed(ends, edges), depth, maximum).nodes

Expand(store, r, hits, maximum) ==
  LET own == SelectSeq(hits, LAMBDA h : h.workspace = 1)
      near == [k \in DOMAIN Prefix(own, Expanded) |-> Near(store, r, own[k].file, maximum)]
      nearby == UNION Range(near)
      first == [f \in nearby |-> Min({k \in DOMAIN near : f \in near[k]})]
      new == {f \in (nearby \cap store.files) \ {own[k].file : k \in DOMAIN own} : Shown(store, r, f)}
      joining == InOrder(new, LAMBDA f, g : first[f] < first[g] \/ (first[f] = first[g] /\ f < g))
      Again(f) == \E k \in DOMAIN near : k > first[f] /\ f \in near[k]
  IN  [k \in DOMAIN hits |-> [hits[k] EXCEPT !.reasons = IF hits[k].workspace = 1 /\ hits[k].file \in nearby THEN 2 ELSE @]]
        \o [k \in DOMAIN joining |-> FileItem(1, joining[k]) @@ [reasons |-> IF Again(joining[k]) THEN 2 ELSE 1]]

Searched(all, r) ==
  LET maximum == IF r.action = "plan_context" THEN MaxPlan ELSE MaxItems
      ranked == RankedFiles(all, r, maximum)
      hits == [k \in DOMAIN ranked |-> ranked[k] @@ [reasons |-> 1]]
      near == r.action = "plan_context" /\ Field(r, "includeNeighbors", TRUE)
  IN  ItemsOf(Prefix(IF near THEN Expand(all[1], r, hits, maximum) ELSE hits, maximum))

Catalog(store, r) ==
  LET text(f) == store.info[f][Field(r, "field", "blurb")]
  IN  ItemsOf(FileItems(Sorted({f \in FilterFiles(store, r) : "query" \in DOMAIN r => r.query \in text(f)})))

(* Two files are as similar as the tokens they share are of all they have;  *)
(* the least score is in hundredths.                                        *)
Similar(store, r) ==
  LET files == FilterFiles(store, r)
      tokens(f) == store.info[f].tokens
      shared(f) == Cardinality(tokens(f) \cap tokens(r.filePath))
      all(f) == Cardinality(tokens(f) \cup tokens(r.filePath))
      others == {f \in files : f # r.filePath /\ shared(f) * 100 >= Field(r, "minScore", 0) * all(f)}
      Closer(f, g) == \/ shared(f) * all(g) > shared(g) * all(f)
                      \/ shared(f) * all(g) = shared(g) * all(f) /\ f < g
  IN  IF r.filePath \notin files THEN Refusal(NOT_FOUND) ELSE ItemsOf(FileItems(InOrder(others, Closer)))

Keyed(keys, Count(_)) == [k \in DOMAIN keys |-> [key |-> keys[k], files |-> Count(keys[k])]]

(* A list of names: in the order that is given.                             *)
PlaceOf(key) == IF key \in Range(KeyOrder) THEN CHOOSE i \in DOMAIN KeyOrder : KeyOrder[i] = key ELSE 0

Clusters(store, r) ==
  LET files == FilterFiles(store, r)
      named == {store.cluster[f] : f \in files} \ {"none"}
  IN  ItemsOf(IF "cluster" \in DOMAIN r THEN FileItems(Sorted(files))
              ELSE Keyed(InOrder(named, LAMBDA a, b : PlaceOf(a) < PlaceOf(b)),
                         LAMBDA c : Cardinality({f \in files : store.cluster[f] = c})))

Patterns(store, r) ==
  LET files == FilterFiles(store, r)
      patterns(f) == store.info[f].patterns
      count(p) == Cardinality({f \in files : p \in patterns(f)})
      More(p, q) == count(p) > count(q) \/ (count(p) = count(q) /\ PlaceOf(p) < PlaceOf(q))
      Named(S, f) == LET s == InOrder(S, LAMBDA p, q : PlaceOf(p) < PlaceOf(q))
                     IN  [k \in DOMAIN s |-> [key |-> s[k], file |-> f]]
  IN  CASE "filePath" \in DOMAIN r -> IF r.filePath \in files THEN ItemsOf(Named(patterns(r.filePath), r.filePath))
                                      ELSE Refusal(NOT_FOUND)
        [] "pattern" \in DOMAIN r -> ItemsOf(FileItems(Sorted({f \in files : r.pattern \in patterns(f)})))
        [] OTHER -> ItemsOf(Keyed(InOrder(UNION {patterns(f) : f \in files}, More), count))

-----------------------------------------------------------------------------
(* History.                                                                 *)
Renamed == [filePath |-> "file_path", cluster |-> "cluster", query |-> "query", since |-> "since", until |-> "until",
            breakingChanges |-> "breaking", principalId |-> "author_instance_id", runtimeName |-> "author_engine",
            verificationStatus |-> "verification_status"]

HistoryFilters(r) ==
  LET names == DOMAIN r \cap DOMAIN Renamed
      filters == [n \in {Renamed[x] : x \in names} |-> r[CHOOSE x \in names : Renamed[x] = n]]
  IN  filters @@ [order |-> IF "query" \in DOMAIN r THEN "relevance" ELSE Field(r, "order", "desc")]

GroupColumn(r) ==
  LET by == Field(r, "groupBy", "file_path")
  IN  CASE by = "principal_id" -> "author_instance_id" [] by = "runtime_name" -> "author_engine" [] OTHER -> by

(* Groups and entries are read page by page from the store itself: their    *)
(* number, and what is from an offset on.                                   *)
HistoryTotal(store, r) ==
  IF Field(r, "mode", "entries") = "group" THEN CountAtlasChangelogGroups(store.entries, HistoryFilters(r), GroupColumn(r))
  ELSE CountAtlasChangelog(store.entries, HistoryFilters(r)).total

HistoryFrom(store, r, limit, offset) ==
  IF Field(r, "mode", "entries") = "group"
  THEN LET filters == HistoryFilters(r)
           column == GroupColumn(r)
           place == [key \in GroupsOf(store.entries, filters, column) |-> IF column = "file_path" THEN key ELSE PlaceOf(key)]
       IN  GroupAtlasChangelog(store.entries, filters, column, limit, offset, place)
  ELSE QueryAtlasChangelog(store.entries, HistoryFilters(r), limit, offset)

FromStore(r) == r.action = "history" /\ Field(r, "mode", "entries") \in {"group", "entries"}

History(store, r) ==
  CASE FromStore(r) -> ItemsOf(HistoryFrom(store, r, HistoryTotal(store, r), 0))
    [] Field(r, "mode", "entries") = "count" -> ItemsOf(<<CountAtlasChangelog(store.entries, HistoryFilters(r))>>)
    [] OTHER -> ItemsOf(TimelineAtlasChangelog(store.entries, HistoryFilters(r), Field(r, "bucket", "day")))

-----------------------------------------------------------------------------
(* Audits.                                                                  *)
Severity == [purpose |-> 3, blurb |-> 3, tags |-> 2, patterns |-> 1, source_highlights |-> 2, cross_references |-> 2,
             large_file |-> 3, high_coupling |-> 2, hazard_density |-> 2, dependency_cycle |-> 3]

SeverityRank == [low |-> 1, medium |-> 2, high |-> 3]

Degree(store, f) ==
  Cardinality({e \in BuildEdges(store) : e.source = f}) + Cardinality({e \in BuildEdges(store) : e.target = f})

AuditFiles(store, r) ==
  {f \in FilterFiles(store, r) : "filePath" \in DOMAIN r => f = r.filePath}

Finding(f, what) == [file |-> f, what |-> what]

Gaps(store, r) ==
  LET types == Field(r, "gapTypes", {})
      wanted(g) == types = {} \/ g \in types
  IN  UNION {{Finding({f}, g) : g \in {g \in store.info[f].lacks : wanted(g)}} : f \in AuditFiles(store, r)}

Smells(store, r) ==
  LET files == AuditFiles(store, r)
      Are(what, Cond(_)) == {Finding({f}, what) : f \in {f \in files : Cond(f)}}
      edges == BuildEdges(store)
      ends == files \cup UNION {{e.source, e.target} : e \in edges}
  IN  Are("large_file", LAMBDA f : store.info[f].loc >= LargeFile)
        \cup Are("high_coupling", LAMBDA f : Degree(store, f) >= HighDegree)
        \cup Are("hazard_density", LAMBDA f : store.info[f].hazards >= ManyHazards)
        \cup {Finding(c, "dependency_cycle") : c \in FindCycles(files, Adjacency(ends, edges)) \cap SUBSET files}

(* Of a file and of what is wrong with it; a cycle has no file.             *)
FindingOrder(a, b) ==
  LET file(x) == IF x.what = "dependency_cycle" THEN 0 ELSE Min(x.file)
      rank(x) == PlaceOf(x.what)
  IN  \/ file(a) < file(b)
      \/ file(a) = file(b) /\ rank(a) < rank(b)
      \/ a.what = "dependency_cycle" /\ b.what = a.what /\ Min(a.file) < Min(b.file)

(* The score is in whole numbers: logSize is the logarithm of the lines.    *)
Hotspots(store, r) ==
  LET w == Field(r, "weights", <<>>)
      changed(f) == Cardinality({e \in store.entries : /\ e.file_path = f
                                                       /\ "since" \in DOMAIN r => AtLeast(e.created_at, r.since)})
      score(f) == changed(f) * Field(w, "changes", 3) + Degree(store, f) * Field(w, "degree", 2)
                    + store.info[f].logSize * Field(w, "size", 1)
      Hotter(f, g) == score(f) > score(g) \/ (score(f) = score(g) /\ f < g)
  IN  Prefix(InOrder(AuditFiles(store, r), Hotter), Field(r, "topN", Field(r, "limit", 20)))

Audit(store, r) ==
  LET found == IF r.action = "gaps" THEN Gaps(store, r) ELSE Smells(store, r)
      least == SeverityRank[Field(r, "minSeverity", "low")]
  IN  ItemsOf(IF r.action = "hotspots" THEN FileItems(Hotspots(store, r))
              ELSE InOrder({x \in found : Severity[x.what] >= least}, FindingOrder))

-----------------------------------------------------------------------------
(* The list a request is about, which neither its cursor nor its format has *)
(* a part in, and the page of it that is handed out; a snapshot and a diff  *)
(* are ComputeSnapshot and ComputeDiff of History.                          *)
CursorScope(r) == [f \in DOMAIN r \ {"cursor", "format"} |-> r[f]]

ListOf(all, r) ==
  LET store == all[1]
  IN  CASE r.family = "audit" -> Audit(store, r)
        [] r.action \in {"search", "ask", "plan_context"} -> Searched(all, r)
        [] r.action = "catalog" -> Catalog(store, r)
        [] r.action = "similar" -> Similar(store, r)
        [] r.action = "cluster" -> Clusters(store, r)
        [] r.action = "patterns" -> Patterns(store, r)
        [] OTHER -> History(store, r)

List(r) == ListOf(stores, CursorScope(r))

Size(items) ==
  FoldLeft(LAMBDA n, i : n + stores[i.workspace].info[i.file].size + i.reasons, 0, items)

(* What does not fit into the budget is dropped from the end of the page,   *)
(* and the next page begins with it.                                        *)
MutantNextPage(scope, from, page, returned, total) == PageOf(scope, from, Len(page), total)

NextPage(scope, from, page, returned, total) == PageOf(scope, from, Len(returned), total)

Fitting(page, budget) ==
  SubSeq(page, 1, Max({n \in 0..Len(page) : n = 0 \/ Size(SubSeq(page, 1, n)) <= budget}))

Returned(r, scope, page, returned, total) ==
  IF returned = <<>> /\ page # <<>> THEN Refusal(INVALID)
  ELSE [ok |-> TRUE, items |-> returned,
        page |-> NextPage(scope, Parsed(r, scope).offset, page, returned, total)]

WithinBudget(r, page, total) ==
  Returned(r, CursorScope(r), page, Fitting(page, Field(r, "characterBudget", 50000)), total)

HistoryPage(store, r) ==
  LET scope == CursorScope(r)
      at == Parsed(r, scope)
      total == HistoryTotal(store, scope)
      items == HistoryFrom(store, scope, Field(scope, "limit", 20), at.offset)
  IN  IF ~at.ok THEN Refusal(INVALID) ELSE IF at.offset > total THEN Refusal(INVALID)
      ELSE [ok |-> TRUE, items |-> items, page |-> PageOf(scope, at.offset, Len(items), total)]

PageOfList(r, page, total) ==
  IF ~page.ok THEN Refusal(INVALID)
  ELSE IF r.action \in {"search", "ask", "plan_context"} THEN WithinBudget(r, page.items, total)
  ELSE [ok |-> TRUE, items |-> page.items, page |-> page.page]

FromList(r, list) ==
  IF "error" \in DOMAIN list THEN list
  ELSE IF FromStore(r) THEN HistoryPage(stores[1], r)
  ELSE PageOfList(r, Paginate(list.items, r, CursorScope(r)), Len(list.items))

ListAnswer(r) == FromList(r, List(r))

FromGraph(found) == IF "error" \in DOMAIN found THEN Refusal(found.error) ELSE [ok |-> TRUE, graph |-> found]

GraphAnswer(r) == FromGraph(ExecuteGraph(stores[1], r))

-----------------------------------------------------------------------------
(* One file.  Its record is read first, then its source from the disk; the  *)
(* store is the worker's, which does nothing else in between.               *)
OfFile(r) == r.family = "query" /\ r.action \in {"lookup", "brief", "snippet"}

SnippetRange(store, r) ==
  LET ranged == {s \in store.symbols : s.file = r.filePath /\ s.name = r.symbol}
      symbol == CHOOSE s \in ranged : \A t \in ranged : s.id <= t.id
  IN  CASE "symbol" \in DOMAIN r -> IF ranged = {} THEN Refusal(NOT_FOUND)
                                    ELSE IF symbol.last = 0 THEN Refusal(NOT_FOUND)
                                    ELSE [first |-> symbol.first, last |-> symbol.last]
        [] {"startLine", "endLine"} \subseteq DOMAIN r -> [first |-> r.startLine, last |-> r.endLine]
        [] OTHER -> Refusal(INVALID)

LookupRange(r, lines) ==
  LET most == IF lines < MaxSourceLines THEN lines ELSE MaxSourceLines
  IN  [first |-> Field(r, "sourceStart", 1), last |-> Field(r, "sourceEnd", most)]

Ordered(range) == range.first <= range.last /\ range.last - range.first < MaxSourceLines

Neighbors(store, f) == {i[2] : i \in {i \in store.imports : i[1] = f}} \cup {i[1] : i \in {i \in store.imports : i[2] = f}}

(* source is what the disk has, 0 if it has nothing, and hash that of which *)
(* the record was made, 0 if it has none: then nothing passes for stale.    *)
Stale(hash, source) == source # 0 /\ hash # 0 /\ source # hash

FileAnswer(r, hash, source) ==
  LET store == stores[1]
      wanted == r.action = "snippet" \/ (Field(r, "includeSource", FALSE) /\ source # 0)
      range == IF r.action = "snippet" THEN SnippetRange(store, r) ELSE LookupRange(r, source)
      record == [hash |-> hash, stale |-> Stale(hash, source),
                 freshness |-> IF source = 0 THEN "unknown" ELSE IF Stale(hash, source) THEN "stale" ELSE "current",
                 neighbors |-> IF Field(r, "includeNeighbors", FALSE) THEN Neighbors(store, r.filePath) ELSE {}]
      last == IF range.last < source THEN range.last ELSE source
  IN  IF ~wanted THEN [ok |-> TRUE, record |-> record]
      ELSE IF source = 0 THEN Refusal(UNAVAILABLE)
      ELSE IF "error" \in DOMAIN range THEN range
      ELSE IF ~Ordered(range) \/ (r.action = "lookup" /\ range.last > source) THEN Refusal(INVALID)
      ELSE [ok |-> TRUE, record |-> record, source |-> source, lines |-> <<range.first, last>>]

-----------------------------------------------------------------------------
(* The service.                                                             *)
PersistenceError(code) ==
  CASE code = "ATLAS_TIMEOUT" -> "ATLAS_DEADLINE_EXCEEDED"
    [] code = "ATLAS_BACKPRESSURE" -> "ATLAS_BUSY"
    [] code = "ATLAS_CONFLICT" -> "ATLAS_WRITE_CONFLICT"
    [] code \in {"ATLAS_CANCELLED", "ATLAS_STORE_LOCKED", "ATLAS_SCHEMA_NEWER", "ATLAS_SCHEMA_HISTORY_DIVERGED",
                 "ATLAS_SCHEMA_CHECKSUM_MISMATCH", "ATLAS_SCHEMA_WRONG_DOMAIN", "ATLAS_STORE_CORRUPT",
                 "ATLAS_INVALID_REQUEST", "ATLAS_INDETERMINATE_WRITE"} -> code
    [] OTHER -> "ATLAS_INTERNAL"

NoAnswer == [ok |-> FALSE, error |-> "none"]
NoChain == [scope |-> <<>>, items |-> <<>>, whole |-> <<>>]

Init ==
  /\ stores \in Stores /\ disk \in Sources
  /\ closed = FALSE /\ phase = "idle" /\ changes = 0
  /\ request = [family |-> "none"] /\ answer = NoAnswer /\ chain = NoChain

Paged(a) == a.ok /\ "page" \in DOMAIN a

(* The pages a client has got by following their cursors, and what the list *)
(* was when it got the first.                                               *)
Followed(r, a) ==
  IF ~Paged(a) THEN NoChain
  ELSE IF "cursor" \in DOMAIN r
       THEN IF chain.scope = CursorScope(r) THEN [chain EXCEPT !.items = @ \o a.items] ELSE NoChain
       ELSE [scope |-> CursorScope(r), items |-> a.items, whole |-> List(r).items]

Answered(r, a) ==
  /\ request' = r /\ answer' = a /\ phase' = "idle" /\ chain' = Followed(r, a)
  /\ UNCHANGED <<stores, disk, closed, changes>>

Direct(r) ==
  IF closed THEN Refusal("ATLAS_INTERNAL")
  ELSE IF RequestError(r) # "none" THEN Refusal(RequestError(r))
  ELSE CASE r.family = "graph" -> GraphAnswer(r)
         [] OfFile(r) -> IF r.filePath \notin stores[1].files THEN Refusal(NOT_FOUND)
                         ELSE FileAnswer(r, stores[1].info[r.filePath].hash, 0)
         [] OTHER -> ListAnswer(r)

Awaits(r) ==
  ~closed /\ RequestError(r) = "none" /\ OfFile(r) /\ r.action # "brief" /\ r.filePath \in stores[1].files

Ask(r) ==
  /\ phase = "idle"
  /\ IF Awaits(r) THEN /\ phase' = "reading" /\ request' = r /\ answer' = NoAnswer /\ chain' = NoChain
                       /\ UNCHANGED <<stores, disk, closed, changes>>
     ELSE Answered(r, Direct(r))

(* The next page of the list the client has a page of.                      *)
Follow ==
  /\ Paged(answer) /\ answer.page.next # <<>> /\ phase = "idle"
  /\ \E r \in {request} \cup {r \in Requests : r.family = request.family /\ "cursor" \notin DOMAIN r} :
       Ask([f \in DOMAIN r \cup {"cursor"} |-> IF f = "cursor" THEN answer.page.next ELSE r[f]])

Read ==
  /\ phase = "reading"
  /\ Answered(request, FileAnswer(request, stores[1].info[request.filePath].hash, disk))

(* The executor throws instead of answering.                                *)
Throw(code) ==
  /\ phase = "reading"
  /\ Answered(request, Refusal(PersistenceError(code)))

StoresChange ==
  /\ phase = "idle" /\ changes < MaxChanges
  /\ changes' = changes + 1
  /\ stores' \in Stores \ {stores}
  /\ chain' = NoChain
  /\ UNCHANGED <<disk, closed, phase, request, answer>>

DiskChanges ==
  /\ changes < MaxChanges
  /\ changes' = changes + 1
  /\ disk' \in Sources \ {disk}
  /\ UNCHANGED <<stores, closed, phase, request, answer, chain>>

Close ==
  /\ ~closed
  /\ closed' = TRUE
  /\ UNCHANGED <<stores, disk, phase, request, answer, chain, changes>>

Next ==
  \/ \E r \in Requests : Ask(r)
  \/ Follow \/ Read \/ StoresChange \/ DiskChanges \/ Close
  \/ \E code \in Codes : Throw(code)

ReadSpec == Init /\ [][Next]_retrievalVars

-----------------------------------------------------------------------------
(* Properties.                                                              *)
(* As long as the store does not change, following the cursors hands out    *)
(* every item of the list once and in its order, whatever limit and budget  *)
(* cut the pages, and the last page says that it is the last.               *)
PagesWhole ==
  chain.scope # <<>> =>
    /\ chain.items = Prefix(chain.whole, Len(chain.items))
    /\ answer.page.next = <<>> => Len(chain.items) = Len(chain.whole)
    /\ answer.page.next # <<>> => answer.items # <<>>
=============================================================================
