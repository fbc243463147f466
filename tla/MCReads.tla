------------------------------- MODULE MCReads -------------------------------
(* Four sessions, each of which leaves the state of the others alone: a     *)
(* client that reads lists and files of two stores, graph requests over     *)
(* every small import graph, the controller of one request's work, and an   *)
(* embedding request.                                                       *)
EXTENDS Retrieval, QueryController, EmbeddingController

VARIABLE mode

vars == <<mode, retrievalVars, controlVars, embedVars>>

ASSUME LimitsArePositive == ControllerAssumption

-----------------------------------------------------------------------------
(* The stores.                                                              *)
Reference(source, target, type, symbol) == [source |-> source, target |-> target, type |-> type, symbol |-> symbol]

Info(f, lines) ==
  [words |-> IF f = 3 THEN <<>> ELSE ("w" :> 7 - f) @@ (IF f = 1 THEN ("v" :> 1) ELSE <<>>),
   blurb |-> IF f = 2 THEN {} ELSE {"w"}, purpose |-> {"v"},
   tokens |-> {f, 2, 9}, patterns |-> IF f = 1 THEN {"p", "q"} ELSE {"q"},
   hash |-> IF f = 3 THEN 0 ELSE lines, size |-> 10 * f, lacks |-> IF f = 2 THEN {"tags", "blurb", "patterns"} ELSE {"tags"},
   loc |-> f, logSize |-> f - 1, hazards |-> f]

Entry(id, f, at, engine) ==
  [id |-> id, file_path |-> f, created_at |-> at, cluster |-> "a", commit_sha |-> <<>>, author_instance_id |-> "me",
   author_engine |-> engine, author_name |-> "none", verification_status |-> "pending",
   breaking_changes |-> id = 2, words |-> IF id = 3 THEN <<>> ELSE ("w" :> id)]

Store(imports, lines) ==
  [files |-> 1..4, tests |-> {4}, cluster |-> [f \in 1..4 |-> IF f = 2 THEN "none" ELSE IF f = 3 THEN "b" ELSE "a"],
   imports |-> imports, references |-> {Reference(1, 3, "type_ref", 1)},
   symbols |-> {[id |-> 1, file |-> 3, name |-> "s", exported |-> TRUE, first |-> 2, last |-> 3],
                [id |-> 2, file |-> 1, name |-> "t", exported |-> TRUE, first |-> 1, last |-> 0]},
   info |-> [f \in 1..4 |-> Info(f, lines)],
   entries |-> {Entry(1, 1, 0, "x"), Entry(2, 2, 1, "y"), Entry(3, 1, 3, "x")}]

Empty == [Store({}, 1) EXCEPT !.files = {2}, !.tests = {}, !.entries = {}, !.symbols = {}]

MCStores == {(1 :> Store({<<1, 2>>, <<2, 3>>, <<3, 2>>}, 3)) @@ (2 :> Store({}, 3)),
             (1 :> Store({<<1, 3>>}, 2)) @@ (2 :> Empty)}

(* The requests of a client.                                                *)
Q(action) == [family |-> "query", action |-> action]
A(action) == [family |-> "audit", action |-> action]
G(action) == [family |-> "graph", action |-> action]
File(f) == [filePath |-> f]

Lists ==
  {Q("search") @@ [query |-> "w", workspaces |-> {1, 2}, limit |-> 2], Q("search") @@ [query |-> "w", cluster |-> "a"],
   Q("ask") @@ [query |-> "w", limit |-> 2, characterBudget |-> 45, includeTestFiles |-> TRUE],
   Q("ask") @@ [query |-> "w", characterBudget |-> 15], Q("plan_context") @@ [query |-> "v", limit |-> 2, characterBudget |-> 40],
   Q("plan_context") @@ [query |-> "w", includeNeighbors |-> FALSE], Q("catalog") @@ [query |-> "v", field |-> "purpose", limit |-> 1],
   Q("catalog") @@ [pathPrefix |-> {2, 3}], Q("similar") @@ File(1) @@ [limit |-> 1], Q("similar") @@ File(3) @@ [minScore |-> 60],
   Q("similar") @@ File(4), Q("cluster"), Q("cluster") @@ [cluster |-> "a", limit |-> 1], Q("patterns") @@ [limit |-> 1],
   Q("patterns") @@ File(1), Q("patterns") @@ File(4), Q("patterns") @@ [pattern |-> "q"]}

Histories ==
  {Q("history") @@ [limit |-> 1], Q("history") @@ [mode |-> "group", groupBy |-> "runtime_name", limit |-> 1],
   Q("history") @@ [mode |-> "group"], Q("history") @@ [mode |-> "count", since |-> [form |-> "iso", at |-> 0]],
   Q("history") @@ [mode |-> "timeline", bucket |-> "day", limit |-> 1], Q("history") @@ [query |-> "w", filePath |-> 1],
   Q("history") @@ [breakingChanges |-> FALSE, order |-> "asc", until |-> [form |-> "date", at |-> 4]]}

Audits ==
  {A("gaps") @@ [limit |-> 2], A("gaps") @@ [minSeverity |-> "high", gapTypes |-> {"tags", "blurb"}], A("smells"),
   A("smells") @@ [limit |-> 1, filePath |-> 2], A("hotspots") @@ [topN |-> 2, limit |-> 1],
   A("hotspots") @@ [weights |-> [degree |-> 0], since |-> [form |-> "spaced", at |-> 1]]}

Single ==
  {Q("brief") @@ File(1), Q("brief") @@ File(5), Q("lookup") @@ File(1) @@ [includeNeighbors |-> TRUE],
   Q("lookup") @@ File(1) @@ [includeSource |-> TRUE, sourceStart |-> 2], Q("lookup") @@ File(1) @@ [includeSource |-> TRUE, sourceEnd |-> 3],
   Q("snippet") @@ File(3) @@ [symbol |-> "s"], Q("snippet") @@ File(1) @@ [symbol |-> "t"],
   Q("snippet") @@ File(1) @@ [startLine |-> 1, endLine |-> 2], Q("snippet") @@ File(1) @@ [startLine |-> 2, endLine |-> 1],
   Q("snippet") @@ File(1) @@ [startLine |-> 2], Q("snippet") @@ File(1)}

Wrong ==
  {Q("nothing"), Q("search"), Q("search") @@ [query |-> Bad], Q("brief") @@ [filePath |-> 1, limit |-> Bad],
   Q("brief") @@ [filePath |-> 1, symbol |-> "s"], Q("history") @@ [mode |-> Bad], Q("nothing") @@ [limit |-> Bad],
   A("nothing") @@ [topN |-> Bad], A("gaps") @@ [topN |-> Bad], Q("list") @@ [mode |-> Bad],
   Q("diff"), Q("brief"), G("trace") @@ [from |-> 1, to |-> 2, toSymbol |-> "s"], G("impact"), G("cluster"),
   G("reachability") @@ [mode |-> "path_query", from |-> 1]}

MCRequests == Lists \cup Histories \cup Audits \cup Single \cup Wrong
                \cup {G("impact") @@ File(9), G("trace") @@ [fromSymbol |-> "s", toSymbol |-> "none"], G("graph") @@ [maxNodes |-> 2]}

-----------------------------------------------------------------------------
(* The graphs: those of three files with these imports, or some of them,    *)
(* and a few references; and one of which a dear route with few hops is all *)
(* that leads to its last file.                                             *)
Imports == {<<1, 2>>, <<1, 3>>, <<2, 1>>, <<2, 3>>, <<3, 2>>, <<3, 3>>}

Small(imports, references) ==
  [Store(imports, 1) EXCEPT !.files = 1..3, !.tests = {}, !.references = references]

Detour ==
  [Store({<<1, 5>>}, 1) EXCEPT !.files = 1..7, !.tests = {}, !.symbols = {}, !.info = [f \in 1..7 |-> Info(f, 1)],
     !.references = {Reference(1, 2, "reexport", 1), Reference(2, 3, "reexport", 1), Reference(3, 6, "reexport", 1),
                     Reference(5, 6, "config_ref", 1), Reference(6, 7, "reexport", 1), Reference(7, 4, "reexport", 1)}]

References ==
  {{}, {Reference(1, 3, "config_ref", 1), Reference(2, 1, "reexport", 2)},
   {Reference(1, 2, "type_ref", 1), Reference(2, 3, "reexport", 1), Reference(3, 3, "runtime_call", 2)}}

Graph == {(1 :> store) @@ (2 :> Empty) :
            store \in {Detour} \cup {Small(imports, references) : imports \in SUBSET Imports, references \in References}}

Traces(n) == {G("trace") @@ [from |-> 1, to |-> to, weighted |-> w, maxHops |-> hops] :
                to \in 2..n, w \in BOOLEAN, hops \in {2, 4}}

-----------------------------------------------------------------------------
MCKeyOrder == <<"a", "b", "p", "q", "x", "y", "blurb", "cross_references", "dependency_cycle", "hazard_density",
                "high_coupling", "large_file", "patterns", "purpose", "source_highlights", "tags">>

MCArgs == {[maxWorkUnits |-> 8], [max_work_units |-> 11, deadline_ms |-> 100]}

MCItems == <<1, 2, 3, 4>>
MCBytes == <<1, 1, 2, 1>>
MCLexical == <<1, 2, 3>>
MCDense == {<<>>, <<3, 1>>, <<2, 3, 1>>}

AllStores == MCStores \cup Graph

MCInit ==
  /\ Init /\ ControlInit /\ EmbedInit
  /\ mode \in {"reading", "graph", "working", "embedding"}
  /\ stores \in IF mode = "graph" THEN Graph ELSE MCStores
  /\ mode \in {"working", "embedding"} => stores = CHOOSE s \in MCStores : TRUE
  /\ mode # "reading" => disk = 1
  /\ mode # "working" => plan.work = 8

(* An answer depends on no other list than the one it continues: a client   *)
(* has one request here, and follows its cursors.  The disk matters to a    *)
(* request of one file only.                                                *)
OneList ==
  /\ \/ request.family = "none" \/ request' = request
     \/ "cursor" \in DOMAIN request' /\ request'.action = request.action
  /\ disk' # disk => phase = "reading"
  /\ disk # 1 => OfFile(request')

MCNext ==
  \/ /\ UNCHANGED <<mode, controlVars, embedVars>>
     /\ mode = "reading" /\ Next /\ stores' \in MCStores /\ OneList
  \/ /\ UNCHANGED <<mode, retrievalVars, embedVars>>
     /\ mode = "working" /\ ControlNext
  \/ /\ UNCHANGED <<mode, retrievalVars, controlVars>>
     /\ mode = "embedding" /\ EmbedNext

MCSpec == MCInit /\ [][MCNext]_vars

-----------------------------------------------------------------------------
(* What the graph requests are measured by: the routes without a file twice *)
(* and the files that lie within some steps, from the edges alone.          *)
RECURSIVE Routes(_, _, _)
Routes(edges, route, hops) ==
  {route} \cup UNION {Routes(edges, Append(route, f), hops - 1) :
                        f \in IF hops = 0 THEN {} ELSE {e.target : e \in Reaches(edges, Last(route))} \ Range(route)}

Least(S) == CHOOSE n \in S : \A m \in S : n <= m

Cost(edges, route) ==
  FoldLeft(LAMBDA n, i : n + Least({GraphEdgeWeight(e) : e \in {e \in edges : e.source = route[i] /\ e.target = route[i + 1]}}),
           0, [i \in 1..Len(route) - 1 |-> i])

TraceIs(found, routes, costs) ==
  IF routes = {} THEN found.paths = <<>>
  ELSE found.cost = Least(costs) /\ found.paths # <<>> /\ found.paths[1] \in routes

TraceRight(store, r) ==
  LET edges == Edges(store, r)
      routes == {p \in Routes(edges, <<r.from>>, r.maxHops) : Last(p) = r.to}
  IN  TraceIs(ExecuteGraph(store, r), routes, {IF r.weighted THEN Cost(edges, p) ELSE 100 * (Len(p) - 1) : p \in routes})

Within(edges, f, depth) == {Last(p) : p \in Routes(edges, <<f>>, depth)}

(* Two files are in one cycle if each leads to the other.                   *)
CyclesRight(store) ==
  LET r == G("cycles") @@ [minSize |-> 1]
      edges == Edges(store, r)
      To(f) == Within(edges, f, Cardinality(store.files))
      circle(f) == {g \in To(f) : f \in To(g)}
      cyclic == {f \in store.files : Cardinality(circle(f)) > 1 \/ \E e \in edges : e.source = f /\ e.target = f}
  IN  ExecuteGraph(store, r).cycles = {circle(f) : f \in cyclic}

NeighbourhoodRight(store, f, depth) ==
  LET imports == G("neighbors") @@ File(f) @@ [depth |-> depth, direction |-> "imports", includeReferences |-> TRUE]
      edges == Edges(store, imports)
      upstream == {[e EXCEPT !.source = e.target, !.target = e.source] : e \in edges}
  IN  /\ ExecuteGraph(store, imports).nodes = Within(edges, f, depth)
      /\ ExecuteGraph(store, G("impact") @@ File(f) @@ [depth |-> depth]).nodes = Within(upstream, f, depth)
      /\ Range(ExecuteGraph(store, imports).paths) \subseteq Routes(edges, <<f>>, depth)

(* A file is dead, or an entry, if no edge leads from it or to it.          *)
ReachabilityRight(store) ==
  LET Asked(m) == G("reachability") @@ [mode |-> m]
      edges == BuildEdges(store)
      entered == {e.target : e \in edges}
  IN  /\ ExecuteGraph(store, Asked("entrypoints")).nodes = store.files \ entered
      /\ ExecuteGraph(store, Asked("dead_files")).nodes = store.files \ (entered \cup {e.source : e \in edges})

(* What a graph request answers is what there is in the graph: a trace is a *)
(* route and none is cheaper, a cycle is a strongly connected component and *)
(* none is missing, and a neighbourhood has the files within its depth.     *)
GraphAnswersSound ==
  mode = "graph" =>
    LET store == stores[1]
        n == Cardinality(store.files)
    IN  /\ \A r \in Traces(n) : TraceRight(store, r)
        /\ CyclesRight(store) /\ ReachabilityRight(store)
        /\ \A f \in 1..3, depth \in 0..2 : NeighbourhoodRight(store, f, depth)

=============================================================================
