--------------------------- MODULE RetrievalGraph ---------------------------
(* The graph family of reads (retrieval/engine.ts): which files of the     *)
(* stored graph impact, neighbors, trace, cycles, reachability, cluster    *)
(* and graph select.  Files are numbers in the order of their paths.  What *)
(* the store holds is a record: files, tests (those isTestFile is true     *)
(* of), cluster, imports, references and symbols.  A request is a record   *)
(* of the fields that are present.                                         *)
EXTENDS QueryControl, FiniteSetsExt, SequencesExt

Sorted(S) == [i \in 1..Cardinality(S) |-> CHOOSE x \in S : Cardinality({y \in S : y < x}) = i - 1]

(* [...].sort().slice(0, n)                                                *)
First(S, n) == {x \in S : Cardinality({y \in S : y < x}) < n}

Minimum(a, b) == IF a < b THEN a ELSE b

Prefix(s, n) == SubSeq(s, 1, Minimum(Len(s), n))

Reaches(edges, x) == {e \in edges : e.source = x}

BuildEdges(store) ==
  {[source |-> i[1], target |-> i[2], type |-> "import", symbol |-> 0] : i \in store.imports}
    \cup store.references

(* The files that adjacency leads to, one way or the other.                *)
Adjacency(files, edges) == [n \in files |-> {e.target : e \in {e \in edges : e.source = n}}]

Reversed(files, edges) == [n \in files |-> {e.source : e \in {e \in edges : e.target = n}}]

(* traverse: breadth first, until the queue is empty or as many files as   *)
(* allowed have been seen.  A file beyond the graph has no edges.          *)
After(graph, n) == IF n \in DOMAIN graph THEN graph[n] ELSE {}

Onward(route, files) == [i \in DOMAIN files |-> Append(route, files[i])]

Entered(s, fresh) ==
  [seen |-> s.seen \cup Range(fresh), paths |-> s.paths \o Onward(Head(s.queue), fresh),
   queue |-> Tail(s.queue) \o Onward(Head(s.queue), fresh)]

SearchFrom(n) == [seen |-> {n}, paths |-> <<<<n>>>>, queue |-> <<<<n>>>>]

Found(s) == [nodes |-> s.seen, paths |-> s.paths]

Fresh(s, graph, depth, maximum) ==
  IF Len(Head(s.queue)) - 1 >= depth THEN {}
  ELSE First(After(graph, Last(Head(s.queue))) \ s.seen, maximum - Cardinality(s.seen))

Widened(s, graph, depth, maximum) ==
  IF s.queue = <<>> \/ Cardinality(s.seen) >= maximum THEN s
  ELSE Entered(s, Sorted(Fresh(s, graph, depth, maximum)))

(* A file enters the queue once at most, and each round takes one from it. *)
Traverse(start, graph, depth, maximum) ==
  LET rounds == Cardinality(DOMAIN graph) + 1
      search[n \in 0..rounds] ==
        IF n = 0 THEN SearchFrom(start) ELSE Widened(search[n - 1], graph, depth, maximum)
  IN  Found(search[rounds])

NoRoute == [path |-> <<>>, cost |-> -1]

(* shortestPath is the same search, and ends with the first route it takes *)
(* from the queue that leads to the file.                                  *)
Hops(route) == [path |-> route, cost |-> 100 * (Len(route) - 1)]

ShortestPath(from, to, graph, maxHops) ==
  LET routes == Traverse(from, graph, maxHops, Cardinality(DOMAIN graph) + 2).paths
      leading == {k \in DOMAIN routes : Last(routes[k]) = to}
  IN  IF leading = {} THEN NoRoute ELSE Hops(routes[Min(leading)])

(* In hundredths.                                                          *)
GraphEdgeWeight(edge) ==
  CASE edge.type \in {"import", "runtime_call"} -> 100
    [] edge.type = "reexport"   -> 75
    [] edge.type = "type_ref"   -> 125
    [] edge.type = "config_ref" -> 150
    [] OTHER -> 110

(* Component by component, a beginning of a route before the route.        *)
Smaller(p, q) ==
  \E k \in DOMAIN q : /\ k <= Len(p) + 1 /\ \A i \in 1..k - 1 : p[i] = q[i]
                      /\ k \in DOMAIN p => p[k] < q[k]

Sooner(a, b) ==
  \/ a.cost < b.cost
  \/ a.cost = b.cost /\ Len(a.path) < Len(b.path)
  \/ a.cost = b.cost /\ Len(a.path) = Len(b.path) /\ Smaller(a.path, b.path)

(* The states the search remembers the best route to: a file and how many  *)
(* hops away it is, since a cheap route with many hops does not replace a  *)
(* dear one with few.                                                      *)
StateKey(route) == <<Last(route.path), Len(route.path) - 1>>

(* Mutant: one best route for each file.                                   *)
MutantKept(best, route) ==
  \E b \in best : /\ Last(b.path) = Last(route.path)
                  /\ b.cost < route.cost \/ (b.cost = route.cost /\ ~Smaller(route.path, b.path))

Kept(best, route) ==
  \E b \in best : /\ StateKey(b) = StateKey(route)
                  /\ b.cost < route.cost \/ (b.cost = route.cost /\ ~Smaller(route.path, b.path))

Offer(s, route) ==
  IF Kept(s.best, route) THEN s
  ELSE [best |-> {b \in s.best : StateKey(b) # StateKey(route)} \cup {route},
        frontier |-> s.frontier \cup {route}]

Cheapest(frontier) == CHOOSE r \in frontier : \A q \in frontier \ {r} : Sooner(r, q)

Longer(route, edges) ==
  {[path |-> Append(route.path, e.target), cost |-> route.cost + GraphEdgeWeight(e)] :
     e \in {e \in Reaches(edges, Last(route.path)) : e.target \notin Range(route.path)}}

Weighed == [path : Seq(Nat), cost : Nat]
Frontiers == [frontier : SUBSET Weighed, best : SUBSET Weighed]

Taken(s, current, edges, maxHops) ==
  LET left == [s EXCEPT !.frontier = @ \ {current}]
  IN  IF Len(current.path) - 1 >= maxHops THEN left
      ELSE FoldSet(LAMBDA r, a : Offer(a, r), left, Longer(current, edges))

Search(start, to, edges, maxHops) ==
  LET searched[s \in Frontiers] ==
        LET current == Cheapest(s.frontier)
        IN  IF s.frontier = {} THEN NoRoute
            ELSE IF Last(current.path) = to THEN current
            ELSE searched[Taken(s, current, edges, maxHops)]
  IN  searched[start]

WeightedShortestPath(from, to, edges, maxHops) ==
  LET start == [path |-> <<from>>, cost |-> 0]
  IN  Search([frontier |-> {start}, best |-> {start}], to, edges, maxHops)

(* findCycles: the strongly connected components, by Tarjan's algorithm.   *)
Lower(t, node, bound) == [t EXCEPT !.low[node] = IF bound < @ THEN bound ELSE @]

Seen(t, node, next) == IF next \in Range(t.stack) THEN Lower(t, node, t.indices[next]) ELSE t

Pop(t, node, graph) ==
  LET from == CHOOSE i \in DOMAIN t.stack : t.stack[i] = node
      component == Range(SubSeq(t.stack, from, Len(t.stack)))
  IN  [t EXCEPT !.stack = SubSeq(@, 1, from - 1),
                !.cycles = IF Cardinality(component) > 1 \/ node \in graph[node]
                           THEN @ \cup {component} ELSE @]

Visited(nodes, graph) ==
  LET Tables == [index : Nat, indices : [nodes -> Nat], low : [nodes -> Nat], stack : Seq(nodes), cycles : SUBSET SUBSET nodes]
      visited[t \in Tables, node \in nodes] ==
        LET entered == [t EXCEPT !.index = @ + 1, !.indices[node] = t.index, !.low[node] = t.index,
                                 !.stack = Append(@, node)]
            Follow(u, next) == IF u.indices[next] # 0 THEN Seen(u, node, next)
                               ELSE LET v == visited[u, next] IN Lower(v, node, v.low[next])
            left == FoldLeft(Follow, entered, Sorted(graph[node] \cap nodes))
        IN  IF left.low[node] # left.indices[node] THEN left ELSE Pop(left, node, graph)
  IN  visited

FindCycles(nodes, graph) ==
  LET none == [n \in nodes |-> 0]
      Root(t, n) == IF t.indices[n] # 0 THEN t ELSE Visited(nodes, graph)[t, n]
  IN  FoldLeft(Root, [index |-> 1, indices |-> none, low |-> none, stack |-> <<>>, cycles |-> {}],
               Sorted(nodes)).cycles

-----------------------------------------------------------------------------
(* executeGraph.  Test files are left out unless they are asked for, and   *)
(* with them their edges; an edge type that is not asked for as well.      *)
FileSet(store, r) == {f \in store.files : Field(r, "includeTestFiles", FALSE) \/ f \notin store.tests}

Edges(store, r) ==
  LET files == FileSet(store, r)
      importsOnly == \/ r.action = "impact" /\ Field(r, "includeReferences", TRUE) = FALSE
                     \/ r.action = "neighbors" /\ Field(r, "includeReferences", FALSE) = FALSE
      types == Field(r, "edgeTypes", {})
  IN  {e \in BuildEdges(store) :
         /\ e.source \in files /\ e.target \in files
         /\ importsOnly => e.type = "import"
         /\ types # {} => e.type \in types}

Forward(store, r) == Adjacency(FileSet(store, r), Edges(store, r))
Backward(store, r) == Reversed(FileSet(store, r), Edges(store, r))
MaxNodes(r) == Field(r, "maxNodes", 200)
MaxEdges(r) == Field(r, "maxEdges", 1000)

Nodes(nodes) == [nodes |-> nodes, paths |-> <<>>, cycles |-> {}, symbols |-> {}, cost |-> -1]
GraphError(code) == [error |-> code]

(* The symbol's users are taken from all the references, and from them on  *)
(* the search goes one step less.                                          *)
ImpactOfSymbol(store, r) ==
  LET target == {s \in store.symbols : s.file = r.filePath /\ s.name = r.symbol}
      id == (CHOOSE s \in target : TRUE).id
      direct == {e.source : e \in {e \in store.references : e.symbol = id}}
      depth == Field(r, "depth", 3)
      From(i) == Traverse(i, Backward(store, r), IF depth = 0 THEN 0 ELSE depth - 1, MaxNodes(r))
      all == FoldLeft(LAMBDA s, i : s \o [k \in DOMAIN From(i).paths |-> <<r.filePath>> \o From(i).paths[k]],
                      <<<<r.filePath>>>>, Sorted(direct))
  IN  IF target = {} THEN GraphError("ATLAS_NOT_FOUND")
      ELSE [Nodes(First({r.filePath} \cup UNION {From(i).nodes : i \in direct}, MaxNodes(r)))
              EXCEPT !.paths = all, !.symbols = target]

Joined(r, out, in) ==
  [Nodes(First(out.nodes \cup in.nodes, MaxNodes(r))) EXCEPT
     !.paths = IF r.action = "neighbors" THEN SortSeq(out.paths \o in.paths, Smaller) ELSE out.paths \o in.paths]

WithPaths(s) == [Nodes(s.nodes) EXCEPT !.paths = s.paths]

OneWay(store, r, graph, depth) == WithPaths(Traverse(r.filePath, graph, depth, MaxNodes(r)))

Both(store, r, depth) ==
  Joined(r, OneWay(store, r, Forward(store, r), depth), OneWay(store, r, Backward(store, r), depth))

Neighbourhood(store, r) ==
  LET direction == Field(r, "direction", "both")
      depth == Field(r, "depth", IF r.action = "impact" THEN 3 ELSE 1)
  IN  IF r.filePath \notin FileSet(store, r) THEN GraphError("ATLAS_NOT_FOUND")
      ELSE IF r.action = "impact" /\ "symbol" \in DOMAIN r THEN ImpactOfSymbol(store, r)
      ELSE IF r.action = "impact" \/ direction = "importers" THEN OneWay(store, r, Backward(store, r), depth)
      ELSE IF direction = "imports" THEN OneWay(store, r, Forward(store, r), depth)
      ELSE Both(store, r, depth)

(* A symbol's name has to be that of one symbol only.                      *)
Trace(store, r) ==
  LET named(n) == {s \in store.symbols : s.name = n}
      symbolic == "fromSymbol" \in DOMAIN r
      unclear == symbolic /\ (Cardinality(named(r.fromSymbol)) # 1 \/ Cardinality(named(r.toSymbol)) # 1)
      Ends(field, symbol) == IF symbolic THEN (CHOOSE s \in named(r[symbol]) : TRUE).file ELSE r[field]
      from == Ends("from", "fromSymbol")
      to == Ends("to", "toSymbol")
      hops == Field(r, "maxHops", 8)
      route == IF Field(r, "weighted", FALSE) THEN WeightedShortestPath(from, to, Edges(store, r), hops)
               ELSE ShortestPath(from, to, Forward(store, r), hops)
  IN  IF unclear THEN GraphError("ATLAS_INVALID_REQUEST")
      ELSE [Nodes(Range(route.path)) EXCEPT
              !.paths = IF route = NoRoute THEN <<>> ELSE <<route.path>>, !.cost = route.cost,
              !.symbols = IF symbolic THEN named(r.fromSymbol) \cup named(r.toSymbol) ELSE {}]

(* The first component of every cycle is its smallest file.                *)
Cycles(store, r) ==
  LET found == {c \in FindCycles(First(FileSet(store, r), MaxNodes(r)), Forward(store, r)) :
                  /\ Cardinality(c) >= Field(r, "minSize", 2)
                  /\ "filePath" \in DOMAIN r => r.filePath \in c}
      taken == {c \in found : Cardinality({d \in found : Min(d) < Min(c)}) < Field(r, "limit", 20)}
  IN  [Nodes(First(UNION taken, MaxNodes(r))) EXCEPT !.cycles = taken]

Reachability(store, r) ==
  LET files == FileSet(store, r)
      entry == {f \in files : Backward(store, r)[f] = {}}
      used == {e.symbol : e \in store.references}
      dead == {s \in store.symbols : /\ s.exported /\ s.id \notin used
                                     /\ "filePath" \in DOMAIN r => s.file = r.filePath
                                     /\ "symbol" \in DOMAIN r => s.name = r.symbol}
      listed == {s \in dead : Cardinality({t \in dead : t.id < s.id}) < Field(r, "limit", 20)}
      route == ShortestPath(r.from, r.to, Forward(store, r), 50)
  IN  CASE r.mode = "path_query" ->
             [Nodes(Range(route.path)) EXCEPT !.paths = IF route = NoRoute THEN <<>> ELSE <<route.path>>]
        [] r.mode = "entrypoints" -> Nodes(First(entry, MaxNodes(r)))
        [] r.mode = "dead_files" -> Nodes(First({f \in entry : Forward(store, r)[f] = {}}, MaxNodes(r)))
        [] OTHER -> [Nodes(First({s.file : s \in listed}, MaxNodes(r))) EXCEPT !.symbols = listed]

WholeGraph(store, r) ==
  LET direction == Field(r, "direction", "imports")
      depth == Field(r, "depth", 2)
  IN  IF "filePath" \notin DOMAIN r THEN Nodes(First(FileSet(store, r), MaxNodes(r)))
      ELSE IF direction = "both" THEN Both(store, r, depth)
      ELSE OneWay(store, r, IF direction = "importers" THEN Backward(store, r) ELSE Forward(store, r), depth)

Selected(store, r) ==
  CASE r.action \in {"impact", "neighbors"} -> Neighbourhood(store, r)
    [] r.action = "trace" -> Trace(store, r)
    [] r.action = "cycles" -> Cycles(store, r)
    [] r.action = "reachability" -> Reachability(store, r)
    [] r.action = "cluster" ->
         Nodes(First({f \in FileSet(store, r) : store.cluster[f] = r.cluster}, MaxNodes(r)))
    [] OTHER -> WholeGraph(store, r)

(* The edges between the nodes, the first paths and symbols, and whether   *)
(* the nodes or the edges have reached their bound.                        *)
Between(edges, nodes) == {e \in edges : e.source \in nodes /\ e.target \in nodes}

FirstSymbols(symbols, n) == {x \in symbols : Cardinality({y \in symbols : y.id < x.id}) < n}

Capped(store, r, s, between) ==
  LET edges == Minimum(between, MaxEdges(r))
      inNodes == Field(r, "includeSymbols", FALSE) /\ r.action \in {"impact", "neighbors", "graph"}
  IN  [nodes |-> s.nodes, edges |-> edges, cost |-> s.cost, cycles |-> s.cycles,
       paths |-> Prefix(s.paths, Field(r, "limit", 20)),
       symbols |-> FirstSymbols(IF inNodes THEN {x \in store.symbols : x.file \in s.nodes} ELSE s.symbols,
                                Field(r, "limit", 20)),
       truncated |-> Cardinality(s.nodes) >= MaxNodes(r) \/ edges >= MaxEdges(r)]

Bounded(store, r, s) ==
  IF "error" \in DOMAIN s THEN s ELSE Capped(store, r, s, Cardinality(Between(Edges(store, r), s.nodes)))

ExecuteGraph(store, r) == Bounded(store, r, Selected(store, r))
=============================================================================
