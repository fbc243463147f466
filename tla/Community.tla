------------------------------ MODULE Community ------------------------------
(***************************************************************************)
(* runCommunityDetection (src/src/pipeline/community.ts), the last phase   *)
(* of a run: files that refer to each other are grouped by moving one      *)
(* after another to the neighbouring group that raises the modularity most,*)
(* groups that fell apart are split, the groups become the nodes of a      *)
(* smaller graph, and so on; what comes out is given the names of          *)
(* directories and written to atlas_files.                                 *)
(*                                                                         *)
(* A node is the number of its file in path order, or of its group in the  *)
(* order of their first files.  The label of a group, `c` or `c::1`, is a  *)
(* sequence of numbers, and a name the sequence of its segments, each the  *)
(* sequence of what hyphens join.  MAX_LEVELS (24) is out of reach here:   *)
(* every level has fewer nodes than the one below.                         *)
(***************************************************************************)
EXTENDS Integers, Sequences, FiniteSets, SequencesExt, FiniteSetsExt

CONSTANTS
  Dir,             \* Dir[f]: the directory of file f, a sequence of names
  MinClusterSize,  \* fewer files are no group
  MaxIterations,   \* the most passes of one level
  NoCluster        \* the cluster of a row that has none

VARIABLES
  rows,        \* atlas_files: the cluster of every file
  references,  \* "references": [source, target, usage]
  resolution,  \* the weight of what modularity expects
  at,          \* what is done next
  graph,       \* [nodes, weight]: the graph of the level
  partition,   \* the label of every node
  members,     \* the files of every node
  todo,        \* the nodes that the pass has yet to visit
  pass,        \* [moved, changed, number]: this pass and its level
  clusters     \* fileToCluster, which knows deleted files too

communityVars == <<rows, references, resolution, at, graph, partition, members, todo, pass, clusters>>

-----------------------------------------------------------------------------
(* Graphs *)

Edge(a, b) == {a, b}

Sum(Value(_), S) == MapThenSumSet(Value, S)

(* A reference counts at least once, and one of a file to itself does not. *)
References(rs, pair) == {r \in rs : {r.source, r.target} = pair}

BuildGraph(files, rs) ==
  LET nodes == files \cup {r.source : r \in rs} \cup {r.target : r \in rs}
  IN  [nodes |-> nodes,
       weight |-> [pair \in kSubset(2, nodes) |->
                     Sum(LAMBDA r : IF r.usage > 1 THEN r.usage ELSE 1, References(rs, pair))]]

Neighbours(g, n) == {m \in g.nodes \ {n} : g.weight[Edge(n, m)] > 0}

Weight(g, n, S) == Sum(LAMBDA m : g.weight[Edge(n, m)], Neighbours(g, n) \cap S)

Degree(g, n) == Weight(g, n, g.nodes)

TotalWeight(g) == Sum(LAMBDA pair : g.weight[pair], DOMAIN g.weight)

(* What is connected to the nodes of S within those of T.                  *)
ClosureWithin(g, S, T) ==
  FoldLeft(LAMBDA reached, n : reached \cup (T \cap UNION {Neighbours(g, m) : m \in reached}),
           S, [n \in 1..Cardinality(T) |-> n])

Component(g, n, T) == ClosureWithin(g, {n}, T)

Components(g, T) == {Component(g, n, T) : n \in T}

-----------------------------------------------------------------------------
(* Partitions *)

Singletons(g) == [n \in g.nodes |-> <<n>>]

Group(p, label) == {n \in DOMAIN p : p[n] = label}

(* localeCompare of two labels, of which one may begin with the other.     *)
Precedes(a, b) ==
  \E i \in DOMAIN b : /\ i > Len(a) \/ a[i] < b[i]
                      /\ \A j \in 1..i - 1 : a[j] = b[j]

Totals(g, S) == Sum(LAMBDA n : Degree(g, n), S)

(* The group that the node leaves is forgotten.                            *)
MutantDeltaModularity(m2, degree, gained, own, other) ==
  2 * gained * m2 - resolution * ((other + degree) * (other + degree) - other * other)

(* deltaModularityForMove times the square of m2: `degree` is the node's,  *)
(* `own` and `other` the totals of its group and of the one it may move to,*)
(* `gained` what it would have more to do with the latter.                 *)
DeltaModularity(m2, degree, gained, own, other) ==
  2 * gained * m2 - resolution * ((other + degree) * (other + degree) - other * other
                                  + (own - degree) * (own - degree) - own * own)

Gain(n, label) ==
  LET own == Group(partition, partition[n])
      other == Group(partition, label)
  IN  DeltaModularity(2 * TotalWeight(graph), Degree(graph, n),
                      Weight(graph, n, other) - Weight(graph, n, own), Totals(graph, own), Totals(graph, other))

Candidates(n) == {partition[m] : m \in Neighbours(graph, n)} \ {partition[n]}

(* The first of the best in the order of the labels.                       *)
Best(n, labels) ==
  CHOOSE c \in labels : \A d \in labels \ {c} : \/ Gain(n, c) > Gain(n, d)
                                                \/ Gain(n, c) = Gain(n, d) /\ Precedes(c, d)

(* computeModularity, times the square of m2.                              *)
Modularity(g, p) ==
  Sum(LAMBDA n : Weight(g, n, Group(p, p[n])), g.nodes) * 2 * TotalWeight(g)
    - resolution * Sum(LAMBDA label : Totals(g, Group(p, label)) * Totals(g, Group(p, label)), {p[n] : n \in g.nodes})

-----------------------------------------------------------------------------
(* One level *)

Pass(number) == [moved |-> FALSE, changed |-> FALSE, number |-> number]

Begin ==
  /\ at = "start"
  /\ graph' = BuildGraph(DOMAIN rows, references)
  /\ members' = [n \in graph'.nodes |-> {n}]
  /\ partition' = Singletons(graph')
  /\ at' = IF TotalWeight(graph') = 0 THEN "unlinked" ELSE "moving"
  /\ todo' = graph'.nodes /\ pass' = Pass(1)
  /\ UNCHANGED <<rows, references, resolution, clusters>>

(* runLocalMoving comes to the next node.                                  *)
Visit ==
  /\ at = "moving" /\ todo # {}
  /\ LET n == Min(todo)
         better == {c \in Candidates(n) : Gain(n, c) > 0}
     IN  /\ partition' = IF better = {} THEN partition ELSE [partition EXCEPT ![n] = Best(n, better)]
         /\ pass' = [pass EXCEPT !.moved = @ \/ better # {}]
         /\ todo' = todo \ {n}
  /\ UNCHANGED <<rows, references, resolution, at, graph, members, clusters>>

(* The label of a node after its group has been split into its components; *)
(* the label of the first of them is the group's.                          *)
Split(n) ==
  LET group == Group(partition, partition[n])
      before == {part \in Components(graph, group) : Min(part) < Min(Component(graph, n, group))}
  IN  IF before = {} THEN partition[n] ELSE Append(partition[n], Cardinality(before))

Refine ==
  /\ at = "moving" /\ todo = {}
  /\ partition' = [n \in graph.nodes |-> Split(n)]
  /\ LET settled == ~pass.moved /\ partition' = partition
     IN  /\ at' = IF settled \/ pass.number = MaxIterations THEN "leveled" ELSE "moving"
         /\ todo' = IF at' = "moving" THEN graph.nodes ELSE {}
         /\ pass' = [moved |-> FALSE, changed |-> pass.changed \/ ~settled,
                     number |-> IF at' = "moving" THEN pass.number + 1 ELSE pass.number]
  /\ UNCHANGED <<rows, references, resolution, graph, members, clusters>>

Labels == {partition[n] : n \in graph.nodes}

FilesOf(label) == UNION {members[n] : n \in Group(partition, label)}

(* The groups in the order of their first files.                           *)
Groups == SetToSortSeq(Labels, LAMBDA a, b : Min(FilesOf(a)) < Min(FilesOf(b)))

(* What links two groups; what links the files of one is dropped.          *)
Between(g, S, T) == Sum(LAMBDA n : Weight(g, n, T), S)

AggregateGraph(groups) ==
  [nodes |-> DOMAIN groups,
   weight |-> [pair \in kSubset(2, DOMAIN groups) |->
                 Between(graph, Group(partition, groups[Min(pair)]), Group(partition, groups[Max(pair)]))]]

Aggregate ==
  /\ at = "leveled" /\ pass.changed /\ Cardinality(Labels) < Cardinality(graph.nodes)
  /\ graph' = AggregateGraph(Groups)
  /\ members' = [i \in DOMAIN Groups |-> FilesOf(Groups[i])]
  /\ partition' = Singletons(graph')
  /\ at' = IF Len(Groups) = 1 THEN "assigning" ELSE "moving"
  /\ todo' = graph'.nodes /\ pass' = Pass(1)
  /\ UNCHANGED <<rows, references, resolution, clusters>>

Settle ==
  /\ at = "leveled" /\ ~(pass.changed /\ Cardinality(Labels) < Cardinality(graph.nodes))
  /\ at' = "assigning"
  /\ UNCHANGED <<rows, references, resolution, graph, partition, members, todo, pass, clusters>>

-----------------------------------------------------------------------------
(* Names *)

(* The directory with the most files, of several the first.                *)
Count(files, dir) == Cardinality({f \in files : Dir[f] = dir})

TextOrder == <<"a", "b", "src">>
Place(text) == CHOOSE i \in DOMAIN TextOrder : TextOrder[i] = text
DirKey(dir) == [i \in DOMAIN dir |-> Place(dir[i])]

DominantDirectory(files) ==
  CHOOSE dir \in {Dir[f] : f \in files} :
    \A other \in {Dir[f] : f \in files} \ {dir} :
      \/ Count(files, dir) > Count(files, other)
      \/ Count(files, dir) = Count(files, other) /\ Precedes(DirKey(dir), DirKey(other))

Segments(dir) == [i \in DOMAIN dir |-> <<dir[i]>>]

(* `src/` at the front of a path is dropped.                               *)
Slug(dir) == Segments(IF Len(dir) > 1 /\ dir[1] = "src" THEN Tail(dir) ELSE dir)

PathSlug(dir, fallback) == IF dir = <<>> THEN fallback ELSE Slug(dir)

Deduped(dir) == SelectSeq([i \in DOMAIN dir |-> IF i > 1 /\ dir[i] = dir[i - 1] THEN "" ELSE dir[i]], LAMBDA s : s # "")

FallbackName(f) == <<<<"dir">>, IF Dir[f] = <<>> THEN <<"root">> ELSE <<"joined", Deduped(Dir[f])>> >>

(* The name, or the first of name-2, name-3, ... that is not used.         *)
Suffixed(name, n) == [name EXCEPT ![Len(name)] = Append(@, n)]

Unused(name, used) ==
  IF name \notin used THEN name
  ELSE Suffixed(name, CHOOSE n \in 2..Cardinality(used) + 2 :
                        /\ Suffixed(name, n) \notin used
                        /\ \A m \in 2..n - 1 : Suffixed(name, m) \in used)

InOrder(sets) == SetToSortSeq(sets, LAMBDA S, T : Min(S) < Min(T))

Ordinal(S, sets) == Cardinality({T \in sets : Min(T) <= Min(S)})

(* Alone in its component a group has the name of its directory, and else  *)
(* one below that of the component.  `components` are those of the graph   *)
(* of the files, `groups` the groups.                                      *)
Siblings(group, groups, components) ==
  LET home == CHOOSE c \in components : Min(group) \in c
  IN  [home |-> home, groups |-> {other \in groups : Min(other) \in home}]

ParentBase(family, groups, components) ==
  PathSlug(DominantDirectory(UNION family.groups),
           <<<<"cluster", Ordinal(family.home, {c \in components : \E g \in groups : Min(g) \in c})>>>>)

ChildBase(group, family, parent, components) ==
  LET raw == PathSlug(DominantDirectory(group),
                      <<<<"cluster", Ordinal(family.home, components), Ordinal(group, family.groups)>>>>)
  IN  IF IsPrefix(parent, raw) THEN <<<<"cluster", Ordinal(group, family.groups)>>>> ELSE raw

BaseName(group, family, parent, components) ==
  IF Cardinality(family.groups) = 1 THEN parent ELSE parent \o ChildBase(group, family, parent, components)

NamedNext(named, group, family, groups, components) ==
  named @@ (group :> Unused(BaseName(group, family, ParentBase(family, groups, components), components), Range(named)))

ClusterNames(groups, components) ==
  FoldLeft(LAMBDA named, group : NamedNext(named, group, Siblings(group, groups, components), groups, components),
           <<>>, InOrder(groups))

-----------------------------------------------------------------------------
(* The end *)

Communities ==
  {S \in {FilesOf(label) : label \in Labels} : at = "assigning" /\ Cardinality(S) >= MinClusterSize}

Named(names, files) ==
  [f \in files \cup UNION DOMAIN names |->
     IF f \in UNION DOMAIN names THEN names[CHOOSE S \in DOMAIN names : f \in S] ELSE FallbackName(f)]

(* One transaction clears and sets the clusters of the workspace.          *)
Assign ==
  /\ at \in {"assigning", "unlinked"}
  /\ LET whole == BuildGraph(DOMAIN rows, references)
     IN  clusters' = Named(ClusterNames(Communities, Components(whole, whole.nodes)), DOMAIN rows)
  /\ rows' = [f \in DOMAIN rows |-> clusters'[f]]
  /\ at' = "done"
  /\ UNCHANGED <<references, resolution, graph, partition, members, todo, pass>>

Next == Begin \/ Visit \/ Refine \/ Aggregate \/ Settle \/ Assign

Init ==
  /\ at = "start" /\ graph = [nodes |-> {}, weight |-> <<>>] /\ partition = <<>> /\ members = <<>>
  /\ todo = {} /\ pass = Pass(1) /\ clusters = <<>>

-----------------------------------------------------------------------------
(* Every file gets a cluster; the files of a named one hang together in the *)
(* references of the workspace and no two groups have one name; and a level *)
(* comes to rest by itself, before it runs out of passes.                   *)
Fallbacks == {FallbackName(f) : f \in DOMAIN Dir}

ClustersWhole ==
  /\ at = "done" =>
       LET whole == BuildGraph(DOMAIN rows, references)
       IN  /\ \A f \in DOMAIN rows : rows[f] # NoCluster /\ rows[f] = clusters[f]
           /\ \A f \in DOMAIN clusters :
                clusters[f] \notin Fallbacks =>
                  LET same == {g \in DOMAIN clusters : clusters[g] = clusters[f]}
                  IN  Component(whole, f, same) = same /\ Cardinality(same) >= MinClusterSize
  /\ at = "leveled" => pass.number < MaxIterations

(* A move never makes the division of its graph worse, nor does a split.   *)
MovesImprove ==
  (at = "moving" /\ graph' = graph /\ partition' # partition)
     => Modularity(graph, partition') > Modularity(graph, partition)

(* The groups of the callers' resolution of one are just the components:   *)
(* the graph of a higher level knows no link within a group, so merging    *)
(* goes on for as long as there is any link.                               *)
GroupsAreComponents ==
  (at = "assigning" /\ resolution = 1)
     => LET whole == BuildGraph(DOMAIN rows, references)
        IN  {FilesOf(label) : label \in Labels} = Components(whole, whole.nodes)
=============================================================================
