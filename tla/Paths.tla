-------------------------------- MODULE Paths --------------------------------
(***************************************************************************)
(* canonicalizeRepositoryPath (src/src/core/paths.ts): the one name that a *)
(* file of a workspace has, whichever way it is spelt, and where the known *)
(* symbolic links and renames lead it.                                     *)
(*                                                                         *)
(* A text is what it begins with, "none", "slash", "double" (two slashes), *)
(* "drive" (C:/), "relative drive" (C:a) or "scheme" (a URI), whether it   *)
(* holds a control character, and its segments, backslashes read as        *)
(* slashes.  A segment is a string; LowerCase is toLocaleLowerCase.        *)
(***************************************************************************)
EXTENDS Naturals, FiniteSets, Sequences, SequencesExt

CONSTANT LowerCase   \* LowerCase[s]: segment s in lower case

Text(lead, parts) == [lead |-> lead, odd |-> FALSE, parts |-> parts]

Failure(code) == [ok |-> FALSE, code |-> code]

-----------------------------------------------------------------------------
(* Normal forms *)

Fold(segment, caseSensitive) == IF caseSensitive THEN segment ELSE LowerCase[segment]

(* `..` at the top that is only dropped.                                   *)
MutantEnter(path, segment, caseSensitive) ==
  CASE segment \in {"", "."} -> path
    [] segment = ".." -> IF path.value = <<>> THEN path ELSE [path EXCEPT !.value = Front(@)]
    [] OTHER -> [path EXCEPT !.value = Append(@, Fold(segment, caseSensitive))]

(* One segment: `..` takes one away, and at the top it is an escape.       *)
Enter(path, segment, caseSensitive) ==
  CASE segment \in {"", "."} -> path
    [] segment = ".." -> IF path.value = <<>> THEN [path EXCEPT !.escaped = TRUE] ELSE [path EXCEPT !.value = Front(@)]
    [] OTHER -> [path EXCEPT !.value = Append(@, Fold(segment, caseSensitive))]

NormalizeSegments(parts, caseSensitive) ==
  FoldLeft(LAMBDA path, segment : Enter(path, segment, caseSensitive), [value |-> <<>>, escaped |-> FALSE], parts)

IsAbsolute(text, platform) ==
  IF platform = "posix" THEN text.lead = "slash" ELSE text.lead \in {"drive", "double"}

None == [value |-> <<"none">>, escaped |-> TRUE]

At(root, path) == [value |-> root \o path.value, escaped |-> path.escaped]

NonEmpty(parts) == SelectSeq(parts, LAMBDA s : s # "")

(* Of a path //server/share the first two segments are its root.           *)
Shared(parts, caseSensitive) ==
  IF Len(parts) < 2 THEN None
  ELSE At(<<"//", Fold(parts[1], caseSensitive), Fold(parts[2], caseSensitive)>>,
          NormalizeSegments(SubSeq(parts, 3, Len(parts)), caseSensitive))

(* None stands for null.                                                   *)
NormalizeAbsolute(text, platform, caseSensitive) ==
  CASE platform = "posix" /\ text.lead = "slash" -> At(<<"/">>, NormalizeSegments(text.parts, caseSensitive))
    [] platform = "win32" /\ text.lead = "drive" -> At(<<"c:">>, NormalizeSegments(text.parts, caseSensitive))
    [] platform = "win32" /\ text.lead = "double" -> Shared(NonEmpty(text.parts), caseSensitive)
    [] OTHER -> None

NormalizeRelative(text, platform, caseSensitive) ==
  IF \/ text = Text("none", <<>>)
     \/ text.odd
     \/ IsAbsolute(text, platform)
     \/ text.lead \in {"relative drive", "scheme"}
  THEN None
  ELSE NormalizeSegments(text.parts, caseSensitive)

-----------------------------------------------------------------------------
(* Mappings: [from, to, kind] of texts, and `to` may be Deleted.           *)

Deleted == Text("deleted", <<>>)

IsMappingMatch(path, mapping) ==
  path = mapping.from \/ (mapping.kind = "directory" /\ IsStrictPrefix(mapping.from, path))

ReplaceMappingPrefix(path, from, to) == to \o SubSeq(path, Len(from) + 1, Len(path))

(* Only what is in its normal form already may be mapped, from or to.      *)
Normal(text, platform, caseSensitive) ==
  /\ text.lead = "none"
  /\ NormalizeRelative(text, platform, caseSensitive) = [value |-> text.parts, escaped |-> FALSE]
  /\ text.parts # <<>>

Prepared(mapping) ==
  [from |-> mapping.from.parts, to |-> mapping.to.parts, kind |-> mapping.kind, deletes |-> mapping.to = Deleted]

(* No mapping leads to itself and no two lead from one path.               *)
MappingsValid(aliases, redirects, platform, caseSensitive) ==
  LET all == aliases \o redirects
  IN  /\ \A i \in DOMAIN all : /\ Normal(all[i].from, platform, caseSensitive)
                               /\ (all[i].to = Deleted /\ i > Len(aliases)) \/ Normal(all[i].to, platform, caseSensitive)
                               /\ all[i].from # all[i].to
      /\ \A i, j \in DOMAIN all : i # j => all[i].from # all[j].from

(* Of the mappings of a path the longest, which comes first in the order.  *)
Matches(path, mappings) == {m \in mappings : IsMappingMatch(path, m)}

Longest(mappings) == CHOOSE m \in mappings : \A n \in mappings : Len(n.from) <= Len(m.from)

(* A walk is where the mappings have led: [at, path, seen, aliases,        *)
(* resolvedSymlink, redirected].                                           *)
Onto(walk, path) ==
  [walk EXCEPT !.path = path, !.at = IF path \in walk.seen THEN "cycle" ELSE "changed", !.seen = @ \cup {path},
               !.aliases = IF walk.path \in Range(@) \/ walk.path = path THEN @ ELSE Append(@, walk.path)]

FollowAlias(walk, found) ==
  IF found = {} THEN walk
  ELSE [Onto(walk, ReplaceMappingPrefix(walk.path, Longest(found).from, Longest(found).to)) EXCEPT !.resolvedSymlink = TRUE]

Redirected(walk, mapping) ==
  [IF mapping.deletes THEN [walk EXCEPT !.at = "deleted"]
   ELSE Onto(walk, ReplaceMappingPrefix(walk.path, mapping.from, mapping.to)) EXCEPT !.redirected = TRUE]

FollowRedirect(walk, found) ==
  IF walk.at = "cycle" \/ found = {} THEN walk ELSE Redirected(walk, Longest(found))

ThenRedirect(walk, redirects) == FollowRedirect(walk, Matches(walk.path, redirects))

(* One turn: a link, then a rename; if there is neither the walk is over.  *)
Turn(walk, aliases, redirects) ==
  IF walk.at # "changed" THEN walk
  ELSE ThenRedirect(FollowAlias([walk EXCEPT !.at = "current"], Matches(walk.path, aliases)), redirects)

Turns(n) == [i \in 1..n |-> i]

Walk(path, aliases, redirects) ==
  FoldLeft(LAMBDA walk, i : Turn(walk, aliases, redirects),
           [at |-> "changed", path |-> path, seen |-> {path}, aliases |-> <<>>, resolvedSymlink |-> FALSE, redirected |-> FALSE],
           Turns(2 * Cardinality(aliases \cup redirects) + 1))

Canonical(walk) ==
  IF walk.at \in {"current", "deleted"}
  THEN [ok |-> TRUE, path |-> walk.path, state |-> walk.at, aliases |-> walk.aliases,
        resolvedSymlink |-> walk.resolvedSymlink, redirected |-> walk.redirected]
  ELSE Failure("MAPPING_CYCLE")

-----------------------------------------------------------------------------
(* canonicalizeRepositoryPath.  A context is a record [platform,           *)
(* caseSensitive, root, symlinks, redirects, workspace].                   *)

LooksAbsolute(text) == text.lead \in {"slash", "double", "drive"}

Below(path, root) ==
  CASE path = None \/ path.escaped -> Failure("PATH_OUTSIDE_REPOSITORY")
    [] path.value = root -> Failure("EMPTY_PATH")
    [] ~IsPrefix(root, path.value) -> Failure("PATH_OUTSIDE_REPOSITORY")
    [] OTHER -> [ok |-> TRUE, path |-> SubSeq(path.value, Len(root) + 1, Len(path.value))]

Inside(path) ==
  CASE path = None -> Failure("INVALID_PATH")
    [] path.escaped -> Failure("PATH_TRAVERSAL")
    [] path.value = <<>> -> Failure("EMPTY_PATH")
    [] OTHER -> [ok |-> TRUE, path |-> path.value]

Relative(text, context, root) ==
  IF LooksAbsolute(text) THEN Below(NormalizeAbsolute(text, context.platform, context.caseSensitive), root)
  ELSE Inside(NormalizeRelative(text, context.platform, context.caseSensitive))

PreparedAll(mappings) == {Prepared(mappings[i]) : i \in DOMAIN mappings}

Mapped(relative, context) ==
  CASE ~relative.ok -> relative
    [] ~MappingsValid(context.symlinks, context.redirects, context.platform, context.caseSensitive) -> Failure("INVALID_MAPPING")
    [] OTHER -> Canonical(Walk(relative.path, PreparedAll(context.symlinks), PreparedAll(context.redirects)))

CanonicalizeWorkspaceName(name) == name = "workspace"

CanonicalIn(text, context, root) ==
  CASE ~CanonicalizeWorkspaceName(context.workspace) -> Failure("INVALID_WORKSPACE")
    [] text = Text("none", <<>>) -> Failure("EMPTY_PATH")
    [] text.odd -> Failure("INVALID_PATH")
    [] root = None \/ root.escaped -> Failure("ROOT_NOT_ABSOLUTE")
    [] OTHER -> Mapped(Relative(text, context, root.value), context)

CanonicalizeRepositoryPath(text, context) ==
  CanonicalIn(text, context, NormalizeAbsolute(context.root, context.platform, context.caseSensitive))

-----------------------------------------------------------------------------
(* Where a text leads from the root of the repository, as a file system    *)
(* without links would go.                                                 *)
Goes(from, parts) ==
  FoldLeft(LAMBDA path, part : CASE part \in {"", "."} -> path
                                 [] part = ".." -> IF path = <<>> THEN <<>> ELSE Front(path)
                                 [] OTHER -> Append(path, part), from, parts)

Spelt(path) == Text("none", path)

(* A name that a text gets is below the root, is its own name, is the one  *)
(* the other spelling of its text gets, and leads nowhere else.            *)
NameHolds(text, context, result) ==
  LET again == CanonicalizeRepositoryPath(Spelt(result.path), context)
      whole == CanonicalizeRepositoryPath(Text(context.root.lead, context.root.parts \o text.parts), context)
  IN  /\ result.path # <<>> /\ Range(result.path) \cap {"", ".", ".."} = {}
      /\ again.ok /\ again.path = result.path /\ again.state = result.state
      /\ result.state = "current" => again.aliases = <<>>
      /\ ~LooksAbsolute(text) => whole = result
      /\ ~LooksAbsolute(text) => IsStrictPrefix(context.root.parts, Goes(context.root.parts, text.parts))
=============================================================================
