----------------------------- MODULE MCServices -----------------------------
(* Three parts that keep nothing together: the rules of src/core and of the *)
(* pipeline, asked of one subject each; the grouping of the files of a      *)
(* workspace; and the programs of one machine.                              *)
EXTENDS NodeHost, FiniteSetsExt

CONSTANTS LowerCase, NoTime, Nothing, Skew, Markers, Negations, Suppressed, Unknown,
          Dir, MinClusterSize, MaxIterations, NoCluster

VARIABLES part, subject,
          rows, references, resolution, at, graph, partition, members, todo, pass, clusters

Rules == INSTANCE Policies
Flows == INSTANCE Flow
Uses == INSTANCE Crossref
Shapes == INSTANCE Structure WITH Builtins <- [l \in {"typescript", "python", "go", "rust", "java"} |-> IF l \in {"typescript", "python"} THEN {<<"print">>} ELSE {}],
                                  Underscored <- {"_f"}, Capitalized <- {"F", "T"}
Groups == INSTANCE Community

groupVars == <<rows, references, resolution, at, graph, partition, members, todo, pass, clusters>>

serviceVars == <<part, subject, groupVars, hostVars>>

ASSUME FailuresAreFailures == FailuresAssumption

-----------------------------------------------------------------------------
(* Names: every short text under both platforms, and the paths of two names *)
(* under a link and up to two renames.                                      *)
Parts(S, n) == UNION {[1..k -> S] : k \in 0..n}

MCLower == [s \in {"r", "a", "A", "b", ".", "..", ""} |-> IF s = "A" THEN "a" ELSE s]

Context(platform, caseSensitive, symlinks, redirects) ==
  [platform |-> platform, caseSensitive |-> caseSensitive, symlinks |-> symlinks, redirects |-> redirects,
   root |-> Rules!Text(IF platform = "posix" THEN "slash" ELSE "drive", <<"r">>), workspace |-> "workspace"]

Mapping(from, to, kind) == [from |-> Rules!Spelt(from), to |-> to, kind |-> kind]

Links == {Mapping(from, Rules!Spelt(to), kind) : from \in {<<"a">>, <<"a", "b">>}, to \in {<<"b">>, <<"b", "a">>}, kind \in {"file", "directory"}}
Renames == {Mapping(from, to, "directory") : from \in {<<"b">>, <<"a", "b">>}, to \in {Rules!Spelt(<<"a">>), Rules!Deleted}}

NamedBy(text, context) == [kind |-> "path", text |-> text, context |-> context]

Names ==
  {NamedBy(Rules!Text(lead, parts), Context(platform, caseSensitive, <<>>, <<>>)) :
     lead \in {"none", "slash", "double", "drive", "scheme"}, parts \in Parts({"r", "a", "A", "..", "."}, 3),
     platform \in {"posix", "win32"}, caseSensitive \in BOOLEAN}
  \cup {NamedBy(Rules!Spelt(parts), Context("posix", TRUE, links, renames)) :
     parts \in Parts({"a", "b"}, 3), links \in Parts(Links, 1), renames \in Parts(Renames, 2)}

(* Records of two files in any state, entries, hazards and evidence.        *)
Record(name, pathState, indexedHash, currentHash, completeness, indexedAt) ==
  [identity |-> name, pathState |-> pathState, indexedHash |-> indexedHash, currentHash |-> currentHash,
   completeness |-> completeness, indexedAt |-> indexedAt]

Candidates ==
  {Record(name, pathState, indexedHash, currentHash, Nothing, NoTime) :
     name \in {"f", "g"}, pathState \in {"current", "missing", "unknown"}, indexedHash \in {Nothing, 1}, currentHash \in {Nothing, 1, 2}}
Rivals == {Record("f", pathState, 1, 1, completeness, indexedAt) :
             pathState \in {"current", "missing"}, completeness \in {Nothing, 5, 12}, indexedAt \in {NoTime, 1, 2}}

Full == {"purpose", "blurb", "tags", "hazards"}

Entries == {[path |-> path, filled |-> filled, provider |-> provider, crossed |-> crossed, extracted |-> extracted] :
              path \in {1, 2}, provider \in {"other", "scaffold"}, extracted \in {1, 9},
              filled \in {Full, {"blurb", "tags"}, Full \cup {"patterns", "conventions", "key_types", "data_flows"}},
              crossed \in {Nothing, [symbols |-> TRUE, dated |-> TRUE, at |-> 1]}}

Warning(key, words) == [key |-> key, words |-> words]
Warnings == {Warning("a", 1..6), Warning("b", 1..7), Warning("c", 1..8), Warning("d", 1..9), Warning("e", (1..7) \cup {10}),
             Warning("f", {}), Warning("g", 2..8), Warning("h", (1..7) \cup {10, 11})}

Observations ==
  [observed : BOOLEAN, missing : BOOLEAN, sourceHash : {Nothing, 1}, indexedHash : {Nothing, 1, 2}, snapshot : BOOLEAN,
   pending : BOOLEAN, historical : BOOLEAN, inferred : {FALSE}, set : {"complete", "partial", "unknown"}, narrated : BOOLEAN,
   status : {Nothing, "disputed", "needs_review"}]

(* Scopes of up to three statements, and two files of which one emits.      *)
Id(name) == Flows!Node("identifier", <<name>>, <<>>)
Number == Flows!Node("number", <<>>, <<>>)
EventText(name) == Flows!Node("string", <<name>>, <<>>)
Member(object, property) == Flows!Node("member_expression", <<object, property>>, <<Id(object), Flows!Node("property_identifier", <<property>>, <<>>)>>)
CallOf(callee, args) == Flows!Node("call_expression", <<>>, <<callee, Flows!Node("arguments", <<>>, args)>>)
Awaited(value) == Flows!Node("await_expression", <<>>, <<value>>)
Declares(name, value) ==
  Flows!Node("lexical_declaration", <<>>, <<Flows!Node("variable_declarator", <<>>, <<Id(name), value>>)>>)
Gives(name, value) ==
  Flows!Node("expression_statement", <<>>, <<Flows!Node("assignment_expression", <<>>, <<Id(name), value>>)>>)
Does(value) == Flows!Node("expression_statement", <<>>, <<value>>)
Returns(value) == Flows!Node("return_statement", <<>>, <<value>>)
Block(statements) == Flows!Node("statement_block", <<>>, statements)
Function(name, statements) ==
  Flows!Node("function_declaration", <<>>, <<Id(name), Flows!Node("formal_parameters", <<>>, <<Id("p")>>), Block(statements)>>)
Arrow(name, statements) == Declares(name, Flows!Node("arrow_function", <<>>, Tail(Function(name, statements).children)))
Class(name, method, statements) ==
  Flows!Node("class_declaration", <<>>,
    <<Id(name), Flows!Node("class_body", <<>>, <<Flows!Node("method_definition", <<>>, Function(method, statements).children)>>)>>)
Program(declarations) == Flows!Node("program", <<>>, declarations)

Expressions == {Number, Id("x"), Id("y"), Id("p"), CallOf(Id("f"), <<>>), CallOf(Id("g"), <<Id("x")>>), Awaited(CallOf(Id("f"), <<Id("y")>>)),
           CallOf(Id("g"), <<CallOf(Id("f"), <<>>), Id("y")>>), CallOf(Member("this", "g"), <<Id("x"), Id("p")>>)}

Statements == {Declares("x", v) : v \in Expressions} \cup {Gives("y", v) : v \in Expressions} \cup {Does(v) : v \in Expressions}

Bodies == {Append(b, last) : b \in Parts(Statements, 2), last \in {Returns(Id("x")), Returns(Awaited(Id("y"))), Does(CallOf(Id("h"), <<Id("x"), Id("y")>>))}}

Emits == Does(CallOf(Member("bus", "emit"), <<EventText("e"), Id("p")>>))
Listens(handler) == Does(CallOf(Member("bus", "on"), <<EventText("e"), handler>>))

Roots == {[a |-> Program(<<first>>), b |-> Program(<<second, Function("n", <<Listens(handler)>>)>>)] :
            first \in {Function("m", <<Emits>>), Arrow("m", <<Emits>>), Class("C", "m", <<Emits, Listens(Id("h"))>>), Function("m", <<Does(CallOf(Id("h"), <<Number>>))>>)},
            second \in {Function("h", <<Returns(Number)>>), Class("D", "h", <<Emits>>)}, handler \in {Id("h"), Member("this", "h"), Member("D", "h")}}

Symbols == [name : {<<"m">>, <<"h">>, <<"D", "h">>, <<"C", "m">>}, file : {"a", "b"}, exported : BOOLEAN]

Tables == [stored : {<<s, t>> : s \in Symbols, t \in {u \in Symbols : u.exported}}, imports : {{}, {<<"a", "b">>}}]

FlowSubjects ==
  {[kind |-> "scope", scope |-> [name |-> <<"s">>, params |-> {<<"p">>}, body |-> Block(body)]] : body \in Bodies}
  \cup {[kind |-> "program", roots |-> roots, tables |-> Tables] : roots \in Roots}

(* What a file declares, how many files name a symbol, and how many of them *)
(* a parser has found to use it.                                            *)
Declared(form, name) == [form |-> form, name |-> name]

Hits(n, many) == {[symbol |-> n, file |-> f, matches |-> 1 + (f % 2), shapes |-> IF f % 3 = 0 THEN {"call", "from"} ELSE {"type"}] : f \in 1..many}
Found(n, many) == {[symbol |-> n, file |-> f, edge |-> edge, count |-> f % 2] : f \in 1..many, edge \in {"CALLS", "TRIGGERS"}}

UseSubjects ==
  {[kind |-> "uses", file |-> file, reading |-> reading, declared |-> declared,
    hits |-> Hits("s", named[1]) \cup Hits("t", named[2]), uses |-> Found("s", Min({used[1], named[1]})) \cup Found("t", Min({used[2], named[2]}))] :
     file \in {0, 1}, reading \in {"parsed", "scanned", "none"},
     declared \in [1..2 -> {Declared(form, name) : form \in {"function", "let", "re-export"}, name \in {"s", "t"}} \cup {Declared("default", "default")}],
     named \in {<<0, 2>>, <<1, 6>>, <<2, 0>>, <<6, 17>>, <<17, 1>>}, used \in {<<0, 1>>, <<1, 0>>, <<6, 6>>, <<17, 17>>}}

(* A function, and a type with a base and a method, in the trees of five    *)
(* languages, and the symbols of the other files.                           *)
Grammars ==
  [typescript |-> [call |-> "call_expression", member |-> "member_expression", object |-> "object", name |-> "property",
                   closure |-> "arrow_function", self |-> "this", function |-> "function_declaration", method |-> "method_definition"],
   python |-> [call |-> "call", member |-> "attribute", object |-> "object", name |-> "attribute",
               closure |-> "lambda", self |-> "self", function |-> "function_definition", method |-> "function_definition"],
   go |-> [call |-> "call_expression", member |-> "selector_expression", object |-> "operand", name |-> "field",
           closure |-> "func_literal", self |-> "t", function |-> "function_declaration", method |-> "method_declaration"],
   rust |-> [call |-> "call_expression", member |-> "field_expression", object |-> "value", name |-> "field",
             closure |-> "closure_expression", self |-> "self", function |-> "function_item", method |-> "function_item"],
   java |-> [call |-> "method_invocation", member |-> "none", object |-> "object", name |-> "name",
             closure |-> "lambda_expression", self |-> "this", function |-> "none", method |-> "method_declaration"]]

Leaf(field, type, name) == Shapes!Node(field, type, <<name>>, <<>>)
Within(field, type, named) == Shapes!Node(field, type, <<>>, named)

CalleeTree(language, call) ==
  LET g == Grammars[language]
      parts == <<Leaf(g.object, "identifier", IF call.on = "self" THEN g.self ELSE call.on), Leaf(g.name, "identifier", call.name)>>
  IN  IF language = "java" THEN (IF call.on = "nothing" THEN Tail(parts) ELSE parts)
      ELSE IF call.on = "nothing" THEN <<Leaf("function", "identifier", call.name)>>
      ELSE <<Within("function", g.member, parts)>>

CallTree(language, call) ==
  LET made == Within("", Grammars[language].call, CalleeTree(language, call) \o <<Within("arguments", "arguments", <<>>)>>)
  IN  IF call.closed THEN Within("", Grammars[language].closure, <<Within("body", "block", <<made>>)>>) ELSE made

BodyTree(language, calls) == Within("body", "block", [i \in DOMAIN SetToSeq(calls) |-> CallTree(language, SetToSeq(calls)[i])])

Modifier(language, exported) ==
  CASE exported /\ language = "rust" -> <<Leaf("", "visibility_modifier", "pub")>>
    [] exported /\ language = "java" -> <<Leaf("", "modifiers", "public")>>
    [] OTHER -> <<>>

Exported(language, exported, tree) == IF exported /\ language = "typescript" THEN Within("", "export_statement", <<tree>>) ELSE tree

DefinitionTree(language, type, d, receiver) ==
  Within("", type, Modifier(language, d.exported) \o receiver \o <<Leaf("name", "identifier", d.name), BodyTree(language, d.calls)>>)

FunctionTree(language, f) ==
  Exported(language, f.exported,
    IF f.constant /\ language = "typescript"
    THEN Within("", "lexical_declaration", <<Within("", "variable_declarator",
           <<Leaf("name", "identifier", f.name), Within("value", "arrow_function", <<BodyTree(language, f.calls)>>)>>)>>)
    ELSE DefinitionTree(language, Grammars[language].function, f, <<>>))

TypeTrees(language, t) ==
  LET methods(receiver) == [i \in DOMAIN SetToSeq(t.methods) |-> DefinitionTree(language, Grammars[language].method, SetToSeq(t.methods)[i], receiver)]
      name == Leaf("name", "type_identifier", t.name)
      bases == [i \in DOMAIN SetToSeq(t.bases) |-> Leaf("", IF language = "java" THEN "type_identifier" ELSE "identifier", SetToSeq(t.bases)[i])]
      Based(tree) == IF t.bases = {} THEN <<>> ELSE <<tree>>
      body == Within("body", "block", methods(<<>>))
  IN  CASE language = "typescript" ->
             <<Exported(language, t.exported,
                 Within("", "class_declaration", <<name>> \o Based(Within("", "class_heritage", <<Within("", "extends_clause", bases)>>)) \o <<body>>))>>
        [] language = "python" -> <<Within("", "class_definition", <<name>> \o Based(Within("superclasses", "argument_list", bases)) \o <<body>>)>>
        [] language = "go" ->
             <<Within("", "type_declaration", <<Within("", "type_spec", <<name, Within("type", "struct_type", <<>>)>>)>>)>>
               \o methods(<<Within("receiver", "parameter_list", <<Within("", "parameter_declaration", <<Leaf("type", "pointer_type", t.name)>>)>>)>>)
        [] language = "rust" ->
             <<Within("", "struct_item", Modifier(language, t.exported) \o <<name>>),
               Within("", "impl_item", <<Leaf("type", "type_identifier", t.name), body>>)>>
        [] OTHER -> <<Within("", "class_declaration", Modifier(language, t.exported) \o <<name>> \o Based(Within("superclass", "superclass", bases)) \o <<body>>)>>

ProgramTree(language, program) ==
  LET functions == SetToSeq(program.functions)
      types == SetToSeq(program.types)
  IN  Within("", "program", [i \in DOMAIN functions |-> FunctionTree(language, functions[i])]
                              \o FlattenSeq([i \in DOMAIN types |-> TypeTrees(language, types[i])]))

Makes(on, name, closed) == [on |-> on, name |-> name, closed |-> closed]

MadeCalls == {{}, {Makes("nothing", "F", FALSE), Makes("other", "m", FALSE)}, {Makes("self", "m", FALSE), Makes("nothing", "print", FALSE)},
              {Makes("nothing", "F", TRUE), Makes("self", "print", FALSE)}, {Makes("other", "print", TRUE), Makes("nothing", "m", FALSE)}}

Definitions(names) == [name : names, exported : BOOLEAN, constant : {FALSE}, calls : MadeCalls]

Types == [name : {"T", "_f"}, exported : BOOLEAN, bases : {{}, {"B"}}, methods : {{}} \cup {{m} : m \in Definitions({"m", "F"})}]

AFunction(name) == [name |-> name, exported |-> TRUE, constant |-> FALSE, calls |-> {Makes("nothing", "m", FALSE), Makes("nothing", "F", TRUE)}]
AType(name) == [name |-> name, exported |-> TRUE, bases |-> {"B"}, methods |-> {AFunction("m")}]

Functions == [name : {"F", "_f"}, exported : BOOLEAN, constant : BOOLEAN, calls : MadeCalls]

Programs ==
  [functions : {{}, {AFunction("F")}}, types : {{t} : t \in Types}]
    \cup [functions : {{f} : f \in Functions}, types : {{}, {AType("T")}}]

Elsewhere(name, file, exported) == [name |-> name, file |-> file, exported |-> exported]

Others == {<<>>, <<Elsewhere(<<"F">>, "b", TRUE)>>, <<Elsewhere(<<"F">>, "b", TRUE), Elsewhere(<<"B">>, "b", TRUE), Elsewhere(<<"B">>, "c", TRUE)>>, <<Elsewhere(<<"T", "m">>, "b", FALSE), Elsewhere(<<"B">>, "c", TRUE), Elsewhere(<<"m">>, "c", TRUE)>>}

ShapeSubjects ==
  {[kind |-> "structure", language |-> language, program |-> program, root |-> ProgramTree(language, program), others |-> Others] :
     language \in DOMAIN Grammars \ {"java"}, program \in Programs}
  \cup {[kind |-> "structure", language |-> "java", program |-> program, root |-> ProgramTree("java", program), others |-> Others] :
           program \in {p \in Programs : p.functions = {}}}

Subjects ==
  Names
  \cup {[kind |-> "records", candidates |-> candidates, options |-> options] :
          candidates \in [1..2 -> Candidates] \cup [1..2 -> Rivals], options \in [includeStale : BOOLEAN, includeHistorical : BOOLEAN]}
  \cup {[kind |-> "entries", files |-> files, lines |-> lines, pathState |-> pathState] :
          files \in [1..2 -> Entries], lines \in {30, 400}, pathState \in {"current", "missing"}}
  \cup {[kind |-> "hazards", entries |-> entries] : entries \in [1..3 -> Warnings]}
  \cup {[kind |-> "evidence", args |-> args] : args \in Observations}
  \cup FlowSubjects \cup UseSubjects \cup ShapeSubjects

-----------------------------------------------------------------------------
(* Groups: every graph of four files and weights to 2, of which the last is *)
(* deleted, and two triangles with a bridge.                                *)
Link(pair, usage) == [source |-> Min(pair), target |-> Max(pair), usage |-> usage]

Linked == {{Link(pair, w[pair]) : pair \in {pair \in DOMAIN w : w[pair] > 0}} : w \in [kSubset(2, 1..4) -> 0..2]}

Triangles == {Link(pair, 1) : pair \in {{1, 2}, {2, 3}, {1, 3}, {3, 4}, {4, 5}, {5, 6}, {4, 6}}}

MCDir == <<<<>>, <<"a">>, <<"src", "a">>, <<"a">>, <<"b">>, <<"b">>>>

(* Programs: one that runs any command, and one that comes in its way.      *)
W(word) == [word |-> word]
F(flag) == [flag |-> flag, inline |-> "bare"]
V(flag, value) == [flag |-> flag, inline |-> value]

AnyCommand ==
  {<<>>, <<W("init")>>, <<W("init"), F("no-index")>>, <<W("init"), W("there"), V("data-mode", "user")>>,
   <<W("index"), F("full"), W("src")>>, <<F("workspace"), W("other"), W("index")>>, <<W("migrate")>>,
   <<W("migrate"), V("backup", "true"), V("targetGeneration", "old")>>, <<W("migrate"), F("backup"), F("workspace"), W("other")>>,
   <<W("backup"), V("action", "doctor")>>, <<W("doctor"), V("checks", "schema")>>, <<W("doctor"), V("checks", "[none]")>>,
   <<W("doctor"), V("checks", "[schema]")>>, <<W("doctor"), F("checks")>>, <<W("query"), W("search"), V("query", "[x")>>,
   <<W("commit"), V("request", "{}")>>, <<W("commit"), V("request", "[]")>>, <<W("commit")>>, <<W("watch")>>,
   <<W("workspace"), W("list")>>, <<W("nothing")>>, <<W("config"), W("show")>>,
   <<W("worktree")>>, <<W("mcp"), V("transport", "http")>>, <<W("api")>>, <<F("db"), W("one"), W("diff"), F("workspace"), W("bad")>>,
   <<V("db", "one"), W("graph"), F("source-root"), W("there")>>, <<V("db", "one"), W("doctor"), F("db")>>}

RivalCommand ==
  {<<W("init")>>, <<W("init"), W("there"), V("data-mode", "user")>>, <<F("workspace"), W("other"), W("index")>>,
   <<W("watch"), V("debounce-ms", "x")>>, <<V("db", "one"), W("doctor"), F("db")>>}

MCArgvs == <<AnyCommand, RivalCommand>>

MCLists == "[schema]" :> {"schema"} @@ "[none]" :> {"none"}

MCGiven == "{}" :> [filePath |-> "a"]

ToolCall(tool, workspace, fields) == [tool |-> tool, workspace |-> workspace, fields |-> fields]

MCToolCalls ==
  {ToolCall("atlas_admin", "other", [action |-> "backup"]), ToolCall("atlas_admin", "absent", [action |-> "migrate", backup |-> "true"]),
   ToolCall("atlas_admin", "here", [action |-> "index", phase |-> "embeddings"]), ToolCall("atlas_diff", "other", [mode |-> "stat"]),
   ToolCall("atlas_worktree_diff", "absent", <<>>), ToolCall("atlas_query", "other", [action |-> "brief"])}

-----------------------------------------------------------------------------
NoSubject == [kind |-> "none"]

MCInit ==
  /\ part \in {"rules", "groups", "hosts"}
  /\ subject \in IF part = "rules" THEN Subjects ELSE {NoSubject}
  /\ references \in IF part = "groups" THEN Linked \cup {Triangles} ELSE {{}}
  /\ resolution \in IF part = "groups" THEN {1, 2} ELSE {1}
  /\ rows = [f \in (IF references = Triangles THEN 1..6 ELSE 1..3) |-> NoCluster]
  /\ Groups!Init /\ HostInit

MCNext ==
  \/ /\ UNCHANGED <<part, subject, hostVars>>
     /\ part = "groups" /\ Groups!Next
  \/ /\ UNCHANGED <<part, subject, groupVars>>
     /\ part = "hosts" /\ HostNext

MCSpec == MCInit /\ [][MCNext]_serviceVars

-----------------------------------------------------------------------------
(* The rules of the core agree with each other and with what they are asked *)
(* about; flow edges are what a function does with the answers of others    *)
(* and whom its events reach; cross references name the files that use a   *)
(* symbol, and how far a change of it reaches; and a program has the same   *)
(* symbols and edges in any language, up to what the language exports.      *)
RulesSound ==
  /\ Rules!RulesSound
  /\ Flows!FlowSound(subject)
  /\ subject.kind = "uses" => Uses!CrossrefSound(subject)
  /\ subject.kind = "structure" => Shapes!StructureSound(subject)

(* What the detection of communities leaves is whole, a move never makes it *)
(* worse, and at the resolution of one it is the connected components.      *)
CommunitySound ==
  /\ [](Groups!ClustersWhole /\ Groups!GroupsAreComponents)
  /\ [][Groups!MovesImprove]_groupVars
=============================================================================
