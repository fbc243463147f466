------------------------------ MODULE Structure ------------------------------
(* The structure phase of an index run (pipeline/structure.ts): the symbols *)
(* that a file declares in one of five languages, and which of them has, is *)
(* derived from or calls which, read from the file's syntax tree; and which *)
(* symbol a name that was found in the tree is taken for.                   *)
(*                                                                          *)
(* A node has the field of its parent that it is in, a type, a text, which  *)
(* is the sequence of the names it is made of, and its named children.      *)
EXTENDS Integers, Sequences, FiniteSets, SequencesExt

CONSTANTS Unknown,       \* no callee
          Builtins,        \* of a language, the callees that are not listed
          Underscored,     \* the names that begin with an underscore
          Capitalized      \* and with a capital

Node(field, type, text, named) == [field |-> field, type |-> type, text |-> text, named |-> named]

Named(node) == Range(node.named)
Has(node, field) == \E c \in Named(node) : c.field = field
Child(node, field) == CHOOSE c \in Named(node) : c.field = field
NameOf(node) == Child(node, "name").text

Symbol(name, kind, exported) == [name |-> name, kind |-> kind, exported |-> exported]
Edge(source, target, type) == [source |-> source, target |-> target, type |-> type]

NoSymbols == [symbols |-> {}, edges |-> {}]
Only(symbol) == [symbols |-> {symbol}, edges |-> {}]
Together(parts) == [symbols |-> UNION {p.symbols : p \in parts}, edges |-> UNION {p.edges : p \in parts}]
With(part, edges) == [part EXCEPT !.edges = @ \cup edges]

(* References, pointers, arguments of generics and qualifiers are dropped.  *)
NormalizeTypeName(text) == <<Last(text)>>

-----------------------------------------------------------------------------
(* Calls.  What is said to be called depends on the language; the           *)
(* definitions inside a body have calls of their own, or nobody's.          *)
Nested ==
  [typescript |-> {"function_declaration", "class_declaration", "arrow_function", "function"},
   python |-> {"function_definition", "class_definition"},
   go |-> {"function_declaration", "method_declaration", "type_declaration"},
   rust |-> {"function_item", "struct_item", "enum_item", "trait_item", "impl_item"},
   java |-> {"class_declaration", "interface_declaration", "enum_declaration", "method_declaration"}]

Member(object, selves, name) == IF object.text \in selves THEN name.text ELSE object.text \o name.text

TypeScriptCallee(node) ==
  CASE node.type = "identifier" -> node.text
    [] node.type = "member_expression" -> Member(Child(node, "object"), {<<"this">>, <<"super">>}, Child(node, "property"))
    [] OTHER -> Unknown

PythonCallee(node) ==
  CASE node.type = "identifier" -> node.text
    [] node.type = "attribute" -> Member(Child(node, "object"), {<<"self">>, <<"cls">>}, Child(node, "attribute"))
    [] OTHER -> Unknown

GoCallee(node) ==
  CASE node.type = "identifier" -> node.text
    [] node.type = "selector_expression" -> Child(node, "field").text
    [] OTHER -> Unknown

RECURSIVE RustCallee(_)
RustCallee(node) ==
  CASE node.type = "identifier" -> node.text
    [] node.type = "field_expression" -> Child(node, "field").text
    [] node.type \in {"scoped_identifier", "scoped_type_identifier"} -> NameOf(node)
    [] node.type = "generic_function" -> RustCallee(Child(node, "function"))
    [] OTHER -> Unknown

JavaCallee(node) ==
  IF node.type = "object_creation_expression" THEN NormalizeTypeName(Child(node, "type").text)
  ELSE IF Has(node, "object") THEN Member(Child(node, "object"), {<<"this">>, <<"super">>}, Child(node, "name"))
  ELSE NameOf(node)

CalleeOf(language, node) ==
  CASE language = "typescript" /\ node.type = "call_expression" -> TypeScriptCallee(Child(node, "function"))
    [] language = "typescript" /\ node.type = "new_expression" -> TypeScriptCallee(Child(node, "constructor"))
    [] language = "python" /\ node.type = "call" -> PythonCallee(Child(node, "function"))
    [] language = "go" /\ node.type = "call_expression" -> GoCallee(Child(node, "function"))
    [] language = "rust" /\ node.type = "call_expression" -> RustCallee(Child(node, "function"))
    [] language = "java" /\ node.type \in {"method_invocation", "object_creation_expression"} -> JavaCallee(node)
    [] OTHER -> Unknown

(* A constructor counts whatever its name is.                               *)
Listed(language, node) ==
  LET callee == CalleeOf(language, node)
  IN  callee # Unknown /\ (node.type = "new_expression" \/ callee \notin Builtins[language])

RECURSIVE ExtractCalls(_, _, _)
ExtractCalls(language, node, scope) ==
  (IF Listed(language, node) THEN {Edge(scope, CalleeOf(language, node), "CALLS")} ELSE {})
    \cup UNION {ExtractCalls(language, c, scope) : c \in {d \in Named(node) : d.type \notin Nested[language]}}

CallsOf(language, node, scope) == IF Has(node, "body") THEN ExtractCalls(language, Child(node, "body"), scope) ELSE {}

Function(language, node, name, kind, exported) ==
  With(Only(Symbol(name, kind, exported)), CallsOf(language, node, name))

Method(language, node, owner, exported) ==
  LET name == owner \o NameOf(node)
  IN  With(Function(language, node, name, "method", exported), {Edge(owner, name, "HAS_METHOD")})

-----------------------------------------------------------------------------
(* TypeScript and JavaScript: what is below an export statement is          *)
(* exported, a class with all its methods.                                  *)
TypeScriptKinds == [interface_declaration |-> "interface", type_alias_declaration |-> "type", enum_declaration |-> "enum"]

Clauses(class, type) ==
  {c \in UNION {Named(h) : h \in {h \in Named(class) : h.type = "class_heritage"}} : c.type = type}

ExtractHeritage(class, name) ==
  {Edge(name, c.named[1].text, "EXTENDS") : c \in {c \in Clauses(class, "extends_clause") : c.named # <<>>}}
    \cup {Edge(name, IF i.type = "generic_type" /\ Has(i, "name") THEN NameOf(i) ELSE i.text, "IMPLEMENTS") :
            i \in UNION {Named(c) : c \in Clauses(class, "implements_clause")}}

MembersOf(node, type) == IF Has(node, "body") THEN {m \in Named(Child(node, "body")) : m.type = type /\ Has(m, "name")} ELSE {}

Class(node, exported) ==
  Together({With(Only(Symbol(NameOf(node), "class", exported)), ExtractHeritage(node, NameOf(node)))}
             \cup {Method("typescript", m, NameOf(node), exported) : m \in MembersOf(node, "method_definition")})

Declarator(d, exported) ==
  IF Child(d, "value").type \in {"arrow_function", "function"}
  THEN Function("typescript", Child(d, "value"), NameOf(d), "function", exported)
  ELSE Only(Symbol(NameOf(d), "const", exported))

RECURSIVE TypeScript(_, _)
TypeScript(node, exported) ==
  CASE node.type = "function_declaration" ->
         IF Has(node, "name") THEN Function("typescript", node, NameOf(node), "function", exported) ELSE NoSymbols
    [] node.type = "class_declaration" -> IF Has(node, "name") THEN Class(node, exported) ELSE NoSymbols
    [] node.type \in DOMAIN TypeScriptKinds -> Only(Symbol(NameOf(node), TypeScriptKinds[node.type], exported))
    [] node.type = "lexical_declaration" ->
         Together({Declarator(d, exported) : d \in {d \in Named(node) : d.type = "variable_declarator" /\ Has(d, "name") /\ Has(d, "value")}})
    [] OTHER -> Together({TypeScript(c, exported \/ node.type = "export_statement") : c \in Named(node)})

(* Python: a function in the body of a class is its method.                 *)
RECURSIVE Python(_, _)
Python(node, owner) ==
  LET exported == Head(NameOf(node)) \notin Underscored
      bases == {a \in Named(Child(node, "superclasses")) : a.type \in {"identifier", "attribute"}}
  IN  CASE node.type = "function_definition" ->
             IF owner = <<>> THEN Function("python", node, NameOf(node), "function", exported)
             ELSE Method("python", node, owner, exported)
        [] node.type = "class_definition" ->
             Together({With(Only(Symbol(NameOf(node), "class", exported)),
                            {Edge(NameOf(node), a.text, "EXTENDS") : a \in IF Has(node, "superclasses") THEN bases ELSE {}})}
                        \cup {Python(c, NameOf(node)) : c \in Named(Child(node, "body"))})
        [] OTHER -> Together({Python(c, owner) : c \in Named(node)})

(* Go: a method names its receiver.                                         *)
ReceiverTypes(node) ==
  IF Has(node, "receiver") THEN {Child(c, "type") : c \in {c \in Named(Child(node, "receiver")) : Has(c, "type")}} ELSE {}

GoKind(spec) ==
  IF ~Has(spec, "type") THEN "type"
  ELSE CASE Child(spec, "type").type = "struct_type" -> "struct" [] Child(spec, "type").type = "interface_type" -> "interface" [] OTHER -> "type"

RECURSIVE Go(_)
Go(node) ==
  LET exported == Head(NameOf(node)) \in Capitalized
      receiver == NormalizeTypeName((CHOOSE t \in ReceiverTypes(node) : TRUE).text)
  IN  CASE node.type = "function_declaration" -> Function("go", node, NameOf(node), "function", exported)
        [] node.type = "method_declaration" ->
             IF ReceiverTypes(node) = {} THEN Function("go", node, NameOf(node), "method", exported)
             ELSE Method("go", node, receiver, exported)
        [] node.type = "type_declaration" ->
             Together({Only(Symbol(NameOf(s), GoKind(s), Head(NameOf(s)) \in Capitalized)) :
                         s \in {s \in Named(node) : s.type \in {"type_spec", "type_alias"} /\ Has(s, "name")}})
        [] OTHER -> Together({Go(c) : c \in Named(node)})

(* Rust: the methods of a type are in its implementations.                  *)
RustKinds == [struct_item |-> "struct", enum_item |-> "enum", trait_item |-> "trait"]

HasVisibilityModifier(node) == \E c \in Named(node) : c.type = "visibility_modifier"

RECURSIVE Rust(_)
Rust(node) ==
  LET owner == NormalizeTypeName(Child(node, "type").text)
  IN  CASE node.type = "function_item" -> Function("rust", node, NameOf(node), "function", HasVisibilityModifier(node))
        [] node.type \in DOMAIN RustKinds -> Only(Symbol(NameOf(node), RustKinds[node.type], HasVisibilityModifier(node)))
        [] node.type = "impl_item" ->
             With(Together({Method("rust", m, owner, HasVisibilityModifier(m)) : m \in MembersOf(node, "function_item")}),
                  IF Has(node, "trait") THEN {Edge(owner, NormalizeTypeName(Child(node, "trait").text), "IMPLEMENTS")} ELSE {})
        [] OTHER -> Together({Rust(c) : c \in Named(node)})

(* Java: a type that is declared in another one has its own members.        *)
JavaKinds == [class_declaration |-> "class", interface_declaration |-> "interface", enum_declaration |-> "enum"]

HasPublicModifier(node) == \E c \in Named(node) : c.type = "modifiers" /\ "public" \in Range(c.text)

RECURSIVE CollectJavaTypeNames(_)
CollectJavaTypeNames(node) ==
  (IF node.type \in {"type_identifier", "generic_type", "scoped_type_identifier"} THEN {NormalizeTypeName(node.text)} ELSE {})
    \cup UNION {CollectJavaTypeNames(c) : c \in Named(node)}

HeritageFields ==
  [class_declaration |-> [superclass |-> "EXTENDS", interfaces |-> "IMPLEMENTS"],
   interface_declaration |-> [extends_interfaces |-> "EXTENDS"], enum_declaration |-> [interfaces |-> "IMPLEMENTS"]]

JavaHeritage(node) ==
  LET fields == HeritageFields[node.type]
  IN  UNION {{Edge(NameOf(node), t, fields[f]) : t \in CollectJavaTypeNames(Child(node, f))} : f \in {f \in DOMAIN fields : Has(node, f)}}

RECURSIVE Java(_, _)
Java(node, owner) ==
  LET exported == HasPublicModifier(node)
  IN  CASE node.type \in DOMAIN JavaKinds ->
             Together({With(Only(Symbol(NameOf(node), JavaKinds[node.type], exported)), JavaHeritage(node)), Java(Child(node, "body"), NameOf(node))})
        [] node.type = "method_declaration" /\ owner # <<>> -> Method("java", node, owner, exported)
        [] OTHER -> Together({Java(c, owner) : c \in Named(node)})

ExtractFromTree(language, root) ==
  CASE language = "python" -> Python(root, <<>>) [] language = "go" -> Go(root) [] language = "rust" -> Rust(root)
    [] language = "java" -> Java(root, <<>>) [] OTHER -> TypeScript(root, FALSE)

-----------------------------------------------------------------------------
(* Which symbol a target is: one that has its name, or only the last part   *)
(* of it; one of the same file, of an imported file, or the only one that   *)
(* is exported.                                                             *)
Bearing(name, stored) ==
  SelectSeq(stored, LAMBDA s : s.name = name \/ (Len(name) = 1 /\ Last(s.name) = name[1]))

CandidatesFor(name, stored) ==
  IF Bearing(name, stored) # <<>> THEN Bearing(name, stored) ELSE Bearing(<<Last(name)>>, stored)

ResolveEdge(edge, file, stored, imports) ==
  LET candidates == CandidatesFor(edge.target, stored)
      own == SelectSeq(candidates, LAMBDA s : s.file = file)
      imported == SelectSeq(candidates, LAMBDA s : s.file \in imports)
      exported == SelectSeq(candidates, LAMBDA s : s.exported)
      To(s) == [source |-> edge.source, from |-> file, file |-> s.file, target |-> s.name, type |-> edge.type]
  IN  CASE edge.type = "HAS_METHOD" -> {[source |-> edge.source, from |-> file, file |-> file, target |-> edge.target, type |-> edge.type]}
        [] own # <<>> -> {To(own[1])}
        [] imported # <<>> -> {To(imported[1])}
        [] Len(exported) = 1 -> {To(exported[1])}
        [] OTHER -> {}

ResolveEdges(edges, file, stored, imports) == UNION {ResolveEdge(e, file, stored, imports) : e \in edges}
-----------------------------------------------------------------------------
(* What the symbols and edges are for.  A program is told without its       *)
(* language: functions, and types with a base and methods; a definition has *)
(* a name, is exported or not, and makes calls, by name, on itself or on    *)
(* another object, directly or in a closure.                                *)
Visible(language, name, exported) ==
  CASE language = "python" -> name \notin Underscored [] language = "go" -> name \in Capitalized [] OTHER -> exported

Target(language, call) ==
  IF language \in {"go", "rust"} \/ call.on \in {"nothing", "self"} THEN <<call.name>> ELSE <<call.on, call.name>>

(* A closure in TypeScript is a scope of its own, which nobody asks about.  *)
Heard(language, call) ==
  /\ ~(language = "typescript" /\ call.closed)
  /\ Target(language, call) \notin Builtins[language]

CallsMade(language, definition, name) ==
  {Edge(name, Target(language, c), "CALLS") : c \in {c \in definition.calls : Heard(language, c)}}

MethodMade(language, type, method) ==
  [symbols |-> {Symbol(<<type.name, method.name>>, "method",
                       Visible(language, method.name, IF language = "typescript" THEN type.exported ELSE method.exported))},
   edges |-> {Edge(<<type.name>>, <<type.name, method.name>>, "HAS_METHOD")}
               \cup CallsMade(language, method, <<type.name, method.name>>)]

Declares(language, program) ==
  Together({[symbols |-> {Symbol(<<f.name>>, "function", Visible(language, f.name, f.exported))}, edges |-> CallsMade(language, f, <<f.name>>)] :
              f \in program.functions}
           \cup {[symbols |-> {Symbol(<<t.name>>, IF language \in {"go", "rust"} THEN "struct" ELSE "class", Visible(language, t.name, t.exported))},
                  edges |-> IF language \in {"go", "rust"} THEN {} ELSE {Edge(<<t.name>>, <<b>>, "EXTENDS") : b \in t.bases}] : t \in program.types}
           \cup UNION {{MethodMade(language, t, m) : m \in t.methods} : t \in program.types})

(* A name is taken for a symbol that bears it, of the file itself if it has *)
(* one and of an imported file before any other, and of neither only if no  *)
(* second file exports it; a name that only one symbol has is always found  *)
(* where it can be seen.                                                    *)
NamesFound(edges, file, stored, imports) ==
  \A e \in {e \in edges : e.type # "HAS_METHOD"} :
    LET bearers == {s \in Range(stored) : Last(s.name) = Last(e.target)}
        found == ResolveEdge(e, file, stored, imports)
        In(files) == {s \in bearers : s.file \in files}
    IN  /\ \A r \in found : \E s \in bearers : r.file = s.file /\ r.target = s.name
        /\ (Len(e.target) = 1 /\ In({file}) # {}) => \E r \in found : r.file = file
        /\ (Len(e.target) = 1 /\ In({file}) = {} /\ In(imports) # {}) => \E r \in found : r.file \in imports
        /\ (Len(e.target) = 1 /\ Cardinality({s \in bearers : s.exported}) > 1) => \A r \in found : r.file \in imports \cup {file}
        /\ (Cardinality(bearers) = 1 /\ \A s \in bearers : s.exported \/ s.file \in imports \cup {file})
             => \E r \in found : \A s \in bearers : r.file = s.file /\ r.target = s.name
        /\ Cardinality(found) <= 1

(* The tree of a program in any of the languages has the program's symbols  *)
(* and edges and no others, and these find the symbols they name.           *)
StructureSound(subject) ==
  LET extracted == ExtractFromTree(subject.language, subject.root)
      own == SetToSeq({[name |-> s.name, file |-> "a", exported |-> s.exported] : s \in extracted.symbols})
  IN  /\ extracted = Declares(subject.language, subject.program)
      /\ \A others \in subject.others, imports \in SUBSET {"b", "c"} :
           NamesFound(extracted.edges, "a", own \o others, imports) /\ NamesFound(extracted.edges, "a", others \o own, imports)
=============================================================================
