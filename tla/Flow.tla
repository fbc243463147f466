-------------------------------- MODULE Flow --------------------------------
(* The flow phase of an index run (pipeline/flow.ts): what the functions of *)
(* a file take, hand on, return and set off, read from its syntax tree, and *)
(* the symbols these names are taken for.                                   *)
(*                                                                          *)
(* A node of the tree has a type, a text and children.  A text is the       *)
(* sequence of the names it is made of; that of a literal has no quotes.    *)
EXTENDS Integers, Sequences, FiniteSets, SequencesExt

CONSTANT Unknown   \* no producer, no callee, no symbol

Node(type, text, children) == [type |-> type, text |-> text, children |-> children]

Absent == Node("absent", <<>>, <<>>)

(* The fields of a node are its first children: function and arguments of a *)
(* call, name and value of a declarator, left and right of an assignment,   *)
(* object and property of a member, name, parameters and body of a function *)
(* and of a method, parameters and body of a function value, name and body  *)
(* of a class.                                                              *)
Field(node, n) == IF n \in DOMAIN node.children THEN node.children[n] ELSE Absent

NestedScopes == {"function_declaration", "class_declaration", "arrow_function", "function", "method_definition"}
CallbackTriggers == {"then", "catch", "finally", "use", "get", "post", "put", "patch", "delete", "map", "filter", "forEach", "reduce"}
EventListeners == {"on", "once", "addEventListener"}
TimerCalls == {<<"setTimeout">>, <<"setInterval">>}
FunctionValues == {"arrow_function", "function"}

(* The nodes in the order they are visited, without what is below a node of *)
(* the types left out.                                                      *)
RECURSIVE Walked(_, _)
Walked(node, leftOut) ==
  <<node>> \o FlattenSeq([i \in DOMAIN node.children |->
                            IF node.children[i].type \in leftOut THEN <<>> ELSE Walked(node.children[i], leftOut)])

-----------------------------------------------------------------------------
(* Names.                                                                   *)
(* resolveCalleeName, and resolveCallbackName: "this" and "super" go.       *)
CalleeName(node) ==
  IF node.type = "identifier" THEN node.text
  ELSE IF node.type = "member_expression"
  THEN (IF Field(node, 1).text \in {<<"this">>, <<"super">>} THEN <<>> ELSE Field(node, 1).text) \o Field(node, 2).text
  ELSE Unknown

MemberProperty(node) == IF node.type = "member_expression" THEN Last(Field(node, 2).text) ELSE Unknown

(* What a value comes from: the callee of a call, or of the call that a     *)
(* variable was given the value of.                                         *)
RECURSIVE ProducerName(_, _)
ProducerName(node, origins) ==
  IF node.type = "identifier" THEN (IF node.text \in DOMAIN origins THEN origins[node.text] ELSE Unknown)
  ELSE IF node.type = "call_expression" THEN CalleeName(Field(node, 1))
  ELSE IF node.type \in {"await_expression", "parenthesized_expression"} THEN ProducerName(Field(node, 1), origins)
  ELSE Unknown

EventName(node) ==
  IF node.type \in {"string", "string_fragment"} \/ (node.type = "template_string" /\ Len(node.children) = 1)
  THEN node.text ELSE <<>>

-----------------------------------------------------------------------------
(* One scope.                                                               *)
Raw(source, target, type) == [source |-> source, target |-> target, type |-> type]

Assigns(node) ==
  /\ node.type \in {"variable_declarator", "assignment_expression"}
  /\ Len(node.children) = 2 /\ Field(node, 1).type = "identifier"

(* A value that comes from no call leaves the origin as it was.             *)
OriginsAfter(node, origins) ==
  LET producer == ProducerName(Field(node, 2), origins)
  IN  IF Assigns(node) /\ producer # Unknown THEN (Field(node, 1).text :> producer) @@ origins ELSE origins

Returned(node, scope, origins) ==
  IF node.type # "return_statement" \/ node.children = <<>> THEN {}
  ELSE {Raw(scope, scope, "PRODUCES")}
       \cup {Raw(producer, scope, "DATA_FLOWS_TO") : producer \in {ProducerName(Field(node, 1), origins)} \ {Unknown}}

Arguments(node) == Field(node, 2).children

(* handleCallExpression.                                                    *)
Handed(node, scope, params, origins) ==
  LET callee == CalleeName(Field(node, 1))
      args == Range(Arguments(node))
      callbacks == {CalleeName(a) : a \in args} \ {Unknown}
  IN  (IF callee = Unknown THEN {}
       ELSE {Raw(scope, callee, "CONSUMES") : a \in {b \in args : b.type = "identifier" /\ b.text \in params}}
            \cup {Raw(producer, callee, "DATA_FLOWS_TO") : producer \in {ProducerName(a, origins) : a \in args} \ {Unknown, callee}})
      \cup (IF MemberProperty(Field(node, 1)) \in CallbackTriggers \/ callee \in TimerCalls
            THEN {Raw(scope, callback, "TRIGGERS") : callback \in callbacks} ELSE {})

Called(node, scope, params, origins) ==
  IF node.type = "call_expression" THEN Handed(node, scope, params, origins) ELSE {}

Calls(nodes, properties) ==
  {n \in Range(nodes) : n.type = "call_expression" /\ MemberProperty(Field(n, 1)) \in properties}

Emitted(nodes, scope) ==
  {[event |-> EventName(Field(Field(n, 2), 1)), source |-> scope] :
     n \in {c \in Calls(nodes, {"emit"}) : EventName(Field(Field(c, 2), 1)) # <<>>}}

Listeners(nodes) ==
  {[event |-> EventName(Field(Field(n, 2), 1)), handler |-> CalleeName(Field(Field(n, 2), 2))] :
     n \in {c \in Calls(nodes, EventListeners) : /\ EventName(Field(Field(c, 2), 1)) # <<>>
                                                 /\ CalleeName(Field(Field(c, 2), 2)) # Unknown}}

AnalyzeScope(scope) ==
  LET nodes == Walked(scope.body, NestedScopes)
      Visit(so, node) == [origins |-> OriginsAfter(node, so.origins),
                          edges |-> so.edges \cup Returned(node, scope.name, so.origins)
                                             \cup Called(node, scope.name, scope.params, so.origins)]
  IN  [edges |-> FoldLeft(Visit, [origins |-> <<>>, edges |-> {}], nodes).edges,
       emitted |-> Emitted(nodes, scope.name), listeners |-> Listeners(nodes)]

-----------------------------------------------------------------------------
(* The scopes of a file: the functions, methods and function values that    *)
(* are not inside another one.                                              *)
ParametersOf(function) == Field(function, IF function.type \in FunctionValues THEN 1 ELSE 2)
BodyOf(function) == Field(function, IF function.type \in FunctionValues THEN 2 ELSE 3)

(* The parameter of an arrow that has no parentheses is not in the list.    *)
ParameterNames(function) ==
  IF ParametersOf(function).type # "formal_parameters" THEN {}
  ELSE {n.text : n \in {m \in Range(Walked(ParametersOf(function), {})) : m.type = "identifier"}}

Scope(name, function) ==
  IF name.text = <<>> \/ BodyOf(function) = Absent THEN {}
  ELSE {[name |-> name.text, params |-> ParameterNames(function), body |-> BodyOf(function)]}

MethodScopes(class) ==
  UNION {Scope([text |-> Field(class, 1).text \o Field(m, 1).text], m) :
           m \in {c \in Range(Field(class, 2).children) : c.type = "method_definition"}}

RECURSIVE Scopes(_)
Scopes(node) ==
  IF node.type = "function_declaration" THEN Scope(Field(node, 1), node)
  ELSE IF node.type = "class_declaration" THEN MethodScopes(node)
  ELSE IF node.type = "lexical_declaration"
  THEN UNION {Scope(Field(d, 1), Field(d, 2)) :
                d \in {c \in Range(node.children) : c.type = "variable_declarator" /\ Field(c, 2).type \in FunctionValues}}
  ELSE UNION {Scopes(child) : child \in Range(node.children)}

-----------------------------------------------------------------------------
(* Symbols.  A name stands for a stored symbol of that name, or for one of  *)
(* a class whose last name it is: one of the same file if there is one, one *)
(* of a file it imports, one that is exported, or any, the first stored.    *)
CandidatesFor(name, stored) ==
  SelectSeq(stored, LAMBDA s : s.name = name \/ (Len(name) = 1 /\ Last(s.name) = name[1]))

ResolveSymbol(name, file, stored, imports) ==
  LET candidates == CandidatesFor(name, stored)
      tiers == <<SelectSeq(candidates, LAMBDA s : s.file = file),
                 SelectSeq(candidates, LAMBDA s : <<file, s.file>> \in imports),
                 SelectSeq(candidates, LAMBDA s : s.exported), candidates>>
      there == SelectSeq(tiers, LAMBDA t : t # <<>>)
  IN  IF there = <<>> THEN Unknown ELSE Head(Head(there))

(* Every emitter of an event is paired with every listener to it, of any    *)
(* file of the run; both names are resolved as names of the emitter's file. *)
Pairs(emitted, listeners) == {p \in emitted \X listeners : p[1].event = p[2].event}

EventEdges(found) ==
  UNION {{[evidence |-> f, edge |-> Raw(p[1].source, p[2].handler, "TRIGGERS")] : p \in Pairs(found[f].emitted, found[g].listeners)} :
           f \in DOMAIN found, g \in DOMAIN found}

ExtractFlow(root) ==
  LET parts == {AnalyzeScope(scope) : scope \in Scopes(root)}
  IN  [edges |-> UNION {p.edges : p \in parts}, emitted |-> UNION {p.emitted : p \in parts},
       listeners |-> UNION {p.listeners : p \in parts}]

RawEdges(found) ==
  UNION {{[evidence |-> f, edge |-> e] : e \in found[f].edges} : f \in DOMAIN found} \cup EventEdges(found)

ResolveFlowEdges(raw, stored, imports) ==
  {r \in {[source |-> ResolveSymbol(e.edge.source, e.evidence, stored, imports),
           target |-> ResolveSymbol(e.edge.target, e.evidence, stored, imports), type |-> e.edge.type] : e \in raw} :
     r.source # Unknown /\ r.target # Unknown}

-----------------------------------------------------------------------------
(* What the edges are for.                                                  *)
(* A scope as it runs, statement by statement: what each variable holds,    *)
(* the calls and the return that are handed the answer of another call, and *)
(* whether such an answer has been overwritten by something else.           *)
Assigned(statement) == {n \in Range(Walked(statement, NestedScopes)) : Assigns(n)}

CallsIn(statement) == {n \in Range(Walked(statement, NestedScopes)) : n.type = "call_expression"}

HandedOver(statement, name, held) ==
  LET returned == IF statement.type = "return_statement" THEN Field(statement, 1) ELSE Absent
      given == {<<a, CalleeName(Field(c, 1))>> : <<c, a>> \in {<<c, a>> \in CallsIn(statement) \X UNION {Range(Arguments(d)) : d \in CallsIn(statement)} :
                                                               a \in Range(Arguments(c))}}
  IN  {<<from, name>> : from \in {ProducerName(returned, held)} \ {Unknown}}
      \cup {p \in {<<ProducerName(g[1], held), g[2]>> : g \in given} : p[1] # p[2] /\ Unknown \notin {p[1], p[2]}}

Executed(scope) ==
  LET Gives(held, d) == ProducerName(Field(d, 2), held)
      Run(now, statement) ==
        [held |-> FoldSet(LAMBDA d, held : (Field(d, 1).text :> Gives(now.held, d)) @@ held, now.held, Assigned(statement)),
         flows |-> now.flows \cup HandedOver(statement, scope.name, now.held),
         lost |-> now.lost \/ \E d \in Assigned(statement) : Field(d, 1).text \in DOMAIN now.held /\ Gives(now.held, d) = Unknown]
  IN  FoldLeft(Run, [held |-> <<>>, flows |-> {}, lost |-> FALSE], scope.body.children)

ReadsItself(statement) ==
  \E d \in Assigned(statement) : Field(d, 1).text \in {n.text : n \in {m \in Range(Walked(Field(d, 2), NestedScopes)) : m.type = "identifier"}}

(* Every answer of a call that another call or the caller gets to see is an *)
(* edge, and there is no other edge.  The walk takes a variable for what is *)
(* assigned to it before it looks at the calls on the right, and does not   *)
(* forget an answer that is overwritten: x = g(x) and x = f(); x = 0 are    *)
(* what it is wrong about.                                                  *)
FlowsFollowed(scope) ==
  LET edges == {<<e.source, e.target>> : e \in {r \in AnalyzeScope(scope).edges : r.type = "DATA_FLOWS_TO"}}
      run == Executed(scope)
  IN  (\A s \in Range(scope.body.children) : ~ReadsItself(s))
        => run.flows \subseteq edges /\ (run.lost \/ edges \subseteq run.flows)

(* Whoever emits an event sets off whoever listens to it in any file, if    *)
(* only one symbol has the handler's name, and sets off nobody else.        *)
EventsReach(roots, tables) ==
  LET found == [f \in DOMAIN roots |-> ExtractFlow(roots[f])]
      raw == RawEdges(found)
      listeners == UNION {found[f].listeners : f \in DOMAIN roots}
      Own(name, f, stored) == {s \in Range(CandidatesFor(name, stored)) : s.file = f}
  IN  \A table \in tables :
        LET stored == table.stored
            triggers == {r \in ResolveFlowEdges(raw, stored, table.imports) : r.type = "TRIGGERS"}
        IN  /\ \A f \in DOMAIN roots : \A e \in found[f].emitted, l \in listeners :
                 (e.event = l.event /\ Own(e.source, f, stored) # {} /\ Len(CandidatesFor(l.handler, stored)) = 1)
                   => \E r \in triggers : r.source \in Own(e.source, f, stored) /\ r.target = CandidatesFor(l.handler, stored)[1]
            /\ \A r \in triggers : \E f \in DOMAIN roots : \E e \in found[f].emitted, l \in listeners :
                 /\ e.event = l.event
                 /\ r.source \in Range(CandidatesFor(e.source, stored)) /\ r.target \in Range(CandidatesFor(l.handler, stored))

FlowSound(subject) ==
  IF subject.kind = "scope" THEN FlowsFollowed(subject.scope)
  ELSE subject.kind = "program" => EventsReach(subject.roots, subject.tables)
=============================================================================
