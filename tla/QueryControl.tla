---------------------------- MODULE QueryControl ----------------------------
(* core/queryControl.ts: what a query may cost, how long its answer may be *)
(* and how a list is handed out in pages.  A request or a set of arguments *)
(* is a record of the fields that are present; a text is the number of its *)
(* characters, and a cursor the scope and the offset it stands for.        *)
EXTENDS Integers, Sequences, FiniteSets, TLC

Field(r, name, default) == IF name \in DOMAIN r THEN r[name] ELSE default

ClampInteger(value, min, max) == IF value < min THEN min ELSE IF value > max THEN max ELSE value

(* clampInteger of a field: a field that is absent is the fallback, which  *)
(* is not clamped.                                                         *)
Clamped(r, name, fallback, min, max) ==
  IF name \in DOMAIN r THEN ClampInteger(r[name], min, max) ELSE fallback

(* Two spellings of a field may both be given if they agree.               *)
Conflicting(args, snake, camel) ==
  /\ snake \in DOMAIN args /\ camel \in DOMAIN args
  /\ args[snake] # args[camel]

Aliased(args, snake, camel, name) ==
  IF camel \in DOMAIN args THEN [n \in {name} |-> args[camel]]
  ELSE IF snake \in DOMAIN args THEN [n \in {name} |-> args[snake]] ELSE <<>>

CostProfile(action) ==
  CASE action = "audit:gaps"     -> [node |-> 4, edge |-> 1, edges |-> 2]
    [] action = "audit:smells"   -> [node |-> 5, edge |-> 2, edges |-> 3]
    [] action = "audit:hotspots" -> [node |-> 4, edge |-> 2, edges |-> 3]
    [] OTHER -> [node |-> 3, edge |-> 1, edges |-> 2]

(* How many files and edges a query of the action may look at.             *)
PlanQuery(action, args) ==
  LET work == Clamped(Aliased(args, "max_work_units", "maxWorkUnits", "n"), "n", 20000, 1, 100000)
      deadline == Clamped(Aliased(args, "deadline_ms", "deadlineMs", "n"), "n", 5000, 25, 30000)
      cost == CostProfile(action)
      nodes == work \div (cost.node + cost.edge * cost.edges)
      afford == (work - nodes * cost.node) \div cost.edge
      edges == IF nodes * cost.edges < afford THEN nodes * cost.edges ELSE afford
  IN  [cost |-> cost, work |-> work, deadline |-> deadline, nodes |-> nodes, edges |-> edges,
       planned |-> nodes * cost.node + edges * cost.edge]

PlanConflicts(args) ==
  \/ Conflicting(args, "max_work_units", "maxWorkUnits")
  \/ Conflicting(args, "deadline_ms", "deadlineMs")
  \/ Conflicting(args, "character_budget", "characterBudget")

MinBudget == 256
MaxBudget == 100000

PlanCharacterBudget(r, fallback) ==
  LET applied == Clamped(r, "n", ClampInteger(fallback, MinBudget, MaxBudget), MinBudget, MaxBudget)
  IN  [applied |-> applied, clamped |-> "n" \in DOMAIN r /\ r["n"] # applied]

ActionLimit(action) ==
  CASE action \in {"lookup", "brief", "snippet", "snapshot", "diff"} -> 1
    [] action = "similar" -> 10
    [] action \in {"search", "ask"} -> 20
    [] action = "plan_context" -> 30
    [] action = "history" -> 50
    [] OTHER -> 100

BudgetOf(action) ==
  CASE action = "brief" -> 8000
    [] action \in {"search", "similar"} -> 12000
    [] action \in {"snippet", "catalog"} -> 16000
    [] action \in {"cluster", "patterns", "history"} -> 20000
    [] action \in {"lookup", "ask"} -> 24000
    [] action = "plan_context" -> 30000
    [] action = "snapshot" -> 50000
    [] OTHER -> 100000

(* The budget of the arguments goes before that of the request, which only *)
(* two actions have.                                                       *)
PlanQueryRequest(r, args) ==
  LET control == Aliased(args, "character_budget", "characterBudget", "n")
      own == IF r.action \in {"plan_context", "ask"} THEN Aliased(r, "characterBudget", "characterBudget", "n") ELSE <<>>
  IN  [limit |-> Clamped(r, "limit", ActionLimit(r.action), 1, 500),
       budget |-> PlanCharacterBudget(IF control # <<>> THEN control ELSE own, BudgetOf(r.action)),
       work |-> PlanQuery(r.action, args)]

(* A text that is too long ends in a notice, which counts as well.         *)
Suffix == 50

ApplyCharacterBudget(length, budget) ==
  IF length <= budget.applied THEN [returned |-> length, truncated |-> FALSE]
  ELSE [returned |-> Suffix + ClampInteger(budget.applied - Suffix, 0, length), truncated |-> TRUE]

(* A limit shared out among the stores that are read.                      *)
SplitReadLimit(total, count) ==
  [i \in 1..count |-> (total \div count) + (IF i <= total % count THEN 1 ELSE 0)]

-----------------------------------------------------------------------------
(* Cursors and pages.  The fingerprint tells scopes apart.                 *)
Start == [ok |-> TRUE, offset |-> 0]

CreateCursor(scope, offset) == [scope |-> scope, offset |-> offset]

ParseCursor(cursor, scope) ==
  IF "scope" \notin DOMAIN cursor THEN [ok |-> FALSE, code |-> "INVALID_CURSOR"]
  ELSE IF cursor.scope # scope THEN [ok |-> FALSE, code |-> "CURSOR_SCOPE_MISMATCH"]
  ELSE [ok |-> TRUE, offset |-> cursor.offset]

Parsed(r, scope) == IF "cursor" \in DOMAIN r THEN ParseCursor(r.cursor, scope) ELSE Start

(* What a page says of itself.                                             *)
PageOf(scope, from, returned, total) ==
  LET next == from + returned
  IN  [next |-> IF next < total THEN CreateCursor(scope, next) ELSE <<>>,
       returned |-> returned, total |-> total, truncated |-> next < total]

Paginate(items, r, scope) ==
  LET limit == Clamped(r, "limit", 20, 1, 500)
      at == Parsed(r, scope)
      end == IF at.offset + limit < Len(items) THEN at.offset + limit ELSE Len(items)
      taken == SubSeq(items, at.offset + 1, end)
  IN  IF ~at.ok THEN at
      ELSE IF at.offset > Len(items) THEN [ok |-> FALSE, code |-> "CURSOR_OUT_OF_RANGE"]
      ELSE [ok |-> TRUE, items |-> taken, page |-> PageOf(scope, at.offset, Len(taken), Len(items))]

-----------------------------------------------------------------------------
(* planSourceOutput: the lines of a file an answer carries, <<0, 0>> of an *)
(* empty file and <<>> when the source is left out or put off.             *)
SourceRange(args) ==
  LET count == Field(args, "lineCount", 0)
      start == IF count = 0 THEN 0 ELSE Clamped(args, "sourceStart", 1, 1, count)
      page == IF start + 499 < count THEN start + 499 ELSE count
  IN  <<start, IF start = 0 THEN 0 ELSE Clamped(args, "sourceEnd", page, start, count)>>

PlanSourceOutput(args) ==
  LET explicit == DOMAIN args \cap {"sourceStart", "sourceEnd"} # {}
      highlighted == Field(args, "highlights", FALSE)
      wanted == IF "includeSource" \in DOMAIN args THEN args.includeSource ELSE FALSE
  IN  CASE "includeSource" \in DOMAIN args /\ ~args.includeSource -> [mode |-> "omitted", lines |-> <<>>]
        [] highlighted /\ ~wanted /\ ~explicit -> [mode |-> "highlights_only", lines |-> <<>>]
        [] OTHER -> [mode |-> "body", lines |-> SourceRange(args)]
=============================================================================
