------------------------------ MODULE NodeHost ------------------------------
(* The programs of one machine that work on repositories: the command line  *)
(* (server.ts), the directory it claims for a repository (node/layout.ts),  *)
(* the store it opens there (node/host.ts), the service that stands before  *)
(* the store (service/AtlasReadService.ts) and the tools of a session       *)
(* (mcp/adapter.ts).  A word of a command line is [word], a flag is [flag], *)
(* with what follows its "=" or Bare.  A flag is named as the field of a    *)
(* request that it gives, and comes once there.                           *)
EXTENDS Naturals, FiniteSets, SequencesExt, TLC

CONSTANTS Processes,
          Argvs,           \* the command lines of each process
          Requested,           \* what a --request may name: a request, or no object
          Malformed,       \* values that look like JSON and are not
          Lists,           \* the values that are lists in JSON, with their members
          BadNames,        \* names that are no workspace
          ToolCalls,       \* what the client of a session calls
          Failures,        \* what the store may answer that is not a success
          MaxStarts, MaxCalls  \* bounds: commands, and calls under way in one

FailuresAssumption == {"ok", "none"} \cap Failures = {}

VARIABLES identities, holders, procs, starts

hostVars == <<identities, holders, procs, starts>>

Bare == "bare"
Absent == "absent"

-----------------------------------------------------------------------------
(* The command line.  A flag without "=" takes the word behind it.          *)
IsFlag(token) == "flag" \in DOMAIN token

Takes(argv, i) ==
  i \in DOMAIN argv /\ IsFlag(argv[i]) /\ argv[i].inline = Bare /\ i < Len(argv) /\ ~IsFlag(argv[i + 1])

ValueAt(argv, i) == IF Takes(argv, i) THEN argv[i + 1].word ELSE argv[i].inline

Indices(argv, Chosen(_)) == SelectSeq([i \in DOMAIN argv |-> i], LAMBDA i : Chosen(i))

Values(argv, places) == [n \in DOMAIN places |-> ValueAt(argv, places[n])]

ParseArguments(argv) ==
  LET free == Indices(argv, LAMBDA i : ~IsFlag(argv[i]) /\ ~Takes(argv, i - 1))
      names == {argv[i].flag : i \in {i \in DOMAIN argv : IsFlag(argv[i])}}
  IN  [positionals |-> [n \in DOMAIN free |-> argv[free[n]].word],
       flags |-> [name \in names |->
                    Values(argv, Indices(argv, LAMBDA i : IsFlag(argv[i]) /\ argv[i].flag = name))]]

(* The last of several values, of which a bare one has become text.         *)
One(flags, name) ==
  IF name \notin DOMAIN flags THEN Absent
  ELSE IF Last(flags[name]) # Bare THEN Last(flags[name])
  ELSE IF Len(flags[name]) > 1 THEN "true" ELSE Absent

Present(flags, name) == name \in DOMAIN flags

Positional(parsed, n) == IF n \in DOMAIN parsed.positionals THEN parsed.positionals[n] ELSE Absent

Command(parsed) == IF parsed.positionals = <<>> THEN "mcp" ELSE parsed.positionals[1]

GlobalFlags == {"source-root", "workspace", "config", "format", "db", "data-mode", "transport", "request", "debounce-ms",
                "no-index", "full", "no-backup", "protected", "include-optional", "include-unavailable", "dry-run"}

DomainFlags(flags) == DOMAIN flags \ GlobalFlags

Wrong == [family |-> "none", fields |-> <<>>]

ExplicitRequest(family, flags, base) ==
  LET given == One(flags, "request")
  IN  IF given \in DOMAIN Requested /\ DomainFlags(flags) = {} THEN [family |-> family, fields |-> Requested[given] @@ base] ELSE Wrong

DomainRequest(family, flags, base) ==
  IF One(flags, "request") # Absent THEN ExplicitRequest(family, flags, base)
  ELSE IF \E name \in DomainFlags(flags) : Range(flags[name]) \cap Malformed # {} THEN Wrong
  ELSE [family |-> family, fields |-> [name \in DomainFlags(flags) |-> Last(flags[name])] @@ base]

(* Which fields of an administrative request the global flags give.  A flag *)
(* counts whatever its value.                                               *)
AdminFields(action, parsed) ==
  LET If(test, field, value) == IF test THEN field :> value ELSE <<>>
      Has(name) == Present(parsed.flags, name)
  IN  CASE action = "index" -> If(Len(parsed.positionals) > 1, "paths", "given") @@ If(Has("full"), "full", Bare)
        [] action = "migrate" -> If(Has("dry-run"), "dryRun", Bare) @@ If(Has("no-backup"), "backup", "false")
        [] action = "backup" -> If(Has("protected"), "protected", Bare)
        [] action = "doctor" -> If(Has("include-optional"), "includeOptional", Bare)
        [] OTHER -> If(Has("include-unavailable"), "includeUnavailable", Bare)

AdminRequest(action, parsed) ==
  DomainRequest("admin", parsed.flags, AdminFields(action, parsed) @@ [action |-> action])

ServiceRequest(parsed) ==
  LET command == Command(parsed)
  IN  CASE command \in {"query", "graph", "audit"} ->
             DomainRequest(command, parsed.flags, "action" :> Positional(parsed, 2))
        [] command = "commit" -> ExplicitRequest("commit", parsed.flags, <<>>)
        [] command \in {"diff", "snapshot"} -> DomainRequest("query", parsed.flags, [action |-> command])
        [] command \in {"index", "migrate", "backup", "doctor"} -> AdminRequest(command, parsed)
        [] command = "workspace" /\ Positional(parsed, 2) = "list" -> AdminRequest("workspace_list", parsed)
        [] command = "init" -> [family |-> "admin", fields |-> [action |-> "index", full |-> Bare]]
        [] OTHER -> Wrong

ExitCode(code) ==
  CASE code = "ok" -> 0
    [] code \in {"ATLAS_INVALID_REQUEST", "ATLAS_UNSUPPORTED_ACTION"} -> 2
    [] code \in {"ATLAS_NOT_FOUND", "ATLAS_WORKSPACE_NOT_FOUND"} -> 3
    [] code \in {"ATLAS_CAPABILITY_UNAVAILABLE", "ATLAS_PERMISSION_DENIED", "ATLAS_BUSY", "ATLAS_STORE_LOCKED",
                 "ATLAS_DEADLINE_EXCEEDED", "ATLAS_CANCELLED"} -> 4
    [] OTHER -> 5

-----------------------------------------------------------------------------
(* The directory of a repository and the identity that is written there.    *)
Or(value, default) == IF value = Absent THEN default ELSE value

Layout(parsed) ==
  LET root == Or(One(parsed.flags, "source-root"), IF Command(parsed) = "init" THEN Or(Positional(parsed, 2), "here") ELSE "here")
      identity == [workspace |-> Or(One(parsed.flags, "workspace"), root), root |-> root,
                   mode |-> Or(One(parsed.flags, "data-mode"), "project")]
      directory == IF identity.mode = "project" THEN <<root, "">> ELSE <<root, identity.workspace>>
      db == One(parsed.flags, "db")
  IN  [identity |-> identity, directory |-> directory, db |-> IF db = Absent THEN directory ELSE <<db, "db">>,
       ok |-> identity.mode \in {"project", "user"} /\ identity.workspace \notin BadNames]

Opens(parsed) ==
  /\ Command(parsed) # "worktree"
  /\ ~(Command(parsed) = "config" /\ Positional(parsed, 2) = "show")

Reply(code, request, did) == [code |-> code, request |-> request, did |-> did]

NoReply == Reply("none", Wrong, <<>>)

(* Where a command begins, and what it ends with if it is over at once.     *)
Begun(argv, parsed) ==
  LET layout == Layout(parsed)
      refused == Command(parsed) = "mcp" /\ One(parsed.flags, "transport") \notin {Absent, "stdio"}
      over == IF Command(parsed) = "worktree" THEN ExitCode("ATLAS_CAPABILITY_UNAVAILABLE")
              ELSE IF ~layout.ok \/ refused THEN 2 ELSE 0
  IN  [parsed |-> parsed, layout |-> layout, at |-> IF Opens(parsed) /\ over = 0 THEN "create" ELSE "done", exit |-> over,
       initialized |-> FALSE, closed |-> FALSE, caught |-> {}, calls |-> {}, reply |-> NoReply]

Never == Begun(<<>>, [positionals |-> <<"worktree">>, flags |-> <<>>])

Over == {"done", "dead"}

At(p, at) == procs[p].at = at

Goes(p, at) == procs' = [procs EXCEPT ![p].at = at]

Ends(p, at, exit) == procs' = [procs EXCEPT ![p].at = at, ![p].exit = exit]

Launch(p, argv) ==
  /\ procs[p].at \in Over /\ starts < MaxStarts
  /\ starts' = starts + 1
  /\ procs' = [procs EXCEPT ![p] = Begun(argv, ParseArguments(argv))]
  /\ UNCHANGED <<identities, holders>>

Directory(p) == procs[p].layout.directory
Database(p) == procs[p].layout.db

(* A function that has one more value.                                      *)
With(f, x, value) == [y \in DOMAIN f \cup {x} |-> IF y = x THEN value ELSE f[y]]

(* The file is created and then written, which another may read between.    *)
Create(p) ==
  /\ At(p, "create")
  /\ IF Directory(p) \in DOMAIN identities
     THEN Goes(p, "compare") /\ UNCHANGED identities
     ELSE /\ Goes(p, "write")
          /\ identities' = With(identities, Directory(p), [written |-> FALSE, of |-> procs[p].layout.identity])
  /\ UNCHANGED <<holders, starts>>

(* init lays its directory out once before it opens the host, which does so *)
(* again.                                                                   *)
LaidOut(p) ==
  IF procs[p].initialized \/ Command(procs[p].parsed) # "init" THEN Goes(p, "open")
  ELSE IF Present(procs[p].parsed.flags, "no-index") THEN Ends(p, "done", 0)
  ELSE procs' = [procs EXCEPT ![p].at = "create", ![p].initialized = TRUE]

Write(p) ==
  /\ At(p, "write") /\ LaidOut(p)
  /\ identities' = [identities EXCEPT ![Directory(p)].written = TRUE]
  /\ UNCHANGED <<holders, starts>>

(* A layout that is taken over as it is found.                              *)
MutantSameIdentity(file, layout) == file.written

(* A file that is blank does not parse.                                     *)
SameIdentity(file, layout) == file.written /\ file.of = layout.identity

Compare(p) ==
  /\ At(p, "compare")
  /\ IF SameIdentity(identities[Directory(p)], procs[p].layout) THEN LaidOut(p) ELSE Ends(p, "done", 2)
  /\ UNCHANGED <<identities, holders, starts>>

-----------------------------------------------------------------------------
(* The store has one owner.  What a dead process held can be taken over     *)
(* (StoreLock), and is free here.                                           *)
Held(db) == db \in DOMAIN holders

BadDebounce(parsed) == Command(parsed) = "watch" /\ One(parsed.flags, "debounce-ms") \notin {Absent, "100"}

(* A watcher looks at its arguments once it has opened the store, which it  *)
(* then does not close: it stays, and holds it, with its error told.        *)
Open(p) ==
  /\ At(p, "open")
  /\ \/ ~Held(Database(p))
        /\ holders' = With(holders, Database(p), p)
        /\ IF BadDebounce(procs[p].parsed) THEN Ends(p, "stuck", 2) ELSE Goes(p, "work")
     \/ Ends(p, "done", 2) /\ UNCHANGED holders
  /\ UNCHANGED <<identities, starts>>

-----------------------------------------------------------------------------
(* The service.  What it refuses itself, and what it asks of the store.     *)
Argument(request, name, default) == IF name \in DOMAIN request.fields THEN request.fields[name] ELSE default

Checks == {"integrity", "schema", "lexical", "vector"}

(* A text is taken letter by letter, and no letter is a check; what cannot  *)
(* be taken apart at all is an error of the program.                        *)
ChecksRefusal(checks) ==
  CASE checks \in {Absent, "null"} -> "none"
    [] checks \in {Bare, "true", "false"} -> "ATLAS_INTERNAL"
    [] checks \in DOMAIN Lists -> IF Lists[checks] \subseteq Checks THEN "none" ELSE "ATLAS_INVALID_REQUEST"
    [] OTHER -> "ATLAS_INVALID_REQUEST"

AdminRefusal(request) ==
  LET action == Argument(request, "action", Absent)
  IN  IF action = Absent THEN "ATLAS_INVALID_REQUEST"
      ELSE IF action = "doctor" THEN ChecksRefusal(Argument(request, "checks", Absent))
      ELSE IF action \notin {"index", "migrate", "backup", "workspace_list"} THEN "ATLAS_UNSUPPORTED_ACTION"
      ELSE IF action = "index" /\ Argument(request, "phase", "all") = "embeddings" THEN "ATLAS_CAPABILITY_UNAVAILABLE"
      ELSE "none"

Refused(closed, request, id) ==
  IF id = "bad" THEN "ATLAS_INVALID_REQUEST"
  ELSE IF closed THEN "ATLAS_INTERNAL"
  ELSE IF request.family = "admin" THEN AdminRefusal(request) ELSE "none"

Set(request, name) == Argument(request, name, "false") \notin {"false", Absent}

Steps(request) ==
  IF request.family = "commit" THEN <<"commit">>
  ELSE IF request.family # "admin" THEN <<"retrieve">>
  ELSE CASE request.fields.action = "index" -> <<"indexRepository">>
         [] request.fields.action = "migrate" ->
              IF Set(request, "backup") /\ ~Set(request, "dryRun") THEN <<"health", "backup">> ELSE <<"health">>
         [] request.fields.action = "backup" -> <<"backup">>
         [] request.fields.action = "doctor" -> <<"health">>
         [] OTHER -> <<"listWorkspaces">>

(* How a process takes an answer: a command that asks once then closes.     *)
Lasting == {"mcp", "watch", "api"}

Replied(proc, reply) ==
  IF Command(proc.parsed) \in Lasting THEN [proc EXCEPT !.reply = reply]
  ELSE [proc EXCEPT !.reply = reply, !.at = "close", !.exit = ExitCode(reply.code)]

Served(proc, request, id) ==
  LET refusal == Refused(proc.closed, request, id)
  IN  IF refusal # "none" THEN Replied(proc, Reply(refusal, request, <<>>))
      ELSE [proc EXCEPT !.calls = @ \cup {[request |-> request, left |-> Steps(request), did |-> <<>>, late |-> FALSE]}]

(* A step that is asked of a store that is closing is refused.  A target    *)
(* that is not the head of the store is found out by its health.            *)
Diverged(call) == call.left[1] = "health" /\ Argument(call.request, "targetGeneration", "head") # "head"

Advanced(proc, call) ==
  LET did == Append(call.did, call.left[1])
      others == [proc EXCEPT !.calls = @ \ {call}]
  IN  IF Diverged(call) THEN Replied(others, Reply("ATLAS_SCHEMA_HISTORY_DIVERGED", call.request, did))
      ELSE IF Len(call.left) = 1 THEN Replied(others, Reply("ok", call.request, did))
      ELSE [others EXCEPT !.calls = @ \cup {[call EXCEPT !.left = Tail(@), !.did = did, !.late = proc.at = "closeStore"]}]

Holds(p) == Database(p) \in DOMAIN holders /\ holders[Database(p)] = p

Answer(p, call) ==
  /\ ~(procs[p].at \in Over)
  /\ \/ Holds(p) /\ ~call.late /\ procs' = [procs EXCEPT ![p] = Advanced(@, call)]
     \/ \E code \in Failures :
          procs' = [procs EXCEPT ![p] = Replied([procs[p] EXCEPT !.calls = @ \ {call}], Reply(code, call.request, call.did))]
  /\ UNCHANGED <<identities, holders, starts>>

-----------------------------------------------------------------------------
(* Who calls: a command its one request, a session its tools, a watcher its *)
(* batches, and a program of one's own the service itself.                  *)
Runs(p, commands) == At(p, "work") /\ Command(procs[p].parsed) \in commands

Calls(p, request, id) ==
  /\ Cardinality(procs[p].calls) < MaxCalls
  /\ procs' = [procs EXCEPT ![p] = Served(@, request, id)]
  /\ UNCHANGED <<identities, holders, starts>>

RunServiceCommand(p) ==
  /\ At(p, "work") /\ Command(procs[p].parsed) \notin Lasting /\ procs[p].calls = {}
  /\ LET request == ServiceRequest(procs[p].parsed)
     IN  IF request.family = "none" THEN Ends(p, "close", 2) /\ UNCHANGED <<identities, holders, starts>>
         ELSE Calls(p, request, "none")

AliasOf ==
  [atlas_query |-> "query", atlas_graph |-> "graph", atlas_audit |-> "audit", atlas_commit |-> "commit", atlas_admin |-> "admin",
   atlas_diff |-> "diff", atlas_snapshot |-> "snapshot", atlas_changelog |-> "history", atlas_changelog_diff |-> "diff"]

Aliases == {"atlas_diff", "atlas_snapshot", "atlas_changelog", "atlas_changelog_diff"}

(* Strict about what it stands for, an alias has its action overwritten.    *)
Forwarded(tool, fields) ==
  IF tool \in Aliases THEN [family |-> "query", fields |-> [action |-> AliasOf[tool]] @@ fields]
  ELSE [family |-> AliasOf[tool], fields |-> fields]

Own(p) == procs[p].layout.identity.workspace

(* No commit and no administration of a workspace that is not the server's. *)
Foreign(p, call) ==
  call.tool \in {"atlas_commit", "atlas_admin"} /\ call.workspace \notin {Absent, Own(p)}

Sent(call) ==
  IF call.tool \in {"atlas_commit", "atlas_admin"} \/ call.workspace = Absent THEN Forwarded(call.tool, call.fields)
  ELSE Forwarded(call.tool, call.fields @@ [workspace |-> call.workspace])

Tells(p, code, call) ==
  /\ procs' = [procs EXCEPT ![p].reply = Reply(code, [family |-> "none", fields |-> <<>>], <<>>)]
  /\ UNCHANGED <<identities, holders, starts>>

Tool(p, call) ==
  /\ Runs(p, {"mcp"})
  /\ IF call.tool \notin DOMAIN AliasOf THEN Tells(p, "ATLAS_CAPABILITY_UNAVAILABLE", call)
     ELSE IF Foreign(p, call) THEN Tells(p, "ATLAS_WORKSPACE_NOT_FOUND", call)
     ELSE Calls(p, Sent(call), "none")

Batch(p) ==
  /\ Runs(p, {"watch"}) /\ procs[p].calls = {}
  /\ Calls(p, [family |-> "admin", fields |-> [action |-> "index", paths |-> "given"]], "none")

(* A program of one's own may call on when it has closed.                   *)
Use(p, call, id) ==
  /\ Command(procs[p].parsed) = "api" /\ procs[p].at \in {"work", "closeStore"}
  /\ call.tool \in DOMAIN AliasOf \ Aliases
  /\ Calls(p, Forwarded(call.tool, call.fields), id)

-----------------------------------------------------------------------------
(* The end.  A signal is handled once; the second of its kind kills, as one *)
(* does that comes before or that has no handler.                           *)
Handled(p) ==
  IF procs[p].at \notin {"work", "close", "closeStore"} THEN {}
  ELSE IF Command(procs[p].parsed) = "mcp" THEN {"SIGINT", "SIGTERM", "stdin"}
  ELSE IF Command(procs[p].parsed) = "watch" THEN {"SIGINT", "SIGTERM"} ELSE {}

Catch(p, signal) ==
  /\ signal \in Handled(p) \ procs[p].caught
  /\ procs' = [procs EXCEPT ![p].caught = @ \cup {signal}, ![p].at = IF @ = "work" THEN "close" ELSE @]
  /\ UNCHANGED <<identities, holders, starts>>

Quit(p) == Runs(p, {"api"}) /\ Goes(p, "close") /\ UNCHANGED <<identities, holders, starts>>

Released(p) == [db \in {db \in DOMAIN holders : holders[db] # p} |-> holders[db]]

(* A crash, and a signal that nobody handles.                               *)
Kill(p) ==
  /\ procs[p].at \notin Over
  /\ procs' = [procs EXCEPT ![p] = [Never EXCEPT !.at = "dead"]]
  /\ holders' = Released(p)
  /\ UNCHANGED <<identities, starts>>

(* A watcher that is closed lets its batch end.                             *)
CloseService(p) ==
  /\ At(p, "close")
  /\ Command(procs[p].parsed) = "watch" => procs[p].calls = {}
  /\ procs' = [procs EXCEPT ![p].closed = TRUE, ![p].at = "closeStore"]
  /\ UNCHANGED <<identities, holders, starts>>

(* The store answers what is under way before it is closed.  If it cannot   *)
(* be closed, a command that had its answer ends with an error instead, a   *)
(* session hides it, and the process stays with its store; a watcher dies   *)
(* of it (Kill).                                                            *)
CloseStore(p) ==
  /\ At(p, "closeStore") /\ procs[p].calls = {}
  /\ \/ Goes(p, "done") /\ holders' = Released(p)
     \/ /\ Command(procs[p].parsed) # "watch" /\ UNCHANGED holders
        /\ Ends(p, "stuck", IF Command(procs[p].parsed) \in Lasting THEN procs[p].exit ELSE 2)
  /\ UNCHANGED <<identities, starts>>

Step(p) ==
  \/ \E argv \in Argvs[p] : Launch(p, argv)
  \/ Create(p) \/ Write(p) \/ Compare(p) \/ Open(p) \/ RunServiceCommand(p) \/ Batch(p)
  \/ \E call \in procs[p].calls : Answer(p, call)
  \/ \E call \in ToolCalls : Tool(p, call)
  \/ \E call \in ToolCalls, id \in {"none", "bad"} : Use(p, call, id)
  \/ \E signal \in {"SIGINT", "SIGTERM", "stdin"} : Catch(p, signal)
  \/ Quit(p) \/ Kill(p) \/ CloseService(p) \/ CloseStore(p)

HostInit ==
  /\ identities = <<>> /\ holders = <<>> /\ starts = 0
  /\ procs = [p \in Processes |-> Never]

HostNext == \E p \in Processes : Step(p)

HostSpec == HostInit /\ [][HostNext]_hostVars

-----------------------------------------------------------------------------
(* Whoever works in a directory works for the repository whose name is in   *)
(* it; a store is held by a process that works, or is stuck, and by no      *)
(* process that is over.                                                    *)
OwnDirectory ==
  \A p \in Processes :
    /\ procs[p].at \in {"open", "work", "close", "closeStore", "stuck"} =>
         identities[Directory(p)] = [written |-> TRUE, of |-> procs[p].layout.identity]
    /\ Holds(p) => procs[p].at # "done"
    /\ procs[p].at \in {"work", "close", "closeStore"} => Holds(p)

(* A success is answered when every step of the request has been taken, a   *)
(* refused migration has made no backup, and what a command ends with is    *)
(* what it was answered.                                                    *)
AnswersTrue ==
  \A p \in Processes :
    LET reply == procs[p].reply
    IN  reply.code # "none" =>
          /\ reply.code = "ok" => reply.did = Steps(reply.request)
          /\ reply.code = "ATLAS_SCHEMA_HISTORY_DIVERGED" => "backup" \notin Range(reply.did)
          /\ (procs[p].at = "done" /\ Command(procs[p].parsed) \notin Lasting) =>
               procs[p].exit = ExitCode(reply.code)

(* The identity of a directory is written once, whoever comes.              *)
KeepsIdentity == \A d \in DOMAIN identities : identities[d].written => identities'[d] = identities[d]

(* The programs of a machine keep out of each other's directories, hold a   *)
(* store only while they work, and tell what the store answered.            *)
HostSound == [](OwnDirectory /\ AnswersTrue) /\ [][KeepsIdentity]_hostVars
=============================================================================
