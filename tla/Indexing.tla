------------------------------ MODULE Indexing ------------------------------
(***************************************************************************)
(* runRuntimeReindex (src/src/pipeline/index.ts), the one writer of the    *)
(* derived tables: it scans the repository, reconciles the records of      *)
(* changed and deleted files, rebuilds symbols and references and          *)
(* recomputes cross references.  It runs in the database worker, which     *)
(* serialises it with every other request, but it is NOT one transaction:  *)
(* each action below is what the code does between two awaits or commits   *)
(* in one transaction, so a crash may come between any two of them, and    *)
(* the files on disk may be edited between any two of them.                *)
(*                                                                         *)
(* A file exports one symbol, named after it; a text is the record of what *)
(* the extractors find in it; a hash is the text it is the hash of.        *)
(* Files are numbered in the order discoverFiles returns them.             *)
(***************************************************************************)
EXTENDS Naturals, FiniteSets

CONSTANTS
  Files,          \* the paths of the repository, as numbers in path order
  Versions,       \* Versions[f]: the texts file f may have
  Nothing,        \* no such file, no such record, no cross references, no run
  Requests,       \* the index requests made: [mode, phase, paths]
  Ripgrep,        \* TRUE: rg is installed; FALSE: the in-process index is used
  StorageFaults,  \* TRUE: a transaction of the structure or flow phase may fail
  MaxRuns, MaxEdits, MaxCrashes  \* bounds on requests, edits of files and crashes

Modes == {"full", "incremental", "repair"}

Texts == [imports : SUBSET Files, calls : SUBSET Files, flows : SUBSET Files,
          parses : BOOLEAN]

Row == [hash : Texts, xrefs : {Nothing} \cup SUBSET Files]

ASSUME IndexAssumption ==
  /\ Files \subseteq Nat /\ IsFiniteSet(Files) /\ Files # {}
  /\ Versions \in [Files -> SUBSET Texts]
  /\ Requests \subseteq [mode : Modes, phase : {"full", "crossref"},
                         paths : {Nothing} \cup SUBSET Files]
  /\ Ripgrep \in BOOLEAN /\ StorageFaults \in BOOLEAN
  /\ Nothing \notin Texts /\ Nothing \notin Row /\ \A S \in SUBSET Files : S # Nothing
  /\ MaxRuns \in Nat /\ MaxEdits \in Nat /\ MaxCrashes \in Nat

VARIABLES
  disk,     \* the text of each file, or Nothing
  rows,     \* atlas_files: [hash, xrefs] of each path, or Nothing
  symbols,  \* whose symbols are stored: "none", "scanned" exports or "parsed"
  imports,  \* import_edges: pairs <<source, target>>
  refs,     \* references: [src, tgt, kind, linked]
  run,      \* the run under way, or Nothing
  cache,    \* the texts held by the in-process grep index, or Nothing
  last,     \* the result of the last run, until anything else happens
  spent     \* how many runs, edits and crashes there have been

tables == <<rows, symbols, imports, refs>>
vars == <<disk, rows, symbols, imports, refs, run, cache, last, spent>>

----------------------------------------------------------------------------
(* Reading a text, the disk and the tables *)

Mentions(text) == text.imports \cup text.calls \cup text.flows

Present == {f \in Files : disk[f] # Nothing}

First(S) == CHOOSE f \in S : \A g \in S : f <= g

Edge(f, g, kind) == [src |-> f, tgt |-> g, kind |-> kind, linked |-> TRUE]

Ast == {"call", "flow"}

(* A text flows to g if it hands a parameter to the symbol of g and returns *)
(* its answer: the symbol of f consumes that of g (CONSUMES), whose value  *)
(* flows back (DATA_FLOWS_TO), a reference of g that f is the evidence of. *)
FlowEdges(pairs) == {Edge(e[1], e[2], "flow") : e \in pairs} \cup {Edge(e[2], e[1], "flow") : e \in pairs}

(* The files of which grep reports the symbol of f.                        *)
Grep(f, texts) ==
  {g \in Files \ {f} : texts[g] # Nothing /\ f \in Mentions(texts[g])}

(* runCrossref: the call sites stored in references if there are any, else *)
(* what grep finds.                                                        *)
Users(f, texts) ==
  LET stored == {r.src : r \in {e \in refs : e.tgt = f /\ e.linked /\ e.kind \in Ast /\ e.src # f}}
  IN  IF stored # {} THEN stored ELSE Grep(f, texts)

(* Mutant: the references from the symbols replaced are left.              *)
MutantReplaceSymbols(f, with) ==
  /\ symbols' = [symbols EXCEPT ![f] = with]
  /\ refs' = {[r EXCEPT !.linked = r.linked /\ r.tgt # f] : r \in refs}

(* upsertSymbolsForFile deletes the symbols of f and stores new ones: the  *)
(* references from them go with them, those to them lose their target.     *)
ReplaceSymbols(f, with) ==
  /\ symbols' = [symbols EXCEPT ![f] = with]
  /\ refs' = {[r EXCEPT !.linked = r.linked /\ r.tgt # f] : r \in {e \in refs : e.src # f}}

(* The files from which a chain of imports leads to one of the given ones. *)
Dependents(given, edges, current) ==
  LET reach[n \in 0..Cardinality(Files)] ==
        IF n = 0 THEN given
        ELSE reach[n - 1] \cup {f \in current : \E g \in reach[n - 1] : <<f, g>> \in edges}
  IN  reach[Cardinality(Files)] \cap current

(* What the tables hold of a repository that was indexed from nothing      *)
Graph(texts) ==
  LET there == {f \in Files : texts[f] # Nothing}
      sound == {f \in there : texts[f].parses}
  IN  [symbols |-> [f \in Files |-> IF f \in sound THEN "parsed"
                                    ELSE IF f \in there THEN "scanned" ELSE "none"],
       imports |-> {e \in there \X there : e[2] \in texts[e[1]].imports},
       refs |-> {Edge(e[1], e[2], "call") : e \in {p \in sound \X sound : p[2] \in texts[p[1]].calls}}
                \cup FlowEdges({p \in sound \X there : p[2] \in texts[p[1]].flows})]

Stored == [symbols |-> symbols, imports |-> imports, refs |-> refs]

(* Mutant: any record of the current text counts as complete.              *)
MutantComplete(f, hash) == rows[f] # Nothing /\ rows[f].hash = hash

(* getFilePhase = 'crossref', the phase at which a file is skipped         *)
Complete(f, hash) == rows[f] # Nothing /\ rows[f].hash = hash /\ rows[f].xrefs # Nothing

----------------------------------------------------------------------------
(* A run *)

Scanned == {f \in Files : run.scan[f] # Nothing}

Selected ==
  IF run.paths = Nothing THEN Scanned ELSE Scanned \cap run.paths

(* selectCrossrefTargets: here no path at all stands for every file, and   *)
(* a file just scanned has always reached the structure phase.             *)
Targets ==
  IF run.paths \in {Nothing, {}} THEN Scanned ELSE Scanned \cap run.paths

Changed == {f \in Scanned : run.before[f] # run.scan[f]}

Deleted == {f \in Files : run.before[f] # Nothing /\ f \notin Scanned}

(* Mutant: a full run invalidates no more than an incremental one.         *)
MutantInvalidated ==
  Dependents(Changed \cup Deleted, run.edges \cup run.found, Scanned)

Invalidated ==
  IF run.mode = "incremental"
  THEN Dependents(Changed \cup Deleted, run.edges \cup run.found, Scanned)
  ELSE Scanned

(* Mutant: the record goes first.                                          *)
MutantDeletion == <<"row", "edges", "references", "symbols">>

(* the statements of deleteAtlasFile, in the order they are run            *)
Deletion == <<"edges", "references", "symbols", "row">>

Init ==
  /\ disk \in [Files -> UNION {Versions[f] : f \in Files} \cup {Nothing}]
  /\ \A f \in Files : disk[f] \in {Nothing} \cup Versions[f]
  /\ rows = [f \in Files |-> Nothing] /\ symbols = [f \in Files |-> "none"]
  /\ imports = {} /\ refs = {}
  /\ run = Nothing /\ cache = Nothing /\ last = Nothing
  /\ spent = [runs |-> 0, edits |-> 0, crashes |-> 0]

Hashes == [f \in Files |-> IF rows[f] = Nothing THEN Nothing ELSE rows[f].hash]

(* The records before the run are read, then the files are discovered.     *)
(* calm and stored only serve the properties: whether no file has changed  *)
(* since and no phase was lost.                                            *)
Begin(request) ==
  /\ run = Nothing /\ spent.runs < MaxRuns
  /\ run' = [at |-> "scan", mode |-> request.mode, phase |-> request.phase, paths |-> request.paths,
             before |-> Hashes, edges |-> imports,
             found |-> {}, scan |-> [f \in Files |-> Nothing],
             todo |-> Present, statement |-> 1, parsed |-> [f \in Files |-> Nothing],
             pending |-> {}, failed |-> {}, failures |-> {}, calm |-> TRUE, stored |-> TRUE]
  /\ last' = Nothing /\ spent' = [spent EXCEPT !.runs = @ + 1]
  /\ UNCHANGED <<disk, tables, cache>>

Abort == run' = Nothing /\ UNCHANGED <<disk, tables, cache, last, spent>>

Goto(at, todo) == run' = [run EXCEPT !.at = at, !.todo = todo]

Doing(at) == run # Nothing /\ run.at = at

(* f is the file whose turn it is: every loop goes through the files in    *)
(* the order of their paths.                                               *)
Turn(f) == f \in run.todo /\ \A g \in run.todo : f <= g

(* runScan: a file that has disappeared since it was discovered ends the   *)
(* run; upsertScanRecord keeps the cross references of an unchanged file.  *)
ScanRecord(f) ==
  /\ Doing("scan") /\ Turn(f)
  /\ \/ disk[f] = Nothing /\ Abort
     \/ /\ disk[f] # Nothing
        /\ rows' = [rows EXCEPT ![f] = [hash |-> disk[f],
                      xrefs |-> IF rows[f] # Nothing /\ rows[f].hash = disk[f]
                                THEN rows[f].xrefs ELSE Nothing]]
        /\ run' = [run EXCEPT !.at = "exports", !.scan[f] = disk[f],
                     !.found = @ \cup {<<f, g>> : g \in disk[f].imports \cap Present}]
        /\ UNCHANGED <<disk, symbols, imports, refs, cache, last, spent>>

ScanExports(f) ==
  /\ Doing("exports") /\ Turn(f)
  /\ ReplaceSymbols(f, "scanned")
  /\ Goto("scan", run.todo \ {f})
  /\ UNCHANGED <<disk, rows, imports, cache, last, spent>>

ScanEdges ==
  /\ Doing("scan") /\ run.todo = {}
  /\ imports' = run.found
  /\ Goto("delete", Deleted)
  /\ UNCHANGED <<disk, rows, symbols, refs, cache, last, spent>>

(* deleteAtlasFile, one statement at a time                                *)
Delete(f) ==
  /\ Doing("delete") /\ Turn(f)
  /\ LET statement == Deletion[run.statement]
     IN  /\ imports' = IF statement = "edges" THEN {e \in imports : e[1] # f /\ e[2] # f} ELSE imports
         /\ symbols' = IF statement = "symbols" THEN [symbols EXCEPT ![f] = "none"] ELSE symbols
         /\ refs' = IF statement = "references" THEN {r \in refs : r.src # f /\ r.tgt # f} ELSE refs
         /\ rows' = IF statement = "row" THEN [rows EXCEPT ![f] = Nothing] ELSE rows
         /\ run' = IF run.statement = 4 THEN [run EXCEPT !.statement = 1, !.todo = @ \ {f}]
                   ELSE [run EXCEPT !.statement = @ + 1]
  /\ UNCHANGED <<disk, cache, last, spent>>

DeleteDone ==
  /\ Doing("delete") /\ run.todo = {}
  /\ Goto("invalidate", Invalidated)
  /\ UNCHANGED <<disk, tables, cache, last, spent>>

Invalidate(f) ==
  /\ Doing("invalidate") /\ Turn(f)
  /\ rows' = [rows EXCEPT ![f].xrefs = Nothing]
  /\ Goto("invalidate", run.todo \ {f})
  /\ UNCHANGED <<disk, symbols, imports, refs, cache, last, spent>>

(* The phases: cross references only, nothing selected, or all of them;    *)
(* which files are complete is decided here, before structure is rebuilt.  *)
Choose ==
  /\ Doing("invalidate") /\ run.todo = {}
  /\ run' = IF run.phase = "crossref" THEN [run EXCEPT !.at = "crossref", !.todo = Targets]
            ELSE IF Selected = {} THEN [run EXCEPT !.at = "finish"]
            ELSE [run EXCEPT !.at = "parse", !.todo = Selected,
                    !.pending = {f \in Selected : run.mode = "repair" \/ ~Complete(f, run.scan[f])}]
  /\ UNCHANGED <<disk, tables, cache, last, spent>>

(* runStructure reads a file: one that is gone is skipped, one with a      *)
(* syntax error is a failure.                                              *)
Parse(f) ==
  /\ Doing("parse") /\ Turn(f)
  /\ LET todo == run.todo \ {f}
     IN \/ disk[f] = Nothing /\ Goto("parse", todo)
        \/ /\ disk[f] # Nothing /\ disk[f].parses
           /\ run' = [run EXCEPT !.todo = todo, !.parsed[f] = disk[f]]
        \/ /\ disk[f] # Nothing /\ ~disk[f].parses
           /\ run' = [run EXCEPT !.todo = todo, !.failed = @ \cup {f}, !.failures = @ \cup {<<f, "parse">>}]
  /\ UNCHANGED <<disk, tables, cache, last, spent>>

Parsed == {f \in Files : run.parsed[f] # Nothing}

ParseDone ==
  /\ Doing("parse") /\ run.todo = {}
  /\ Goto("symbols", Parsed)
  /\ UNCHANGED <<disk, tables, cache, last, spent>>

WriteSymbols(f) ==
  /\ Doing("symbols") /\ Turn(f)
  /\ ReplaceSymbols(f, "parsed")
  /\ Goto("symbols", run.todo \ {f})
  /\ UNCHANGED <<disk, rows, imports, cache, last, spent>>

(* What flow analysis takes: what did not fail                             *)
FlowFiles == Selected \ run.failed

(* resolveEdges knows the symbols of the files just parsed, no others.     *)
Resolved(parsed) ==
  {Edge(e[1], e[2], "call") :
     e \in {p \in parsed \X parsed : p[2] \in run.parsed[p[1]].calls}}

WriteReferences ==
  /\ Doing("symbols") /\ run.todo = {}
  /\ refs' = {r \in refs : ~(r.src \in Parsed /\ r.kind \in Ast)} \cup Resolved(Parsed)
  /\ run' = [run EXCEPT !.at = "flow", !.todo = FlowFiles, !.parsed = [f \in Files |-> Nothing]]
  /\ UNCHANGED <<disk, rows, symbols, imports, cache, last, spent>>

(* An error of the whole structure or flow phase is logged and passed over.*)
StructureFails ==
  /\ StorageFaults /\ Doing("symbols")
  /\ run' = [run EXCEPT !.at = "flow", !.todo = FlowFiles, !.parsed = [f \in Files |-> Nothing],
                        !.stored = FALSE]
  /\ UNCHANGED <<disk, tables, cache, last, spent>>

(* runFlow reads each file, then resolves against every stored symbol.     *)
Flow(f) ==
  /\ Doing("flow") /\ Turn(f)
  /\ run' = [run EXCEPT !.todo = @ \ {f}, !.parsed[f] = disk[f]]
  /\ UNCHANGED <<disk, tables, cache, last, spent>>

WriteFlow ==
  /\ Doing("flow") /\ run.todo = {}
  /\ refs' = {r \in refs : ~(r.src \in Parsed /\ r.kind = "flow")}
             \cup FlowEdges({p \in Parsed \X Files : /\ p[2] \in run.parsed[p[1]].flows
                                                     /\ symbols[p[1]] # "none" /\ symbols[p[2]] # "none"})
  /\ Goto("crossref", run.pending \ run.failed)
  /\ UNCHANGED <<disk, rows, symbols, imports, cache, last, spent>>

FlowFails ==
  /\ StorageFaults /\ Doing("flow")
  /\ run' = [run EXCEPT !.at = "crossref", !.todo = run.pending \ run.failed, !.stored = FALSE]
  /\ UNCHANGED <<disk, tables, cache, last, spent>>

(* getNativeIndex is loaded by the first search of the process.            *)
Searched == IF Ripgrep \/ cache = Nothing THEN disk ELSE cache

(* runCrossrefOnlyBatch, unlike the phase of a whole run, also replaces    *)
(* the references of f that no parser wrote by what it found.              *)
Inferred(f, users) ==
  {r \in refs : r.src # f \/ r.kind \in Ast}
  \cup {[src |-> f, tgt |-> g, kind |-> "inferred", linked |-> FALSE] : g \in users}

(* Files are processed concurrently, in any order; a file that cannot be   *)
(* read is a failure.                                                      *)
Crossref(f) ==
  /\ Doing("crossref") /\ f \in run.todo
  /\ \/ /\ disk[f] = Nothing
        /\ run' = [run EXCEPT !.todo = @ \ {f}, !.failed = @ \cup {f},
                              !.failures = @ \cup {<<f, "crossref">>}]
        /\ UNCHANGED <<tables, cache>>
     \/ /\ disk[f] # Nothing
        /\ rows' = [rows EXCEPT ![f].xrefs = Users(f, Searched)]
        /\ refs' = IF run.phase = "full" THEN refs ELSE Inferred(f, Users(f, Searched))
        /\ run' = [run EXCEPT !.todo = @ \ {f}, !.failed = @ \ {f}]
        /\ cache' = IF Ripgrep THEN cache ELSE Searched
        /\ UNCHANGED <<symbols, imports>>
  /\ UNCHANGED <<disk, last, spent>>

(* Communities are detected under the name of the first selected file,     *)
(* which thereby counts as succeeded.                                      *)
Cluster ==
  /\ Doing("crossref") /\ run.todo = {}
  /\ run' = [run EXCEPT !.at = "finish",
               !.failed = IF run.phase = "full" THEN @ \ {First(Selected)} ELSE @]
  /\ UNCHANGED <<disk, tables, cache, last, spent>>

(* buildResult                                                             *)
Finish ==
  /\ Doing("finish")
  /\ last' = [mode |-> run.mode, phase |-> run.phase, whole |-> run.paths = Nothing,
              given |-> Selected, calm |-> run.calm, stored |-> run.stored, failures |-> run.failures]
  /\ run' = Nothing
  /\ UNCHANGED <<disk, tables, cache, spent>>

(* A file is written, created or removed; renaming is two edits.           *)
Edit(f, text) ==
  /\ spent.edits < MaxEdits /\ text # disk[f]
  /\ disk' = [disk EXCEPT ![f] = text]
  /\ run' = IF run = Nothing THEN run ELSE [run EXCEPT !.calm = FALSE]
  /\ last' = Nothing /\ spent' = [spent EXCEPT !.edits = @ + 1]
  /\ UNCHANGED <<tables, cache>>

(* The worker dies and is opened again: memory is lost, the tables are not.*)
Crash ==
  /\ spent.crashes < MaxCrashes
  /\ run' = Nothing /\ cache' = Nothing /\ last' = Nothing
  /\ spent' = [spent EXCEPT !.crashes = @ + 1]
  /\ UNCHANGED <<disk, tables>>

FileStep(f) ==
  \/ ScanRecord(f) \/ ScanExports(f) \/ Delete(f) \/ Invalidate(f)
  \/ Parse(f) \/ WriteSymbols(f) \/ Flow(f) \/ Crossref(f)

PhaseStep ==
  \/ ScanEdges \/ DeleteDone \/ Choose \/ ParseDone \/ WriteReferences
  \/ StructureFails \/ WriteFlow \/ FlowFails \/ Cluster \/ Finish

Next ==
  \/ \E request \in Requests : Begin(request)
  \/ \E f \in Files : FileStep(f)
  \/ PhaseStep
  \/ \E f \in Files : \E text \in Versions[f] \cup {Nothing} : Edit(f, text)
  \/ Crash

Spec == Init /\ [][Next]_vars

----------------------------------------------------------------------------
(* Properties *)

Reference == [src : Files, tgt : Files, kind : Ast \cup {"inferred"}, linked : BOOLEAN]

TypeOK ==
  /\ \A f \in Files : disk[f] \in {Nothing} \cup Versions[f]
  /\ DOMAIN rows = Files /\ \A f \in Files : rows[f] \in {Nothing} \cup Row
  /\ symbols \in [Files -> {"none", "scanned", "parsed"}]
  /\ imports \subseteq Files \X Files
  /\ refs \subseteq Reference
  /\ run # Nothing => /\ Scanned \cup run.todo \cup run.pending \cup run.failed \subseteq Files
                      /\ run.found \subseteq Files \X Files
                      /\ run.at \in {"scan", "exports", "delete", "invalidate", "parse", "symbols",
                                     "flow", "crossref", "finish"}

RecordsAreFresh ==
  /\ \A f \in Files : IF disk[f] = Nothing THEN rows[f] = Nothing
                      ELSE rows[f] # Nothing /\ rows[f].hash = disk[f]
  /\ imports = Graph(disk).imports

GraphIsFresh == RecordsAreFresh /\ Stored = Graph(disk)

Within(S, edges) == {r \in edges : r.src \in S /\ r.tgt \in S}

(* What the graph says of the files of S among themselves is right.        *)
GraphIsFreshWithin(S) ==
  /\ \A f \in S : symbols[f] = Graph(disk).symbols[f]
  /\ Within(S, refs) = Within(S, Graph(disk).refs)

XrefsAreFresh ==
  \A f \in Present : rows[f].xrefs = IF disk[f].parses THEN Users(f, disk) ELSE Nothing

(* A run has just ended, no file has changed since it began and no phase   *)
(* of it was lost to an error of the database.                             *)
Undisturbed == last # Nothing /\ last.calm /\ last.stored /\ last.phase = "full"

Rebuilt == Undisturbed /\ last.whole

(* The process searches what is on disk: with ripgrep, or as long as its   *)
(* own index of the texts has not become stale.                            *)
SearchesDisk == cache \in {Nothing, disk}

(* Nothing is stored for a path without a record: whatever crash           *)
(* interrupts a deletion or a scan, no symbol, reference or import edge    *)
(* survives its file unnoticed by the next run (deleteAtlasFile deletes    *)
(* the record last, runScan writes it first).                              *)
NoOrphans ==
  \A f \in Files : rows[f] = Nothing =>
    /\ symbols[f] = "none"
    /\ \A r \in refs : r.src # f /\ (r.kind \in Ast => r.tgt # f)
    /\ \A e \in imports : e[1] # f

(* After a run over the whole repository, whatever its mode and whatever   *)
(* crashes, partial runs and edits came before it, the records, symbols,   *)
(* import edges and references are those of the files on disk; after a run *)
(* restricted to paths the records are, and the graph of these paths.      *)
GraphConverges ==
  /\ Rebuilt => GraphIsFresh
  /\ Undisturbed => RecordsAreFresh /\ GraphIsFreshWithin(last.given)

(* After a full or repair run the cross references are also current, as    *)
(* long as the process does not search a stale index.                      *)
RebuildConverges ==
  Rebuilt /\ last.mode # "incremental" /\ SearchesDisk => GraphIsFresh /\ XrefsAreFresh

(* After an incremental run no file that parses is left without cross      *)
(* references, and every other one is reported: an interrupted run is      *)
(* taken up where it stopped.                                              *)
NothingPending ==
  Rebuilt => \A f \in Present : /\ disk[f].parses <=> <<f, "parse">> \notin last.failures
                                /\ disk[f].parses => rows[f].xrefs # Nothing

(* IMPLEMENTATION_SEQUENCE.md has "graph rebuild and incremental updates   *)
(* are equivalent".  They are not: an incremental run leaves the cross     *)
(* references of a file whose caller changed, a run restricted to paths    *)
(* the other files without parsed symbols and references, and without      *)
(* ripgrep the second full run of a process searches the texts of the      *)
(* first.                                                                  *)
IncrementalConverges == Rebuilt => GraphIsFresh /\ XrefsAreFresh

PartialConverges == Undisturbed => Stored = Graph(disk)

EveryRebuildConverges == Rebuilt /\ last.mode # "incremental" => GraphIsFresh /\ XrefsAreFresh
=============================================================================
