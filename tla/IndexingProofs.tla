--------------------------- MODULE IndexingProofs ---------------------------
(***************************************************************************)
(* Whatever the files, the requests, the edits, the crashes and the failed *)
(* phases: nothing is ever stored of a path that has no record.            *)
(*                                                                         *)
(* NoOrphans is not inductive: that a phase only writes about files with a *)
(* record follows from what the run remembers (InvRun), and that a record  *)
(* may be deleted from how far deleteAtlasFile has come (InvDelete).       *)
(***************************************************************************)
EXTENDS Indexing, TLAPS

Places == {"scan", "exports", "delete", "invalidate", "parse", "symbols",
           "flow", "crossref", "finish"}

TextOf == [Files -> {Nothing} \cup Texts]

RunType ==
  [at : Places, mode : Modes, phase : {"full", "crossref"},
   paths : {Nothing} \cup SUBSET Files, before : TextOf,
   edges : SUBSET (Files \X Files), found : SUBSET (Files \X Files), scan : TextOf,
   todo : SUBSET Files, statement : {1, 2, 3, 4}, parsed : TextOf, pending : SUBSET Files,
   failed : SUBSET Files, failures : SUBSET (Files \X {"parse", "crossref"}),
   calm : BOOLEAN, stored : BOOLEAN]

InvTables ==
  /\ disk \in TextOf /\ \A f \in Files : disk[f] \in {Nothing} \cup Versions[f]
  /\ rows \in [Files -> {Nothing} \cup Row]
  /\ symbols \in [Files -> {"none", "scanned", "parsed"}]
  /\ imports \subseteq Files \X Files
  /\ refs \subseteq Reference

InvType == InvTables /\ run \in {Nothing} \cup RunType

(* What the run still has to do concerns files it has scanned, and these   *)
(* have records.                                                           *)
InvRun ==
  run # Nothing =>
    /\ \A f \in Scanned : rows[f] # Nothing
    /\ \A e \in run.found : e[1] \in Scanned
    /\ Parsed \subseteq Scanned /\ run.pending \subseteq Scanned
    /\ run.at = "exports" => \A f \in Files : Turn(f) => f \in Scanned
    /\ run.at \in {"invalidate", "parse", "symbols", "flow", "crossref"} => run.todo \subseteq Scanned

(* The statements of deleteAtlasFile that have been executed.              *)
InvDelete ==
  run # Nothing =>
    /\ run.at \in {"scan", "exports"} => run.statement = 1
    /\ run.at = "delete" =>
         /\ run.todo \cap Scanned = {}
         /\ \A f \in Files : Turn(f) =>
              /\ run.statement > 1 => \A e \in imports : e[1] # f
              /\ run.statement > 2 => \A r \in refs : r.src # f /\ r.tgt # f
              /\ run.statement > 3 => symbols[f] = "none"

IInv == InvType /\ InvRun /\ InvDelete /\ NoOrphans

LEMMA InitHolds == Init => IInv
BY IndexAssumption DEF Init, IInv, InvType, InvTables, InvRun, InvDelete, NoOrphans, TextOf

(* Moving to another phase or file keeps the record of the run a record.   *)
LEMMA Moved ==
  ASSUME NEW r \in RunType, NEW at \in Places, NEW todo \in SUBSET Files
  PROVE  [r EXCEPT !.at = at, !.todo = todo] \in RunType
BY DEF RunType

(* A run begins as a record of that type.                                  *)
LEMMA Begun ==
  ASSUME NEW mode \in Modes, NEW phase \in {"full", "crossref"},
         NEW paths \in {Nothing} \cup SUBSET Files, NEW before \in TextOf,
         NEW edges \in SUBSET (Files \X Files), NEW none \in TextOf, NEW todo \in SUBSET Files
  PROVE  [at |-> "scan", mode |-> mode, phase |-> phase, paths |-> paths, before |-> before,
          edges |-> edges, found |-> {}, scan |-> none, todo |-> todo,
          statement |-> 1, parsed |-> none, pending |-> {}, failed |-> {}, failures |-> {},
          calm |-> TRUE, stored |-> TRUE] \in RunType
BY DEF RunType, Places

(* upsertSymbolsForFile stores no reference that was not there before.     *)
LEMMA Replaced ==
  ASSUME NEW f \in Files, NEW with \in {"none", "scanned", "parsed"}, ReplaceSymbols(f, with),
         refs \subseteq Reference, symbols \in [Files -> {"none", "scanned", "parsed"}]
  PROVE  /\ refs' \subseteq Reference /\ symbols' \in [Files -> {"none", "scanned", "parsed"}]
         /\ \A r \in refs' : \E e \in refs : e.src = r.src /\ e.tgt = r.tgt /\ e.kind = r.kind
<1>1. symbols' \in [Files -> {"none", "scanned", "parsed"}]
  BY DEF ReplaceSymbols
<1>2. ASSUME NEW r \in refs' 
      PROVE  r \in Reference /\ \E e \in refs : e.src = r.src /\ e.tgt = r.tgt /\ e.kind = r.kind
  <2>1. PICK e \in refs : r = [e EXCEPT !.linked = e.linked /\ e.tgt # f]
    BY <1>2 DEF ReplaceSymbols
  <2>2. e \in Reference
    OBVIOUS
  <2>3. (e.linked /\ e.tgt # f) \in BOOLEAN
    BY <2>2 DEF Reference
  <2> QED BY <2>1, <2>2, <2>3 DEF Reference
<1> QED BY <1>1, <1>2

LEMMA StepKeeps == IInv /\ [Next]_vars => IInv'
<1> SUFFICES ASSUME IInv, [Next]_vars PROVE IInv'
  OBVIOUS
<1>a. InvTables /\ InvType /\ InvRun /\ InvDelete /\ NoOrphans
  BY DEF IInv, InvType
<1>b. run # Nothing => /\ run \in RunType /\ run.todo \subseteq Files /\ run.scan \in TextOf
                       /\ run.parsed \in TextOf /\ run.found \subseteq Files \X Files
                       /\ run.failed \subseteq Files /\ run.pending \subseteq Files
                       /\ run.failures \subseteq Files \X {"parse", "crossref"} /\ run.statement \in {1, 2, 3, 4}
  BY <1>a DEF InvType, RunType
<1>1. ASSUME NEW f \in Files, ScanRecord(f)
     PROVE  IInv'
  <2>1. run' \in {Nothing} \cup RunType
    <3>1. CASE disk[f] = Nothing
      BY IndexAssumption, <1>a, <1>b, <1>1, <3>1 DEF ScanRecord, Abort
    <3>2. CASE disk[f] # Nothing
      <4>1. run \in RunType /\ [run.scan EXCEPT ![f] = disk[f]] \in TextOf
        BY IndexAssumption, <1>a, <1>b, <1>1, <3>2 DEF ScanRecord, Doing, InvTables, TextOf
      <4>2. run.found \cup {<<f, g>> : g \in disk[f].imports \cap Present} \subseteq Files \X Files
        <5>1. run.found \subseteq Files \X Files
          BY <4>1, <1>b, <1>1 DEF ScanRecord, Doing
        <5>2. {<<f, g>> : g \in disk[f].imports \cap Present} \subseteq Files \X Files
          BY DEF Present
        <5> QED BY <5>1, <5>2
      <4>3. run' = [run EXCEPT !.at = "exports", !.scan = [run.scan EXCEPT ![f] = disk[f]],
                     !.found = run.found \cup {<<f, g>> : g \in disk[f].imports \cap Present}]
        BY <4>1, <3>2, IndexAssumption, <1>a, <1>b, <1>1 DEF ScanRecord
      <4> QED BY <4>1, <4>2, <4>3 DEF RunType, Places
    <3> QED BY <3>1, <3>2
  <2>2. InvTables'
    BY IndexAssumption, <1>a, <1>b, <1>1 DEF InvTables, TextOf, Row, Reference, Ast, ScanRecord, Doing, Abort, tables, Present
  <2>3. InvRun'
    <3>1. CASE disk[f] = Nothing
      BY IndexAssumption, <1>a, <1>b, <1>1, <3>1 DEF ScanRecord, Abort, InvRun
    <3>2. CASE disk[f] # Nothing
      <4>1. run \in RunType /\ run # Nothing /\ run.at = "scan" /\ Turn(f)
        BY IndexAssumption, <1>a, <1>b, <1>1, <3>2 DEF ScanRecord, Doing
      <4>2. run' = [run EXCEPT !.at = "exports", !.scan[f] = disk[f],
                     !.found = @ \cup {<<f, g>> : g \in disk[f].imports \cap Present}]
        BY <3>2, <1>1 DEF ScanRecord
      <4>3. /\ run'.at = "exports" /\ run'.todo = run.todo /\ run'.parsed = run.parsed
            /\ run'.pending = run.pending /\ run'.scan = [run.scan EXCEPT ![f] = disk[f]]
            /\ run'.found = run.found \cup {<<f, g>> : g \in disk[f].imports \cap Present}
        BY <4>1, <4>2 DEF RunType
      <4>4. Scanned' = Scanned \cup {f} /\ Parsed' = Parsed
        BY <4>1, <4>3, <3>2, <1>b DEF Scanned, Parsed, TextOf
      <4>5. \A g \in Scanned' : rows'[g] # Nothing
        <5>1. rows'[f] \in Row /\ \A g \in Files \ {f} : rows'[g] = rows[g]
          BY <2>2, IndexAssumption, <1>a, <1>b, <1>1, <3>2 DEF InvTables, ScanRecord, Row, TextOf
        <5> QED BY <5>1, <4>4, <4>1, <1>a, IndexAssumption DEF InvRun, Scanned
      <4>6. \A e \in run'.found : e[1] \in Scanned'
        BY <4>1, <4>3, <4>4, <1>a DEF InvRun
      <4>7. \A g \in Files : Turn(g)' => g \in Scanned'
        BY <4>1, <4>3, <4>4, IndexAssumption DEF Turn
      <4> QED BY <4>1, <4>3, <4>4, <4>5, <4>6, <4>7, <1>a DEF InvRun
    <3> QED BY <3>1, <3>2
  <2>4. InvDelete'
    BY IndexAssumption, <1>a, <1>b, <1>1 DEF InvRun, InvDelete, TextOf, RunType, Scanned, Turn, ScanRecord, Doing, Abort, tables, Present
  <2>5. NoOrphans'
    BY IndexAssumption, <1>a, <1>b, <1>1 DEF InvTables, InvRun, InvDelete, NoOrphans, TextOf, RunType, Row, Scanned, Turn, ScanRecord, Doing, Abort, tables, Present
  <2> QED BY <2>1, <2>2, <2>3, <2>4, <2>5 DEF IInv, InvType
<1>2. ASSUME NEW f \in Files, ScanExports(f)
     PROVE  IInv'
  <2>1. run' \in {Nothing} \cup RunType
    BY IndexAssumption, <1>a, <1>b, <1>2, Moved DEF Places, ScanExports, Doing, ReplaceSymbols, Goto, tables
  <2>2. InvTables'
    <3>1. ReplaceSymbols(f, "scanned") /\ UNCHANGED <<disk, rows, imports>>
      BY IndexAssumption, <1>a, <1>b, <1>2 DEF ScanExports
    <3>2. refs' \subseteq Reference /\ symbols' \in [Files -> {"none", "scanned", "parsed"}]
      BY <3>1, Replaced, <1>a DEF InvTables
    <3> QED BY <3>1, <3>2, <1>a DEF InvTables
  <2>3. InvRun'
    BY IndexAssumption, <1>a, <1>b, <1>2 DEF InvRun, TextOf, RunType, Row, Scanned, Parsed, Turn, ScanExports, Doing, ReplaceSymbols, Goto, tables
  <2>4. InvDelete'
    BY IndexAssumption, <1>a, <1>b, <1>2 DEF InvRun, InvDelete, TextOf, RunType, Scanned, Turn, ScanExports, Doing, ReplaceSymbols, Goto, tables
  <2>5. NoOrphans'
    <3>1. ReplaceSymbols(f, "scanned") /\ UNCHANGED <<rows, imports>> /\ rows[f] # Nothing
      BY IndexAssumption, <1>a, <1>b, <1>2 DEF ScanExports, Doing, InvRun, Turn
    <3>2. \A r \in refs' : \E e \in refs : e.src = r.src /\ e.tgt = r.tgt /\ e.kind = r.kind
      BY <3>1, Replaced, <1>a DEF InvTables
    <3>3. \A g \in Files \ {f} : symbols'[g] = symbols[g]
      BY <3>1, <1>a DEF InvTables, ReplaceSymbols
    <3> QED BY <3>1, <3>2, <3>3, <1>a DEF NoOrphans
  <2> QED BY <2>1, <2>2, <2>3, <2>4, <2>5 DEF IInv, InvType
<1>3. ASSUME NEW f \in Files, Delete(f)
     PROVE  IInv'
  <2>1. run' \in {Nothing} \cup RunType
    <3>1. run \in RunType /\ run.statement \in {1, 2, 3, 4} /\ run.todo \subseteq Files
      BY IndexAssumption, <1>a, <1>b, <1>3 DEF Delete, Doing
    <3>2. CASE run.statement = 4
      <4>1. run' = [run EXCEPT !.statement = 1, !.todo = run.todo \ {f}]
        BY <3>1, <3>2, <1>3 DEF Delete
      <4>2. run.todo \ {f} \in SUBSET Files
        BY <3>1
      <4> QED BY <3>1, <4>1, <4>2 DEF RunType
    <3>3. CASE run.statement # 4
      <4>1. run' = [run EXCEPT !.statement = run.statement + 1]
        BY <3>1, <3>3, <1>3 DEF Delete
      <4>2. run.statement + 1 \in {1, 2, 3, 4}
        BY <3>1, <3>3
      <4> QED BY <3>1, <4>1, <4>2 DEF RunType
    <3> QED BY <3>2, <3>3
  <2>2. InvTables'
    BY IndexAssumption, <1>a, <1>b, <1>3 DEF InvTables, TextOf, Row, Reference, Ast, Delete, Doing, Deletion, tables
  <2>3. InvRun'
    <3>1. run \in RunType /\ run # Nothing /\ run.at = "delete" /\ Turn(f) /\ run.statement \in {1, 2, 3, 4}
      BY IndexAssumption, <1>a, <1>b, <1>3 DEF Delete, Doing
    <3>2. /\ run'.at = "delete" /\ run'.scan = run.scan /\ run'.before = run.before
          /\ run'.parsed = run.parsed /\ run'.pending = run.pending /\ run'.found = run.found
          /\ IF run.statement = 4 THEN run'.todo = run.todo \ {f} /\ run'.statement = 1
             ELSE run'.todo = run.todo /\ run'.statement = run.statement + 1
      BY <3>1, <1>3 DEF Delete, RunType
    <3>3. Scanned' = Scanned /\ Parsed' = Parsed /\ f \notin Scanned
      BY <3>1, <3>2, <1>a DEF Scanned, Parsed, InvDelete, Turn
    <3>4. \A g \in Files \ {f} : rows'[g] = rows[g]
      BY <3>1, <1>3, <1>a DEF Delete, InvTables
    <3> QED BY <3>1, <3>2, <3>3, <3>4, <1>a DEF InvRun, Scanned
  <2>4. InvDelete'
    <3>1. run \in RunType /\ run # Nothing /\ run.at = "delete" /\ Turn(f) /\ run.statement \in {1, 2, 3, 4}
      BY IndexAssumption, <1>a, <1>b, <1>3 DEF Delete, Doing
    <3>2. /\ run'.at = "delete" /\ run'.scan = run.scan /\ run'.before = run.before
          /\ run'.parsed = run.parsed /\ run'.pending = run.pending /\ run'.found = run.found
          /\ IF run.statement = 4 THEN run'.todo = run.todo \ {f} /\ run'.statement = 1
             ELSE run'.todo = run.todo /\ run'.statement = run.statement + 1
      BY <3>1, <1>3 DEF Delete, RunType
    <3>3. Scanned' = Scanned /\ Parsed' = Parsed /\ f \notin Scanned
      BY <3>1, <3>2, <1>a DEF Scanned, Parsed, InvDelete, Turn
    <3>4. CASE run.statement = 4
      <4>1. run'.todo \cap Scanned = {} /\ run'.statement = 1
        BY <3>1, <3>2, <3>4, <1>a DEF InvDelete
      <4> QED BY <4>1, <3>2, <3>3 DEF InvDelete
    <3>5. CASE run.statement # 4
      <4>1. run'.todo = run.todo /\ run'.statement = run.statement + 1 /\ run.todo \cap Scanned = {}
        BY <3>1, <3>2, <3>5, <1>a DEF InvDelete
      <4>2. \A g \in Files : Turn(g)' => g = f
        BY <3>1, <4>1, IndexAssumption DEF Turn
      <4>3. \A e \in imports' : e[1] # f
        BY <3>1, <1>3, <1>a DEF Delete, Deletion, InvDelete
      <4>4. run.statement > 1 => \A r \in refs' : r.src # f /\ r.tgt # f
        BY <3>1, <1>3, <1>a DEF Delete, Deletion, InvDelete
      <4>5. run.statement > 2 => symbols'[f] = "none"
        BY <3>1, <1>3, <1>a DEF Delete, Deletion, InvDelete, InvTables
      <4> QED BY <3>1, <3>2, <3>3, <4>1, <4>2, <4>3, <4>4, <4>5 DEF InvDelete
    <3> QED BY <3>4, <3>5
  <2>5. NoOrphans'
    BY IndexAssumption, <1>a, <1>b, <1>3 DEF InvTables, InvRun, InvDelete, NoOrphans, TextOf, RunType, Row, Scanned, Turn, Delete, Doing, Deletion, tables
  <2> QED BY <2>1, <2>2, <2>3, <2>4, <2>5 DEF IInv, InvType
<1>4. ASSUME NEW f \in Files, Invalidate(f)
     PROVE  IInv'
  <2>1. run' \in {Nothing} \cup RunType
    BY IndexAssumption, <1>a, <1>b, <1>4, Moved DEF Places, Invalidate, Doing, Goto, tables
  <2>2. InvTables'
    <3>1. rows[f] \in Row /\ rows' = [rows EXCEPT ![f].xrefs = Nothing]
      BY IndexAssumption, <1>a, <1>b, <1>4 DEF Invalidate, Doing, InvRun, InvTables, Turn
    <3>2. rows' \in [Files -> {Nothing} \cup Row]
      BY <3>1, <1>a DEF InvTables, Row
    <3> QED BY <3>2, <1>4, <1>a DEF InvTables, Invalidate
  <2>3. InvRun'
    <3>1. run \in RunType /\ run # Nothing /\ run.at = "invalidate" /\ f \in Scanned
      BY IndexAssumption, <1>a, <1>b, <1>4 DEF Invalidate, Doing, InvRun, Turn
    <3>2. /\ run'.at = "invalidate" /\ run'.scan = run.scan /\ run'.todo = run.todo \ {f}
          /\ run'.parsed = run.parsed /\ run'.pending = run.pending /\ run'.found = run.found
      BY <3>1, <1>4 DEF Invalidate, Goto, RunType
    <3>3. Scanned' = Scanned /\ Parsed' = Parsed
      BY <3>1, <3>2 DEF Scanned, Parsed
    <3>4. \A g \in Scanned : rows'[g] # Nothing
      <4>1. rows[f] \in Row /\ rows' = [rows EXCEPT ![f].xrefs = Nothing]
        BY <3>1, <1>4, <1>a DEF Invalidate, InvRun, InvTables
      <4>2. rows'[f] \in Row /\ \A g \in Files \ {f} : rows'[g] = rows[g]
        BY <4>1, <1>a DEF InvTables, Row
      <4> QED BY <4>2, <3>1, <1>a, IndexAssumption DEF InvRun, Scanned
    <3> QED BY <3>1, <3>2, <3>3, <3>4, <1>a DEF InvRun
  <2>4. InvDelete'
    BY <1>b, <1>4 DEF InvDelete, RunType, Invalidate, Doing, Goto
  <2>5. NoOrphans'
    BY IndexAssumption, <1>a, <1>b, <1>4 DEF InvTables, InvRun, InvDelete, NoOrphans, TextOf, RunType, Row, Scanned, Turn, Invalidate, Doing, Goto, tables
  <2> QED BY <2>1, <2>2, <2>3, <2>4, <2>5 DEF IInv, InvType
<1>5. ASSUME NEW f \in Files, Parse(f)
     PROVE  IInv'
  <2>1. run' \in {Nothing} \cup RunType
    <3>1. run \in RunType /\ run.todo \ {f} \in SUBSET Files
      BY IndexAssumption, <1>a, <1>b, <1>5 DEF Parse, Doing
    <3>2. CASE disk[f] = Nothing
      <4>1. run' = [run EXCEPT !.at = "parse", !.todo = run.todo \ {f}]
        BY <3>2, <1>5 DEF Parse, Goto
      <4> QED BY <3>1, <4>1, Moved DEF Places
    <3>3. CASE disk[f] # Nothing /\ disk[f].parses
      <4>1. run' = [run EXCEPT !.todo = run.todo \ {f}, !.parsed = [run.parsed EXCEPT ![f] = disk[f]]]
        BY <3>1, <3>3, IndexAssumption, <1>a, <1>b, <1>5 DEF Parse
      <4>2. [run.parsed EXCEPT ![f] = disk[f]] \in TextOf
        BY IndexAssumption, <1>a, <1>b, <1>5, <3>1, <3>3 DEF InvTables, TextOf, Parse, Doing
      <4> QED BY <3>1, <4>1, <4>2 DEF RunType
    <3>4. CASE disk[f] # Nothing /\ ~disk[f].parses
      <4>1. run' = [run EXCEPT !.todo = run.todo \ {f}, !.failed = run.failed \cup {f},
                               !.failures = run.failures \cup {<<f, "parse">>}]
        BY <3>1, <3>4, IndexAssumption, <1>a, <1>b, <1>5 DEF Parse
      <4>2. /\ run.failed \cup {f} \in SUBSET Files
            /\ run.failures \cup {<<f, "parse">>} \in SUBSET (Files \X {"parse", "crossref"})
        BY IndexAssumption, <1>a, <1>b, <1>5, <3>1 DEF Parse, Doing
      <4> QED BY <3>1, <4>1, <4>2 DEF RunType
    <3> QED BY <3>2, <3>3, <3>4
  <2>2. InvTables'
    BY <1>a, <1>5 DEF InvTables, Parse, tables
  <2>3. InvRun'
    <3>1. run \in RunType /\ run # Nothing /\ run.at = "parse" /\ f \in Scanned /\ run.todo \subseteq Scanned
      BY IndexAssumption, <1>a, <1>b, <1>5 DEF Parse, Doing, InvRun, Turn
    <3>2. /\ run'.at = "parse" /\ run'.scan = run.scan /\ run'.todo = run.todo \ {f}
          /\ run'.pending = run.pending /\ run'.found = run.found
          /\ run'.parsed \in {run.parsed, [run.parsed EXCEPT ![f] = disk[f]]}
      BY <3>1, <1>5 DEF Parse, Goto, RunType
    <3>3. Scanned' = Scanned /\ Parsed' \subseteq Parsed \cup {f}
      BY <3>1, <3>2, <1>b DEF Scanned, Parsed, TextOf
    <3> QED BY <3>1, <3>2, <3>3, <1>5, <1>a DEF InvRun, Parse, tables
  <2>4. InvDelete'
    BY <1>b, <1>5 DEF InvDelete, RunType, Parse, Doing, Goto
  <2>5. NoOrphans'
    BY <1>a, <1>5 DEF NoOrphans, Parse, tables
  <2> QED BY <2>1, <2>2, <2>3, <2>4, <2>5 DEF IInv, InvType
<1>6. ASSUME NEW f \in Files, WriteSymbols(f)
     PROVE  IInv'
  <2>1. run' \in {Nothing} \cup RunType
    BY IndexAssumption, <1>a, <1>b, <1>6, Moved DEF Places, WriteSymbols, Doing, ReplaceSymbols, Goto, tables
  <2>2. InvTables'
    <3>1. ReplaceSymbols(f, "parsed") /\ UNCHANGED <<disk, rows, imports>>
      BY IndexAssumption, <1>a, <1>b, <1>6 DEF WriteSymbols
    <3>2. refs' \subseteq Reference /\ symbols' \in [Files -> {"none", "scanned", "parsed"}]
      BY <3>1, Replaced, <1>a DEF InvTables
    <3> QED BY <3>1, <3>2, <1>a DEF InvTables
  <2>3. InvRun'
    BY IndexAssumption, <1>a, <1>b, <1>6 DEF InvRun, TextOf, RunType, Row, Scanned, Parsed, Turn, WriteSymbols, Doing, ReplaceSymbols, Goto, tables
  <2>4. InvDelete'
    BY <1>b, <1>6 DEF InvDelete, RunType, WriteSymbols, Doing, Goto
  <2>5. NoOrphans'
    <3>1. ReplaceSymbols(f, "parsed") /\ UNCHANGED <<rows, imports>> /\ rows[f] # Nothing
      BY IndexAssumption, <1>a, <1>b, <1>6 DEF WriteSymbols, Doing, InvRun, Turn
    <3>2. \A r \in refs' : \E e \in refs : e.src = r.src /\ e.tgt = r.tgt /\ e.kind = r.kind
      BY <3>1, Replaced, <1>a DEF InvTables
    <3>3. \A g \in Files \ {f} : symbols'[g] = symbols[g]
      BY <3>1, <1>a DEF InvTables, ReplaceSymbols
    <3> QED BY <3>1, <3>2, <3>3, <1>a DEF NoOrphans
  <2> QED BY <2>1, <2>2, <2>3, <2>4, <2>5 DEF IInv, InvType
<1>7. ASSUME NEW f \in Files, Flow(f)
     PROVE  IInv'
  <2>1. run' \in {Nothing} \cup RunType
    <3>1. run \in RunType /\ run.todo \ {f} \in SUBSET Files /\ [run.parsed EXCEPT ![f] = disk[f]] \in TextOf
      BY IndexAssumption, <1>a, <1>b, <1>7 DEF Flow, Doing, InvTables, TextOf
    <3>2. run' = [run EXCEPT !.todo = run.todo \ {f}, !.parsed = [run.parsed EXCEPT ![f] = disk[f]]]
      BY <3>1, IndexAssumption, <1>a, <1>b, <1>7 DEF Flow
    <3> QED BY <3>1, <3>2 DEF RunType
  <2>2. InvTables'
    BY <1>a, <1>7 DEF InvTables, Flow, tables
  <2>3. InvRun'
    BY IndexAssumption, <1>a, <1>b, <1>7 DEF InvRun, TextOf, RunType, Row, Scanned, Parsed, Turn, Flow, Doing, tables
  <2>4. InvDelete'
    BY <1>b, <1>7 DEF InvDelete, RunType, Flow, Doing
  <2>5. NoOrphans'
    BY <1>a, <1>7 DEF NoOrphans, Flow, tables
  <2> QED BY <2>1, <2>2, <2>3, <2>4, <2>5 DEF IInv, InvType
<1>8. ASSUME NEW f \in Files, Crossref(f)
     PROVE  IInv'
  <2>1. run' \in {Nothing} \cup RunType
    <3>1. run \in RunType /\ run.todo \ {f} \in SUBSET Files
      BY IndexAssumption, <1>a, <1>b, <1>8 DEF Crossref, Doing
    <3>2. CASE disk[f] = Nothing
      <4>1. run' = [run EXCEPT !.todo = run.todo \ {f}, !.failed = run.failed \cup {f},
                               !.failures = run.failures \cup {<<f, "crossref">>}]
        BY <3>1, <3>2, IndexAssumption, <1>a, <1>b, <1>8 DEF Crossref
      <4>2. /\ run.failed \cup {f} \in SUBSET Files
            /\ run.failures \cup {<<f, "crossref">>} \in SUBSET (Files \X {"parse", "crossref"})
        BY IndexAssumption, <1>a, <1>b, <1>8, <3>1 DEF Crossref, Doing
      <4> QED BY <3>1, <4>1, <4>2 DEF RunType
    <3>3. CASE disk[f] # Nothing
      <4>1. run' = [run EXCEPT !.todo = run.todo \ {f}, !.failed = run.failed \ {f}]
        BY <3>1, <3>3, IndexAssumption, <1>a, <1>b, <1>8 DEF Crossref
      <4>2. run.failed \ {f} \in SUBSET Files
        BY IndexAssumption, <1>a, <1>b, <1>8, <3>1 DEF Crossref, Doing
      <4> QED BY <3>1, <4>1, <4>2 DEF RunType
    <3> QED BY <3>2, <3>3
  <2>2. InvTables'
    <3>1. rows[f] \in Row
      BY IndexAssumption, <1>a, <1>b, <1>8 DEF Crossref, Doing, InvRun, InvTables
    <3>2. CASE disk[f] = Nothing
      BY <3>2, IndexAssumption, <1>a, <1>b, <1>8 DEF InvTables, Crossref, tables
    <3>3. CASE disk[f] # Nothing
      <4>1. Users(f, Searched) \subseteq Files
        BY <1>a DEF InvTables, Reference, Users, Grep
      <4>2. rows' = [rows EXCEPT ![f].xrefs = Users(f, Searched)] /\ UNCHANGED <<disk, symbols, imports>>
        BY <3>3, <1>8 DEF Crossref
      <4>3. rows' \in [Files -> {Nothing} \cup Row]
        BY <3>1, <4>1, <4>2, <1>a DEF InvTables, Row
      <4>4. refs' \subseteq Reference
        <5>1. {[src |-> f, tgt |-> g, kind |-> "inferred", linked |-> FALSE] :
                 g \in Users(f, Searched)} \subseteq Reference
          <6>1. \A g \in Files :
                  [src |-> f, tgt |-> g, kind |-> "inferred", linked |-> FALSE] \in Reference
            BY DEF Reference
          <6> QED BY <4>1, <6>1
        <5>2. refs \subseteq Reference
          BY <1>a DEF InvTables
        <5> QED BY <3>3, <5>1, <5>2, <1>8 DEF Crossref, Inferred
      <4> QED BY <4>2, <4>3, <4>4, <1>a DEF InvTables
    <3> QED BY <3>2, <3>3
  <2>3. InvRun'
    <3>1. /\ run \in RunType /\ run # Nothing /\ run.at = "crossref" /\ f \in Scanned /\ rows[f] \in Row
          /\ run.todo \subseteq Scanned
      BY IndexAssumption, <1>a, <1>b, <1>8 DEF Crossref, Doing, InvRun, InvTables
    <3>2. /\ run'.at = "crossref" /\ run'.scan = run.scan /\ run'.todo = run.todo \ {f}
          /\ run'.pending = run.pending /\ run'.found = run.found /\ run'.parsed = run.parsed
      BY <3>1, <1>8 DEF Crossref, RunType
    <3>3. rows'[f] # Nothing /\ \A g \in Files \ {f} : rows'[g] = rows[g]
      <4>1. CASE disk[f] = Nothing
        BY <4>1, <3>1, <1>8, IndexAssumption DEF Crossref, tables
      <4>2. CASE disk[f] # Nothing
        <5>1. rows' = [rows EXCEPT ![f].xrefs = Users(f, Searched)]
          BY <4>2, <1>8 DEF Crossref
        <5>2. rows'[f] = [rows[f] EXCEPT !.xrefs = Users(f, Searched)] /\ \A g \in Files \ {f} : rows'[g] = rows[g]
          BY <5>1, <1>a DEF InvTables
        <5>3. Users(f, Searched) \subseteq Files
          BY <1>a DEF InvTables, Reference, Users, Grep
        <5>4. rows'[f] \in Row
          BY <5>2, <5>3, <3>1 DEF Row
        <5> QED BY <5>2, <5>4, IndexAssumption
      <4> QED BY <4>1, <4>2
    <3>4. Scanned' = Scanned /\ Parsed' = Parsed
      BY <3>1, <3>2 DEF Scanned, Parsed
    <3> QED BY <3>1, <3>2, <3>3, <3>4, <1>a DEF InvRun, Scanned
  <2>4. InvDelete'
    BY <1>b, <1>8 DEF InvDelete, RunType, Crossref, Doing
  <2>5. NoOrphans'
    <3>1. rows[f] \in Row
      BY IndexAssumption, <1>a, <1>b, <1>8 DEF Crossref, Doing, InvRun, InvTables
    <3>2. rows'[f] # Nothing /\ \A g \in Files \ {f} : rows'[g] = rows[g]
      <4>1. CASE disk[f] = Nothing
        BY <4>1, <3>1, <1>8, IndexAssumption DEF Crossref, tables
      <4>2. CASE disk[f] # Nothing
        <5>1. rows' = [rows EXCEPT ![f].xrefs = Users(f, Searched)]
          BY <4>2, <1>8 DEF Crossref
        <5>2. rows'[f] = [rows[f] EXCEPT !.xrefs = Users(f, Searched)] /\ \A g \in Files \ {f} : rows'[g] = rows[g]
          BY <5>1, <1>a DEF InvTables
        <5>3. Users(f, Searched) \subseteq Files
          BY <1>a DEF InvTables, Reference, Users, Grep
        <5>4. rows'[f] \in Row
          BY <5>2, <5>3, <3>1 DEF Row
        <5> QED BY <5>2, <5>4, IndexAssumption
      <4> QED BY <4>1, <4>2
    <3>3. UNCHANGED <<symbols, imports>> /\ \A r \in refs' : r \in refs \/ (r.src = f /\ r.kind = "inferred")
      BY <1>8 DEF Crossref, Inferred, tables
    <3> QED BY <3>1, <3>2, <3>3, <1>a, IndexAssumption DEF NoOrphans, Ast
  <2> QED BY <2>1, <2>2, <2>3, <2>4, <2>5 DEF IInv, InvType
<1>9. ASSUME ScanEdges
     PROVE  IInv'
  <2>1. run' \in {Nothing} \cup RunType
    BY IndexAssumption, <1>a, <1>b, <1>9, Moved DEF Places, ScanEdges, Doing, Goto, Deleted, tables
  <2>2. InvTables'
    BY IndexAssumption, <1>a, <1>b, <1>9 DEF InvTables, TextOf, Row, Reference, Ast, ScanEdges, Doing, Goto, Deleted, tables
  <2>3. InvRun'
    BY IndexAssumption, <1>a, <1>b, <1>9 DEF InvRun, TextOf, RunType, Row, Scanned, Parsed, Turn, ScanEdges, Doing, Goto, Deleted, tables
  <2>4. InvDelete'
    BY IndexAssumption, <1>a, <1>b, <1>9 DEF InvRun, InvDelete, TextOf, RunType, Scanned, Turn, ScanEdges, Doing, Goto, Deleted, tables
  <2>5. NoOrphans'
    BY IndexAssumption, <1>a, <1>b, <1>9 DEF InvTables, InvRun, InvDelete, NoOrphans, TextOf, RunType, Row, Scanned, Turn, ScanEdges, Doing, Goto, Deleted, tables
  <2> QED BY <2>1, <2>2, <2>3, <2>4, <2>5 DEF IInv, InvType
<1>10. ASSUME DeleteDone
     PROVE  IInv'
  <2>1. run' \in {Nothing} \cup RunType
    BY IndexAssumption, <1>a, <1>b, <1>10, Moved DEF Places, DeleteDone, Doing, Goto, Invalidated, Scanned, Dependents, tables
  <2>2. InvTables'
    BY <1>a, <1>10 DEF InvTables, DeleteDone, tables
  <2>3. InvRun'
    BY IndexAssumption, <1>a, <1>b, <1>10 DEF InvRun, TextOf, RunType, Row, Scanned, Parsed, Turn, DeleteDone, Doing, Goto, Invalidated, Dependents, tables
  <2>4. InvDelete'
    BY <1>b, <1>10 DEF InvDelete, RunType, DeleteDone, Doing, Goto
  <2>5. NoOrphans'
    BY <1>a, <1>10 DEF NoOrphans, DeleteDone, tables
  <2> QED BY <2>1, <2>2, <2>3, <2>4, <2>5 DEF IInv, InvType
<1>11. ASSUME Choose
     PROVE  IInv'
  <2>1. run' \in {Nothing} \cup RunType
    <3>1. run \in RunType /\ Selected \subseteq Files /\ Targets \subseteq Files
      BY IndexAssumption, <1>a, <1>b, <1>11 DEF Choose, Doing, Selected, Targets, Scanned
    <3>2. {f \in Selected : run.mode = "repair" \/ ~Complete(f, run.scan[f])} \subseteq Files
      BY <3>1
    <3>3. CASE run.phase = "crossref" \/ Selected = {}
      <4>1. \/ run' = [run EXCEPT !.at = "crossref", !.todo = Targets]
            \/ run' = [run EXCEPT !.at = "finish"]
        BY <1>11, <3>3 DEF Choose
      <4>2. [run EXCEPT !.at = "crossref", !.todo = Targets] \in RunType
        BY <3>1, Moved DEF Places
      <4>3. [run EXCEPT !.at = "finish"] \in RunType
        BY <3>1 DEF RunType, Places
      <4> QED BY <4>1, <4>2, <4>3
    <3>4. CASE ~(run.phase = "crossref" \/ Selected = {})
      <4>1. run' = [run EXCEPT !.at = "parse", !.todo = Selected,
                      !.pending = {f \in Selected : run.mode = "repair" \/ ~Complete(f, run.scan[f])}]
        BY <1>11, <3>4 DEF Choose
      <4> QED BY <3>1, <3>2, <4>1 DEF RunType, Places
    <3> QED BY <3>3, <3>4
  <2>2. InvTables'
    BY <1>a, <1>11 DEF InvTables, Choose, tables
  <2>3. InvRun'
    BY IndexAssumption, <1>a, <1>b, <1>11 DEF InvRun, TextOf, RunType, Row, Scanned, Parsed, Turn, Choose, Doing, Selected, Targets, tables
  <2>4. InvDelete'
    BY <1>b, <1>11 DEF InvDelete, RunType, Choose, Doing
  <2>5. NoOrphans'
    BY <1>a, <1>11 DEF NoOrphans, Choose, tables
  <2> QED BY <2>1, <2>2, <2>3, <2>4, <2>5 DEF IInv, InvType
<1>12. ASSUME ParseDone
     PROVE  IInv'
  <2>1. run' \in {Nothing} \cup RunType
    BY IndexAssumption, <1>a, <1>b, <1>12, Moved DEF Places, ParseDone, Doing, Goto, Parsed, tables
  <2>2. InvTables'
    BY <1>a, <1>12 DEF InvTables, ParseDone, tables
  <2>3. InvRun'
    BY IndexAssumption, <1>a, <1>b, <1>12 DEF InvRun, TextOf, RunType, Row, Scanned, Parsed, Turn, ParseDone, Doing, Goto, tables
  <2>4. InvDelete'
    BY <1>b, <1>12 DEF InvDelete, RunType, ParseDone, Doing, Goto
  <2>5. NoOrphans'
    BY <1>a, <1>12 DEF NoOrphans, ParseDone, tables
  <2> QED BY <2>1, <2>2, <2>3, <2>4, <2>5 DEF IInv, InvType
<1>13. ASSUME WriteReferences
     PROVE  IInv'
  <2>1. run' \in {Nothing} \cup RunType
    <3>1. run \in RunType /\ FlowFiles \subseteq Files /\ [f \in Files |-> Nothing] \in TextOf
      BY IndexAssumption, <1>a, <1>b, <1>13 DEF WriteReferences, Doing, FlowFiles, Selected, Scanned, TextOf
    <3>2. run' = [run EXCEPT !.at = "flow", !.todo = FlowFiles, !.parsed = [f \in Files |-> Nothing]]
      BY <1>13 DEF WriteReferences
    <3>3. FlowFiles \in SUBSET Files
      BY <3>1
    <3> QED BY <3>1, <3>2, <3>3 DEF RunType, Places
  <2>2. InvTables'
    <3>1. Resolved(Parsed) \subseteq Reference
      <4>1. \A f, g \in Files : Edge(f, g, "call") \in Reference
        BY DEF Edge, Reference, Ast
      <4>2. Parsed \subseteq Files
        BY DEF Parsed
      <4> QED BY <4>1, <4>2 DEF Resolved
    <3> QED BY <3>1, <1>13, <1>a DEF InvTables, WriteReferences
  <2>3. InvRun'
    BY IndexAssumption, <1>a, <1>b, <1>13 DEF InvRun, TextOf, RunType, Row, Scanned, Parsed, Turn, WriteReferences, Doing, Resolved, Edge, FlowFiles, Selected, tables
  <2>4. InvDelete'
    BY <1>b, <1>13 DEF InvDelete, RunType, WriteReferences, Doing
  <2>5. NoOrphans'
    BY IndexAssumption, <1>a, <1>b, <1>13 DEF InvTables, InvRun, InvDelete, NoOrphans, TextOf, RunType, Row, Scanned, Turn, WriteReferences, Doing, Resolved, Edge, FlowFiles, Selected, Parsed, tables
  <2> QED BY <2>1, <2>2, <2>3, <2>4, <2>5 DEF IInv, InvType
<1>14. ASSUME StructureFails
     PROVE  IInv'
  <2>1. run' \in {Nothing} \cup RunType
    <3>1. run \in RunType /\ FlowFiles \subseteq Files /\ [f \in Files |-> Nothing] \in TextOf
      BY IndexAssumption, <1>a, <1>b, <1>14 DEF StructureFails, Doing, FlowFiles, Selected, Scanned, TextOf
    <3>2. run' = [run EXCEPT !.at = "flow", !.todo = FlowFiles,
                             !.parsed = [f \in Files |-> Nothing], !.stored = FALSE]
      BY <1>14 DEF StructureFails
    <3>3. FlowFiles \in SUBSET Files
      BY <3>1
    <3> QED BY <3>1, <3>2, <3>3 DEF RunType, Places
  <2>2. InvTables'
    BY <1>a, <1>14 DEF InvTables, StructureFails, tables
  <2>3. InvRun'
    BY IndexAssumption, <1>a, <1>b, <1>14 DEF InvRun, TextOf, RunType, Row, Scanned, Parsed, Turn, StructureFails, Doing, FlowFiles, Selected, tables
  <2>4. InvDelete'
    BY <1>b, <1>14 DEF InvDelete, RunType, StructureFails, Doing
  <2>5. NoOrphans'
    BY <1>a, <1>14 DEF NoOrphans, StructureFails, tables
  <2> QED BY <2>1, <2>2, <2>3, <2>4, <2>5 DEF IInv, InvType
<1>15. ASSUME WriteFlow
     PROVE  IInv'
  <2>1. run' \in {Nothing} \cup RunType
    BY IndexAssumption, <1>a, <1>b, <1>15, Moved DEF Places, WriteFlow, Doing, Goto, Edge, FlowEdges, Parsed, tables
  <2>2. InvTables'
    <3>1. FlowEdges({p \in Parsed \X Files : /\ p[2] \in run.parsed[p[1]].flows
                                            /\ symbols[p[1]] # "none" /\ symbols[p[2]] # "none"}) \subseteq Reference
      <4>1. \A f, g \in Files : Edge(f, g, "flow") \in Reference
        BY DEF Edge, Reference, Ast
      <4>2. Parsed \subseteq Files
        BY DEF Parsed
      <4> QED BY <4>1, <4>2 DEF FlowEdges
    <3> QED BY <3>1, <1>15, <1>a DEF InvTables, WriteFlow
  <2>3. InvRun'
    BY IndexAssumption, <1>a, <1>b, <1>15 DEF InvRun, TextOf, RunType, Row, Scanned, Parsed, Turn, WriteFlow, Doing, Goto, Edge, FlowEdges, tables
  <2>4. InvDelete'
    BY <1>b, <1>15 DEF InvDelete, RunType, WriteFlow, Doing, Goto
  <2>5. NoOrphans'
    BY IndexAssumption, <1>a, <1>b, <1>15 DEF InvTables, InvRun, InvDelete, NoOrphans, TextOf, RunType, Row, Scanned, Turn, WriteFlow, Doing, Goto, Edge, FlowEdges, Parsed, tables
  <2> QED BY <2>1, <2>2, <2>3, <2>4, <2>5 DEF IInv, InvType
<1>16. ASSUME FlowFails
     PROVE  IInv'
  <2>1. run' \in {Nothing} \cup RunType
    <3>1. run \in RunType /\ run.pending \ run.failed \in SUBSET Files
      BY <1>b, <1>16 DEF FlowFails, Doing
    <3>2. run' = [run EXCEPT !.at = "crossref", !.todo = run.pending \ run.failed, !.stored = FALSE]
      BY <1>16 DEF FlowFails
    <3> QED BY <3>1, <3>2 DEF RunType, Places
  <2>2. InvTables'
    BY <1>a, <1>16 DEF InvTables, FlowFails, tables
  <2>3. InvRun'
    BY IndexAssumption, <1>a, <1>b, <1>16 DEF InvRun, TextOf, RunType, Row, Scanned, Parsed, Turn, FlowFails, Doing, tables
  <2>4. InvDelete'
    BY <1>b, <1>16 DEF InvDelete, RunType, FlowFails, Doing
  <2>5. NoOrphans'
    BY <1>a, <1>16 DEF NoOrphans, FlowFails, tables
  <2> QED BY <2>1, <2>2, <2>3, <2>4, <2>5 DEF IInv, InvType
<1>17. ASSUME Cluster
     PROVE  IInv'
  <2>1. run' \in {Nothing} \cup RunType
    <3>1. run \in RunType /\ run.failed \ {First(Selected)} \in SUBSET Files /\ run.failed \in SUBSET Files
      BY IndexAssumption, <1>a, <1>b, <1>17 DEF Cluster, Doing
    <3>2. \/ run' = [run EXCEPT !.at = "finish", !.failed = run.failed \ {First(Selected)}]
          \/ run' = [run EXCEPT !.at = "finish", !.failed = run.failed]
      BY <1>17, <3>1 DEF Cluster
    <3>3. ASSUME NEW failed \in SUBSET Files
          PROVE  [run EXCEPT !.at = "finish", !.failed = failed] \in RunType
      BY <3>1 DEF RunType, Places
    <3> QED BY <3>1, <3>2, <3>3
  <2>2. InvTables'
    BY <1>a, <1>17 DEF InvTables, Cluster, tables
  <2>3. InvRun'
    BY IndexAssumption, <1>a, <1>b, <1>17 DEF InvRun, TextOf, RunType, Row, Scanned, Parsed, Turn, Cluster, Doing, tables
  <2>4. InvDelete'
    BY <1>b, <1>17 DEF InvDelete, RunType, Cluster, Doing
  <2>5. NoOrphans'
    BY <1>a, <1>17 DEF NoOrphans, Cluster, tables
  <2> QED BY <2>1, <2>2, <2>3, <2>4, <2>5 DEF IInv, InvType
<1>18. ASSUME Finish
     PROVE  IInv'
  <2>1. run' \in {Nothing} \cup RunType
    BY <1>18 DEF Finish
  <2>2. InvTables'
    BY <1>a, <1>18 DEF InvTables, Finish, tables
  <2>3. InvRun'
    BY <1>18 DEF InvRun, Finish
  <2>4. InvDelete'
    BY <1>18 DEF InvDelete, Finish
  <2>5. NoOrphans'
    BY <1>a, <1>18 DEF NoOrphans, Finish, tables
  <2> QED BY <2>1, <2>2, <2>3, <2>4, <2>5 DEF IInv, InvType
<1>19. ASSUME NEW request \in Requests, Begin(request)
     PROVE  IInv'
  <2>1. run' \in {Nothing} \cup RunType
    <3>1. Hashes \in TextOf /\ Present \subseteq Files /\ [f \in Files |-> Nothing] \in TextOf
      BY <1>a, IndexAssumption DEF Hashes, Present, TextOf, InvTables, Row
    <3>2. /\ request.mode \in Modes /\ request.phase \in {"full", "crossref"}
          /\ request.paths \in {Nothing} \cup SUBSET Files
      <4>1. request \in [mode : Modes, phase : {"full", "crossref"},
                        paths : {Nothing} \cup SUBSET Files]
        BY IndexAssumption
      <4> QED BY <4>1
    <3>3. imports \in SUBSET (Files \X Files)
      BY <1>a DEF InvTables
    <3>4. [at |-> "scan", mode |-> request.mode, phase |-> request.phase, paths |-> request.paths,
           before |-> Hashes, edges |-> imports, found |-> {},
           scan |-> [f \in Files |-> Nothing], todo |-> Present, statement |-> 1,
           parsed |-> [f \in Files |-> Nothing], pending |-> {}, failed |-> {},
           failures |-> {}, calm |-> TRUE, stored |-> TRUE] \in RunType
      <4>1. Present \in SUBSET Files
        BY <3>1
      <4> QED BY <3>1, <3>2, <3>3, <4>1, Begun
    <3>5. run' = [at |-> "scan", mode |-> request.mode, phase |-> request.phase, paths |-> request.paths,
                  before |-> Hashes, edges |-> imports, found |-> {},
                  scan |-> [f \in Files |-> Nothing], todo |-> Present, statement |-> 1,
                  parsed |-> [f \in Files |-> Nothing], pending |-> {}, failed |-> {},
                  failures |-> {}, calm |-> TRUE, stored |-> TRUE]
      BY <1>19 DEF Begin
    <3> QED BY <3>4, <3>5
  <2>2. InvTables'
    BY <1>a, <1>19 DEF InvTables, Begin, tables
  <2>3. InvRun'
    BY IndexAssumption, <1>a, <1>b, <1>19 DEF InvRun, TextOf, RunType, Row, Scanned, Parsed, Turn, Begin, Hashes, Present, tables
  <2>4. InvDelete'
    BY IndexAssumption, <1>a, <1>b, <1>19 DEF InvRun, InvDelete, TextOf, RunType, Scanned, Turn, Begin, Hashes, Present, tables
  <2>5. NoOrphans'
    BY <1>a, <1>19 DEF NoOrphans, Begin, tables
  <2> QED BY <2>1, <2>2, <2>3, <2>4, <2>5 DEF IInv, InvType
<1>20. ASSUME NEW f \in Files, NEW text \in Versions[f] \cup {Nothing}, Edit(f, text)
     PROVE  IInv'
  <2>1. run' \in {Nothing} \cup RunType
    BY IndexAssumption, <1>a, <1>b, <1>20 DEF RunType, Places, Edit, tables
  <2>2. InvTables'
    BY IndexAssumption, <1>a, <1>b, <1>20 DEF InvTables, TextOf, Row, Reference, Ast, Edit, tables
  <2>3. InvRun'
    BY IndexAssumption, <1>a, <1>b, <1>20 DEF InvRun, TextOf, RunType, Row, Scanned, Parsed, Turn, Edit, tables
  <2>4. InvDelete'
    BY IndexAssumption, <1>a, <1>b, <1>20 DEF InvRun, InvDelete, TextOf, RunType, Scanned, Turn, Edit, tables
  <2>5. NoOrphans'
    BY <1>a, <1>20 DEF NoOrphans, Edit, tables
  <2> QED BY <2>1, <2>2, <2>3, <2>4, <2>5 DEF IInv, InvType
<1>21. ASSUME Crash
     PROVE  IInv'
  <2>1. run' \in {Nothing} \cup RunType
    BY <1>21 DEF Crash
  <2>2. InvTables'
    BY <1>a, <1>21 DEF InvTables, Crash, tables
  <2>3. InvRun'
    BY <1>21 DEF InvRun, Crash
  <2>4. InvDelete'
    BY <1>21 DEF InvDelete, Crash
  <2>5. NoOrphans'
    BY <1>a, <1>21 DEF NoOrphans, Crash, tables
  <2> QED BY <2>1, <2>2, <2>3, <2>4, <2>5 DEF IInv, InvType
<1>22. ASSUME UNCHANGED vars
     PROVE  IInv'
  <2>1. run' \in {Nothing} \cup RunType
    BY IndexAssumption, <1>a, <1>b, <1>22 DEF RunType, Places, vars, tables
  <2>2. InvTables'
    BY <1>a, <1>22 DEF InvTables, vars, tables
  <2>3. InvRun'
    BY <1>a, <1>22 DEF InvRun, Scanned, Parsed, Turn, vars, tables
  <2>4. InvDelete'
    BY <1>a, <1>22 DEF InvDelete, Scanned, Turn, vars, tables
  <2>5. NoOrphans'
    BY <1>a, <1>22 DEF NoOrphans, vars, tables
  <2> QED BY <2>1, <2>2, <2>3, <2>4, <2>5 DEF IInv, InvType
<1> QED
  BY <1>1, <1>2, <1>3, <1>4, <1>5, <1>6, <1>7, <1>8, <1>9, <1>10, <1>11, <1>12, <1>13, <1>14, <1>15, <1>16, <1>17, <1>18, <1>19, <1>20, <1>21, <1>22 DEF Next, FileStep, PhaseStep

(* The tables hold rows of their schema, and a run what runRuntimeReindex   *)
(* keeps in its variables.                                                 *)
THEOREM TypeCorrect == Spec => []TypeOK
<1>1. ASSUME IInv PROVE TypeOK
  <2>1. InvTables /\ run \in {Nothing} \cup RunType
    BY <1>1 DEF IInv, InvType
  <2>2. ASSUME run # Nothing
        PROVE  /\ Scanned \cup run.todo \cup run.pending \cup run.failed \subseteq Files
               /\ run.found \subseteq Files \X Files /\ run.at \in Places
    BY <2>1, <2>2 DEF RunType, Scanned
  <2> QED
    BY <2>1, <2>2 DEF TypeOK, InvTables, Places
<1> QED
  BY <1>1, InitHolds, StepKeeps, PTL DEF Spec

(* Every path of which a symbol, a reference or an import edge is stored   *)
(* has a record, after any sequence of runs, crashes and edits: a deletion *)
(* or a scan that was cut short leaves nothing the next run cannot find.   *)
THEOREM NothingOrphaned == Spec => []NoOrphans
<1>1. IInv => NoOrphans
  BY DEF IInv
<1> QED
  BY <1>1, InitHolds, StepKeeps, PTL DEF Spec

-----------------------------------------------------------------------------
(* Whatever came before it - crashes, partial runs, lost phases, edits - a  *)
(* run that nothing disturbs leaves the tables that belong to the files on  *)
(* disk.  The invariant says what such a run has achieved at each of its    *)
(* phases; the parts of it are named after what they are about.  No         *)
(* property of the tables before the run is needed but NoOrphans.           *)

(* The selected files that parse, and those that do not                    *)
Sound == {f \in Selected : disk[f].parses}

Bad == Selected \ Sound

Early == {"scan", "exports"}

Structure == {"parse", "symbols", "flow"}

SymbolsOf(S) ==
  [f \in Files |-> IF f \in S THEN "parsed" ELSE IF f \in Present THEN "scanned" ELSE "none"]

CallsOf(S) == {Edge(e[1], e[2], "call") : e \in {p \in S \X S : p[2] \in disk[p[1]].calls}}

FlowsOf(S) == FlowEdges({p \in S \X Present : p[2] \in disk[p[1]].flows})

(* What is scanned is what is there, and its record is that of its text.   *)
ScanOK ==
  /\ \A f \in Scanned : /\ f \in Present /\ run.scan[f] = disk[f]
                        /\ rows[f] # Nothing /\ rows[f].hash = disk[f]
  /\ run.at \in Early => /\ Present \ run.todo \subseteq Scanned
                         /\ \A f \in Scanned \cap run.todo : run.at = "exports" /\ Turn(f)
  /\ run.at \notin Early => Present \subseteq Scanned
  /\ run.found = {e \in Scanned \X Present : e[2] \in disk[e[1]].imports}

(* A record of a file that is gone is known to be one, until it is deleted.*)
RecordsOK ==
  /\ \A f \in Files \ Present :
       rows[f] # Nothing => /\ run.at \in Early => run.before[f] # Nothing
                            /\ run.at \notin Early => run.at = "delete" /\ f \in run.todo
  /\ run.at \notin Early => imports = run.found

(* What has been read is what is on disk, and what failed does not parse.  *)
ParseOK ==
  /\ run.at \in Early \cup {"delete", "invalidate"} =>
       run.failed = {} /\ run.failures = {} /\ Parsed = {}
  /\ run.at \in Structure => run.phase = "full" /\ run.todo \subseteq Selected
  /\ run.at \in Structure =>
       \A f \in Files : run.parsed[f] = IF f \in Sound /\ (run.at = "symbols" \/ f \notin run.todo)
                                        THEN disk[f] ELSE Nothing
  /\ run.at = "parse" => run.failed = Bad \ run.todo /\ run.failures = (Bad \ run.todo) \X {"parse"}
  /\ run.at \in {"symbols", "flow"} => run.failed = Bad
  /\ run.at \in {"symbols", "flow", "crossref", "finish"} /\ run.phase = "full" =>
       run.failures = Bad \X {"parse"} /\ run.todo \subseteq Sound
  /\ run.at = "finish" => run.todo = {}

(* A scan leaves no reference but those of deleted files: the phases start *)
(* from an empty graph.                                                    *)
GraphOK ==
  /\ \A f \in Scanned :
       \/ run.at = "exports" /\ f \in run.todo
       \/ run.at \notin Early \cup {"delete"}
       \/ symbols[f] = "scanned" /\ \A r \in refs : r.src # f
  /\ run.at \in {"invalidate", "parse"} => symbols = SymbolsOf({}) /\ refs = {}
  /\ run.at = "symbols" => symbols = SymbolsOf(Sound \ run.todo) /\ refs = {}
  /\ run.at \in {"flow", "crossref", "finish"} /\ run.stored /\ run.phase = "full" =>
       /\ symbols = SymbolsOf(Sound)
       /\ refs = CallsOf(Sound) \cup (IF run.at = "flow" THEN {} ELSE FlowsOf(Sound))

(* Which cross references have been taken away, and which are there again. *)
XrefsOK ==
  /\ run.mode # "incremental" =>
       /\ run.at = "invalidate" => \A f \in Present \ run.todo : rows[f].xrefs = Nothing
       /\ run.at \in Structure => run.pending = Selected /\ \A f \in Selected : rows[f].xrefs = Nothing
       /\ run.at \in {"crossref", "finish"} /\ run.phase = "full" =>
            /\ \A f \in Bad : rows[f].xrefs = Nothing
            /\ SearchesDisk => \A f \in Sound \ run.todo : rows[f].xrefs = Users(f, disk)
  /\ run.at \in Structure =>
       run.pending \subseteq Selected /\ \A f \in Selected \ run.pending : rows[f].xrefs # Nothing
  /\ run.at \in {"crossref", "finish"} /\ run.phase = "full" =>
       \A f \in Sound \ run.todo : rows[f].xrefs # Nothing

InvCalm == run # Nothing /\ run.calm => ScanOK /\ RecordsOK /\ ParseOK /\ GraphOK /\ XrefsOK

(* A result is that of the run that has just ended.                        *)
InvResult ==
  last # Nothing => run = Nothing /\ GraphConverges /\ RebuildConverges /\ NothingPending

Converging == InvCalm /\ InvResult

----------------------------------------------------------------------------
(* Lemmas *)

LEMMA Fields ==
  ASSUME NEW r \in RunType, NEW at \in Places, NEW todo \in SUBSET Files
  PROVE  LET s == [r EXCEPT !.at = at, !.todo = todo]
         IN  /\ s.at = at /\ s.todo = todo /\ s.mode = r.mode /\ s.phase = r.phase
             /\ s.paths = r.paths /\ s.before = r.before /\ s.edges = r.edges /\ s.found = r.found
             /\ s.scan = r.scan /\ s.parsed = r.parsed /\ s.pending = r.pending
             /\ s.failed = r.failed /\ s.failures = r.failures /\ s.calm = r.calm
             /\ s.stored = r.stored /\ s.statement = r.statement
BY DEF RunType

(* What is scanned, selected and sound depends on the files and the run.   *)
LEMMA Unread ==
  ASSUME disk' = disk, run'.scan = run.scan, run'.paths = run.paths
  PROVE  /\ Present' = Present /\ Scanned' = Scanned /\ Selected' = Selected
         /\ Sound' = Sound /\ Bad' = Bad
         /\ \A S : SymbolsOf(S)' = SymbolsOf(S)
         /\ CallsOf(Sound)' = CallsOf(Sound) /\ FlowsOf(Sound)' = FlowsOf(Sound)
<1>1. Present' = Present /\ Scanned' = Scanned
  BY DEF Present, Scanned
<1>2. Selected' = Selected
  BY <1>1 DEF Selected
<1>3. Sound' = Sound /\ Bad' = Bad
  BY <1>2 DEF Sound, Bad
<1>4. CallsOf(Sound)' = CallsOf(Sound) /\ FlowsOf(Sound)' = FlowsOf(Sound)
  BY <1>1, <1>3 DEF CallsOf, FlowsOf, FlowEdges
<1>5. ASSUME NEW S PROVE SymbolsOf(S)' = SymbolsOf(S)
  BY <1>1 DEF SymbolsOf
<1> QED BY <1>1, <1>2, <1>3, <1>4, <1>5

LEMMA Typed ==
  ASSUME IInv, run # Nothing
  PROVE  /\ run \in RunType /\ InvTables /\ InvRun /\ NoOrphans
         /\ run.todo \subseteq Files /\ run.scan \in TextOf /\ run.parsed \in TextOf
         /\ Scanned \subseteq Files /\ Selected \subseteq Scanned /\ Sound \subseteq Selected
         /\ Bad \subseteq Selected
<1>1. run \in RunType /\ InvTables /\ InvRun /\ NoOrphans
  BY DEF IInv, InvType
<1>2. run.todo \subseteq Files /\ run.scan \in TextOf /\ run.parsed \in TextOf
  BY <1>1 DEF RunType
<1>3. Scanned \subseteq Files /\ Selected \subseteq Scanned /\ Sound \subseteq Selected /\ Bad \subseteq Selected
  BY DEF Scanned, Selected, Sound, Bad
<1> QED BY <1>1, <1>2, <1>3

LEMMA Sourceless ==
  ASSUME NEW f, NEW with, ReplaceSymbols(f, with), refs \subseteq Reference
  PROVE  \A r \in refs' : r.src # f /\ \E e \in refs : e.src = r.src
<1>1. ASSUME NEW r \in refs' PROVE r.src # f /\ \E e \in refs : e.src = r.src
  <2>1. PICK e \in {x \in refs : x.src # f} : r = [e EXCEPT !.linked = e.linked /\ e.tgt # f]
    BY <1>1 DEF ReplaceSymbols
  <2>2. e \in Reference /\ e.src # f /\ e \in refs
    BY <2>1
  <2>3. r.src = e.src
    BY <2>1, <2>2 DEF Reference
  <2> QED BY <2>2, <2>3
<1> QED BY <1>1

(* The users of a symbol are looked up in references and texts.            *)
LEMMA SameUsers ==
  ASSUME refs' = refs, disk' = disk
  PROVE  \A f \in Files : Users(f, disk)' = Users(f, disk)
BY DEF Users, Grep, Ast, Mentions

LEMMA UsersAreFiles ==
  ASSUME NEW f \in Files, NEW texts, refs \subseteq Reference
  PROVE  Users(f, texts) \in SUBSET Files
<1>1. Grep(f, texts) \subseteq Files
  BY DEF Grep
<1>2. {r.src : r \in {e \in refs : e.tgt = f /\ e.linked /\ e.kind \in Ast /\ e.src # f}} \subseteq Files
  BY DEF Reference
<1> QED BY <1>1, <1>2 DEF Users

(* What was scanned stays so as long as the records keep their hashes.     *)
LEMMA ScanKept ==
  ASSUME ScanOK, disk' = disk, run'.scan = run.scan, run'.found = run.found,
         \A f \in Scanned : rows'[f] # Nothing /\ rows'[f].hash = rows[f].hash,
         run'.at \in Early => /\ Present \ run'.todo \subseteq Scanned
                             /\ \A f \in Scanned \cap run'.todo : run'.at = "exports" /\ Turn(f)',
         run'.at \notin Early => Present \subseteq Scanned
  PROVE  ScanOK'
<1>1. Present' = Present /\ Scanned' = Scanned
  BY DEF Present, Scanned
<1>2. {e \in Scanned \X Present : e[2] \in disk[e[1]].imports}'
      = {e \in Scanned \X Present : e[2] \in disk[e[1]].imports}
  BY <1>1
<1>3. run'.found = {e \in Scanned \X Present : e[2] \in disk[e[1]].imports}'
  BY <1>2 DEF ScanOK
<1>4. \A f \in Scanned' : /\ f \in Present' /\ run'.scan[f] = disk'[f]
                          /\ rows'[f] # Nothing /\ rows'[f].hash = disk'[f]
  BY <1>1 DEF ScanOK
<1> QED BY <1>1, <1>3, <1>4 DEF ScanOK

----------------------------------------------------------------------------
(* One lemma for each action *)

(* A file is read and its record written: it joins what is scanned.        *)
LEMMA ScanRecordCalm ==
  ASSUME IInv, Converging, NEW f \in Files, ScanRecord(f) PROVE InvCalm'
<1>1. CASE disk[f] = Nothing
  BY <1>1, IndexAssumption, Typed DEF ScanRecord, Abort, InvCalm, InvTables
<1>2. CASE disk[f] # Nothing
  <2> SUFFICES ASSUME run'.calm PROVE (ScanOK /\ RecordsOK /\ ParseOK /\ GraphOK /\ XrefsOK)'
    BY DEF InvCalm
  <2>1. /\ run # Nothing /\ run.at = "scan" /\ Turn(f) /\ disk[f] # Nothing
        /\ run \in RunType /\ InvTables
        /\ f \in Present /\ disk[f] \in Texts
    BY <1>2, Typed, IndexAssumption DEF ScanRecord, Doing, Present, InvTables, TextOf
  <2>2. run' = [run EXCEPT !.at = "exports", !.scan[f] = disk[f],
                  !.found = @ \cup {<<f, g>> : g \in disk[f].imports \cap Present}]
    BY <1>2, <2>1 DEF ScanRecord
  <2>3. /\ run'.at = "exports" /\ run'.todo = run.todo /\ run'.parsed = run.parsed
        /\ run'.failed = run.failed /\ run'.failures = run.failures /\ run'.before = run.before
        /\ run'.scan = [run.scan EXCEPT ![f] = disk[f]] /\ run.calm
        /\ run'.found = run.found \cup {<<f, g>> : g \in disk[f].imports \cap Present}
    BY <2>1, <2>2 DEF RunType
  <2>4. ScanOK /\ RecordsOK /\ ParseOK /\ GraphOK
    BY <2>1, <2>3 DEF Converging, InvCalm
  <2>5. /\ UNCHANGED <<disk, symbols, imports, refs>> /\ Present' = Present
        /\ rows'[f] # Nothing /\ rows'[f].hash = disk[f] /\ \A g \in Files \ {f} : rows'[g] = rows[g]
    <3>1. UNCHANGED <<disk, symbols, imports, refs>> /\ Present' = Present
      BY <1>2, <2>1 DEF ScanRecord, Present
    <3>2. PICK x \in {Nothing} \cup SUBSET Files : rows' = [rows EXCEPT ![f] = [hash |-> disk[f], xrefs |-> x]]
      BY <1>2, <2>1 DEF ScanRecord, InvTables, Row
    <3>3. [hash |-> disk[f], xrefs |-> x] \in Row /\ rows \in [Files -> {Nothing} \cup Row]
      BY <2>1 DEF Row, InvTables
    <3> QED BY <3>1, <3>2, <3>3, IndexAssumption
  <2>6. Scanned' = Scanned \cup {f} /\ run.scan \in TextOf /\ f \in run.todo
    BY <2>1, <2>3, Typed, IndexAssumption DEF Scanned, Turn, TextOf
  <2>7. ScanOK'
    <3>1. \A g \in Scanned' : /\ g \in Present' /\ run'.scan[g] = disk'[g]
                              /\ rows'[g] # Nothing /\ rows'[g].hash = disk'[g]
      BY <2>1, <2>3, <2>4, <2>5, <2>6, Typed DEF ScanOK, TextOf
    <3>2. Present' \ run'.todo \subseteq Scanned' /\ \A g \in Scanned' \cap run'.todo : Turn(g)'
      BY <2>1, <2>3, <2>4, <2>5, <2>6 DEF ScanOK, Early, Turn
    <3>3. run'.found = {e \in Scanned' \X Present' : e[2] \in disk'[e[1]].imports}
      BY <2>1, <2>3, <2>4, <2>5, <2>6 DEF ScanOK
    <3> QED BY <3>1, <3>2, <3>3, <2>3 DEF ScanOK, Early
  <2>8. RecordsOK'
    BY <2>1, <2>3, <2>4, <2>5 DEF RecordsOK, Early
  <2>9. ParseOK'
    BY <2>1, <2>3, <2>4 DEF ParseOK, Early, Structure, Parsed
  <2>10. GraphOK'
    BY <2>1, <2>3, <2>4, <2>5, <2>6 DEF GraphOK, Early, Turn, ScanOK
  <2>11. XrefsOK'
    BY <2>3 DEF XrefsOK, Structure
  <2> QED BY <2>7, <2>8, <2>9, <2>10, <2>11
<1> QED BY <1>1, <1>2

(* Its exports replace its symbols, and with them its references.          *)
LEMMA ScanExportsCalm ==
  ASSUME IInv, Converging, NEW f \in Files, ScanExports(f) PROVE InvCalm'
<1> SUFFICES ASSUME run'.calm PROVE (ScanOK /\ RecordsOK /\ ParseOK /\ GraphOK /\ XrefsOK)'
  BY DEF InvCalm
<1>1. /\ run # Nothing /\ run.at = "exports" /\ Turn(f) /\ run \in RunType /\ InvTables /\ InvRun
      /\ UNCHANGED <<disk, rows, imports>> /\ ReplaceSymbols(f, "scanned")
      /\ run' = [run EXCEPT !.at = "scan", !.todo = run.todo \ {f}]
      /\ run.todo \ {f} \in SUBSET Files /\ f \in Scanned
  BY Typed DEF ScanExports, Doing, Goto, InvRun
<1>2. /\ run'.at = "scan" /\ run'.todo = run.todo \ {f} /\ run'.parsed = run.parsed
      /\ run'.failed = run.failed /\ run'.failures = run.failures /\ run'.before = run.before
      /\ run'.scan = run.scan /\ run'.found = run.found /\ run'.paths = run.paths /\ run.calm
  BY <1>1, Fields DEF Places
<1>3. ScanOK /\ RecordsOK /\ ParseOK /\ GraphOK
  BY <1>1, <1>2 DEF Converging, InvCalm
<1>4. Present' = Present /\ Scanned' = Scanned
  BY <1>1, <1>2 DEF Present, Scanned
<1>5. ScanOK'
  <2>1. \A g \in Scanned : rows'[g] # Nothing /\ rows'[g].hash = rows[g].hash
    BY <1>1, <1>3 DEF ScanOK
  <2>2. Present \ run'.todo \subseteq Scanned /\ Scanned \cap run'.todo = {}
    <3>1. \A g \in Scanned \cap run.todo : Turn(g) /\ g \in Files
      BY <1>1, <1>3 DEF ScanOK, Early, Scanned
    <3> QED BY <1>1, <1>2, <1>3, <3>1, IndexAssumption DEF ScanOK, Early, Turn
  <2> QED BY <1>1, <1>2, <1>3, <2>1, <2>2, ScanKept DEF Early
<1>6. RecordsOK'
  BY <1>1, <1>2, <1>3, <1>4 DEF RecordsOK, Early
<1>7. ParseOK'
  BY <1>2, <1>3, <1>1 DEF ParseOK, Early, Structure, Parsed
<1>8. GraphOK'
  <2>1. \A r \in refs' : r.src # f /\ \E e \in refs : e.src = r.src
    BY <1>1, Sourceless DEF InvTables
  <2>2. symbols'[f] = "scanned" /\ \A g \in Files \ {f} : symbols'[g] = symbols[g]
    BY <1>1 DEF ReplaceSymbols, InvTables
  <2>3. \A g \in Scanned : symbols'[g] = "scanned" /\ \A r \in refs' : r.src # g
    <3>1. ASSUME NEW g \in Scanned, g # f
          PROVE  symbols[g] = "scanned" /\ \A r \in refs : r.src # g
      <4>1. g \notin run.todo
        BY <1>1, <1>3, <3>1, IndexAssumption DEF ScanOK, Early, Turn, Scanned
      <4> QED BY <1>1, <1>3, <3>1, <4>1 DEF GraphOK, Early
    <3> QED BY <2>1, <2>2, <3>1 DEF Scanned
  <2> QED BY <1>2, <1>4, <2>3 DEF GraphOK, Early
<1>9. XrefsOK'
  BY <1>2 DEF XrefsOK, Structure
<1> QED BY <1>5, <1>6, <1>7, <1>8, <1>9

(* The scan is over: the edges it found are stored.                        *)
LEMMA ScanEdgesCalm ==
  ASSUME IInv, Converging, ScanEdges PROVE InvCalm'
<1> SUFFICES ASSUME run'.calm PROVE (ScanOK /\ RecordsOK /\ ParseOK /\ GraphOK /\ XrefsOK)'
  BY DEF InvCalm
<1>1. /\ run # Nothing /\ run.at = "scan" /\ run.todo = {} /\ run \in RunType /\ InvTables
      /\ UNCHANGED <<disk, rows, symbols, refs>> /\ imports' = run.found
      /\ run' = [run EXCEPT !.at = "delete", !.todo = Deleted] /\ Deleted \in SUBSET Files
  BY Typed DEF ScanEdges, Doing, Goto, Deleted
<1>2. /\ run'.at = "delete" /\ run'.todo = Deleted /\ run'.parsed = run.parsed
      /\ run'.failed = run.failed /\ run'.failures = run.failures /\ run'.before = run.before
      /\ run'.scan = run.scan /\ run'.found = run.found /\ run'.paths = run.paths /\ run.calm
  BY <1>1, Fields DEF Places
<1>3. ScanOK /\ RecordsOK /\ ParseOK /\ GraphOK
  BY <1>1, <1>2 DEF Converging, InvCalm
<1>4. Present' = Present /\ Scanned' = Scanned /\ Scanned = Present
  BY <1>1, <1>2, <1>3 DEF Present, Scanned, ScanOK, Early
<1>5. ScanOK'
  BY <1>1, <1>2, <1>3, <1>4, ScanKept DEF ScanOK, Early
<1>6. RecordsOK'
  BY <1>1, <1>2, <1>3, <1>4 DEF RecordsOK, Early, Deleted
<1>7. ParseOK'
  BY <1>1, <1>2, <1>3 DEF ParseOK, Early, Structure, Parsed
<1>8. GraphOK'
  BY <1>1, <1>2, <1>3, <1>4 DEF GraphOK, Early
<1>9. XrefsOK'
  BY <1>2 DEF XrefsOK, Structure
<1> QED BY <1>5, <1>6, <1>7, <1>8, <1>9

(* Deleting a file that is gone takes nothing from those that are there.   *)
LEMMA DeleteCalm ==
  ASSUME IInv, Converging, NEW f \in Files, Delete(f) PROVE InvCalm'
<1> SUFFICES ASSUME run'.calm PROVE (ScanOK /\ RecordsOK /\ ParseOK /\ GraphOK /\ XrefsOK)'
  BY DEF InvCalm
<1>1. /\ run # Nothing /\ run.at = "delete" /\ Turn(f) /\ run \in RunType /\ InvTables
      /\ InvDelete /\ f \in run.todo /\ f \notin Scanned /\ disk' = disk
      /\ run.statement \in {1, 2, 3, 4}
  BY Typed DEF Delete, Doing, IInv, InvDelete, Turn, RunType
<1>2. /\ run'.at = "delete" /\ run'.parsed = run.parsed
      /\ run'.failed = run.failed /\ run'.failures = run.failures /\ run'.before = run.before
      /\ run'.scan = run.scan /\ run'.found = run.found /\ run'.paths = run.paths /\ run.calm
      /\ run'.todo = (IF run.statement = 4 THEN run.todo \ {f} ELSE run.todo)
  <2>1. run' = IF run.statement = 4 THEN [run EXCEPT !.statement = 1, !.todo = @ \ {f}]
               ELSE [run EXCEPT !.statement = @ + 1]
    BY DEF Delete
  <2> QED BY <1>1, <2>1 DEF RunType
<1>3. ScanOK /\ RecordsOK /\ ParseOK /\ GraphOK
  BY <1>1, <1>2 DEF Converging, InvCalm
<1>4. Present' = Present /\ Scanned' = Scanned /\ Scanned = Present
  BY <1>1, <1>2, <1>3 DEF Present, Scanned, ScanOK, Early
<1>5. /\ \A g \in Files \ {f} : rows'[g] = rows[g] /\ symbols'[g] = symbols[g]
      /\ run.statement = 4 => rows'[f] = Nothing
      /\ rows'[f] # Nothing => rows[f] # Nothing
      /\ refs' \subseteq refs
      /\ imports' \subseteq imports /\ \A e \in imports : e[1] # f /\ e[2] # f => e \in imports'
  BY <1>1 DEF Delete, Deletion, InvTables
<1>6. ScanOK'
  <2>1. \A g \in Scanned : rows'[g] # Nothing /\ rows'[g].hash = rows[g].hash
    BY <1>1, <1>3, <1>5 DEF ScanOK, Scanned
  <2> QED BY <1>1, <1>2, <1>3, <1>4, <2>1, ScanKept DEF Early
<1>7. RecordsOK'
  <2>1. imports' = run'.found
    BY <1>1, <1>2, <1>3, <1>4, <1>5 DEF RecordsOK, ScanOK, Early
  <2> QED BY <1>1, <1>2, <1>3, <1>4, <1>5, <2>1 DEF RecordsOK, Early
<1>8. ParseOK'
  BY <1>1, <1>2, <1>3 DEF ParseOK, Early, Structure, Parsed
<1>9. GraphOK'
  BY <1>1, <1>2, <1>3, <1>4, <1>5 DEF GraphOK, Early, Scanned
<1>10. XrefsOK'
  BY <1>2 DEF XrefsOK, Structure
<1> QED BY <1>6, <1>7, <1>8, <1>9, <1>10

(* No record, no reference: when the last file is deleted, what is left    *)
(* are the exports of the files that are there.                            *)
LEMMA DeleteDoneCalm ==
  ASSUME IInv, Converging, DeleteDone PROVE InvCalm'
<1> SUFFICES ASSUME run'.calm PROVE (ScanOK /\ RecordsOK /\ ParseOK /\ GraphOK /\ XrefsOK)'
  BY DEF InvCalm
<1>1. /\ run # Nothing /\ run.at = "delete" /\ run.todo = {} /\ run \in RunType /\ InvTables
      /\ NoOrphans /\ UNCHANGED <<disk, rows, symbols, imports, refs>>
      /\ Invalidated \in SUBSET Files /\ (run.mode # "incremental" => Invalidated = Scanned)
      /\ run' = [run EXCEPT !.at = "invalidate", !.todo = Invalidated]
  BY Typed DEF DeleteDone, Doing, Goto, tables, Invalidated, Dependents, Scanned
<1>2. /\ run'.at = "invalidate" /\ run'.todo = Invalidated /\ run'.parsed = run.parsed
      /\ run'.failed = run.failed /\ run'.failures = run.failures /\ run'.mode = run.mode
      /\ run'.scan = run.scan /\ run'.found = run.found /\ run'.paths = run.paths /\ run.calm
  BY <1>1, Fields DEF Places
<1>3. ScanOK /\ RecordsOK /\ ParseOK /\ GraphOK
  BY <1>1, <1>2 DEF Converging, InvCalm
<1>4. Present' = Present /\ Scanned' = Scanned /\ Scanned = Present
  BY <1>1, <1>2, <1>3 DEF Present, Scanned, ScanOK, Early
<1>5. ScanOK'
  BY <1>1, <1>2, <1>3, <1>4 DEF ScanOK, Early
<1>6. RecordsOK'
  BY <1>1, <1>2, <1>3, <1>4 DEF RecordsOK, Early
<1>7. ParseOK'
  BY <1>1, <1>2, <1>3 DEF ParseOK, Early, Structure, Parsed
<1>8. GraphOK'
  <2>1. \A f \in Files : f \notin Present => symbols[f] = "none" /\ \A r \in refs : r.src # f
    BY <1>1, <1>3 DEF RecordsOK, NoOrphans, Early
  <2>2. \A f \in Present : symbols[f] = "scanned" /\ \A r \in refs : r.src # f
    BY <1>1, <1>3, <1>4 DEF GraphOK, Early
  <2>3. refs = {}
    BY <1>1, <2>1, <2>2 DEF InvTables, Reference
  <2>4. symbols = SymbolsOf({})
    BY <1>1, <2>1, <2>2 DEF InvTables, SymbolsOf, Present
  <2>5. SymbolsOf({})' = SymbolsOf({})
    BY <1>4 DEF SymbolsOf
  <2> QED BY <1>1, <1>2, <2>3, <2>4, <2>5 DEF GraphOK, Early
<1>9. XrefsOK'
  BY <1>1, <1>2, <1>4 DEF XrefsOK, Structure
<1> QED BY <1>5, <1>6, <1>7, <1>8, <1>9

LEMMA InvalidateCalm ==
  ASSUME IInv, Converging, NEW f \in Files, Invalidate(f) PROVE InvCalm'
<1> SUFFICES ASSUME run'.calm PROVE (ScanOK /\ RecordsOK /\ ParseOK /\ GraphOK /\ XrefsOK)'
  BY DEF InvCalm
<1>1. /\ run # Nothing /\ run.at = "invalidate" /\ run \in RunType /\ InvTables
      /\ UNCHANGED <<disk, symbols, imports, refs>> /\ f \in Scanned /\ rows[f] # Nothing
      /\ run' = [run EXCEPT !.at = "invalidate", !.todo = run.todo \ {f}]
      /\ run.todo \ {f} \in SUBSET Files
  BY Typed DEF Invalidate, Doing, Goto, InvRun, Turn
<1>2. /\ run'.at = "invalidate" /\ run'.todo = run.todo \ {f} /\ run'.parsed = run.parsed
      /\ run'.failed = run.failed /\ run'.failures = run.failures /\ run'.mode = run.mode
      /\ run'.scan = run.scan /\ run'.found = run.found /\ run'.paths = run.paths /\ run.calm
  BY <1>1, Fields DEF Places
<1>3. ScanOK /\ RecordsOK /\ ParseOK /\ GraphOK /\ XrefsOK
  BY <1>1, <1>2 DEF Converging, InvCalm
<1>4. Present' = Present /\ Scanned' = Scanned /\ Scanned = Present
  BY <1>1, <1>2, <1>3 DEF Present, Scanned, ScanOK, Early
<1>5. /\ rows'[f] # Nothing /\ rows'[f].hash = rows[f].hash /\ rows'[f].xrefs = Nothing
      /\ \A g \in Files \ {f} : rows'[g] = rows[g]
  <2>1. rows \in [Files -> {Nothing} \cup Row] /\ rows[f] \in Row
    BY <1>1 DEF InvTables
  <2>2. rows' = [rows EXCEPT ![f] = [rows[f] EXCEPT !.xrefs = Nothing]]
    BY DEF Invalidate
  <2>3. [rows[f] EXCEPT !.xrefs = Nothing] \in Row
    BY <2>1 DEF Row
  <2> QED BY <2>1, <2>2, <2>3, IndexAssumption DEF Row
<1>6. ScanOK'
  <2>1. \A g \in Scanned : rows'[g] # Nothing /\ rows'[g].hash = rows[g].hash
    BY <1>1, <1>3, <1>5 DEF ScanOK, Scanned
  <2> QED BY <1>1, <1>2, <1>3, <1>4, <2>1, ScanKept DEF Early
<1>7. RecordsOK'
  BY <1>1, <1>2, <1>3, <1>4, <1>5 DEF RecordsOK, Early
<1>8. ParseOK'
  BY <1>1, <1>2, <1>3 DEF ParseOK, Early, Structure, Parsed
<1>9. GraphOK'
  <2>1. SymbolsOf({})' = SymbolsOf({})
    BY <1>4 DEF SymbolsOf
  <2> QED BY <1>1, <1>2, <1>3, <2>1 DEF GraphOK, Early
<1>10. XrefsOK'
  BY <1>1, <1>2, <1>3, <1>4, <1>5 DEF XrefsOK, Structure, Present
<1> QED BY <1>6, <1>7, <1>8, <1>9, <1>10

(* Once the files that are gone are deleted, records are right for good.   *)
LEMMA LaterKept ==
  ASSUME IInv, run # Nothing, ScanOK, RecordsOK, disk' = disk, imports' = imports,
         run'.scan = run.scan, run'.found = run.found,
         \A f \in Scanned : rows'[f] # Nothing /\ rows'[f].hash = rows[f].hash,
         \A f \in Files \ Scanned : rows'[f] = rows[f],
         run.at \notin Early \cup {"delete"}, run'.at \notin Early \cup {"delete"}
  PROVE  ScanOK' /\ RecordsOK' /\ Scanned = Present
<1>1. Present' = Present /\ Scanned' = Scanned /\ Scanned = Present
  BY DEF Present, Scanned, ScanOK
<1>2. ScanOK'
  BY <1>1, ScanKept
<1>3. RecordsOK'
  BY <1>1 DEF RecordsOK
<1> QED BY <1>1, <1>2, <1>3

(* What is to be parsed, and which files are complete, is decided.         *)
LEMMA ChooseCalm ==
  ASSUME IInv, Converging, Choose PROVE InvCalm'
<1> SUFFICES ASSUME run'.calm PROVE (ScanOK /\ RecordsOK /\ ParseOK /\ GraphOK /\ XrefsOK)'
  BY DEF InvCalm
<1>1. /\ run # Nothing /\ run.at = "invalidate" /\ run.todo = {} /\ run \in RunType /\ InvTables
      /\ UNCHANGED <<disk, rows, symbols, imports, refs>> /\ Selected \subseteq Scanned
      /\ Selected \in SUBSET Files
  BY Typed DEF Choose, Doing, tables
<1>2. /\ run'.scan = run.scan /\ run'.found = run.found /\ run'.paths = run.paths /\ run.calm
      /\ run'.parsed = run.parsed /\ run'.mode = run.mode /\ run'.phase = run.phase
      /\ run'.failed = run.failed /\ run'.failures = run.failures
      /\ \/ run.phase = "crossref" /\ run'.at = "crossref"
         \/ run.phase = "full" /\ Selected = {} /\ run'.at = "finish" /\ run'.todo = {}
         \/ /\ run.phase = "full" /\ run'.at = "parse" /\ run'.todo = Selected
            /\ run'.pending = {f \in Selected : run.mode = "repair" \/ ~Complete(f, run.scan[f])}
  BY <1>1 DEF Choose, RunType
<1>3. ScanOK /\ RecordsOK /\ ParseOK /\ GraphOK /\ XrefsOK
  BY <1>1, <1>2 DEF Converging, InvCalm
<1>4. ScanOK' /\ RecordsOK' /\ Scanned = Present
  <2>1. \A f \in Scanned : rows'[f] # Nothing /\ rows'[f].hash = rows[f].hash
    BY <1>1, <1>3 DEF ScanOK
  <2>2. run.at \notin Early \cup {"delete"} /\ run'.at \notin Early \cup {"delete"}
    BY <1>1, <1>2 DEF Early
  <2> QED BY <1>1, <1>2, <1>3, <2>1, <2>2, LaterKept
<1>5. /\ Present' = Present /\ Scanned' = Scanned /\ Selected' = Selected
      /\ Sound' = Sound /\ Bad' = Bad /\ \A S : SymbolsOf(S)' = SymbolsOf(S)
  BY <1>1, <1>2, Unread
<1>6. Sound \subseteq Selected /\ Bad \subseteq Selected
  BY DEF Sound, Bad
<1>7. ParseOK'
  <2>1. run.failed = {} /\ run.failures = {} /\ \A f \in Files : run.parsed[f] = Nothing
    BY <1>1, <1>3 DEF ParseOK, Parsed
  <2>2. CASE run.phase = "crossref"
    BY <1>2, <2>2 DEF ParseOK, Early, Structure
  <2>3. CASE run'.at = "finish"
    BY <1>2, <1>5, <1>6, <2>1, <2>3 DEF ParseOK, Early, Structure
  <2>4. CASE run'.at = "parse"
    BY <1>2, <1>5, <1>6, <2>1, <2>4 DEF ParseOK, Early, Structure
  <2> QED BY <1>2, <2>2, <2>3, <2>4
<1>8. GraphOK'
  <2>1. symbols = SymbolsOf({}) /\ refs = {} /\ symbols' = symbols /\ refs' = refs
    BY <1>1, <1>3 DEF GraphOK
  <2>2. run'.at \notin Early \cup {"delete"}
    BY <1>2 DEF Early
  <2>3. CASE run.phase = "crossref"
    BY <1>2, <2>1, <2>2, <2>3 DEF GraphOK
  <2>4. CASE run'.at = "finish"
    <3>1. Sound = {} /\ CallsOf(Sound) = {} /\ FlowsOf(Sound) = {}
      BY <1>2, <1>6, <2>4 DEF CallsOf, FlowsOf, FlowEdges
    <3>2. CallsOf(Sound)' = CallsOf(Sound) /\ FlowsOf(Sound)' = FlowsOf(Sound)
      BY <1>1, <1>2, Unread
    <3> QED BY <1>2, <1>5, <2>1, <2>2, <2>4, <3>1, <3>2 DEF GraphOK
  <2>5. CASE run'.at = "parse"
    BY <1>2, <1>5, <2>1, <2>2, <2>5 DEF GraphOK
  <2> QED BY <1>2, <2>3, <2>4, <2>5
<1>9. XrefsOK'
  <2>1. run.mode # "incremental" => \A f \in Present : rows[f].xrefs = Nothing
    BY <1>1, <1>3 DEF XrefsOK
  <2>2. CASE run'.at = "parse"
    <3>1. run'.pending \subseteq Selected /\ \A f \in Selected \ run'.pending : rows[f].xrefs # Nothing
      BY <1>2, <2>2 DEF Complete
    <3>2. run.mode # "incremental" => run'.pending = Selected
      BY <1>1, <1>2, <1>4, <2>1, <2>2 DEF Complete
    <3> QED BY <1>1, <1>2, <1>4, <1>5, <2>1, <2>2, <3>1, <3>2 DEF XrefsOK, Structure
  <2>3. CASE run'.at = "finish"
    BY <1>2, <1>5, <1>6, <2>3 DEF XrefsOK, Structure
  <2>4. CASE run.phase = "crossref"
    BY <1>2, <2>4 DEF XrefsOK, Structure
  <2> QED BY <1>2, <2>2, <2>3, <2>4
<1> QED BY <1>4, <1>7, <1>8, <1>9

(* Structure reads what the scan has read.                                 *)
LEMMA ParseCalm ==
  ASSUME IInv, Converging, NEW f \in Files, Parse(f) PROVE InvCalm'
<1> SUFFICES ASSUME run'.calm PROVE (ScanOK /\ RecordsOK /\ ParseOK /\ GraphOK /\ XrefsOK)'
  BY DEF InvCalm
<1>1. /\ run # Nothing /\ run.at = "parse" /\ f \in run.todo /\ run \in RunType /\ InvTables
      /\ UNCHANGED <<disk, rows, symbols, imports, refs>> /\ f \in Scanned
  BY Typed DEF Parse, Doing, tables, InvRun, Turn
<1>2. /\ run'.scan = run.scan /\ run'.found = run.found /\ run'.paths = run.paths /\ run.calm
      /\ run'.at = "parse" /\ run'.mode = run.mode /\ run'.phase = run.phase
      /\ run'.todo = run.todo \ {f} /\ run'.pending = run.pending
      /\ \/ disk[f] = Nothing
         \/ /\ disk[f].parses /\ run'.parsed = [run.parsed EXCEPT ![f] = disk[f]]
            /\ run'.failed = run.failed /\ run'.failures = run.failures
         \/ /\ ~disk[f].parses /\ run'.parsed = run.parsed
            /\ run'.failed = run.failed \cup {f} /\ run'.failures = run.failures \cup {<<f, "parse">>}
  BY <1>1 DEF Parse, Goto, RunType
<1>3. ScanOK /\ RecordsOK /\ ParseOK /\ GraphOK /\ XrefsOK
  BY <1>1, <1>2 DEF Converging, InvCalm
<1>4. ScanOK' /\ RecordsOK' /\ Scanned = Present
  <2>1. \A g \in Scanned : rows'[g] # Nothing /\ rows'[g].hash = rows[g].hash
    BY <1>1, <1>3 DEF ScanOK
  <2>2. run.at \notin Early \cup {"delete"} /\ run'.at \notin Early \cup {"delete"}
    BY <1>1, <1>2 DEF Early
  <2> QED BY <1>1, <1>2, <1>3, <2>1, <2>2, LaterKept
<1>5. /\ Present' = Present /\ Scanned' = Scanned /\ Selected' = Selected
      /\ Sound' = Sound /\ Bad' = Bad /\ \A S : SymbolsOf(S)' = SymbolsOf(S)
  BY <1>1, <1>2, Unread
<1>6. /\ f \in Selected /\ disk[f] # Nothing /\ (disk[f].parses <=> f \in Sound)
      /\ run.parsed \in TextOf
  BY <1>1, <1>3, <1>4 DEF ParseOK, Structure, Sound, Present, RunType
<1>7. ParseOK'
  <2>1. \A g \in Files : run'.parsed[g] = IF g \in Sound /\ g \notin run'.todo THEN disk[g] ELSE Nothing
    BY <1>1, <1>2, <1>3, <1>6 DEF ParseOK, Structure, TextOf
  <2>2. run'.failed = Bad \ run'.todo /\ run'.failures = (Bad \ run'.todo) \X {"parse"}
    BY <1>1, <1>2, <1>3, <1>6 DEF ParseOK, Structure, Bad
  <2> QED BY <1>1, <1>2, <1>3, <1>5, <2>1, <2>2 DEF ParseOK, Early, Structure
<1>8. GraphOK'
  BY <1>1, <1>2, <1>3, <1>5 DEF GraphOK, Early
<1>9. XrefsOK'
  BY <1>1, <1>2, <1>3, <1>5 DEF XrefsOK, Structure
<1> QED BY <1>4, <1>7, <1>8, <1>9

LEMMA ParseDoneCalm ==
  ASSUME IInv, Converging, ParseDone PROVE InvCalm'
<1> SUFFICES ASSUME run'.calm PROVE (ScanOK /\ RecordsOK /\ ParseOK /\ GraphOK /\ XrefsOK)'
  BY DEF InvCalm
<1>1. /\ run # Nothing /\ run.at = "parse" /\ run.todo = {} /\ run \in RunType /\ InvTables
      /\ UNCHANGED <<disk, rows, symbols, imports, refs>> /\ Parsed \in SUBSET Files
      /\ run' = [run EXCEPT !.at = "symbols", !.todo = Parsed]
  BY Typed DEF ParseDone, Doing, tables, Goto, Parsed
<1>2. /\ run'.scan = run.scan /\ run'.found = run.found /\ run'.paths = run.paths /\ run.calm
      /\ run'.at = "symbols" /\ run'.mode = run.mode /\ run'.phase = run.phase
      /\ run'.todo = Parsed /\ run'.pending = run.pending /\ run'.parsed = run.parsed
      /\ run'.failed = run.failed /\ run'.failures = run.failures
  BY <1>1, Fields DEF Places
<1>3. ScanOK /\ RecordsOK /\ ParseOK /\ GraphOK /\ XrefsOK
  BY <1>1, <1>2 DEF Converging, InvCalm
<1>4. ScanOK' /\ RecordsOK' /\ Scanned = Present
  <2>1. \A g \in Scanned : rows'[g] # Nothing /\ rows'[g].hash = rows[g].hash
    BY <1>1, <1>3 DEF ScanOK
  <2>2. run.at \notin Early \cup {"delete"} /\ run'.at \notin Early \cup {"delete"}
    BY <1>1, <1>2 DEF Early
  <2> QED BY <1>1, <1>2, <1>3, <2>1, <2>2, LaterKept
<1>5. /\ Present' = Present /\ Scanned' = Scanned /\ Selected' = Selected
      /\ Sound' = Sound /\ Bad' = Bad /\ \A S : SymbolsOf(S)' = SymbolsOf(S)
  BY <1>1, <1>2, Unread
<1>6. Parsed = Sound /\ Sound \subseteq Selected
  <2>1. Sound \subseteq Present /\ Sound \subseteq Files /\ Sound \subseteq Selected
    BY <1>4 DEF Sound, Selected, Scanned
  <2> QED BY <1>1, <1>3, <2>1 DEF ParseOK, Structure, Parsed, Present
<1>7. ParseOK'
  BY <1>1, <1>2, <1>3, <1>5, <1>6 DEF ParseOK, Early, Structure
<1>8. GraphOK'
  BY <1>1, <1>2, <1>3, <1>5, <1>6 DEF GraphOK, Early
<1>9. XrefsOK'
  BY <1>1, <1>2, <1>3, <1>5 DEF XrefsOK, Structure
<1> QED BY <1>4, <1>7, <1>8, <1>9

(* The symbols a parser wrote replace the exports; there is no reference   *)
(* that could lose its target.                                             *)
LEMMA WriteSymbolsCalm ==
  ASSUME IInv, Converging, NEW f \in Files, WriteSymbols(f) PROVE InvCalm'
<1> SUFFICES ASSUME run'.calm PROVE (ScanOK /\ RecordsOK /\ ParseOK /\ GraphOK /\ XrefsOK)'
  BY DEF InvCalm
<1>1. /\ run # Nothing /\ run.at = "symbols" /\ f \in run.todo /\ run \in RunType /\ InvTables
      /\ UNCHANGED <<disk, rows, imports>> /\ ReplaceSymbols(f, "parsed")
      /\ run' = [run EXCEPT !.at = "symbols", !.todo = run.todo \ {f}]
      /\ run.todo \ {f} \in SUBSET Files
  BY Typed DEF WriteSymbols, Doing, Goto, Turn
<1>2. /\ run'.scan = run.scan /\ run'.found = run.found /\ run'.paths = run.paths /\ run.calm
      /\ run'.at = "symbols" /\ run'.mode = run.mode /\ run'.phase = run.phase
      /\ run'.todo = run.todo \ {f} /\ run'.pending = run.pending /\ run'.parsed = run.parsed
      /\ run'.failed = run.failed /\ run'.failures = run.failures
  BY <1>1, Fields DEF Places
<1>3. ScanOK /\ RecordsOK /\ ParseOK /\ GraphOK /\ XrefsOK
  BY <1>1, <1>2 DEF Converging, InvCalm
<1>4. ScanOK' /\ RecordsOK' /\ Scanned = Present
  <2>1. \A g \in Scanned : rows'[g] # Nothing /\ rows'[g].hash = rows[g].hash
    BY <1>1, <1>3 DEF ScanOK
  <2>2. run.at \notin Early \cup {"delete"} /\ run'.at \notin Early \cup {"delete"}
    BY <1>1, <1>2 DEF Early
  <2> QED BY <1>1, <1>2, <1>3, <2>1, <2>2, LaterKept
<1>5. /\ Present' = Present /\ Scanned' = Scanned /\ Selected' = Selected
      /\ Sound' = Sound /\ Bad' = Bad /\ \A S : SymbolsOf(S)' = SymbolsOf(S)
  BY <1>1, <1>2, Unread
<1>6. f \in Sound /\ run.todo \subseteq Selected
  BY <1>1, <1>3 DEF ParseOK, Structure
<1>7. ParseOK'
  BY <1>1, <1>2, <1>3, <1>5 DEF ParseOK, Early, Structure
<1>8. GraphOK'
  <2>1. symbols = SymbolsOf(Sound \ run.todo) /\ refs = {}
    BY <1>1, <1>3 DEF GraphOK
  <2>2. refs' = {}
    BY <1>1, <2>1 DEF ReplaceSymbols
  <2>3. symbols' = SymbolsOf(Sound \ run'.todo)
    BY <1>1, <1>2, <1>6, <2>1 DEF ReplaceSymbols, SymbolsOf
  <2> QED BY <1>2, <1>5, <2>2, <2>3 DEF GraphOK, Early, SymbolsOf
<1>9. XrefsOK'
  BY <1>1, <1>2, <1>3, <1>5 DEF XrefsOK, Structure
<1> QED BY <1>4, <1>7, <1>8, <1>9

(* The structure phase ends, with or without its references; a lost phase  *)
(* is remembered as one.                                                   *)
LEMMA StructureCalm ==
  ASSUME IInv, Converging, WriteReferences \/ StructureFails PROVE InvCalm'
<1> SUFFICES ASSUME run'.calm PROVE (ScanOK /\ RecordsOK /\ ParseOK /\ GraphOK /\ XrefsOK)'
  BY DEF InvCalm
<1>1. /\ run # Nothing /\ run.at = "symbols" /\ run \in RunType /\ InvTables
      /\ UNCHANGED <<disk, rows, symbols, imports>>
      /\ (WriteReferences /\ run.todo = {}) \/ StructureFails
  BY Typed DEF WriteReferences, StructureFails, Doing, tables
<1>2. /\ run'.scan = run.scan /\ run'.found = run.found /\ run'.paths = run.paths /\ run.calm
      /\ run'.at = "flow" /\ run'.mode = run.mode /\ run'.phase = run.phase
      /\ run'.todo = FlowFiles /\ run'.pending = run.pending
      /\ run'.parsed = [g \in Files |-> Nothing]
      /\ run'.failed = run.failed /\ run'.failures = run.failures
      /\ StructureFails => ~run'.stored
  BY <1>1 DEF WriteReferences, StructureFails, RunType
<1>3. ScanOK /\ RecordsOK /\ ParseOK /\ GraphOK /\ XrefsOK
  BY <1>1, <1>2 DEF Converging, InvCalm
<1>4. ScanOK' /\ RecordsOK' /\ Scanned = Present
  <2>1. \A g \in Scanned : rows'[g] # Nothing /\ rows'[g].hash = rows[g].hash
    BY <1>1, <1>3 DEF ScanOK
  <2>2. run.at \notin Early \cup {"delete"} /\ run'.at \notin Early \cup {"delete"}
    BY <1>1, <1>2 DEF Early
  <2> QED BY <1>1, <1>2, <1>3, <2>1, <2>2, LaterKept
<1>5. /\ Present' = Present /\ Scanned' = Scanned /\ Selected' = Selected
      /\ Sound' = Sound /\ Bad' = Bad /\ \A S : SymbolsOf(S)' = SymbolsOf(S)
      /\ CallsOf(Sound)' = CallsOf(Sound)
  BY <1>1, <1>2, Unread
<1>6. FlowFiles = Sound /\ Sound \subseteq Selected
  BY <1>1, <1>3 DEF ParseOK, FlowFiles, Bad, Sound
<1>7. ParseOK'
  BY <1>1, <1>2, <1>3, <1>5, <1>6 DEF ParseOK, Early, Structure
<1>8. GraphOK'
  <2>1. CASE StructureFails
    BY <1>1, <1>2, <2>1 DEF GraphOK, Early
  <2>2. CASE WriteReferences /\ run.todo = {}
    <3>1. symbols = SymbolsOf(Sound) /\ refs = {}
      BY <1>1, <1>3, <2>2 DEF GraphOK
    <3>2. Sound \subseteq Files /\ Sound \subseteq Present
      BY <1>4, <1>6 DEF Selected, Scanned
    <3>3. Parsed = Sound /\ \A g \in Sound : run.parsed[g] = disk[g]
      BY <1>1, <1>3, <3>2 DEF ParseOK, Structure, Parsed, Present
    <3>4. Resolved(Parsed) = CallsOf(Sound)
      BY <3>3 DEF Resolved, CallsOf
    <3>5. refs' = CallsOf(Sound)
      BY <2>2, <3>1, <3>4 DEF WriteReferences
    <3> QED BY <1>1, <1>2, <1>5, <3>1, <3>5 DEF GraphOK, Early
  <2> QED BY <1>1, <2>1, <2>2
<1>9. XrefsOK'
  BY <1>1, <1>2, <1>3, <1>5 DEF XrefsOK, Structure
<1> QED BY <1>4, <1>7, <1>8, <1>9

LEMMA FlowCalm ==
  ASSUME IInv, Converging, NEW f \in Files, Flow(f) PROVE InvCalm'
<1> SUFFICES ASSUME run'.calm PROVE (ScanOK /\ RecordsOK /\ ParseOK /\ GraphOK /\ XrefsOK)'
  BY DEF InvCalm
<1>1. /\ run # Nothing /\ run.at = "flow" /\ f \in run.todo /\ run \in RunType /\ InvTables
      /\ UNCHANGED <<disk, rows, symbols, imports, refs>>
  BY Typed DEF Flow, Doing, tables, Turn
<1>2. /\ run'.scan = run.scan /\ run'.found = run.found /\ run'.paths = run.paths /\ run.calm
      /\ run'.at = "flow" /\ run'.mode = run.mode /\ run'.phase = run.phase
      /\ run'.todo = run.todo \ {f} /\ run'.pending = run.pending
      /\ run'.parsed = [run.parsed EXCEPT ![f] = disk[f]]
      /\ run'.failed = run.failed /\ run'.failures = run.failures /\ run'.stored = run.stored
  BY <1>1 DEF Flow, RunType
<1>3. ScanOK /\ RecordsOK /\ ParseOK /\ GraphOK /\ XrefsOK
  BY <1>1, <1>2 DEF Converging, InvCalm
<1>4. ScanOK' /\ RecordsOK' /\ Scanned = Present
  <2>1. \A g \in Scanned : rows'[g] # Nothing /\ rows'[g].hash = rows[g].hash
    BY <1>1, <1>3 DEF ScanOK
  <2>2. run.at \notin Early \cup {"delete"} /\ run'.at \notin Early \cup {"delete"}
    BY <1>1, <1>2 DEF Early
  <2> QED BY <1>1, <1>2, <1>3, <2>1, <2>2, LaterKept
<1>5. /\ Present' = Present /\ Scanned' = Scanned /\ Selected' = Selected
      /\ Sound' = Sound /\ Bad' = Bad /\ \A S : SymbolsOf(S)' = SymbolsOf(S)
      /\ CallsOf(Sound)' = CallsOf(Sound)
  BY <1>1, <1>2, Unread
<1>6. f \in Sound /\ run.parsed \in TextOf
  BY <1>1, <1>3 DEF ParseOK, Structure, RunType
<1>7. ParseOK'
  <2>1. \A g \in Files : run'.parsed[g] = IF g \in Sound /\ g \notin run'.todo THEN disk[g] ELSE Nothing
    BY <1>1, <1>2, <1>3, <1>6 DEF ParseOK, Structure, TextOf
  <2>2. /\ run'.phase = "full" /\ run'.todo \subseteq Sound /\ run'.todo \subseteq Selected
        /\ run'.failed = Bad /\ run'.failures = Bad \X {"parse"}
    BY <1>1, <1>2, <1>3 DEF ParseOK, Structure
  <2> QED BY <1>1, <1>2, <1>5, <2>1, <2>2 DEF ParseOK, Early, Structure
<1>8. GraphOK'
  BY <1>1, <1>2, <1>3, <1>5 DEF GraphOK, Early
<1>9. XrefsOK'
  BY <1>1, <1>2, <1>3, <1>5 DEF XrefsOK, Structure
<1> QED BY <1>4, <1>7, <1>8, <1>9

(* The flow phase ends: what is complete keeps its cross references.       *)
LEMMA FlowDoneCalm ==
  ASSUME IInv, Converging, WriteFlow \/ FlowFails PROVE InvCalm'
<1> SUFFICES ASSUME run'.calm PROVE (ScanOK /\ RecordsOK /\ ParseOK /\ GraphOK /\ XrefsOK)'
  BY DEF InvCalm
<1>1. /\ run # Nothing /\ run.at = "flow" /\ run \in RunType /\ InvTables
      /\ UNCHANGED <<disk, rows, symbols, imports>> /\ run.pending \subseteq Scanned
      /\ (WriteFlow /\ run.todo = {}) \/ FlowFails
  BY Typed DEF WriteFlow, FlowFails, Doing, tables, InvRun
<1>2. /\ run'.scan = run.scan /\ run'.found = run.found /\ run'.paths = run.paths /\ run.calm
      /\ run'.at = "crossref" /\ run'.mode = run.mode /\ run'.phase = run.phase
      /\ run'.todo = run.pending \ run.failed
      /\ run'.failures = run.failures
      /\ FlowFails => ~run'.stored
      /\ WriteFlow => run'.stored = run.stored
  BY <1>1 DEF WriteFlow, FlowFails, RunType, Goto
<1>3. ScanOK /\ RecordsOK /\ ParseOK /\ GraphOK /\ XrefsOK
  BY <1>1, <1>2 DEF Converging, InvCalm
<1>4. ScanOK' /\ RecordsOK' /\ Scanned = Present
  <2>1. \A g \in Scanned : rows'[g] # Nothing /\ rows'[g].hash = rows[g].hash
    BY <1>1, <1>3 DEF ScanOK
  <2>2. run.at \notin Early \cup {"delete"} /\ run'.at \notin Early \cup {"delete"}
    BY <1>1, <1>2 DEF Early
  <2> QED BY <1>1, <1>2, <1>3, <2>1, <2>2, LaterKept
<1>5. /\ Present' = Present /\ Scanned' = Scanned /\ Selected' = Selected
      /\ Sound' = Sound /\ Bad' = Bad /\ \A S : SymbolsOf(S)' = SymbolsOf(S)
      /\ CallsOf(Sound)' = CallsOf(Sound) /\ FlowsOf(Sound)' = FlowsOf(Sound)
  BY <1>1, <1>2, Unread
<1>6. Sound \subseteq Selected /\ run.failed = Bad /\ run.failures = Bad \X {"parse"} /\ run.phase = "full"
  BY <1>1, <1>3 DEF ParseOK, Sound, Structure
<1>7. ParseOK'
  <2>1. run'.todo \subseteq Sound
    <3>1. run.pending \subseteq Selected
      BY <1>1, <1>3 DEF XrefsOK, Structure
    <3> QED BY <1>2, <1>6, <3>1 DEF Bad
  <2> QED BY <1>1, <1>2, <1>3, <1>5, <1>6, <2>1 DEF ParseOK, Early, Structure
<1>8. GraphOK'
  <2>1. CASE FlowFails
    BY <1>1, <1>2, <2>1 DEF GraphOK, Early
  <2>2. CASE WriteFlow /\ run.todo = {} /\ ~run.stored
    BY <1>2, <2>2 DEF GraphOK, Early
  <2>3. CASE WriteFlow /\ run.todo = {} /\ run.stored
    <3>1. symbols = SymbolsOf(Sound) /\ refs = CallsOf(Sound)
      BY <1>1, <1>3, <1>6, <2>3 DEF GraphOK
    <3>2. Sound \subseteq Files /\ Sound \subseteq Present
      BY <1>4, <1>6 DEF Selected, Scanned
    <3>3. Parsed = Sound /\ \A g \in Sound : run.parsed[g] = disk[g]
      BY <1>1, <1>3, <2>3, <3>2 DEF ParseOK, Structure, Parsed, Present
    <3>4. \A g \in Files : symbols[g] # "none" <=> g \in Sound \cup Present
      BY <3>1 DEF SymbolsOf
    <3>5. FlowEdges({p \in Parsed \X Files : /\ p[2] \in run.parsed[p[1]].flows
                                             /\ symbols[p[1]] # "none" /\ symbols[p[2]] # "none"})
          = FlowsOf(Sound)
      <4>1. {p \in Parsed \X Files : /\ p[2] \in run.parsed[p[1]].flows
                                     /\ symbols[p[1]] # "none" /\ symbols[p[2]] # "none"}
            = {p \in Sound \X Present : p[2] \in disk[p[1]].flows}
        BY <3>2, <3>3, <3>4 DEF Present
      <4> QED BY <4>1 DEF FlowsOf
    <3>6. {r \in CallsOf(Sound) : ~(r.src \in Parsed /\ r.kind = "flow")} = CallsOf(Sound)
      BY DEF CallsOf, Edge
    <3>7. refs' = CallsOf(Sound) \cup FlowsOf(Sound)
      BY <2>3, <3>1, <3>5, <3>6 DEF WriteFlow
    <3> QED BY <1>1, <1>2, <1>5, <3>1, <3>7 DEF GraphOK, Early
  <2> QED BY <1>1, <2>1, <2>2, <2>3
<1>9. XrefsOK'
  <2>1. run.mode # "incremental" => Sound \ run'.todo = {}
    BY <1>1, <1>2, <1>3, <1>6 DEF XrefsOK, Structure, Bad
  <2>2. \A g \in Sound \ run'.todo : rows[g].xrefs # Nothing
    BY <1>1, <1>2, <1>3, <1>6 DEF XrefsOK, Structure, Bad
  <2>3. run.mode # "incremental" => \A g \in Bad : rows[g].xrefs = Nothing
    BY <1>1, <1>3 DEF XrefsOK, Structure, Bad
  <2> QED BY <1>1, <1>2, <1>5, <2>1, <2>2, <2>3 DEF XrefsOK, Structure
<1> QED BY <1>4, <1>7, <1>8, <1>9

(* A file gets the users that the references and the files on disk give it *)
(* - or an index that has become stale, but then it is stale at the end.   *)
LEMMA CrossrefCalm ==
  ASSUME IInv, Converging, NEW f \in Files, Crossref(f) PROVE InvCalm'
<1> SUFFICES ASSUME run'.calm PROVE (ScanOK /\ RecordsOK /\ ParseOK /\ GraphOK /\ XrefsOK)'
  BY DEF InvCalm
<1>1. /\ run # Nothing /\ run.at = "crossref" /\ f \in run.todo /\ run \in RunType /\ InvTables
      /\ UNCHANGED <<disk, symbols, imports>> /\ f \in Scanned /\ rows[f] # Nothing
  BY Typed DEF Crossref, Doing, tables, InvRun
<1>2. /\ run'.scan = run.scan /\ run'.found = run.found /\ run'.paths = run.paths /\ run.calm
      /\ run'.at = "crossref" /\ run'.mode = run.mode /\ run'.phase = run.phase
      /\ run'.todo = run.todo \ {f} /\ run'.stored = run.stored
      /\ disk[f] # Nothing => run'.failures = run.failures
  BY <1>1 DEF Crossref, RunType
<1>3. ScanOK /\ RecordsOK /\ ParseOK /\ GraphOK /\ XrefsOK
  BY <1>1, <1>2 DEF Converging, InvCalm
<1>4. /\ disk[f] # Nothing
      /\ rows' = [rows EXCEPT ![f].xrefs = Users(f, Searched)]
      /\ refs' = IF run.phase = "full" THEN refs ELSE Inferred(f, Users(f, Searched))
      /\ cache' = IF Ripgrep THEN cache ELSE Searched
  BY <1>1, <1>3 DEF Crossref, ScanOK, Present
<1>5. /\ rows'[f] # Nothing /\ rows'[f].hash = rows[f].hash /\ rows'[f].xrefs = Users(f, Searched)
      /\ Users(f, Searched) # Nothing
      /\ \A g \in Files \ {f} : rows'[g] = rows[g]
  <2>1. rows \in [Files -> {Nothing} \cup Row] /\ rows[f] \in Row /\ Users(f, Searched) \in SUBSET Files
    BY <1>1, UsersAreFiles DEF InvTables
  <2>2. rows' = [rows EXCEPT ![f] = [rows[f] EXCEPT !.xrefs = Users(f, Searched)]]
    BY <1>4
  <2>3. [rows[f] EXCEPT !.xrefs = Users(f, Searched)] \in Row
    BY <2>1 DEF Row
  <2>4. rows'[f] = [rows[f] EXCEPT !.xrefs = Users(f, Searched)]
    BY <2>1, <2>2
  <2>5. rows'[f].hash = rows[f].hash /\ rows'[f].xrefs = Users(f, Searched)
    BY <2>1, <2>4 DEF Row
  <2>6. \A g \in Files \ {f} : rows'[g] = rows[g]
    BY <2>1, <2>2
  <2> QED BY <2>1, <2>3, <2>4, <2>5, <2>6, IndexAssumption
<1>6. ScanOK' /\ RecordsOK' /\ Scanned = Present
  <2>1. \A g \in Scanned : rows'[g] # Nothing /\ rows'[g].hash = rows[g].hash
    BY <1>3, <1>5 DEF ScanOK, Scanned
  <2>2. run.at \notin Early \cup {"delete"} /\ run'.at \notin Early \cup {"delete"}
    BY <1>1, <1>2 DEF Early
  <2> QED BY <1>1, <1>2, <1>3, <1>5, <2>1, <2>2, LaterKept
<1>7. /\ Present' = Present /\ Scanned' = Scanned /\ Selected' = Selected
      /\ Sound' = Sound /\ Bad' = Bad /\ \A S : SymbolsOf(S)' = SymbolsOf(S)
      /\ CallsOf(Sound)' = CallsOf(Sound) /\ FlowsOf(Sound)' = FlowsOf(Sound)
  BY <1>1, <1>2, Unread
<1>8. ParseOK'
  BY <1>1, <1>2, <1>3, <1>4, <1>7 DEF ParseOK, Early, Structure
<1>9. GraphOK'
  BY <1>1, <1>2, <1>3, <1>4, <1>7 DEF GraphOK, Early
<1>10. XrefsOK'
  <2>1. CASE run.phase # "full"
    BY <1>1, <1>2, <2>1 DEF XrefsOK, Structure
  <2>2. CASE run.phase = "full"
    <3>1. /\ run.todo \subseteq Sound /\ f \in Sound /\ f \notin Bad
          /\ Sound \subseteq Files /\ Bad \subseteq Files
      BY <1>1, <1>3, <2>2 DEF ParseOK, Bad, Sound, Selected, Scanned
    <3>2. \A g \in Sound \ run'.todo : g = f \/ g \in Sound \ run.todo
      BY <1>2
    <3>3. \A g \in Sound \ run'.todo : rows'[g].xrefs # Nothing
      BY <1>1, <1>3, <1>5, <2>2, <3>1, <3>2 DEF XrefsOK
    <3>4. run.mode # "incremental" => \A g \in Bad : rows'[g].xrefs = Nothing
      BY <1>1, <1>3, <1>5, <2>2, <3>1 DEF XrefsOK
    <3>5. \A g \in Files : Users(g, disk)' = Users(g, disk)
      BY <1>1, <1>4, <2>2, SameUsers
    <3>6. SearchesDisk' => SearchesDisk /\ Searched = disk
      BY <1>1, <1>4 DEF SearchesDisk, Searched
    <3>7. run.mode # "incremental" /\ SearchesDisk' =>
            \A g \in Sound \ run'.todo : rows'[g].xrefs = Users(g, disk)
      <4> SUFFICES ASSUME run.mode # "incremental", SearchesDisk', NEW g \in Sound \ run'.todo
                   PROVE  rows'[g].xrefs = Users(g, disk)
        OBVIOUS
      <4>1. CASE g = f
        BY <1>5, <3>6, <4>1
      <4>2. CASE g # f
        BY <1>1, <1>3, <1>5, <2>2, <3>1, <3>2, <3>6, <4>2 DEF XrefsOK
      <4> QED BY <4>1, <4>2
    <3>8. run'.mode # "incremental" /\ SearchesDisk' =>
            \A g \in (Sound \ run.todo)' : rows'[g].xrefs = Users(g, disk)'
      BY <1>2, <1>7, <3>1, <3>5, <3>7
    <3> QED BY <1>1, <1>2, <1>7, <3>3, <3>4, <3>8 DEF XrefsOK, Structure
  <2> QED BY <2>1, <2>2
<1> QED BY <1>6, <1>8, <1>9, <1>10

LEMMA ClusterCalm ==
  ASSUME IInv, Converging, Cluster PROVE InvCalm'
<1> SUFFICES ASSUME run'.calm PROVE (ScanOK /\ RecordsOK /\ ParseOK /\ GraphOK /\ XrefsOK)'
  BY DEF InvCalm
<1>1. /\ run # Nothing /\ run.at = "crossref" /\ run.todo = {} /\ run \in RunType /\ InvTables
      /\ UNCHANGED <<disk, rows, symbols, imports, refs, cache>>
  BY Typed DEF Cluster, Doing, tables
<1>2. /\ run'.scan = run.scan /\ run'.found = run.found /\ run'.paths = run.paths /\ run.calm
      /\ run'.at = "finish" /\ run'.mode = run.mode /\ run'.phase = run.phase
      /\ run'.todo = {} /\ run'.failures = run.failures /\ run'.stored = run.stored
  BY <1>1 DEF Cluster, RunType
<1>3. ScanOK /\ RecordsOK /\ ParseOK /\ GraphOK /\ XrefsOK
  BY <1>1, <1>2 DEF Converging, InvCalm
<1>4. ScanOK' /\ RecordsOK' /\ Scanned = Present
  <2>1. \A g \in Scanned : rows'[g] # Nothing /\ rows'[g].hash = rows[g].hash
    BY <1>1, <1>3 DEF ScanOK
  <2>2. run.at \notin Early \cup {"delete"} /\ run'.at \notin Early \cup {"delete"}
    BY <1>1, <1>2 DEF Early
  <2> QED BY <1>1, <1>2, <1>3, <2>1, <2>2, LaterKept
<1>5. /\ Present' = Present /\ Scanned' = Scanned /\ Selected' = Selected
      /\ Sound' = Sound /\ Bad' = Bad /\ \A S : SymbolsOf(S)' = SymbolsOf(S)
      /\ CallsOf(Sound)' = CallsOf(Sound) /\ FlowsOf(Sound)' = FlowsOf(Sound)
  BY <1>1, <1>2, Unread
<1>6. ParseOK'
  BY <1>1, <1>2, <1>3, <1>5 DEF ParseOK, Early, Structure
<1>7. GraphOK'
  BY <1>1, <1>2, <1>3, <1>5 DEF GraphOK, Early
<1>8. XrefsOK'
  <2>1. \A g \in Files : Users(g, disk)' = Users(g, disk)
    BY <1>1, SameUsers
  <2>2. Sound \subseteq Files /\ SearchesDisk' = SearchesDisk
    BY <1>1 DEF Sound, Selected, Scanned, SearchesDisk
  <2> QED BY <1>1, <1>2, <1>3, <1>5, <2>1, <2>2 DEF XrefsOK, Structure
<1> QED BY <1>4, <1>6, <1>7, <1>8

(* A run begins with nothing scanned and knows the records there are.      *)
LEMMA BeginCalm ==
  ASSUME IInv, NEW request \in Requests, Begin(request) PROVE InvCalm'
<1>1. /\ run'.at = "scan" /\ run'.before = Hashes /\ run'.found = {}
      /\ run'.scan = [f \in Files |-> Nothing] /\ run'.todo = Present
      /\ run'.parsed = [f \in Files |-> Nothing] /\ run'.failed = {} /\ run'.failures = {}
      /\ UNCHANGED <<disk, rows, symbols, imports, refs>> /\ InvTables
  BY DEF Begin, tables, IInv, InvType
<1>2. Scanned' = {} /\ Present' = Present /\ Parsed' = {}
  BY <1>1 DEF Scanned, Present, Parsed
<1>3. ScanOK'
  BY <1>1, <1>2 DEF ScanOK, Early
<1>4. RecordsOK'
  <2>1. \A f \in Files : rows[f] # Nothing => Hashes[f] # Nothing
    BY <1>1, IndexAssumption DEF InvTables, Row, Hashes
  <2> QED BY <1>1, <1>2, <2>1 DEF RecordsOK, Early
<1>5. ParseOK'
  BY <1>1, <1>2 DEF ParseOK, Early, Structure
<1>6. GraphOK' /\ XrefsOK'
  BY <1>1, <1>2 DEF GraphOK, XrefsOK, Early, Structure
<1> QED BY <1>3, <1>4, <1>5, <1>6 DEF InvCalm

----------------------------------------------------------------------------
(* The end of a run *)

(* What a first index of the files would store, in the terms above         *)
LEMMA GraphOf ==
  ASSUME NEW S, S = {f \in Present : disk[f].parses}
  PROVE  /\ Graph(disk).symbols = SymbolsOf(S)
         /\ Graph(disk).imports = {e \in Present \X Present : e[2] \in disk[e[1]].imports}
         /\ Graph(disk).refs = CallsOf(S) \cup FlowsOf(S)
<1>1. Graph(disk).symbols = SymbolsOf(S)
  BY DEF Graph, SymbolsOf, Present
<1>2. Graph(disk).imports = {e \in Present \X Present : e[2] \in disk[e[1]].imports}
  BY DEF Graph, Present
<1>3. Graph(disk).refs = CallsOf(S) \cup FlowsOf(S)
  BY DEF Graph, Present, CallsOf, FlowsOf
<1> QED BY <1>1, <1>2, <1>3

LEMMA RecordsAtEnd ==
  ASSUME IInv, InvCalm, run # Nothing, run.calm, run.at = "finish"
  PROVE  RecordsAreFresh
<1>1. ScanOK /\ RecordsOK
  BY DEF InvCalm
<1>2. \A f \in Files : IF disk[f] = Nothing THEN rows[f] = Nothing
                       ELSE rows[f] # Nothing /\ rows[f].hash = disk[f]
  BY <1>1 DEF ScanOK, RecordsOK, Present, Early
<1>3. Scanned = Present
  BY <1>1 DEF ScanOK, Early
<1>4. imports = Graph(disk).imports
  BY <1>1, <1>3, GraphOf DEF ScanOK, RecordsOK, Early
<1> QED BY <1>2, <1>4 DEF RecordsAreFresh

LEMMA GraphAtEnd ==
  ASSUME IInv, InvCalm, run # Nothing, run.calm, run.at = "finish", run.stored, run.phase = "full"
  PROVE  /\ GraphIsFreshWithin(Selected)
         /\ run.paths = Nothing => GraphIsFresh
<1>1. ScanOK /\ GraphOK /\ Scanned = Present
  BY DEF InvCalm, ScanOK, Early
<1>2. symbols = SymbolsOf(Sound) /\ refs = CallsOf(Sound) \cup FlowsOf(Sound)
  BY <1>1 DEF GraphOK
<1>3. PICK S : S = {f \in Present : disk[f].parses}
  OBVIOUS
<1>4. Sound = S \cap Selected /\ Selected \subseteq Present /\ S \subseteq Present /\ Present \subseteq Files
  BY <1>1, <1>3 DEF Sound, Selected, Scanned
<1>5. /\ Graph(disk).symbols = SymbolsOf(S) /\ Graph(disk).refs = CallsOf(S) \cup FlowsOf(S)
  BY <1>3, GraphOf
<1>6. \A f \in Selected : symbols[f] = Graph(disk).symbols[f]
  BY <1>2, <1>4, <1>5 DEF SymbolsOf
<1>7. Within(Selected, CallsOf(Sound)) = Within(Selected, CallsOf(S))
  BY <1>4 DEF Within, CallsOf, Edge
<1>8. Within(Selected, FlowsOf(Sound)) = Within(Selected, FlowsOf(S))
  BY <1>4 DEF Within, FlowsOf, FlowEdges, Edge
<1>9. Within(Selected, refs) = Within(Selected, Graph(disk).refs)
  BY <1>2, <1>5, <1>7, <1>8 DEF Within
<1>10. ASSUME run.paths = Nothing PROVE GraphIsFresh
  <2>1. Sound = S
    BY <1>1, <1>4, <1>10 DEF Selected
  <2>2. /\ symbols = Graph(disk).symbols /\ refs = Graph(disk).refs
    BY <1>2, <1>5, <2>1
  <2>3. RecordsAreFresh
    BY RecordsAtEnd
  <2> QED BY <2>2, <2>3 DEF GraphIsFresh, RecordsAreFresh, Stored, Graph
<1> QED BY <1>6, <1>9, <1>10 DEF GraphIsFreshWithin

LEMMA XrefsAtEnd ==
  ASSUME IInv, InvCalm, run # Nothing, run.calm, run.at = "finish", run.stored, run.phase = "full",
         run.paths = Nothing
  PROVE  /\ run.mode # "incremental" /\ SearchesDisk => XrefsAreFresh
         /\ \A f \in Present : /\ disk[f].parses <=> <<f, "parse">> \notin run.failures
                               /\ disk[f].parses => rows[f].xrefs # Nothing
<1>1. ScanOK /\ ParseOK /\ XrefsOK /\ Selected = Present /\ run.todo = {}
  BY DEF InvCalm, ScanOK, Early, Selected, ParseOK
<1>2. Sound = {f \in Present : disk[f].parses} /\ Bad = Present \ Sound
  BY <1>1 DEF Sound, Bad
<1>3. run.failures = Bad \X {"parse"}
  BY <1>1 DEF ParseOK
<1>4. \A f \in Present : /\ disk[f].parses <=> <<f, "parse">> \notin run.failures
                         /\ disk[f].parses => rows[f].xrefs # Nothing
  BY <1>1, <1>2, <1>3 DEF XrefsOK
<1>5. run.mode # "incremental" /\ SearchesDisk => XrefsAreFresh
  BY <1>1, <1>2 DEF XrefsOK, XrefsAreFresh
<1> QED BY <1>4, <1>5

(* What buildResult reports is as the properties say.                      *)
LEMMA FinishResult ==
  ASSUME IInv, Converging, Finish PROVE InvResult'
<1>1. /\ run # Nothing /\ run.at = "finish" /\ InvCalm
      /\ UNCHANGED <<disk, rows, symbols, imports, refs, cache>> /\ run' = Nothing
      /\ last' = [mode |-> run.mode, phase |-> run.phase, whole |-> run.paths = Nothing,
              given |-> Selected, calm |-> run.calm, stored |-> run.stored, failures |-> run.failures]
  BY DEF Finish, Doing, tables, Converging
<1>2. PICK S : S = Selected
  OBVIOUS
<1>3. /\ last'.mode = run.mode /\ last'.phase = run.phase /\ last'.given = S /\ last'.calm = run.calm
      /\ last'.stored = run.stored /\ last'.failures = run.failures
      /\ last'.whole = (run.paths = Nothing)
  BY <1>1, <1>2
<1>4. Graph(disk)' = Graph(disk) /\ Stored' = Stored /\ Present' = Present
      /\ SearchesDisk' = SearchesDisk
  BY <1>1 DEF Graph, Stored, Present, SearchesDisk
<1>5. RecordsAreFresh' = RecordsAreFresh
  BY <1>1, <1>4 DEF RecordsAreFresh
<1>6. GraphIsFreshWithin(S)' = GraphIsFreshWithin(S)
  BY <1>1, <1>4 DEF GraphIsFreshWithin, Within
<1>7. XrefsAreFresh' = XrefsAreFresh
  <2>1. \A f \in Files : Users(f, disk)' = Users(f, disk)
    BY <1>1, SameUsers
  <2>2. Present \subseteq Files
    BY DEF Present
  <2> QED BY <1>1, <1>4, <2>1, <2>2 DEF XrefsAreFresh
<1>8. GraphConverges'
  <2>1. Undisturbed' => RecordsAreFresh' /\ GraphIsFreshWithin(S)'
    BY <1>1, <1>2, <1>3, <1>5, <1>6, RecordsAtEnd, GraphAtEnd DEF Undisturbed
  <2>2. Rebuilt' => GraphIsFresh'
    BY <1>1, <1>3, <1>4, <1>5, GraphAtEnd DEF Undisturbed, Rebuilt, GraphIsFresh
  <2> QED BY <1>3, <2>1, <2>2 DEF GraphConverges
<1>9. RebuildConverges'
  BY <1>1, <1>3, <1>4, <1>5, <1>7, GraphAtEnd, XrefsAtEnd DEF RebuildConverges, Undisturbed, Rebuilt, GraphIsFresh
<1>10. NothingPending'
  BY <1>1, <1>3, <1>4, XrefsAtEnd DEF NothingPending, Undisturbed, Rebuilt
<1> QED BY <1>1, <1>8, <1>9, <1>10 DEF InvResult

(* While a run is under way there is no result.                            *)
LEMMA NoResult ==
  ASSUME Converging, last' = Nothing \/ (run # Nothing /\ last' = last) PROVE InvResult'
BY DEF Converging, InvResult

LEMMA ConvergingHolds == Init => Converging
BY DEF Init, Converging, InvCalm, InvResult

LEMMA StepConverges == IInv /\ Converging /\ [Next]_vars => Converging'
<1> SUFFICES ASSUME IInv, Converging, [Next]_vars PROVE Converging'
  OBVIOUS
<1>1. ASSUME NEW request \in Requests, Begin(request) PROVE Converging'
  <2>1. InvCalm'
    BY <1>1, BeginCalm
  <2>2. InvResult'
    BY <1>1, NoResult DEF Begin
  <2> QED BY <2>1, <2>2 DEF Converging
<1>2. ASSUME NEW f \in Files, FileStep(f) PROVE Converging'
  <2>1. InvCalm'
    BY <1>2, ScanRecordCalm, ScanExportsCalm, DeleteCalm, InvalidateCalm, ParseCalm,
       WriteSymbolsCalm, FlowCalm, CrossrefCalm DEF FileStep
  <2>2. run # Nothing /\ last' = last
    BY <1>2 DEF FileStep, ScanRecord, Abort, ScanExports, Delete, Invalidate, Parse, WriteSymbols,
       Flow, Crossref, Doing
  <2> QED BY <2>1, <2>2, NoResult DEF Converging
<1>3. CASE PhaseStep /\ ~Finish
  <2>1. InvCalm'
    BY <1>3, ScanEdgesCalm, DeleteDoneCalm, ChooseCalm, ParseDoneCalm, StructureCalm, FlowDoneCalm,
       ClusterCalm DEF PhaseStep
  <2>2. run # Nothing /\ last' = last
    BY <1>3 DEF PhaseStep, ScanEdges, DeleteDone, Choose, ParseDone, WriteReferences, StructureFails,
       WriteFlow, FlowFails, Cluster, Doing
  <2> QED BY <2>1, <2>2, NoResult DEF Converging
<1>4. CASE Finish
  <2>1. InvCalm'
    BY <1>4 DEF Finish, InvCalm
  <2> QED BY <1>4, <2>1, FinishResult DEF Converging
<1>5. ASSUME NEW f \in Files, NEW text \in Versions[f] \cup {Nothing}, Edit(f, text) PROVE Converging'
  <2>1. InvCalm'
    BY <1>5 DEF Edit, InvCalm, IInv, InvType, RunType
  <2> QED BY <1>5, <2>1, NoResult DEF Edit, Converging
<1>6. CASE Crash
  BY <1>6, NoResult DEF Crash, InvCalm, Converging
<1>7. CASE UNCHANGED vars
  <2>1. UNCHANGED <<disk, rows, symbols, imports, refs, run, cache, last>>
    BY <1>7 DEF vars, tables
  <2>2. \A f \in Files : Users(f, disk)' = Users(f, disk)
    BY <2>1, SameUsers
  <2>3. /\ Present' = Present /\ Scanned' = Scanned /\ Selected' = Selected
        /\ Sound' = Sound /\ Bad' = Bad /\ \A S : SymbolsOf(S)' = SymbolsOf(S)
        /\ CallsOf(Sound)' = CallsOf(Sound) /\ FlowsOf(Sound)' = FlowsOf(Sound)
    BY <2>1, Unread
  <2>4. ScanOK' = ScanOK /\ RecordsOK' = RecordsOK /\ ParseOK' = ParseOK
    BY <2>1, <2>3 DEF ScanOK, RecordsOK, ParseOK, Turn, Parsed
  <2>5. GraphOK' = GraphOK
    BY <2>1, <2>3 DEF GraphOK, SymbolsOf
  <2>6. XrefsOK' = XrefsOK
    BY <2>1, <2>2, <2>3 DEF XrefsOK, SearchesDisk, Sound, Selected, Scanned
  <2>7. InvResult'
    <3>1. Graph(disk)' = Graph(disk) /\ Stored' = Stored
      BY <2>1 DEF Graph, FlowEdges, Edge, Stored
    <3> QED BY <2>1, <2>2, <2>3, <3>1 DEF Converging, InvResult, GraphConverges, RebuildConverges, NothingPending,
       Undisturbed, Rebuilt, GraphIsFresh, GraphIsFreshWithin, RecordsAreFresh, XrefsAreFresh,
       Within, SearchesDisk, Present
  <2> QED BY <2>1, <2>4, <2>5, <2>6, <2>7 DEF Converging, InvCalm
<1> QED BY <1>1, <1>2, <1>3, <1>4, <1>5, <1>6, <1>7 DEF Next, PhaseStep

LEMMA AlwaysConverging == Spec => [](IInv /\ Converging)
BY InitHolds, StepKeeps, ConvergingHolds, StepConverges, PTL DEF Spec

(* A run over the whole repository that nothing disturbs, whatever its     *)
(* mode, leaves the records, symbols, import edges and references that     *)
(* indexing the files from nothing would store; restricted to paths it     *)
(* leaves the records, and the graph of these paths.  No crash, edit or    *)
(* partial run that came before it matters.                                *)
THEOREM RunsConverge == Spec => []GraphConverges
<1>1. ASSUME InvResult PROVE GraphConverges
  BY <1>1 DEF InvResult, GraphConverges, Undisturbed, Rebuilt
<1> QED BY <1>1, AlwaysConverging, PTL DEF Converging

(* Such a run, full or repairing, also leaves the cross references that    *)
(* the stored references and the files on disk give, unless the process    *)
(* searches an index of texts that have changed.                           *)
THEOREM RebuildsConverge == Spec => []RebuildConverges
<1>1. ASSUME InvResult PROVE RebuildConverges
  BY <1>1 DEF InvResult, RebuildConverges, Undisturbed, Rebuilt
<1> QED BY <1>1, AlwaysConverging, PTL DEF Converging

(* No such run, not even an incremental one, leaves a file that parses     *)
(* without cross references, and it reports every file that does not.      *)
THEOREM RunsTakeUpWhatIsPending == Spec => []NothingPending
<1>1. ASSUME InvResult PROVE NothingPending
  BY <1>1 DEF InvResult, NothingPending, Undisturbed, Rebuilt
<1> QED BY <1>1, AlwaysConverging, PTL DEF Converging
=============================================================================
