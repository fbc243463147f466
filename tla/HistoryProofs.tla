---------------------------- MODULE HistoryProofs ----------------------------
(* What the history of a workspace promises, for any files, contents,       *)
(* callers and requests: no commit undoes what its caller has not seen, and *)
(* the endpoints of a diff stand for the entries they name; and what its    *)
(* catalogue promises of the tables, wherever an operation is cut, and of   *)
(* the witnesses, whoever is recorded; and that a diff of two contents, as  *)
(* long as they may be, leaves nothing out.                                 *)
(*                                                                          *)
(* The order of the ids of a file's entries is that of their times, as long *)
(* as the file is not hasty, and the order of its snapshots is that of      *)
(* their entries.  So the snapshot that is nearest to an entry is the one   *)
(* that was newest when the caller of that entry had its turn, and it was   *)
(* either stored then or found to have the entry's content; pruning drops   *)
(* the oldest, and an entry whose snapshot goes loses all that are older.   *)
EXTENDS History, Catalogue, Comparison, FiniteSetTheorems, SequenceTheorems, WellFoundedInduction, TLAPS

-----------------------------------------------------------------------------
(* Types.                                                                   *)
Written == Contents \cup {<<>>, ""} \cup UNION {{r[field] : field \in DOMAIN r} : r \in Requests}

Hazards == UNION {r["hazards"] : r \in {q \in Requests : "hazards" \in DOMAIN q}}

Record == {r \in [Fields \cup Columns \cup {"hash"} -> Written \cup SUBSET Hazards] :
             /\ \A field \in Fields \cup {"hash"} : r[field] \in Written
             /\ \A column \in Columns : r[column] \in SUBSET Hazards}

Entry == [id : Nat \ {0}, file_path : Files, created_at : Nat, commit_sha : Contents \cup {<<>>},
          cluster : Written \cup {"none"}, verification_status : {"verified", "pending"},
          author_name : Written \cup {"none", "someone"}, content : Contents]

Snapshot == [id : Nat \ {0}, file_path : Files, content : Contents, changelog_id : Nat \ {0}, created_at : Nat]

LookedCall == [status : {"looked"}, file : Files, seen : Record, expected : Record \cup {AnyVersion}]
CommittedCall == [status : {"committed"}, file : Files, seen : Record, expected : Record \cup {AnyVersion},
                  sent : Requests, entry : Nat \ {0}, content : Contents]

TypeOK ==
  /\ second \in Nat
  /\ disk \in [Files -> Contents]
  /\ records \in [Files -> Record]
  /\ entries \in SUBSET Entry
  /\ snapshots \in SUBSET Snapshot /\ IsFiniteSet(snapshots)
  /\ callers \in [Callers -> {NoCall} \cup LookedCall \cup CommittedCall]
  /\ hasty \in SUBSET Files

-----------------------------------------------------------------------------
(* The invariant.                                                           *)
(* Rows are given ids in the order they are made, and the clock.            *)
Numbered ==
  /\ \E n \in Nat : \A e \in entries : e.id <= n
  /\ \E n \in Nat : \A s \in snapshots : s.id <= n
  /\ \A e, d \in entries : e.id = d.id => e = d
  /\ \A e, d \in entries : e.id < d.id => e.created_at <= d.created_at
  /\ \A e \in entries : e.created_at <= second
  /\ \A s \in snapshots : s.created_at <= second

Committed(c, f) == callers[c].status = "committed" /\ callers[c].file = f

(* A snapshot, and a caller that may store one, has the content of an entry *)
(* of its file.                                                             *)
Founded ==
  /\ \A s \in snapshots : \E e \in EntriesOf(s.file_path) : e.id = s.changelog_id /\ e.content = s.content
  /\ \A c \in Callers : callers[c].status = "committed" =>
       \E e \in EntriesOf(callers[c].file) : e.id = callers[c].entry /\ e.content = callers[c].content

(* Of a file that is not hasty: one row at a time, snapshots in the order   *)
(* of their entries, and one caller at a time, which made the last entry.   *)
Paced(f) ==
  /\ \A e, d \in EntriesOf(f) : e.created_at = d.created_at => e = d
  /\ \A s, t \in SnapshotsOf(f) : s.created_at = t.created_at => s = t
  /\ \A s, t \in SnapshotsOf(f) : s.created_at < t.created_at => s.changelog_id < t.changelog_id
  /\ \A c, d \in Callers : Committed(c, f) /\ Committed(d, f) => c = d
  /\ \A c \in Callers : Committed(c, f) =>
       /\ \A e \in EntriesOf(f) : e.id <= callers[c].entry
       /\ \A s \in SnapshotsOf(f) : s.changelog_id < callers[c].entry

(* The snapshot of the last entry that has one, at or before another.       *)
IsNearest(s, f, e) ==
  /\ s.changelog_id <= e.id
  /\ \A t \in SnapshotsOf(f) : t.changelog_id <= e.id => t.changelog_id <= s.changelog_id

Remembered(f) ==
  \A e \in EntriesOf(f), s \in SnapshotsOf(f) :
    IsNearest(s, f, e) /\ ~(\E c \in Callers : Committed(c, f) /\ callers[c].entry = e.id) => s.content = e.content

Faithful == Numbered /\ Founded /\ \A f \in Files \ hasty : Paced(f) /\ Remembered(f)

(* A caller that has looked expects the version it has seen, or any.        *)
SeenExpected ==
  \A c \in Callers : callers[c].status = "looked" => callers[c].expected \in {RecordVersion(callers[c].seen), AnyVersion}

-----------------------------------------------------------------------------
(* The greatest of a set of numbers.                                        *)
(* A set of naturals that is not empty has a least element: the order is    *)
(* well founded.                                                            *)
LEMMA LeastNat ==
  ASSUME NEW T \in SUBSET Nat, T # {}
  PROVE  \E x \in T : \A y \in T : x <= y
<1>1. IsWellFoundedOn(OpToRel(<, Nat), Nat)
  BY NatLessThanWellFounded
<1>2. PICK x \in T : \A y \in T : <<y, x>> \notin OpToRel(<, Nat)
  BY <1>1, WFMin
<1>3. \A y \in T : ~(y < x)
  BY <1>2 DEF OpToRel
<1> QED
  BY <1>3

(* And, where it is bounded, a greatest one.                                *)
LEMMA GreatestNat ==
  ASSUME NEW T \in SUBSET Nat, T # {}, NEW n \in Nat, \A x \in T : x <= n
  PROVE  \E x \in T : \A y \in T : y <= x
<1> DEFINE U == {n - x : x \in T}
<1>1. U \in SUBSET Nat /\ U # {}
  OBVIOUS
<1> HIDE DEF U
<1>2. PICK u \in U : \A w \in U : u <= w
  BY <1>1, LeastNat
<1>3. PICK x \in T : u = n - x
  BY <1>2 DEF U
<1>4. ASSUME NEW y \in T PROVE y <= x
  <2>1. n - y \in U
    BY DEF U
  <2>2. u <= n - y
    BY <1>2, <2>1
  <2> QED
    BY <1>3, <2>2
<1> QED
  BY <1>4

LEMMA MaxIsGreatest ==
  ASSUME NEW T \in SUBSET Nat, NEW x \in T, \A y \in T : y <= x
  PROVE  Max(T) = x
<1>1. \A y \in T : x >= y
  OBVIOUS
<1>2. \A z \in T : (\A y \in T : z >= y) => z = x
  BY <1>1
<1> QED
  BY <1>1, <1>2 DEF Max

(* A row is given an id above that of every other.                          *)
LEMMA NextIdIsNew ==
  ASSUME NEW rows, \A r \in rows : r.id \in Nat, NEW n \in Nat, \A r \in rows : r.id <= n
  PROVE  /\ NextId(rows) \in Nat \ {0}
         /\ \A r \in rows : r.id < NextId(rows)
<1>1. CASE rows = {}
  BY <1>1 DEF NextId
<1>2. CASE rows # {}
  <2> DEFINE numbers == {r.id : r \in rows}
  <2>1. numbers \in SUBSET Nat /\ numbers # {} /\ \A i \in numbers : i <= n
    BY <1>2
  <2> HIDE DEF numbers
  <2>2. PICK i \in numbers : \A j \in numbers : j <= i
    BY <2>1, GreatestNat
  <2>3. Max(numbers) = i
    BY <2>1, <2>2, MaxIsGreatest
  <2>4. NextId(rows) = i + 1
    BY <1>2, <2>3 DEF NextId, numbers
  <2>5. \A r \in rows : r.id <= i
    BY <2>2 DEF numbers
  <2> QED
    BY <2>1, <2>2, <2>4, <2>5
<1> QED
  BY <1>1, <1>2

-----------------------------------------------------------------------------
(* Types are kept.                                                          *)
LEMMA SentIsWritten ==
  ASSUME NEW request \in Requests, NEW field \in DOMAIN request
  PROVE  request[field] \in Written
<1>1. {request[g] : g \in DOMAIN request} \in {{r[g] : g \in DOMAIN r} : r \in Requests}
  OBVIOUS
<1>2. request[field] \in {request[g] : g \in DOMAIN request}
  OBVIOUS
<1>3. request[field] \in UNION {{r[g] : g \in DOMAIN r} : r \in Requests}
  BY <1>1, <1>2, Zenon
<1> QED
  BY <1>3, Zenon DEF Written

LEMMA SentHazards ==
  ASSUME NEW request \in Requests, "hazards" \in DOMAIN request
  PROVE  request["hazards"] \in SUBSET Hazards
<1>1. request["hazards"] \in {r["hazards"] : r \in {q \in Requests : "hazards" \in DOMAIN q}}
  OBVIOUS
<1> QED
  BY <1>1, Zenon DEF Hazards

(* A merge takes each field from the request or leaves it, and synchronises *)
(* the columns of hazards.                                                  *)
LEMMA Merged ==
  ASSUME NEW r \in Record, NEW request \in Requests
  PROVE  LET merged == MergeFile(r, request)
             sent == IF "hazards" \in DOMAIN request THEN request["hazards"] ELSE r["hazards"]
         IN  /\ merged \in [Fields \cup Columns \cup {"hash"} -> Written \cup SUBSET Hazards]
             /\ \A field \in Fields \cup {"hash"} :
                  merged[field] = IF Sent(request, field) THEN request[field] ELSE r[field]
             /\ \A field \in Fields \cup {"hash"} : merged[field] \in Written
             /\ \A column \in Columns : merged[column] = sent \cup r["rangedHazards"]
             /\ sent \cup r["rangedHazards"] \in SUBSET Hazards
<1> DEFINE sent == IF "hazards" \in DOMAIN request THEN request["hazards"] ELSE r["hazards"]
           synced == AutoSyncHazardsColumns(sent, r["rangedHazards"])
           merged == MergeFile(r, request)
<1>1. \A field \in DOMAIN request : request[field] \in Written
  BY SentIsWritten
<1>2. sent \in SUBSET Hazards /\ r["rangedHazards"] \in SUBSET Hazards
  BY SentHazards DEF Record, Columns
<1>3. \A column \in Columns : synced[column] = sent \cup r["rangedHazards"]
  <2> HIDE DEF sent
  <2> QED
    BY DEF AutoSyncHazardsColumns
<1>4. DOMAIN r = Fields \cup Columns \cup {"hash"} /\ \A field \in Fields \cup {"hash"} : r[field] \in Written
  BY DEF Record
<1>5. (Fields \cup {"hash"}) \cap Columns = {}
  BY DEF Fields, Texts, Lists, Columns
<1>6. merged = [f \in DOMAIN r |-> IF f \in Columns THEN synced[f]
                                  ELSE IF Sent(request, f) THEN request[f] ELSE r[f]]
  BY DEF MergeFile
<1> HIDE DEF sent, synced, merged, Written, Hazards
<1>7. \A field \in Fields \cup {"hash"} :
        /\ merged[field] = IF Sent(request, field) THEN request[field] ELSE r[field]
        /\ merged[field] \in Written
  BY <1>1, <1>4, <1>5, <1>6 DEF Sent
<1>8. \A column \in Columns : merged[column] = sent \cup r["rangedHazards"]
  BY <1>3, <1>4, <1>6
<1>9. merged \in [Fields \cup Columns \cup {"hash"} -> Written \cup SUBSET Hazards]
  <2>1. \A f \in Fields \cup Columns \cup {"hash"} : merged[f] \in Written \cup SUBSET Hazards
    BY <1>2, <1>7, <1>8
  <2> QED
    BY <1>4, <1>6, <2>1
<1> QED
  BY <1>2, <1>7, <1>8, <1>9 DEF sent, merged

LEMMA MergedIsRecord ==
  ASSUME NEW r \in Record, NEW request \in Requests
  PROVE  MergeFile(r, request) \in Record
<1> DEFINE sent == IF "hazards" \in DOMAIN request THEN request["hazards"] ELSE r["hazards"]
           merged == MergeFile(r, request)
<1>1. /\ merged \in [Fields \cup Columns \cup {"hash"} -> Written \cup SUBSET Hazards]
      /\ \A field \in Fields \cup {"hash"} : merged[field] \in Written
      /\ \A column \in Columns : merged[column] = sent \cup r["rangedHazards"]
      /\ sent \cup r["rangedHazards"] \in SUBSET Hazards
  BY Merged
<1> HIDE DEF sent, merged, Written, Hazards
<1>2. merged \in Record
  BY <1>1 DEF Record
<1> QED
  BY <1>2 DEF merged

LEMMA NewEntryIsEntry ==
  ASSUME TypeOK, Numbered, NEW f \in Files, NEW r \in Record, NEW request \in Requests
  PROVE  /\ NewEntry(f, r, request) \in Entry
         /\ NewEntry(f, r, request).id = NextId(entries)
         /\ NewEntry(f, r, request).file_path = f
         /\ NewEntry(f, r, request).created_at = second
         /\ NewEntry(f, r, request).content = disk[f]
         /\ NextId(entries) \in Nat \ {0}
         /\ \A e \in entries : e.id < NextId(entries)
<1>1. NextId(entries) \in Nat \ {0} /\ \A e \in entries : e.id < NextId(entries)
  <2>1. \A e \in entries : e.id \in Nat
    BY DEF TypeOK, Entry
  <2>2. PICK n \in Nat : \A e \in entries : e.id <= n
    BY DEF Numbered
  <2> QED
    BY <2>1, <2>2, NextIdIsNew
<1>2. r.cluster \in Written
  BY DEF Record, Fields, Texts
<1>3. "author" \in DOMAIN request => request.author \in Written
  BY SentIsWritten
<1>4. disk[f] \in Contents /\ second \in Nat
  BY DEF TypeOK
<1> HIDE DEF Written, NextId
<1> QED
  BY <1>1, <1>2, <1>3, <1>4 DEF NewEntry, Entry

LEMMA NewSnapshotIsSnapshot ==
  ASSUME TypeOK, Numbered, NEW c \in Callers, callers[c].status = "committed"
  PROVE  /\ NewSnapshot(callers[c]) \in Snapshot
         /\ NewSnapshot(callers[c]).file_path = callers[c].file
         /\ NewSnapshot(callers[c]).created_at = second
         /\ NewSnapshot(callers[c]).content = callers[c].content
         /\ NewSnapshot(callers[c]).changelog_id = callers[c].entry
         /\ NewSnapshot(callers[c]).id = NextId(snapshots)
         /\ NextId(snapshots) \in Nat \ {0}
         /\ \A s \in snapshots : s.id < NextId(snapshots)
<1>1. NextId(snapshots) \in Nat \ {0} /\ \A s \in snapshots : s.id < NextId(snapshots)
  <2>1. \A s \in snapshots : s.id \in Nat
    BY DEF TypeOK, Snapshot
  <2>2. PICK n \in Nat : \A s \in snapshots : s.id <= n
    BY DEF Numbered
  <2> QED
    BY <2>1, <2>2, NextIdIsNew
<1>2. callers[c] \in CommittedCall
  BY DEF TypeOK, LookedCall, NoCall
<1>3. second \in Nat
  BY DEF TypeOK
<1> HIDE DEF NextId
<1> QED
  BY <1>1, <1>2, <1>3 DEF NewSnapshot, Snapshot, CommittedCall

(* What a change of some columns of the entries leaves alone.               *)
Recolumned(old, new) ==
  \E row \in [old -> Entry] :
    /\ new = {row[e] : e \in old}
    /\ \A e \in old : /\ row[e].id = e.id /\ row[e].file_path = e.file_path
                      /\ row[e].created_at = e.created_at /\ row[e].content = e.content

LEMMA StampRecolumns ==
  ASSUME TypeOK, NEW f \in Files, Stamp(f)
  PROVE  Recolumned(entries, entries')
<1> DEFINE RowOf(e) == IF e.file_path = f /\ e.commit_sha = <<>> THEN [e EXCEPT !.commit_sha = disk[f]] ELSE e
<1>1. entries' = {RowOf(e) : e \in entries}
  BY DEF Stamp
<1>2. ASSUME NEW e \in Entry
      PROVE  /\ RowOf(e) \in Entry
             /\ RowOf(e).id = e.id /\ RowOf(e).file_path = e.file_path /\ RowOf(e).created_at = e.created_at /\ RowOf(e).content = e.content
  BY DEF Entry, TypeOK
<1>3. entries \in SUBSET Entry
  BY DEF TypeOK
<1> DEFINE row == [e \in entries |-> RowOf(e)]
<1> HIDE DEF RowOf
<1>4. row \in [entries -> Entry]
  BY <1>2, <1>3
<1>5. entries' = {row[e] : e \in entries}
  BY <1>1
<1>6. \A e \in entries : /\ row[e].id = e.id /\ row[e].file_path = e.file_path
                         /\ row[e].created_at = e.created_at /\ row[e].content = e.content
  BY <1>2, <1>3
<1> HIDE DEF row
<1> QED
  BY <1>4, <1>5, <1>6 DEF Recolumned

LEMMA VerifyRecolumns ==
  ASSUME TypeOK, NEW f \in Files, Verify(f, 1, "verified")
  PROVE  Recolumned(entries, entries')
<1> DEFINE RowOf(e) == IF e.file_path = f /\ Cardinality({d \in entries : d.file_path = f /\ d.id > e.id}) < 1
                     THEN [e EXCEPT !.verification_status = "verified"] ELSE e
<1>1. entries' = {RowOf(e) : e \in entries}
  BY DEF Verify
<1>2. ASSUME NEW e \in Entry
      PROVE  /\ RowOf(e) \in Entry
             /\ RowOf(e).id = e.id /\ RowOf(e).file_path = e.file_path /\ RowOf(e).created_at = e.created_at /\ RowOf(e).content = e.content
  BY DEF Entry
<1>3. entries \in SUBSET Entry
  BY DEF TypeOK
<1> DEFINE row == [e \in entries |-> RowOf(e)]
<1> HIDE DEF RowOf
<1>4. row \in [entries -> Entry]
  BY <1>2, <1>3
<1>5. entries' = {row[e] : e \in entries}
  BY <1>1
<1>6. \A e \in entries : /\ row[e].id = e.id /\ row[e].file_path = e.file_path
                         /\ row[e].created_at = e.created_at /\ row[e].content = e.content
  BY <1>2, <1>3
<1> HIDE DEF row
<1> QED
  BY <1>4, <1>5, <1>6 DEF Recolumned

LEMMA BackfillRecolumns ==
  ASSUME TypeOK, NEW i, Backfill({i}, "someone")
  PROVE  Recolumned(entries, entries')
<1> DEFINE RowOf(e) == IF e.id \in {i} /\ e.author_name = "none" THEN [e EXCEPT !.author_name = "someone"] ELSE e
<1>1. entries' = {RowOf(e) : e \in entries}
  BY DEF Backfill
<1>2. ASSUME NEW e \in Entry
      PROVE  /\ RowOf(e) \in Entry
             /\ RowOf(e).id = e.id /\ RowOf(e).file_path = e.file_path /\ RowOf(e).created_at = e.created_at /\ RowOf(e).content = e.content
  BY DEF Entry
<1>3. entries \in SUBSET Entry
  BY DEF TypeOK
<1> DEFINE row == [e \in entries |-> RowOf(e)]
<1> HIDE DEF RowOf
<1>4. row \in [entries -> Entry]
  BY <1>2, <1>3
<1>5. entries' = {row[e] : e \in entries}
  BY <1>1
<1>6. \A e \in entries : /\ row[e].id = e.id /\ row[e].file_path = e.file_path
                         /\ row[e].created_at = e.created_at /\ row[e].content = e.content
  BY <1>2, <1>3
<1> HIDE DEF row
<1> QED
  BY <1>4, <1>5, <1>6 DEF Recolumned

(* A commit that is not refused.                                            *)
Accepted(c, request) ==
  LET call == callers[c]
      merged == MergeFile(records[call.file], request)
  IN  /\ ~Conflicts(call) /\ ~Incomplete(merged)
      /\ entries' = entries \cup {NewEntry(call.file, merged, request)}
      /\ records' = [records EXCEPT ![call.file] = merged]
      /\ callers' = [callers EXCEPT ![c] =
           [status |-> "committed", file |-> call.file, seen |-> call.seen, expected |-> call.expected,
            sent |-> request, entry |-> NextId(entries), content |-> disk[call.file]]]
      /\ hasty' = IF Awaited(call.file) \/ \E e \in entries : e.file_path = call.file /\ e.created_at = second
                  THEN hasty \cup {call.file} ELSE hasty
      /\ UNCHANGED <<second, disk, snapshots>>

LEMMA CommitOrRefuse ==
  ASSUME TypeOK, NEW c \in Callers, NEW request \in Requests, Commit(c, request)
  PROVE  /\ callers[c] \in LookedCall
         /\ \/ Accepted(c, request)
            \/ callers' = [callers EXCEPT ![c] = NoCall] /\ UNCHANGED <<second, disk, records, entries, snapshots, hasty>>
<1>1. callers[c] \in LookedCall
  BY DEF TypeOK, Commit, NoCall, LookedCall, CommittedCall
<1> QED
  BY <1>1, Zenon DEF Commit, Accepted

LEMMA AcceptedRows ==
  ASSUME TypeOK, Numbered, NEW c \in Callers, NEW request \in Requests, callers[c] \in LookedCall, Accepted(c, request)
  PROVE  LET f == callers[c].file
             e == NewEntry(f, MergeFile(records[f], request), request)
         IN  /\ f \in Files /\ disk[f] \in Contents
             /\ MergeFile(records[f], request) \in Record
             /\ entries' = entries \cup {e}
             /\ e \in Entry /\ e.id = NextId(entries) /\ e.file_path = f /\ e.created_at = second /\ e.content = disk[f]
             /\ NextId(entries) \in Nat \ {0}
             /\ \A d \in entries : d.id < NextId(entries)
<1>1. callers[c].file \in Files
  BY DEF LookedCall
<1>2. records[callers[c].file] \in Record /\ disk[callers[c].file] \in Contents
  BY <1>1 DEF TypeOK
<1>3. MergeFile(records[callers[c].file], request) \in Record
  BY <1>2, MergedIsRecord
<1> QED
  BY <1>1, <1>2, <1>3, NewEntryIsEntry DEF Accepted

LEMMA NoRecordIsRecord == NoRecord \in Record
<1>1. {<<>>, ""} \subseteq Written /\ {} \in SUBSET Hazards
  BY DEF Written
<1> HIDE DEF Written, Hazards
<1> QED
  BY <1>1 DEF NoRecord, Record, Columns, Fields, Texts, Lists

LEMMA TypeInit == Init => TypeOK
<1> SUFFICES ASSUME Init PROVE TypeOK
  OBVIOUS
<1>1. NoRecord \in Record
  BY NoRecordIsRecord
<1> HIDE DEF Record
<1>2. IsFiniteSet({})
  BY FS_EmptySet
<1> QED
  BY <1>1, <1>2 DEF Init, TypeOK

LEMMA TypeStep ==
  ASSUME TypeOK, Numbered, Next
  PROVE  TypeOK'
<1>1. CASE Tick
  BY <1>1 DEF Tick, TypeOK
<1>2. ASSUME NEW f \in Files, NEW content \in Contents, Edit(f, content) PROVE TypeOK'
  BY <1>2 DEF Edit, TypeOK
<1>3. ASSUME NEW f \in Files, Scan(f) PROVE TypeOK'
  <2>1. disk[f] \in Written
    BY DEF TypeOK, Written
  <2>2. [records[f] EXCEPT !["hash"] = disk[f]] \in Record
    <3>1. records[f] \in Record
      BY DEF TypeOK
    <3>2. "hash" \notin Columns
      BY DEF Columns
    <3> HIDE DEF Written, Hazards
    <3> QED
      BY <2>1, <3>1, <3>2 DEF Record
  <2>3. records' \in [Files -> Record]
    BY <1>3, <2>2 DEF Scan, TypeOK
  <2> QED
    BY <1>3, <2>3 DEF Scan, TypeOK
<1>4. ASSUME NEW f \in Files, Delete(f) PROVE TypeOK'
  <2>1. NoRecord \in Record
    BY NoRecordIsRecord
  <2> QED
    BY <1>4, <2>1 DEF Delete, TypeOK
<1>5. ASSUME NEW f \in Files, Prune(f) PROVE TypeOK'
  <2>1. snapshots' \in SUBSET snapshots
    BY <1>5 DEF Prune
  <2>2. IsFiniteSet(snapshots')
    BY <2>1, FS_Subset DEF TypeOK
  <2> QED
    BY <1>5, <2>1, <2>2 DEF Prune, TypeOK
<1>6. ASSUME Recolumned(entries, entries'), UNCHANGED <<second, disk, records, snapshots, callers, hasty>>
      PROVE  TypeOK'
  BY <1>6 DEF Recolumned, TypeOK
<1>7. ASSUME NEW c \in Callers, NEW f \in Files, Look(c, f) PROVE TypeOK'
  <2>1. PICK expected \in {RecordVersion(records[f]), AnyVersion} :
          callers' = [callers EXCEPT ![c] = [status |-> "looked", file |-> f, seen |-> records[f], expected |-> expected]]
    BY <1>7 DEF Look
  <2>2. [status |-> "looked", file |-> f, seen |-> records[f], expected |-> expected] \in LookedCall
    BY DEF LookedCall, TypeOK, RecordVersion
  <2> QED
    BY <1>7, <2>1, <2>2 DEF Look, TypeOK
<1>8. ASSUME NEW c \in Callers, NEW request \in Requests, Commit(c, request) PROVE TypeOK'
  <2>1. CASE callers' = [callers EXCEPT ![c] = NoCall] /\ UNCHANGED <<second, disk, records, entries, snapshots, hasty>>
    BY <2>1 DEF TypeOK
  <2>2. CASE Accepted(c, request)
    <3>1. callers[c] \in LookedCall
      BY <1>8, CommitOrRefuse
    <3> DEFINE f == callers[c].file
               merged == MergeFile(records[f], request)
               call == [status |-> "committed", file |-> f, seen |-> callers[c].seen, expected |-> callers[c].expected,
                        sent |-> request, entry |-> NextId(entries), content |-> disk[f]]
    <3>2. f \in Files /\ merged \in Record /\ NewEntry(f, merged, request) \in Entry
          /\ NextId(entries) \in Nat \ {0} /\ disk[f] \in Contents
      BY <2>2, <3>1, AcceptedRows
    <3>3. call \in CommittedCall
      BY <3>1, <3>2 DEF CommittedCall, LookedCall
    <3>4. hasty' \in SUBSET Files
      BY <2>2, <3>2 DEF Accepted, TypeOK
    <3> HIDE DEF call, merged
    <3>5. entries' = entries \cup {NewEntry(f, merged, request)} /\ records' = [records EXCEPT ![f] = merged]
          /\ callers' = [callers EXCEPT ![c] = call] /\ UNCHANGED <<second, disk, snapshots>>
      BY <2>2 DEF Accepted, call, merged
    <3> QED
      BY <3>2, <3>3, <3>4, <3>5 DEF TypeOK
  <2> QED
    BY <1>8, <2>1, <2>2, CommitOrRefuse
<1>9. ASSUME NEW c \in Callers, InsertSnapshot(c) PROVE TypeOK'
  <2>1. callers[c] \in CommittedCall
    BY <1>9 DEF TypeOK, InsertSnapshot, NoCall, LookedCall
  <2>2. NewSnapshot(callers[c]) \in Snapshot
    BY <1>9, NewSnapshotIsSnapshot DEF InsertSnapshot
  <2>3. IsFiniteSet(snapshots \cup {NewSnapshot(callers[c])})
    BY FS_AddElement DEF TypeOK
  <2>4. hasty' \in SUBSET Files
    BY <1>9, <2>1 DEF InsertSnapshot, TypeOK, CommittedCall
  <2>5. snapshots' \in {snapshots, snapshots \cup {NewSnapshot(callers[c])}}
    BY <1>9 DEF InsertSnapshot
  <2>6. callers' = [callers EXCEPT ![c] = NoCall] /\ UNCHANGED <<second, disk, records, entries>>
    BY <1>9 DEF InsertSnapshot
  <2> QED
    BY <2>2, <2>3, <2>4, <2>5, <2>6 DEF TypeOK
<1>10. ASSUME NEW c \in Callers, Leave(c) PROVE TypeOK'
  <2>1. hasty' \in SUBSET Files
    BY <1>10 DEF Leave, TypeOK, CommittedCall, LookedCall, NoCall
  <2> QED
    BY <1>10, <2>1 DEF Leave, TypeOK
<1>11. ASSUME NEW f \in Files, Stamp(f) PROVE TypeOK'
  BY <1>6, <1>11, StampRecolumns DEF Stamp
<1>12. ASSUME NEW f \in Files, Verify(f, 1, "verified") PROVE TypeOK'
  BY <1>6, <1>12, VerifyRecolumns DEF Verify
<1>13. ASSUME NEW e \in entries, Backfill({e.id}, "someone") PROVE TypeOK'
  BY <1>6, <1>13, BackfillRecolumns DEF Backfill
<1> QED
  BY <1>1, <1>2, <1>3, <1>4, <1>5, <1>7, <1>8, <1>9, <1>10, <1>11, <1>12, <1>13 DEF Next

-----------------------------------------------------------------------------
(* The invariant is kept: by the steps that change nothing it speaks of,    *)
(* and by each of the others.                                               *)
CallersQuiet ==
  \A c \in Callers : /\ callers'[c].status = "committed" <=> callers[c].status = "committed"
                     /\ callers[c].status = "committed" => callers'[c] = callers[c]

LEMMA QuietStep ==
  ASSUME TypeOK, TypeOK', Faithful, UNCHANGED <<entries, snapshots, hasty>>, CallersQuiet,
         second' = second \/ second' = second + 1
  PROVE  Faithful'
<1>1. Numbered'
  BY DEF Faithful, Numbered, TypeOK, Entry, Snapshot
<1>2. Founded'
  BY DEF Faithful, Founded, CallersQuiet, EntriesOf
<1>3. \A c \in Callers, f \in Files : Committed(c, f)' <=> Committed(c, f)
  BY DEF CallersQuiet, Committed
<1>4. \A c \in Callers : callers'[c].status = "committed" => callers'[c] = callers[c]
  BY DEF CallersQuiet
<1>5. ASSUME NEW f \in Files \ hasty' PROVE Paced(f)'
  <2>1. Paced(f) /\ EntriesOf(f)' = EntriesOf(f) /\ SnapshotsOf(f)' = SnapshotsOf(f)
    BY <1>5 DEF Faithful, EntriesOf, SnapshotsOf
  <2> QED
    BY <2>1, <1>3, <1>4 DEF Paced, Committed
<1>6. ASSUME NEW f \in Files \ hasty' PROVE Remembered(f)'
  <2>1. Remembered(f) /\ EntriesOf(f)' = EntriesOf(f) /\ SnapshotsOf(f)' = SnapshotsOf(f)
    BY <1>6 DEF Faithful, EntriesOf, SnapshotsOf
  <2> QED
    BY <2>1, <1>3, <1>4 DEF Remembered, IsNearest, Committed
<1> QED
  BY <1>1, <1>2, <1>5, <1>6 DEF Faithful

LEMMA RecolumnStep ==
  ASSUME TypeOK, TypeOK', Faithful, Recolumned(entries, entries'), UNCHANGED <<second, snapshots, callers, hasty>>
  PROVE  Faithful'
<1>1. PICK row \in [entries -> Entry] :
        /\ entries' = {row[e] : e \in entries}
        /\ \A e \in entries : /\ row[e].id = e.id /\ row[e].file_path = e.file_path
                              /\ row[e].created_at = e.created_at /\ row[e].content = e.content
  BY DEF Recolumned
<1>2. Numbered'
  <2>1. \E n \in Nat : \A e \in entries' : e.id <= n
    BY <1>1 DEF Faithful, Numbered
  <2>2. \A e, d \in entries' : e.id = d.id => e = d
    BY <1>1 DEF Faithful, Numbered
  <2>3. \A e, d \in entries' : e.id < d.id => e.created_at <= d.created_at
    BY <1>1 DEF Faithful, Numbered
  <2>4. \A e \in entries' : e.created_at <= second
    BY <1>1 DEF Faithful, Numbered
  <2> QED
    BY <2>1, <2>2, <2>3, <2>4 DEF Faithful, Numbered
<1>3. ASSUME NEW f, NEW e \in EntriesOf(f) PROVE row[e] \in EntriesOf(f)'
  BY <1>1, <1>3 DEF EntriesOf
<1>4. Founded'
  <2>1. \A s \in snapshots : \E e \in EntriesOf(s.file_path)' : e.id = s.changelog_id /\ e.content = s.content
    BY <1>1, <1>3 DEF Faithful, Founded, EntriesOf
  <2>2. \A c \in Callers : callers[c].status = "committed" =>
          \E e \in EntriesOf(callers[c].file)' : e.id = callers[c].entry /\ e.content = callers[c].content
    BY <1>1, <1>3 DEF Faithful, Founded, EntriesOf
  <2> QED
    BY <2>1, <2>2 DEF Founded, EntriesOf
<1>5. ASSUME NEW f, NEW d \in EntriesOf(f)'
      PROVE  \E e \in EntriesOf(f) : d = row[e] /\ d.id = e.id /\ d.created_at = e.created_at /\ d.content = e.content
  BY <1>1, <1>5 DEF EntriesOf
<1>6. ASSUME NEW f \in Files \ hasty' PROVE Paced(f)' /\ Remembered(f)'
  <2>1. Paced(f) /\ Remembered(f) /\ SnapshotsOf(f)' = SnapshotsOf(f)
    BY <1>6 DEF Faithful, SnapshotsOf
  <2>2. \A e, d \in EntriesOf(f)' : e.created_at = d.created_at => e = d
    BY <2>1, <1>5 DEF Paced
  <2>3. \A c \in Callers : Committed(c, f) => \A e \in EntriesOf(f)' : e.id <= callers[c].entry
    BY <2>1, <1>5 DEF Paced
  <2>4. Paced(f)'
    BY <2>1, <2>2, <2>3 DEF Paced, Committed
  <2>5. Remembered(f)'
    BY <2>1, <1>5 DEF Remembered, IsNearest, Committed
  <2> QED
    BY <2>4, <2>5
<1> QED
  BY <1>2, <1>4, <1>6 DEF Faithful

(* A caller that leaves without its turn makes its file hasty.              *)
LEMMA LeaveStep ==
  ASSUME TypeOK, TypeOK', Faithful, NEW c \in Callers, Leave(c)
  PROVE  Faithful'
<1>1. UNCHANGED <<second, entries, snapshots>> /\ callers' = [callers EXCEPT ![c] = NoCall]
  BY DEF Leave
<1>2. \A d \in Callers : callers'[d].status = "committed" => d # c /\ callers'[d] = callers[d]
  BY <1>1 DEF TypeOK, NoCall
<1>3. Numbered' /\ Founded'
  BY <1>1, <1>2 DEF Faithful, Numbered, Founded, EntriesOf
<1>4. ASSUME NEW f \in Files \ hasty' PROVE Paced(f)' /\ Remembered(f)'
  <2>1. f \notin hasty /\ ~Committed(c, f)
    BY <1>4 DEF Leave, Committed
  <2>2. Paced(f) /\ Remembered(f) /\ EntriesOf(f)' = EntriesOf(f) /\ SnapshotsOf(f)' = SnapshotsOf(f)
    BY <2>1, <1>1 DEF Faithful, EntriesOf, SnapshotsOf
  <2>3. \A d \in Callers : Committed(d, f) <=> Committed(d, f)'
    BY <2>1, <1>1, <1>2 DEF Committed, TypeOK
  <2>4. \A d \in Callers : Committed(d, f) => callers'[d] = callers[d]
    BY <2>3, <1>2 DEF Committed
  <2>5. Paced(f)'
    BY <2>2, <2>3, <2>4 DEF Paced
  <2>6. Remembered(f)'
    BY <2>2, <2>3, <2>4 DEF Remembered, IsNearest
  <2> QED
    BY <2>5, <2>6
<1> QED
  BY <1>3, <1>4 DEF Faithful

(* A pruning keeps every snapshot that is newer than one it keeps.          *)
LEMMA PruneKeepsNewer ==
  ASSUME TypeOK, NEW f \in Files, Prune(f), NEW s \in SnapshotsOf(f)', NEW t \in SnapshotsOf(f), NewestFirst(t, s)
  PROVE  t \in SnapshotsOf(f)'
<1> DEFINE newer(r) == {q \in SnapshotsOf(f) : NewestFirst(q, r)}
<1>1. snapshots' = {r \in snapshots : r.file_path = f => Cardinality(newer(r)) < Keep}
  BY DEF Prune
<1>2. s \in snapshots /\ s.file_path = f /\ Cardinality(newer(s)) < Keep /\ t \in snapshots /\ t.file_path = f
  BY <1>1 DEF SnapshotsOf
<1>3. newer(t) \in SUBSET newer(s)
  BY <1>2 DEF NewestFirst, SnapshotsOf, TypeOK, Snapshot
<1>4. IsFiniteSet(SnapshotsOf(f))
  <2>1. SnapshotsOf(f) \in SUBSET snapshots
    BY DEF SnapshotsOf
  <2> QED
    BY <2>1, FS_Subset DEF TypeOK
<1>5. IsFiniteSet(newer(s))
  <2>1. newer(s) \in SUBSET SnapshotsOf(f)
    OBVIOUS
  <2> QED
    BY <1>4, <2>1, FS_Subset
<1>6. IsFiniteSet(newer(t)) /\ Cardinality(newer(t)) <= Cardinality(newer(s))
  BY <1>3, <1>5, FS_Subset
<1>7. Cardinality(newer(t)) \in Nat /\ Cardinality(newer(s)) \in Nat
  BY <1>5, <1>6, FS_CardinalityType
<1>8. Cardinality(newer(t)) < Keep
  BY <1>2, <1>6, <1>7, KeepAssumption
<1> QED
  BY <1>1, <1>2, <1>8 DEF SnapshotsOf

LEMMA PruneStep ==
  ASSUME TypeOK, TypeOK', Faithful, NEW f \in Files, Prune(f)
  PROVE  Faithful'
<1>1. UNCHANGED <<second, entries, callers, hasty>> /\ snapshots' \in SUBSET snapshots
  BY DEF Prune
<1>2. Numbered' /\ Founded'
  BY <1>1 DEF Faithful, Numbered, Founded, EntriesOf
<1>3. ASSUME NEW g \in Files \ hasty' PROVE Paced(g)' /\ Remembered(g)'
  <2>1. Paced(g) /\ Remembered(g) /\ EntriesOf(g)' = EntriesOf(g) /\ SnapshotsOf(g)' \in SUBSET SnapshotsOf(g)
    BY <1>1, <1>3 DEF Faithful, EntriesOf, SnapshotsOf
  <2>2. Paced(g)'
    BY <2>1, <1>1 DEF Paced, Committed
  <2>3. ASSUME NEW e \in EntriesOf(g), NEW s \in SnapshotsOf(g)', IsNearest(s, g, e)' PROVE IsNearest(s, g, e)
    <3>1. ASSUME NEW t \in SnapshotsOf(g), t.changelog_id <= e.id, ~(t.changelog_id <= s.changelog_id) PROVE FALSE
      <4>1. s \in Snapshot /\ t \in Snapshot /\ s # t
        BY <2>1, <2>3, <3>1 DEF SnapshotsOf, TypeOK, Snapshot
      <4>2. NewestFirst(t, s)
        <5>1. s.created_at # t.created_at
          BY <2>1, <2>3, <3>1, <4>1 DEF Paced
        <5>2. ~(t.created_at < s.created_at)
          BY <2>1, <2>3, <3>1, <4>1 DEF Paced, Snapshot
        <5> QED
          BY <4>1, <5>1, <5>2 DEF NewestFirst, Snapshot
      <4>3. t \in SnapshotsOf(g)'
        <5>1. CASE g = f
          BY <5>1, <4>2, <2>3, <3>1, PruneKeepsNewer
        <5>2. CASE g # f
          BY <5>2, <3>1 DEF Prune, SnapshotsOf
        <5> QED
          BY <5>1, <5>2
      <4> QED
        BY <2>3, <3>1, <4>3 DEF IsNearest
    <3> QED
      BY <2>3, <3>1 DEF IsNearest
  <2>4. Remembered(g)'
    BY <2>1, <2>3, <1>1 DEF Remembered, Committed
  <2> QED
    BY <2>2, <2>4
<1> QED
  BY <1>2, <1>3 DEF Faithful

(* A commit that is accepted: of a file that stays paced nobody was         *)
(* awaited, and the entry is later than all others.                         *)
LEMMA AcceptStep ==
  ASSUME TypeOK, TypeOK', Faithful, NEW c \in Callers, NEW request \in Requests,
         callers[c] \in LookedCall, Accepted(c, request)
  PROVE  Faithful'
<1>0. PICK f \in Files : f = callers[c].file
  BY DEF LookedCall
<1> DEFINE n == NewEntry(f, MergeFile(records[f], request), request)
<1>1. /\ entries' = entries \cup {n}
      /\ n \in Entry /\ n.id = NextId(entries) /\ n.file_path = f /\ n.created_at = second /\ n.content = disk[f]
      /\ NextId(entries) \in Nat \ {0}
      /\ \A d \in entries : d.id < NextId(entries)
  BY <1>0, AcceptedRows DEF Faithful
<1> DEFINE call == [status |-> "committed", file |-> f, seen |-> callers[c].seen, expected |-> callers[c].expected,
                    sent |-> request, entry |-> NextId(entries), content |-> disk[f]]
<1>2. /\ UNCHANGED <<second, snapshots>> /\ callers' = [callers EXCEPT ![c] = call]
      /\ call.status = "committed" /\ call.file = f /\ call.entry = n.id /\ call.content = n.content
  BY <1>0, <1>1 DEF Accepted
<1>3. hasty' = IF Awaited(f) \/ \E e \in entries : e.file_path = f /\ e.created_at = second THEN hasty \cup {f} ELSE hasty
  BY <1>0 DEF Accepted
<1>4. PICK new \in Entry : new = n
  BY <1>1
<1>5. PICK made \in CommittedCall \cup {call} : made = call
  OBVIOUS
<1>6. /\ entries' = entries \cup {new} /\ new.file_path = f /\ new.created_at = second
      /\ callers' = [callers EXCEPT ![c] = made]
      /\ made.status = "committed" /\ made.file = f /\ made.entry = new.id /\ made.content = new.content
      /\ \A d \in entries : d.id < new.id
  BY <1>1, <1>2, <1>4, <1>5
<1> HIDE DEF n, call
<1>7. callers'[c] = made /\ \A d \in Callers \ {c} : callers'[d] = callers[d]
  BY <1>6 DEF TypeOK
<1>8. Numbered'
  <2>1. \A d \in entries' : d.id <= new.id
    BY <1>6, <1>4 DEF TypeOK, Entry
  <2>2. new.id \in Nat
    BY <1>4 DEF Entry
  <2>3. \A e, d \in entries' : e.id = d.id => e = d
    BY <1>6, <1>4 DEF Faithful, Numbered, TypeOK, Entry
  <2>4. \A e, d \in entries' : e.id < d.id => e.created_at <= d.created_at
    BY <1>6, <1>4 DEF Faithful, Numbered, TypeOK, Entry
  <2>5. \A e \in entries' : e.created_at <= second'
    BY <1>6, <1>2, <1>4 DEF Faithful, Numbered, TypeOK
  <2>6. snapshots' = snapshots /\ second' = second
    BY <1>2
  <2> QED
    BY <2>1, <2>2, <2>3, <2>4, <2>5, <2>6 DEF Faithful, Numbered
<1>9. \A g : EntriesOf(g)' = IF g = f THEN EntriesOf(g) \cup {new} ELSE EntriesOf(g)
  BY <1>6 DEF EntriesOf
<1>10. Founded'
  <2>1. \A s \in snapshots' : \E e \in EntriesOf(s.file_path)' : e.id = s.changelog_id /\ e.content = s.content
    BY <1>2, <1>9 DEF Faithful, Founded
  <2>2. \A d \in Callers : callers'[d].status = "committed" =>
          \E e \in entries' : e.file_path = callers'[d].file /\ e.id = callers'[d].entry /\ e.content = callers'[d].content
    BY <1>6, <1>7 DEF Faithful, Founded, EntriesOf
  <2> QED
    BY <2>1, <2>2 DEF Founded, EntriesOf
<1>11. ASSUME NEW g \in Files \ hasty' PROVE Paced(g)' /\ Remembered(g)'
  <2>1. Paced(g) /\ Remembered(g) /\ SnapshotsOf(g)' = SnapshotsOf(g)
    BY <1>2, <1>3, <1>11 DEF Faithful, SnapshotsOf
  <2>2. CASE g # f
    <3>1. EntriesOf(g)' = EntriesOf(g)
      BY <1>9, <2>2
    <3>2. \A d \in Callers : Committed(d, g)' <=> Committed(d, g)
      BY <1>6, <1>7, <2>2, <1>11 DEF Committed, LookedCall
    <3>3. \A d \in Callers : Committed(d, g) => callers'[d] = callers[d]
      BY <1>0, <1>7, <2>2 DEF Committed
    <3> QED
      BY <2>1, <3>1, <3>2, <3>3 DEF Paced, Remembered, IsNearest
  <2>3. CASE g = f
    <3>1. ~Awaited(f) /\ \A e \in EntriesOf(f) : e.created_at # second
      BY <1>3, <1>11, <2>3 DEF EntriesOf
    <3>2. \A d \in Callers : ~Committed(d, f)
      BY <3>1 DEF Awaited, Committed
    <3>3. \A d \in Callers : Committed(d, f)' <=> d = c
      BY <3>2, <1>6, <1>7 DEF Committed
    <3>4. EntriesOf(f)' = EntriesOf(f) \cup {new}
      BY <1>9
    <3>5. \A s \in SnapshotsOf(f) : s.changelog_id < new.id /\ s.changelog_id \in Nat
      BY <1>6 DEF Faithful, Founded, SnapshotsOf, EntriesOf, TypeOK, Snapshot
    <3>6. \A e \in EntriesOf(f) : e.id < new.id /\ e.created_at # new.created_at
      BY <1>6, <3>1 DEF EntriesOf
    <3>7. new.id \in Nat /\ \A e \in EntriesOf(f) : e.id \in Nat
      BY <1>4 DEF Entry, EntriesOf, TypeOK
    <3>8. \A e, d \in EntriesOf(f)' : e.created_at = d.created_at => e = d
      BY <2>1, <2>3, <3>4, <3>6 DEF Paced
    <3>9. \A e \in EntriesOf(f)' : e.id <= made.entry
      BY <1>6, <3>4, <3>6, <3>7
    <3>10. Paced(f)'
      BY <2>1, <2>3, <3>3, <3>5, <3>8, <3>9, <1>6, <1>7 DEF Paced
    <3>11. Remembered(f)'
      BY <2>1, <2>3, <3>2, <3>3, <3>4, <1>6, <1>7 DEF Remembered, IsNearest
    <3> QED
      BY <2>3, <3>10, <3>11
  <2> QED
    BY <2>2, <2>3
<1> QED
  BY <1>8, <1>10, <1>11 DEF Faithful

(* The newest snapshot of a paced file is the one of the last entry that    *)
(* has one.                                                                 *)
LEMMA NewestSnapshot ==
  ASSUME TypeOK, NEW f, Paced(f), NEW s \in SnapshotsOf(f),
         \A t \in SnapshotsOf(f) : t.changelog_id <= s.changelog_id
  PROVE  Newest(SnapshotsOf(f)) = s
<1>1. \A t \in SnapshotsOf(f) : t.created_at \in Nat /\ t.changelog_id \in Nat /\ t.id \in Nat
  BY DEF SnapshotsOf, TypeOK, Snapshot
<1>2. \A t \in SnapshotsOf(f) \ {s} : t.created_at < s.created_at
  BY <1>1 DEF Paced
<1>3. \A t \in SnapshotsOf(f) \ {s} : NewestFirst(s, t) /\ ~NewestFirst(t, s)
  BY <1>1, <1>2 DEF NewestFirst
<1> QED
  BY <1>3 DEF Newest

LEMMA SnapshotStep ==
  ASSUME TypeOK, TypeOK', Faithful, NEW c \in Callers, InsertSnapshot(c)
  PROVE  Faithful'
<1>1. callers[c] \in CommittedCall /\ callers[c].status = "committed" /\ callers[c].file \in Files
  BY DEF TypeOK, InsertSnapshot, NoCall, LookedCall, CommittedCall
<1> PICK f \in Files : f = callers[c].file
  BY <1>1
<1>2. PICK new \in Snapshot :
        /\ new = NewSnapshot(callers[c])
        /\ new.file_path = f /\ new.created_at = second /\ new.content = callers[c].content
        /\ new.changelog_id = callers[c].entry
        /\ \A s \in snapshots : s.id < new.id
  BY <1>1, NewSnapshotIsSnapshot DEF Faithful
<1>3. /\ snapshots' = IF Unchanged(f, callers[c].content) THEN snapshots ELSE snapshots \cup {new}
      /\ hasty' = IF snapshots' # snapshots /\ \E s \in SnapshotsOf(f) : s.created_at = second THEN hasty \cup {f} ELSE hasty
      /\ callers' = [callers EXCEPT ![c] = NoCall]
      /\ UNCHANGED <<second, entries>>
  BY <1>2 DEF InsertSnapshot
<1>4. \A d \in Callers : callers'[d].status = "committed" => d # c /\ callers'[d] = callers[d]
  BY <1>3 DEF TypeOK, NoCall
<1>5. PICK own \in EntriesOf(f) : own.id = callers[c].entry /\ own.content = callers[c].content
  BY <1>1 DEF Faithful, Founded
<1>6. Numbered'
  <2>1. \A s \in snapshots' : s.created_at <= second
    BY <1>2, <1>3 DEF Faithful, Numbered, Snapshot
  <2>2. \E k \in Nat : \A s \in snapshots' : s.id <= k
    <3>1. CASE snapshots' = snapshots
      BY <3>1 DEF Faithful, Numbered
    <3>2. CASE snapshots' = snapshots \cup {new}
      BY <3>2, <1>2, SMTT(30) DEF TypeOK, Snapshot
    <3> QED
      BY <3>1, <3>2, <1>3
  <2> QED
    BY <2>1, <2>2, <1>3 DEF Faithful, Numbered
<1>7. Founded'
  <2>1. \A s \in snapshots' : \E e \in EntriesOf(s.file_path) : e.id = s.changelog_id /\ e.content = s.content
    BY <1>2, <1>3, <1>5 DEF Faithful, Founded
  <2> QED
    BY <2>1, <1>3, <1>4 DEF Faithful, Founded, EntriesOf
<1>8. ASSUME NEW g \in Files \ hasty' PROVE Paced(g)' /\ Remembered(g)'
  <2>1. g \notin hasty /\ Paced(g) /\ Remembered(g) /\ EntriesOf(g)' = EntriesOf(g)
    BY <1>3, <1>8 DEF Faithful, EntriesOf
  <2>2. \A d \in Callers : Committed(d, g)' <=> Committed(d, g) /\ d # c
    BY <1>3, <1>4 DEF Committed, TypeOK
  <2>3. \A d \in Callers : Committed(d, g)' => callers'[d] = callers[d]
    BY <1>4 DEF Committed
  <2>4. CASE g # f
    <3>1. SnapshotsOf(g)' = SnapshotsOf(g)
      BY <1>2, <1>3, <2>4 DEF SnapshotsOf
    <3>2. ~Committed(c, g)
      BY <2>4 DEF Committed
    <3> QED
      BY <2>1, <2>2, <2>3, <3>1, <3>2 DEF Paced, Remembered, IsNearest
  <2>5. CASE g = f
    <3>1. Committed(c, f)
      BY <1>1 DEF Committed
    <3>2. \A d \in Callers : ~Committed(d, f)'
      BY <2>1, <2>2, <2>5, <3>1 DEF Paced
    <3>3. \A e \in EntriesOf(f) : e.id <= own.id /\ e.id \in Nat /\ (e.id = own.id => e = own)
      BY <2>1, <2>5, <3>1, <1>5 DEF Paced, TypeOK, Entry, EntriesOf, Faithful, Numbered
    <3>4. \A s \in SnapshotsOf(f) : s.changelog_id < own.id /\ s.changelog_id \in Nat /\ s.created_at \in Nat /\ s.created_at <= second
      BY <2>1, <2>5, <3>1, <1>5 DEF Paced, TypeOK, Snapshot, SnapshotsOf, Faithful, Numbered
    <3>5. \A e \in EntriesOf(f), s \in SnapshotsOf(f) : e # own /\ IsNearest(s, f, e) => s.content = e.content
      BY <2>1, <2>2, <2>5, <3>1, <1>5, <3>3 DEF Remembered, Paced, Committed
    <3>6. CASE snapshots' = snapshots
      <4>1. SnapshotsOf(f)' = SnapshotsOf(f)
        BY <3>6 DEF SnapshotsOf
      <4>2. Paced(f)'
        BY <2>1, <2>5, <3>2, <4>1 DEF Paced
      <4>3. Unchanged(f, callers[c].content)
        <5>1. new \notin snapshots
          BY <1>2 DEF Snapshot
        <5> QED
          BY <5>1, <1>3, <3>6
      <4>4. ASSUME NEW s \in SnapshotsOf(f), IsNearest(s, f, own) PROVE s.content = own.content
        <5>1. \A t \in SnapshotsOf(f) : t.changelog_id <= s.changelog_id
          BY <4>4, <3>4, <3>3 DEF IsNearest
        <5>2. Newest(SnapshotsOf(f)) = s
          BY <5>1, <2>1, <2>5, NewestSnapshot
        <5> QED
          BY <5>2, <4>3, <1>5 DEF Unchanged
      <4>5. Remembered(f)'
        BY <2>1, <2>5, <3>5, <4>1, <4>4 DEF Remembered, IsNearest
      <4> QED
        BY <2>5, <4>2, <4>5
    <3>7. CASE snapshots' = snapshots \cup {new}
      <4>1. SnapshotsOf(f)' = SnapshotsOf(f) \cup {new}
        BY <3>7, <1>2 DEF SnapshotsOf
      <4>2. snapshots' # snapshots
        BY <3>7, <1>2 DEF Snapshot
      <4>3. \A s \in SnapshotsOf(f) : s.created_at < new.created_at /\ s.changelog_id < new.changelog_id
        <5>1. \A s \in SnapshotsOf(f) : s.created_at # second
          BY <1>3, <1>8, <2>5, <4>2
        <5> QED
          BY <5>1, <3>4, <1>2, <1>5 DEF TypeOK
      <4>4. new.created_at \in Nat /\ new.changelog_id \in Nat
        BY <1>2 DEF Snapshot
      <4>5. \A s, t \in SnapshotsOf(f)' : s.created_at = t.created_at => s = t
        BY <2>1, <2>5, <4>1, <4>3, <4>4, <3>4 DEF Paced
      <4>6. \A s, t \in SnapshotsOf(f)' : s.created_at < t.created_at => s.changelog_id < t.changelog_id
        BY <2>1, <2>5, <4>1, <4>3, <4>4, <3>4 DEF Paced
      <4>7. Paced(f)'
        BY <2>1, <2>5, <3>2, <4>5, <4>6 DEF Paced
      <4>8. ASSUME NEW e \in EntriesOf(f), NEW s \in SnapshotsOf(f)', IsNearest(s, f, e)' PROVE s.content = e.content
        <5>1. CASE e = own
          <6>1. new.changelog_id <= e.id
            BY <5>1, <1>2, <1>5, <3>3
          <6>2. new.changelog_id <= s.changelog_id
            BY <4>8, <4>1, <6>1 DEF IsNearest
          <6>3. s = new
            BY <6>2, <4>1, <4>3, <4>4, <3>4
          <6> QED
            BY <6>3, <5>1, <1>2, <1>5
        <5>2. CASE e # own
          <6>1. ~(new.changelog_id <= e.id)
            BY <5>2, <3>3, <1>2, <1>5
          <6>2. s # new
            BY <6>1, <4>8 DEF IsNearest
          <6>3. s \in SnapshotsOf(f) /\ IsNearest(s, f, e)
            BY <6>2, <4>1, <4>8 DEF IsNearest
          <6> QED
            BY <6>3, <5>2, <3>5
        <5> QED
          BY <5>1, <5>2
      <4>9. Remembered(f)'
        BY <2>1, <2>5, <4>8 DEF Remembered
      <4> QED
        BY <2>5, <4>7, <4>9
    <3> QED
      BY <3>6, <3>7, <1>3
  <2> QED
    BY <2>4, <2>5
<1> QED
  BY <1>6, <1>7, <1>8 DEF Faithful

LEMMA FaithfulInit == Init => Faithful
<1> SUFFICES ASSUME Init PROVE Faithful
  OBVIOUS
<1>1. entries = {} /\ snapshots = {} /\ \A c \in Callers : callers[c].status # "committed"
  BY DEF Init, NoCall
<1> QED
  BY <1>1 DEF Faithful, Numbered, Founded, Paced, Remembered, EntriesOf, SnapshotsOf, Committed

LEMMA FaithfulStep ==
  ASSUME TypeOK, TypeOK', Faithful, Next
  PROVE  Faithful'
<1>1. CASE Tick
  BY <1>1, QuietStep DEF Tick, CallersQuiet
<1>2. ASSUME NEW f \in Files, NEW content \in Contents, Edit(f, content) PROVE Faithful'
  BY <1>2, QuietStep DEF Edit, CallersQuiet
<1>3. ASSUME NEW f \in Files, Scan(f) PROVE Faithful'
  BY <1>3, QuietStep DEF Scan, CallersQuiet
<1>4. ASSUME NEW f \in Files, Delete(f) PROVE Faithful'
  BY <1>4, QuietStep DEF Delete, CallersQuiet
<1>5. ASSUME NEW f \in Files, Prune(f) PROVE Faithful'
  BY <1>5, PruneStep
<1>6. ASSUME NEW f \in Files, Stamp(f) PROVE Faithful'
  BY <1>6, StampRecolumns, RecolumnStep DEF Stamp
<1>7. ASSUME NEW f \in Files, Verify(f, 1, "verified") PROVE Faithful'
  BY <1>7, VerifyRecolumns, RecolumnStep DEF Verify
<1>8. ASSUME NEW e \in entries, Backfill({e.id}, "someone") PROVE Faithful'
  BY <1>8, BackfillRecolumns, RecolumnStep DEF Backfill
<1>9. ASSUME NEW c \in Callers, NEW f \in Files, Look(c, f) PROVE Faithful'
  <2>1. CallersQuiet
    BY <1>9 DEF Look, CallersQuiet, TypeOK
  <2> QED
    BY <1>9, <2>1, QuietStep DEF Look
<1>10. ASSUME NEW c \in Callers, NEW request \in Requests, Commit(c, request) PROVE Faithful'
  <2>1. callers[c] \in LookedCall
    BY <1>10, CommitOrRefuse
  <2>2. CASE Accepted(c, request)
    BY <2>1, <2>2, AcceptStep
  <2>3. CASE callers' = [callers EXCEPT ![c] = NoCall] /\ UNCHANGED <<second, disk, records, entries, snapshots, hasty>>
    <3>1. CallersQuiet
      BY <2>1, <2>3 DEF CallersQuiet, TypeOK, LookedCall, NoCall
    <3> QED
      BY <2>3, <3>1, QuietStep
  <2> QED
    BY <1>10, <2>2, <2>3, CommitOrRefuse
<1>11. ASSUME NEW c \in Callers, InsertSnapshot(c) PROVE Faithful'
  BY <1>11, SnapshotStep
<1>12. ASSUME NEW c \in Callers, Leave(c) PROVE Faithful'
  BY <1>12, LeaveStep
<1> QED
  BY <1>1, <1>2, <1>3, <1>4, <1>5, <1>6, <1>7, <1>8, <1>9, <1>10, <1>11, <1>12 DEF Next

LEMMA StutterKeeps ==
  ASSUME TypeOK, Faithful, UNCHANGED historyVars
  PROVE  TypeOK' /\ Faithful'
<1>1. TypeOK'
  BY DEF historyVars, TypeOK
<1>2. CallersQuiet /\ UNCHANGED <<entries, snapshots, hasty>> /\ second' = second
  BY DEF historyVars, CallersQuiet
<1> QED
  BY <1>1, <1>2, QuietStep

LEMMA AlwaysFaithful == Spec => [](TypeOK /\ Faithful)
<1>1. Init => TypeOK /\ Faithful
  BY TypeInit, FaithfulInit
<1>2. TypeOK /\ Faithful /\ [Next]_historyVars => (TypeOK /\ Faithful)'
  <2>1. TypeOK /\ Faithful /\ Next => (TypeOK /\ Faithful)'
    BY TypeStep, FaithfulStep DEF Faithful
  <2> QED
    BY <2>1, StutterKeeps
<1> QED
  BY <1>1, <1>2, PTL DEF Spec

(* Every table holds rows of its schema, and a caller what it was told.     *)
THEOREM TypeCorrect == Spec => []TypeOK
  BY AlwaysFaithful, PTL

-----------------------------------------------------------------------------
(* What the endpoints answer while the invariant holds.                     *)
(* Among the entries of a paced file the newest is the one with the         *)
(* greatest id, and there is one.                                           *)
LEMMA NewestEntry ==
  ASSUME TypeOK, Numbered, NEW f, Paced(f), NEW rows \in SUBSET EntriesOf(f)
  PROVE  NewestOr(rows).id = LastOf(rows)
<1>1. \A e \in rows : e.id \in Nat /\ e.created_at \in Nat /\ e \in entries
  BY DEF EntriesOf, TypeOK, Entry
<1>2. CASE rows = {}
  BY <1>2 DEF NewestOr, LastOf, NoEntry
<1>3. CASE rows # {}
  <2> DEFINE numbers == {e.id : e \in rows}
  <2>1. numbers \in SUBSET Nat /\ numbers # {}
    BY <1>1, <1>3
  <2>2. PICK n \in Nat : \A i \in numbers : i <= n
    BY <1>1 DEF Numbered
  <2> HIDE DEF numbers
  <2>3. PICK i \in numbers : \A j \in numbers : j <= i
    BY <2>1, <2>2, GreatestNat
  <2>4. PICK e \in rows : i = e.id
    BY <2>3 DEF numbers
  <2>5. \A d \in rows : d.id <= e.id
    BY <2>3, <2>4 DEF numbers
  <2>6. \A d \in rows \ {e} : NewestFirst(e, d) /\ ~NewestFirst(d, e)
    <3>1. \A d \in rows \ {e} : d.id < e.id
      BY <1>1, <2>5 DEF Numbered
    <3>2. \A d \in rows \ {e} : d.created_at <= e.created_at /\ d.created_at # e.created_at
      BY <1>1, <3>1 DEF Numbered, Paced
    <3> QED
      BY <1>1, <3>2 DEF NewestFirst
  <2>7. Newest(rows) = e
    BY <2>6 DEF Newest
  <2>8. Max(numbers) = e.id
    BY <2>1, <2>3, <2>4, MaxIsGreatest
  <2> QED
    BY <1>3, <2>7, <2>8 DEF NewestOr, LastOf, numbers
<1> QED
  BY <1>2, <1>3

LEMMA FoundById ==
  ASSUME TypeOK, Numbered, NEW e \in entries
  PROVE  FindChangelogById(e.id) = e
<1>1. \A d \in entries : d.id = e.id => d = e
  BY DEF Numbered
<1> QED
  BY <1>1 DEF FindChangelogById

(* An entry's own snapshot is the only one that names it.                   *)
LEMMA LookedUp ==
  ASSUME TypeOK, NEW f, Paced(f), NEW id
  PROVE  /\ \A s \in SnapshotsOf(f) : s.changelog_id = id => LookupSnapshot(f, id) = [content |-> s.content]
         /\ (\A s \in SnapshotsOf(f) : s.changelog_id # id) => LookupSnapshot(f, id) = Failed
<1> DEFINE rows == {s \in SnapshotsOf(f) : s.changelog_id = id}
<1>1. ASSUME NEW s \in SnapshotsOf(f), s.changelog_id = id PROVE LookupSnapshot(f, id) = [content |-> s.content]
  <2>1. \A t \in SnapshotsOf(f) : t.created_at \in Nat /\ t.changelog_id \in Nat
    BY DEF SnapshotsOf, TypeOK, Snapshot
  <2>2. rows = {s}
    BY <1>1, <2>1 DEF Paced
  <2>3. Newest({s}) = s
    BY DEF Newest
  <2> QED
    BY <2>2, <2>3 DEF LookupSnapshot
<1>2. ASSUME \A s \in SnapshotsOf(f) : s.changelog_id # id PROVE LookupSnapshot(f, id) = Failed
  BY <1>2 DEF LookupSnapshot
<1> QED
  BY <1>1, <1>2

(* The nearest snapshot of an entry is that of the last entry, up to it,    *)
(* that has one.                                                            *)
LEMMA NearestFound ==
  ASSUME TypeOK, Faithful, NEW f \in Files, Paced(f), NEW e \in EntriesOf(f), ~IsError(FindNearestSnapshot(f, e))
  PROVE  \E s \in SnapshotsOf(f) : IsNearest(s, f, e) /\ FindNearestSnapshot(f, e) = [content |-> s.content]
<1> DEFINE Owner(s) == FindChangelogById(s.changelog_id)
           RowOf(s) == [id |-> s.id, changelog_id |-> s.changelog_id, content |-> s.content, created_at |-> Owner(s).created_at]
           near == {s \in SnapshotsOf(f) : Owner(s).file_path = f /\ Owner(s).created_at <= e.created_at}
<1>1. ASSUME NEW s \in SnapshotsOf(f)
      PROVE  /\ Owner(s) \in EntriesOf(f) /\ Owner(s).id = s.changelog_id /\ Owner(s).created_at \in Nat
             /\ s.changelog_id \in Nat /\ s.id \in Nat /\ Owner(s).file_path = f
  <2>1. PICK d \in EntriesOf(f) : d.id = s.changelog_id
    BY <1>1 DEF Faithful, Founded, SnapshotsOf
  <2>2. Owner(s) = d
    BY <2>1, FoundById DEF Faithful, EntriesOf
  <2> QED
    BY <1>1, <2>1, <2>2 DEF EntriesOf, TypeOK, Entry, Snapshot, SnapshotsOf
<1>2. e.id \in Nat /\ e.created_at \in Nat /\ e \in entries /\ \A d \in EntriesOf(f) : d.id \in Nat /\ d.created_at \in Nat /\ d \in entries
  BY DEF EntriesOf, TypeOK, Entry
<1>3. \A a, b \in EntriesOf(f) : a.created_at <= b.created_at <=> a.id <= b.id
  BY <1>2 DEF Faithful, Numbered, Paced
<1>4. \A s \in SnapshotsOf(f) : s \in near <=> s.changelog_id <= e.id
  <2>1. \A s \in SnapshotsOf(f) : Owner(s).created_at <= e.created_at <=> Owner(s).id <= e.id
    BY <1>1, <1>3
  <2> QED
    BY <1>1, <2>1
<1>5. Nearest(f, e) = {RowOf(s) : s \in near}
  BY DEF Nearest
<1>6. near # {}
  BY <1>5 DEF FindNearestSnapshot, IsError, Failed
<1> HIDE DEF near, Owner
<1>7. near \in SUBSET SnapshotsOf(f)
  BY DEF near
<1>8. PICK s \in near : \A t \in near : t.changelog_id <= s.changelog_id
  <2> DEFINE numbers == {t.changelog_id : t \in near}
  <2>1. numbers \in SUBSET Nat /\ numbers # {} /\ \A i \in numbers : i <= e.id
    BY <1>1, <1>4, <1>6, <1>7
  <2> HIDE DEF numbers
  <2>2. PICK i \in numbers : \A j \in numbers : j <= i
    BY <2>1, <1>2, GreatestNat
  <2> QED
    BY <2>2 DEF numbers
<1>9. s \in SnapshotsOf(f) /\ IsNearest(s, f, e)
  BY <1>4, <1>7, <1>8 DEF IsNearest
<1>10. \A t \in near \ {s} : NewestFirst(RowOf(s), RowOf(t)) /\ ~NewestFirst(RowOf(t), RowOf(s))
  <2>1. \A t \in near \ {s} : t.changelog_id # s.changelog_id
    <3>1. \A t \in SnapshotsOf(f) : t.created_at \in Nat
      BY DEF SnapshotsOf, TypeOK, Snapshot
    <3> QED
      BY <1>1, <1>7, <3>1 DEF Paced
  <2>2. \A t \in near \ {s} : t.changelog_id < s.changelog_id
    BY <1>1, <1>7, <1>8, <2>1
  <2>3. \A t \in near \ {s} : Owner(t).id < Owner(s).id /\ Owner(t) \in EntriesOf(f) /\ Owner(s) \in EntriesOf(f)
    BY <1>1, <1>7, <2>2
  <2>4. \A t \in near \ {s} : ~(Owner(s).created_at <= Owner(t).created_at)
    BY <1>2, <1>3, <2>3
  <2>5. \A t \in near \ {s} : Owner(t).created_at < Owner(s).created_at
    BY <1>1, <1>7, <2>4
  <2> QED
    BY <2>5, <1>1, <1>7 DEF NewestFirst
<1>11. Newest(Nearest(f, e)) = RowOf(s)
  <2>1. RowOf(s) \in Nearest(f, e)
    BY <1>5, <1>8
  <2>2. \A q \in Nearest(f, e) \ {RowOf(s)} : NewestFirst(RowOf(s), q) /\ ~NewestFirst(q, RowOf(s))
    BY <1>5, <1>10
  <2> HIDE DEF RowOf
  <2> QED
    BY <2>1, <2>2 DEF Newest
<1>12. FindNearestSnapshot(f, e) = LookupSnapshot(f, s.changelog_id)
  BY <1>5, <1>8, <1>11 DEF FindNearestSnapshot
<1> QED
  BY <1>9, <1>12, LookedUp

LEMMA EndpointsFaithful ==
  ASSUME TypeOK, Faithful
  PROVE  HistoryFaithful
<1> SUFFICES ASSUME NEW f \in Files \ hasty, ~Awaited(f)
             PROVE  /\ \A e \in EntriesOf(f) :
                         LET found == ResolveChangelogContent(f, e)
                         IN  ~IsError(found) => found.source = "git" \/ found.content = e.content
                    /\ FindLatestChangelog(f).id = LastOf(EntriesOf(f))
                    /\ \A e \in EntriesOf(f) :
                         /\ FindPrevChangelog(f, e.id).id = LastOf({d \in EntriesOf(f) : d.id < e.id})
                         /\ FindChangelogByTimestamp(f, [form |-> "spaced", at |-> e.created_at]).id = e.id
  BY DEF HistoryFaithful
<1>1. Paced(f) /\ Remembered(f) /\ Numbered
  BY DEF Faithful
<1>2. \A e \in EntriesOf(f) : e \in entries /\ e.file_path = f /\ e.id \in Nat \ {0} /\ e.created_at \in Nat
  BY DEF EntriesOf, TypeOK, Entry
<1>3. \A e \in EntriesOf(f), s \in SnapshotsOf(f) : IsNearest(s, f, e) => s.content = e.content
  BY <1>1 DEF Remembered, Awaited, Committed
<1>4. ASSUME NEW e \in EntriesOf(f), ~IsError(ResolveChangelogContent(f, e))
      PROVE  ResolveChangelogContent(f, e).source = "git" \/ ResolveChangelogContent(f, e).content = e.content
  <2> DEFINE exact == LookupSnapshot(f, e.id)
             nearest == FindNearestSnapshot(f, e)
             git == ReconstructFromGit(e)
             Answer(found, source) == [content |-> found.content, id |-> e.id, source |-> source]
  <2>1. e # NoEntry /\ e.file_path = f
    BY <1>2 DEF NoEntry
  <2>2. CASE ~IsError(exact)
    <3>1. PICK s \in SnapshotsOf(f) : s.changelog_id = e.id
      BY <1>1, <2>2, LookedUp DEF IsError, Failed
    <3>2. exact = [content |-> s.content]
      BY <1>1, <3>1, LookedUp
    <3>3. IsNearest(s, f, e)
      BY <3>1 DEF IsNearest, SnapshotsOf, TypeOK, Snapshot
    <3>4. s.content = e.content
      BY <1>3, <3>3
    <3>5. ResolveChangelogContent(f, e) = Answer(exact, "exact_snapshot")
      BY <2>1, <2>2 DEF ResolveChangelogContent
    <3> QED
      BY <3>2, <3>4, <3>5
  <2>3. CASE IsError(exact) /\ ~IsError(nearest)
    <3>1. PICK s \in SnapshotsOf(f) : IsNearest(s, f, e) /\ nearest = [content |-> s.content]
      BY <1>1, <2>3, NearestFound
    <3>2. ResolveChangelogContent(f, e) = Answer(nearest, "nearest_snapshot")
      BY <2>1, <2>3 DEF ResolveChangelogContent
    <3> QED
      BY <1>3, <3>1, <3>2
  <2>4. CASE IsError(exact) /\ IsError(nearest) /\ ~IsError(git)
    <3>1. ResolveChangelogContent(f, e) = Answer(git, "git")
      BY <2>1, <2>4 DEF ResolveChangelogContent
    <3> QED
      BY <3>1
  <2>5. CASE IsError(exact) /\ IsError(nearest) /\ IsError(git)
    <3>1. ResolveChangelogContent(f, e) = Failed
      BY <2>1, <2>5 DEF ResolveChangelogContent
    <3> QED
      BY <1>4, <3>1 DEF IsError, Failed
  <2> QED
    BY <2>2, <2>3, <2>4, <2>5
<1>5. FindLatestChangelog(f).id = LastOf(EntriesOf(f))
  BY <1>1, NewestEntry DEF FindLatestChangelog
<1>6. \A a, b \in EntriesOf(f) : a.created_at <= b.created_at <=> a.id <= b.id
  BY <1>1, <1>2 DEF Numbered, Paced
<1>7. ASSUME NEW e \in EntriesOf(f)
      PROVE  FindPrevChangelog(f, e.id).id = LastOf({d \in EntriesOf(f) : d.id < e.id})
  <2>1. FindChangelogById(e.id) = e /\ e # NoEntry
    BY <1>1, <1>2, FoundById DEF NoEntry
  <2>2. {d \in EntriesOf(f) : d.created_at < e.created_at} = {d \in EntriesOf(f) : d.id < e.id}
    BY <1>2, <1>6
  <2>3. FindPrevChangelog(f, e.id) = NewestOr({d \in EntriesOf(f) : d.id < e.id})
    BY <2>1, <2>2 DEF FindPrevChangelog
  <2> QED
    BY <1>1, <2>3, NewestEntry
<1>8. ASSUME NEW e \in EntriesOf(f)
      PROVE  FindChangelogByTimestamp(f, [form |-> "spaced", at |-> e.created_at]).id = e.id
  <2> DEFINE rows == {d \in EntriesOf(f) : d.created_at <= e.created_at}
  <2>1. FindChangelogByTimestamp(f, [form |-> "spaced", at |-> e.created_at]) = NewestOr(rows)
    BY DEF FindChangelogByTimestamp, AtMost
  <2>2. NewestOr(rows).id = LastOf(rows)
    BY <1>1, NewestEntry
  <2>3. LastOf(rows) = e.id
    <3> DEFINE numbers == {d.id : d \in rows}
    <3>1. e \in rows
      BY <1>2
    <3>2. numbers \in SUBSET Nat /\ e.id \in numbers /\ \A i \in numbers : i <= e.id
      BY <1>2, <1>6, <3>1
    <3> HIDE DEF numbers
    <3>3. Max(numbers) = e.id
      BY <3>2, MaxIsGreatest
    <3> QED
      BY <3>1, <3>3 DEF LastOf, numbers
  <2> QED
    BY <2>1, <2>2, <2>3
<1> QED
  BY <1>4, <1>5, <1>7, <1>8

(* An endpoint of a diff stands for the entry it names: as long as a file's *)
(* entries and snapshots come one a second and each commit has its turn at  *)
(* the snapshot before the next, what a snapshot answers for an entry is    *)
(* what the file was when the entry was made, whatever has been pruned      *)
(* since (resolveChangelogContent), and "latest", "prev" and a time name    *)
(* the entries that were made last.                                         *)
THEOREM EndpointsAreFaithful == Spec => []HistoryFaithful
<1>1. TypeOK /\ Faithful => HistoryFaithful
  BY EndpointsFaithful
<1> QED
  BY <1>1, AlwaysFaithful, PTL

-----------------------------------------------------------------------------
(* A caller that has looked expects what it has seen, or anything.          *)
LEMMA ExpectedStep ==
  ASSUME TypeOK, SeenExpected, Next
  PROVE  SeenExpected'
<1>1. CASE UNCHANGED callers
  BY <1>1 DEF SeenExpected, RecordVersion
<1>2. ASSUME NEW c \in Callers, NEW call, call.status # "looked", callers' = [callers EXCEPT ![c] = call]
      PROVE  SeenExpected'
  <2>1. \A d \in Callers : callers'[d] = IF d = c THEN call ELSE callers[d]
    BY <1>2 DEF TypeOK
  <2> QED
    BY <1>2, <2>1 DEF SeenExpected, RecordVersion
<1>3. ASSUME NEW c \in Callers, NEW f \in Files, Look(c, f) PROVE SeenExpected'
  <2>1. PICK expected \in {RecordVersion(records[f]), AnyVersion} :
          callers' = [callers EXCEPT ![c] = [status |-> "looked", file |-> f, seen |-> records[f], expected |-> expected]]
    BY <1>3 DEF Look
  <2>2. \A d \in Callers : callers'[d] = IF d = c THEN [status |-> "looked", file |-> f, seen |-> records[f], expected |-> expected]
                                        ELSE callers[d]
    BY <2>1 DEF TypeOK
  <2> QED
    BY <2>1, <2>2 DEF SeenExpected, RecordVersion
<1>4. ASSUME NEW c \in Callers, NEW request \in Requests, Commit(c, request) PROVE SeenExpected'
  <2>1. CASE Accepted(c, request)
    BY <2>1, <1>2 DEF Accepted
  <2>2. CASE callers' = [callers EXCEPT ![c] = NoCall]
    BY <2>2, <1>2 DEF NoCall
  <2> QED
    BY <2>1, <2>2, <1>4, CommitOrRefuse
<1>5. ASSUME NEW c \in Callers, InsertSnapshot(c) \/ Leave(c) PROVE SeenExpected'
  <2>1. callers' = [callers EXCEPT ![c] = NoCall]
    BY <1>5 DEF InsertSnapshot, Leave
  <2> QED
    BY <2>1, <1>2 DEF NoCall
<1>6. CASE Tick \/ (\E f \in Files : (\E content \in Contents : Edit(f, content)) \/ Scan(f) \/ Delete(f) \/ Prune(f)
                                     \/ Stamp(f) \/ Verify(f, 1, "verified"))
           \/ (\E e \in entries : Backfill({e.id}, "someone"))
  BY <1>1, <1>6 DEF Tick, Edit, Scan, Delete, Prune, Stamp, Verify, Backfill
<1> QED
  BY <1>3, <1>4, <1>5, <1>6 DEF Next

(* The columns of hazards are in step: a commit synchronises them, and      *)
(* nothing else writes to them.                                             *)
InStep == \A f \in Files : records[f]["hazards"] = records[f]["rangedHazards"]

LEMMA InStepStep ==
  ASSUME TypeOK, InStep, [Next]_historyVars
  PROVE  InStep'
<1>1. CASE UNCHANGED records
  BY <1>1 DEF InStep
<1>2. ASSUME NEW c \in Callers, NEW request \in Requests, Commit(c, request) PROVE InStep'
  <2>1. CASE Accepted(c, request)
    <3>1. callers[c] \in LookedCall
      BY <1>2, CommitOrRefuse
    <3>2. PICK f \in Files : f = callers[c].file
      BY <3>1 DEF LookedCall
    <3>3. PICK merged \in Record : merged = MergeFile(records[f], request) /\ merged["hazards"] = merged["rangedHazards"]
      <4>1. PICK r \in Record : r = records[f]
        BY <3>2 DEF TypeOK
      <4>2. PICK merged \in Record : merged = MergeFile(r, request)
        BY MergedIsRecord
      <4>3. \A column \in Columns : merged[column] =
              (IF "hazards" \in DOMAIN request THEN request["hazards"] ELSE r["hazards"]) \cup r["rangedHazards"]
        BY <4>2, Merged
      <4>4. merged["hazards"] = merged["rangedHazards"]
        BY <4>3 DEF Columns
      <4> QED
        BY <4>1, <4>2, <4>4
    <3>4. records' = [records EXCEPT ![f] = merged]
      BY <2>1, <3>2, <3>3 DEF Accepted
    <3> QED
      BY <3>3, <3>4 DEF InStep, TypeOK
  <2> QED
    BY <1>1, <1>2, <2>1, CommitOrRefuse
<1>3. ASSUME NEW f \in Files, Scan(f) PROVE InStep'
  <2>1. records[f] \in Record /\ records' = [records EXCEPT ![f] = [records[f] EXCEPT !["hash"] = disk[f]]]
    BY <1>3 DEF Scan, TypeOK
  <2>2. PICK row : row = [records[f] EXCEPT !["hash"] = disk[f]]
    OBVIOUS
  <2>3. row["hazards"] = records[f]["hazards"] /\ row["rangedHazards"] = records[f]["rangedHazards"]
    BY <2>1, <2>2 DEF Record, Columns
  <2> QED
    BY <2>1, <2>2, <2>3 DEF InStep, TypeOK
<1>4. ASSUME NEW f \in Files, Delete(f) PROVE InStep'
  <2>1. NoRecord["hazards"] = {} /\ NoRecord["rangedHazards"] = {}
    BY DEF NoRecord, Columns
  <2> QED
    BY <1>4, <2>1 DEF Delete, InStep, TypeOK
<1>5. CASE Tick \/ (\E f \in Files : (\E content \in Contents : Edit(f, content)) \/ Prune(f)
                                     \/ Stamp(f) \/ Verify(f, 1, "verified"))
           \/ (\E e \in entries : Backfill({e.id}, "someone")) \/ UNCHANGED historyVars
           \/ (\E c \in Callers : InsertSnapshot(c) \/ Leave(c) \/ \E f \in Files : Look(c, f))
  BY <1>1, <1>5 DEF Tick, Edit, Prune, Stamp, Verify, Backfill, InsertSnapshot, Leave, Look, historyVars
<1> QED
  BY <1>2, <1>3, <1>4, <1>5 DEF Next

(* What a caller's commit has to keep.                                      *)
Keeps(c) ==
  callers[c].status = "looked" /\ callers'[c].status = "committed" =>
    LET call == callers'[c]
        before == records[call.file]
        after == records'[call.file]
    IN  /\ call.expected # AnyVersion => \A field \in DOMAIN call.seen \ Columns :
             after[field] \in {call.seen[field]} \cup (IF field \in DOMAIN call.sent THEN {call.sent[field]} ELSE {})
        /\ \A field \in Identity : after[field] # ""
        /\ after["hazards"] = after["rangedHazards"]
        /\ before["hazards"] \cup before["rangedHazards"] \subseteq after["hazards"]
        /\ "hazards" \in DOMAIN call.sent => call.sent["hazards"] \subseteq after["hazards"]
        /\ MergeFile(after, call.sent) = after

LEMMA CommitKeeps ==
  ASSUME TypeOK, SeenExpected, InStep, NEW c \in Callers, NEW request \in Requests, callers[c] \in LookedCall, Accepted(c, request)
  PROVE  Keeps(c)
<1>1. PICK call \in LookedCall : call = callers[c]
  OBVIOUS
<1>2. PICK merged \in Record : merged = MergeFile(records[call.file], request)
  BY <1>1, MergedIsRecord DEF LookedCall, TypeOK
<1>3. /\ callers'[c].file = call.file /\ callers'[c].seen = call.seen /\ callers'[c].expected = call.expected
      /\ callers'[c].sent = request
      /\ records'[call.file] = merged
  BY <1>1, <1>2 DEF Accepted, TypeOK, LookedCall
<1>4. ~Incomplete(merged) /\ ~Conflicts(call)
  BY <1>1, <1>2 DEF Accepted
<1>5. ASSUME call.expected # AnyVersion PROVE call.seen = records[call.file]
  BY <1>1, <1>4, <1>5 DEF SeenExpected, Conflicts, RecordVersion, LookedCall
<1> DEFINE before == records[call.file]
           sent == IF "hazards" \in DOMAIN request THEN request["hazards"] ELSE before["hazards"]
<1>6. before \in Record /\ DOMAIN before = Fields \cup Columns \cup {"hash"}
  BY DEF LookedCall, TypeOK, Record
<1>7. /\ \A field \in Fields \cup {"hash"} :
           merged[field] = IF Sent(request, field) THEN request[field] ELSE before[field]
      /\ \A column \in Columns : merged[column] = sent \cup before["rangedHazards"]
  BY <1>2, <1>6, Merged
<1>8. ASSUME call.expected # AnyVersion, NEW field \in DOMAIN call.seen \ Columns
      PROVE  merged[field] \in {call.seen[field]} \cup (IF field \in DOMAIN request THEN {request[field]} ELSE {})
  <2>1. field \in Fields \cup {"hash"}
    BY <1>5, <1>6, <1>8
  <2> HIDE DEF before
  <2> QED
    BY <1>5, <1>7, <1>8, <2>1 DEF Sent, before
<1>9. /\ merged["hazards"] = merged["rangedHazards"]
      /\ merged["hazards"] = sent \cup before["rangedHazards"]
      /\ "hazards" \in DOMAIN request => request["hazards"] \subseteq merged["hazards"]
  BY <1>7 DEF Columns
<1>10. MergeFile(merged, request) = merged
  <2> DEFINE again == MergeFile(merged, request)
             resent == IF "hazards" \in DOMAIN request THEN request["hazards"] ELSE merged["hazards"]
  <2>1. /\ again \in [Fields \cup Columns \cup {"hash"} -> Written \cup SUBSET Hazards]
        /\ \A field \in Fields \cup {"hash"} :
             again[field] = IF Sent(request, field) THEN request[field] ELSE merged[field]
        /\ \A column \in Columns : again[column] = resent \cup merged["rangedHazards"]
    BY Merged
  <2>2. \A field \in Fields \cup {"hash"} : again[field] = merged[field]
    <3> HIDE DEF again, before, sent, resent
    <3> QED
      BY <1>7, <2>1
  <2>3. resent \cup merged["rangedHazards"] = merged["rangedHazards"]
    BY <1>9
  <2>4. \A column \in Columns : again[column] = merged[column]
    BY <1>9, <2>1, <2>3 DEF Columns
  <2>5. merged \in [Fields \cup Columns \cup {"hash"} -> Written \cup SUBSET Hazards]
    BY DEF Record
  <2> HIDE DEF again, resent
  <2>6. again = merged
    BY <2>1, <2>2, <2>4, <2>5
  <2> QED
    BY <2>6 DEF again
<1>11. records[call.file]["hazards"] \cup records[call.file]["rangedHazards"] \subseteq merged["hazards"]
  BY <1>9 DEF InStep, LookedCall
<1> QED
  BY <1>3, <1>4, <1>8, <1>9, <1>10, <1>11 DEF Keeps, Incomplete

LEMMA StepKeeps ==
  ASSUME TypeOK, SeenExpected, InStep, [Next]_historyVars, NEW c \in Callers
  PROVE  Keeps(c)
<1>1. CASE callers'[c] = callers[c]
  BY <1>1 DEF Keeps
<1>2. ASSUME NEW d \in Callers, NEW call, callers' = [callers EXCEPT ![d] = call], call.status # "committed" PROVE Keeps(c)
  <2>1. callers'[c] = IF c = d THEN call ELSE callers[c]
    BY <1>2 DEF TypeOK
  <2> QED
    BY <1>1, <1>2, <2>1 DEF Keeps
<1>0. NoCall.status # "committed"
  BY DEF NoCall
<1>3. ASSUME NEW d \in Callers, NEW request \in Requests, Commit(d, request) PROVE Keeps(c)
  <2>1. callers[d] \in LookedCall
    BY <1>3, CommitOrRefuse
  <2>2. CASE Accepted(d, request)
    <3>1. CASE c = d
      BY <2>1, <2>2, <3>1, CommitKeeps
    <3>2. CASE c # d
      BY <2>2, <3>2, <1>1 DEF Accepted, TypeOK
    <3> QED
      BY <3>1, <3>2
  <2>3. CASE callers' = [callers EXCEPT ![d] = NoCall]
    BY <1>0, <1>2, <2>3
  <2> QED
    BY <2>2, <2>3, <1>3, CommitOrRefuse
<1>4. ASSUME NEW d \in Callers, InsertSnapshot(d) \/ Leave(d) PROVE Keeps(c)
  <2>1. callers' = [callers EXCEPT ![d] = NoCall]
    BY <1>4 DEF InsertSnapshot, Leave
  <2> QED
    BY <1>0, <1>2, <2>1
<1>5. ASSUME NEW d \in Callers, NEW f \in Files, Look(d, f) PROVE Keeps(c)
  BY <1>5, <1>2 DEF Look
<1>6. CASE Tick \/ (\E f \in Files : (\E content \in Contents : Edit(f, content)) \/ Scan(f) \/ Delete(f) \/ Prune(f)
                                     \/ Stamp(f) \/ Verify(f, 1, "verified"))
           \/ (\E e \in entries : Backfill({e.id}, "someone")) \/ UNCHANGED historyVars
  BY <1>1, <1>6 DEF Tick, Edit, Scan, Delete, Prune, Stamp, Verify, Backfill, historyVars
<1> QED
  BY <1>3, <1>4, <1>5, <1>6 DEF Next

(* No commit is lost to another: one that says which version of the record  *)
(* it is for keeps every field its caller has not sent as the caller saw    *)
(* it, and no commit empties a field of the identity (executeAtlasCommit)   *)
(* or drops a hazard; both columns of hazards warn of the same, and a       *)
(* commit that is repeated changes nothing (autoSyncHazardsColumns).        *)
THEOREM CommitsLoseNoUpdate == Spec => NoLostUpdate
<1>1. Init => SeenExpected /\ InStep
  <2>1. NoRecord["hazards"] = {} /\ NoRecord["rangedHazards"] = {}
    BY DEF NoRecord, Columns
  <2> HIDE DEF NoRecord
  <2> QED
    BY <2>1, SMTT(30) DEF Init, SeenExpected, NoCall, InStep
<1>2. TypeOK /\ SeenExpected /\ [Next]_historyVars => SeenExpected'
  BY ExpectedStep DEF historyVars, SeenExpected, RecordVersion
<1>3. TypeOK /\ InStep /\ [Next]_historyVars => InStep'
  BY InStepStep
<1>4. TypeOK /\ SeenExpected /\ InStep /\ [Next]_historyVars => \A c \in Callers : Keeps(c)
  BY StepKeeps
<1>5. (\A c \in Callers : Keeps(c)) =>
        [\A c \in Callers :
           callers[c].status = "looked" /\ callers'[c].status = "committed" =>
             LET call == callers'[c]
                 before == records[call.file]
                 after == records'[call.file]
             IN  /\ call.expected # AnyVersion => \A field \in DOMAIN call.seen \ Columns :
                      after[field] \in {call.seen[field]} \cup (IF field \in DOMAIN call.sent THEN {call.sent[field]} ELSE {})
                 /\ \A field \in Identity : after[field] # ""
                 /\ after["hazards"] = after["rangedHazards"]
                 /\ before["hazards"] \cup before["rangedHazards"] \subseteq after["hazards"]
                 /\ "hazards" \in DOMAIN call.sent => call.sent["hazards"] \subseteq after["hazards"]
                 /\ MergeFile(after, call.sent) = after]_historyVars
  BY DEF Keeps
<1> QED
  BY <1>1, <1>2, <1>3, <1>4, <1>5, AlwaysFaithful, PTL DEF Spec, NoLostUpdate

-----------------------------------------------------------------------------
(* The catalogue: a step on a table is a statement of an operation, and the *)
(* invariant says of the statements that are left what must come of them,   *)
(* and of the tables what the statements before them have already removed.  *)

(* The statements that an operation is made of.                             *)
FileStatements ==
  {"unindex", "index", "embed", "unembed", "unembed chunks", "delete chunks", "unlink", "forget", "remove", "symbols"}

Statements ==
  [do : FileStatements, file : Paths]
  \cup [do : {"clear", "rebuilt", "flag"}]
  \cup [do : {"write"}, file : Paths, row : Records, hash : Hashes]
  \cup [do : {"scan"}, file : Paths, hash : Hashes]
  \cup [do : {"cross-reference", "invalidate", "references"}, file : Paths, found : CallSites \cup {<<>>}]

After(s, i, do, before) == s[i].do = do => s[i - 1].do = before /\ s[i - 1].file = s[i].file

(* An index entry is made right after the old one has gone, and a row goes  *)
(* after everything that is derived of it, in this order.                   *)
Chained(s) ==
  \A i \in 2..Len(s) :
    /\ After(s, i, "index", "unindex")
    /\ After(s, i, "unembed", "unindex")
    /\ After(s, i, "unembed chunks", "unembed")
    /\ After(s, i, "delete chunks", "unembed chunks")
    /\ After(s, i, "unlink", "delete chunks")
    /\ After(s, i, "forget", "unlink")
    /\ After(s, i, "remove", "forget")

(* After the i-th statement the file is indexed, or removed.                *)
Settles(s, i, f) == \E j \in i + 1..Len(s) : s[j].do \in {"index", "remove"} /\ s[j].file = f

Settled(s) ==
  \A i \in 1..Len(s) : s[i].do \in {"unindex", "write", "scan", "invalidate"} => Settles(s, i, s[i].file)

(* The statements of a rebuild, and of a backfill before it, stand alone.   *)
Alone(s, files) ==
  \A i \in 1..Len(s) :
    /\ s[i].do = "clear" =>
         /\ \A j \in 1..i - 1 : s[j].do \in {"symbols", "references"}
         /\ \A f \in files : Settles(s, i, f)
    /\ s[i].do = "rebuilt" =>
         \A j \in 1..i - 1 : s[j].do \in {"symbols", "references", "clear", "unindex", "index"}

Orderly(s, files) == s \in Seq(Statements) /\ Chained(s) /\ Settled(s) /\ Alone(s, files)

Includes(s, do) == \E i \in 1..Len(s) : s[i].do = do

NoDocument(f) == f \in Stored => \A d \in atlasFts : d.id # atlasFiles[f].id
NoVector(f) == f \in Stored => \A v \in embeddings : v.id = atlasFiles[f].id => v \in left
NoChunkVector(f) == \A c \in chunks : c.path = f /\ c \in chunkEmbeddings => c \in left
NoChunk(f) == \A c \in chunks : c.path # f

(* What the statements of the operation under way have already removed.     *)
Ready(s) ==
  s # <<>> =>
    /\ s[1].do \in {"index", "unembed chunks", "delete chunks", "unlink", "forget", "remove"} => NoDocument(s[1].file)
    /\ s[1].do = "unembed" /\ Len(s) > 1 /\ s[2].do = "unembed chunks" => NoDocument(s[1].file)
    /\ s[1].do \in {"unembed chunks", "delete chunks", "unlink", "forget", "remove"} => NoVector(s[1].file)
    /\ s[1].do \in {"delete chunks", "unlink", "forget", "remove"} => NoChunkVector(s[1].file)
    /\ s[1].do \in {"unlink", "forget", "remove"} => NoChunk(s[1].file)

FilesKept ==
  /\ atlasFiles \in [Paths -> Rows \cup {NoRow}]
  /\ ids \in Nat
  /\ \A f \in Stored : atlasFiles[f].id <= ids
  /\ \A f, g \in Stored : atlasFiles[f].id = atlasFiles[g].id => f = g

ExtractionsCurrent ==
  \A f \in Stored : atlasFiles[f].model # "none" => atlasFiles[f].made = atlasFiles[f].hash

DocumentsKept ==
  /\ \A d \in atlasFts : d.id \in Ids
  /\ \A d, e \in atlasFts : d.id = e.id => d = e

ChunksKept ==
  /\ IsFiniteSet(chunks)
  /\ \A c \in chunks : c.id \in Nat /\ c.id <= ids /\ c.path \in Stored /\ atlasFiles[c.path].id = c.file
  /\ \A c, d \in listed : c.id = d.id => c = d
  /\ chunks \subseteq listed /\ chunkEmbeddings \subseteq listed
  /\ \A c \in listed : c.id \in Nat /\ c.id <= ids

(* A vector is of a file or a chunk that is stored, or its delete failed.   *)
VectorsKept ==
  /\ \A v \in embeddings :
       /\ v.id \in Nat /\ v.id <= ids
       /\ \A f \in Stored : atlasFiles[f].id = v.id => v.path = f
       /\ (v.path \in Stored /\ atlasFiles[v.path].id = v.id) \/ v \in left
  /\ \A v \in chunkEmbeddings : v \in chunks \/ v \in left

Documented(f) ==
  \E d \in atlasFts : d.id = atlasFiles[f].id /\ d.words = FtsDocumentForRecord(atlasFiles[f])

IndexCurrent ==
  indexed \/ (Includes(todo, "rebuilt") /\ ~Includes(todo, "clear")) =>
    \A f \in Stored : Documented(f) \/ Settles(todo, 0, f)

CatalogueInv ==
  /\ FilesKept /\ ExtractionsCurrent /\ DocumentsKept /\ ChunksKept /\ VectorsKept
  /\ Orderly(todo, Stored) /\ Ready(todo) /\ IndexCurrent

-----------------------------------------------------------------------------
LEMMA StatementFields ==
  ASSUME NEW s \in Statements
  PROVE  /\ s.do \in FileStatements => s.file \in Paths
         /\ s.do = "write" => s.file \in Paths /\ s.row \in Records /\ s.hash \in Hashes
         /\ s.do = "scan" => s.file \in Paths /\ s.hash \in Hashes
         /\ s.do \in {"cross-reference", "invalidate", "references"} =>
              s.file \in Paths /\ s.found \in CallSites \cup {<<>>}
  BY DEF Statements, FileStatements

LEMMA TailIsSeq ==
  ASSUME NEW s \in Seq(Statements), s # <<>>
  PROVE  /\ Tail(s) \in Seq(Statements) /\ Len(Tail(s)) = Len(s) - 1 /\ Len(s) \in Nat \ {0}
         /\ \A i \in 1..Len(Tail(s)) : Tail(s)[i] = s[i + 1]
         /\ Head(s) = s[1] /\ s[1] \in Statements
  OBVIOUS

(* What is left of an orderly sequence is orderly.                          *)
LEMMA TailOrderly ==
  ASSUME NEW s, NEW files, NEW stored, Orderly(s, files), s # <<>>,
         s[1].do \notin {"symbols", "references"} \/ stored \subseteq files
  PROVE  /\ Orderly(Tail(s), stored)
         /\ \A f : Settles(s, 1, f) => Settles(Tail(s), 0, f)
         /\ \A f : Settles(s, 0, f) => Settles(Tail(s), 0, f) \/ (s[1].do \in {"index", "remove"} /\ s[1].file = f)
         /\ \A do : Includes(Tail(s), do) => Includes(s, do)
         /\ \A do : Includes(s, do) /\ s[1].do # do => Includes(Tail(s), do)
         /\ s[1].do \notin {"symbols", "references"} => ~Includes(Tail(s), "clear")
         /\ s[1].do \notin {"symbols", "references", "clear", "unindex", "index"} => ~Includes(Tail(s), "rebuilt")
<1>1. s \in Seq(Statements)
  BY DEF Orderly
<1>2. /\ Tail(s) \in Seq(Statements) /\ Len(Tail(s)) = Len(s) - 1 /\ Len(s) \in Nat \ {0}
      /\ \A i \in 1..Len(Tail(s)) : Tail(s)[i] = s[i + 1]
  BY <1>1, TailIsSeq
<1> DEFINE t == Tail(s)
<1>3. t \in Seq(Statements) /\ Len(t) = Len(s) - 1 /\ Len(s) \in Nat \ {0} /\ \A i \in 1..Len(t) : t[i] = s[i + 1]
  BY <1>2
<1> HIDE DEF t
<1>4. Chained(t)
  <2>1. \A i \in 2..Len(t) : i + 1 \in 2..Len(s) /\ t[i] = s[i + 1] /\ t[i - 1] = s[(i + 1) - 1]
    BY <1>3
  <2> QED
    BY <2>1, ZenonT(60) DEF Orderly, Chained, After
<1>5. \A f : \A i \in 1..Len(t) : Settles(s, i + 1, f) => Settles(t, i, f)
  <2> SUFFICES ASSUME NEW f, NEW i \in 1..Len(t), Settles(s, i + 1, f)
               PROVE  Settles(t, i, f)
    OBVIOUS
  <2>1. PICK j \in i + 2..Len(s) : s[j].do \in {"index", "remove"} /\ s[j].file = f
    BY <1>3 DEF Settles
  <2>2. j - 1 \in i + 1..Len(t) /\ t[j - 1] = s[j]
    BY <1>3
  <2> QED
    BY <2>1, <2>2 DEF Settles
<1>6. \A f : Settles(s, 1, f) => Settles(t, 0, f)
  <2> SUFFICES ASSUME NEW f, Settles(s, 1, f)
               PROVE  Settles(t, 0, f)
    OBVIOUS
  <2>1. PICK j \in 2..Len(s) : s[j].do \in {"index", "remove"} /\ s[j].file = f
    BY <1>3 DEF Settles
  <2>2. j - 1 \in 1..Len(t) /\ t[j - 1] = s[j]
    BY <1>3
  <2> QED
    BY <2>1, <2>2 DEF Settles
<1>7. \A f : Settles(s, 0, f) => Settles(t, 0, f) \/ (s[1].do \in {"index", "remove"} /\ s[1].file = f)
  <2> SUFFICES ASSUME NEW f, Settles(s, 0, f), ~(s[1].do \in {"index", "remove"} /\ s[1].file = f)
               PROVE  Settles(t, 0, f)
    OBVIOUS
  <2>1. PICK j \in 1..Len(s) : s[j].do \in {"index", "remove"} /\ s[j].file = f
    BY <1>3 DEF Settles
  <2>2. j \in 2..Len(s)
    BY <1>3, <2>1
  <2>3. Settles(s, 1, f)
    BY <1>3, <2>1, <2>2 DEF Settles
  <2> QED
    BY <1>6, <2>3
<1>8. Settled(t)
  BY <1>3, <1>5 DEF Orderly, Settled
<1>9. /\ \A do : Includes(t, do) => Includes(s, do)
      /\ \A do : Includes(s, do) /\ s[1].do # do => Includes(t, do)
  <2>1. ASSUME NEW do, Includes(t, do) PROVE Includes(s, do)
    BY <1>3, <2>1 DEF Includes
  <2>2. ASSUME NEW do, Includes(s, do), s[1].do # do PROVE Includes(t, do)
    <3>1. PICK i \in 1..Len(s) : s[i].do = do
      BY <2>2 DEF Includes
    <3>2. i - 1 \in 1..Len(t) /\ t[i - 1] = s[i]
      BY <1>3, <2>2, <3>1
    <3> QED
      BY <3>1, <3>2 DEF Includes
  <2> QED
    BY <2>1, <2>2
<1>10. s[1].do \notin {"symbols", "references"} => ~Includes(t, "clear")
  BY <1>3 DEF Orderly, Alone, Includes
<1>11. s[1].do \notin {"symbols", "references", "clear", "unindex", "index"} => ~Includes(t, "rebuilt")
  BY <1>3, SMTT(30) DEF Orderly, Alone, Includes
<1>12. Alone(t, stored)
  <2> SUFFICES ASSUME NEW i \in 1..Len(t)
               PROVE  /\ t[i].do = "clear" =>
                           /\ \A j \in 1..i - 1 : t[j].do \in {"symbols", "references"}
                           /\ \A f \in stored : Settles(t, i, f)
                      /\ t[i].do = "rebuilt" =>
                           \A j \in 1..i - 1 : t[j].do \in {"symbols", "references", "clear", "unindex", "index"}
    BY DEF Alone
  <2>1. i + 1 \in 1..Len(s) /\ t[i] = s[i + 1]
    BY <1>3
  <2>2. ASSUME t[i].do = "clear"
        PROVE  /\ \A j \in 1..i - 1 : t[j].do \in {"symbols", "references"}
               /\ \A f \in stored : Settles(t, i, f)
    <3>1. /\ \A j \in 1..i : s[j].do \in {"symbols", "references"}
          /\ \A f \in files : Settles(s, i + 1, f)
      BY <1>3, <2>1, <2>2 DEF Orderly, Alone
    <3>2. stored \subseteq files
      BY <3>1, <1>3
    <3> QED
      BY <3>1, <3>2, <1>3, <1>5
  <2>3. ASSUME t[i].do = "rebuilt"
        PROVE  \A j \in 1..i - 1 : t[j].do \in {"symbols", "references", "clear", "unindex", "index"}
    <3>1. \A j \in 1..i : s[j].do \in {"symbols", "references", "clear", "unindex", "index"}
      BY <1>3, <2>1, <2>3 DEF Orderly, Alone
    <3> QED
      BY <3>1, <1>3
  <2> QED
    BY <2>2, <2>3
<1> QED
  BY <1>3, <1>4, <1>6, <1>7, <1>8, <1>9, <1>10, <1>11, <1>12 DEF Orderly, t

(* The statement after the first: what must have come before it.            *)
LEMMA TailChained ==
  ASSUME NEW s, NEW files, Orderly(s, files), s # <<>>, Tail(s) # <<>>
  PROVE  /\ Tail(s)[1].do = "index" => s[1].do = "unindex" /\ s[1].file = Tail(s)[1].file
         /\ Tail(s)[1].do = "unembed" => s[1].do = "unindex" /\ s[1].file = Tail(s)[1].file
         /\ Tail(s)[1].do = "unembed chunks" =>
              s[1].do = "unembed" /\ s[1].file = Tail(s)[1].file /\ Len(s) > 1 /\ s[2].do = "unembed chunks"
         /\ Tail(s)[1].do = "delete chunks" => s[1].do = "unembed chunks" /\ s[1].file = Tail(s)[1].file
         /\ Tail(s)[1].do = "unlink" => s[1].do = "delete chunks" /\ s[1].file = Tail(s)[1].file
         /\ Tail(s)[1].do = "forget" => s[1].do = "unlink" /\ s[1].file = Tail(s)[1].file
         /\ Tail(s)[1].do = "remove" => s[1].do = "forget" /\ s[1].file = Tail(s)[1].file
<1>1. s \in Seq(Statements)
  BY DEF Orderly
<1>2. /\ Tail(s) \in Seq(Statements) /\ Len(Tail(s)) = Len(s) - 1 /\ Len(s) \in Nat \ {0}
      /\ \A i \in 1..Len(Tail(s)) : Tail(s)[i] = s[i + 1]
  BY <1>1, TailIsSeq
<1> DEFINE t == Tail(s)
<1>3. t \in Seq(Statements) /\ Len(t) = Len(s) - 1 /\ Len(s) \in Nat \ {0} /\ \A i \in 1..Len(t) : t[i] = s[i + 1]
  BY <1>2
<1>4. t # <<>>
  OBVIOUS
<1> HIDE DEF t
<1>5. Len(t) # 0
  BY <1>3, <1>4
<1>6. 2 \in 2..Len(s) /\ t[1] = s[2] /\ s[2 - 1] = s[1]
  BY <1>3, <1>5
<1>7. \A do, before : After(s, 2, do, before) => (t[1].do = do => s[1].do = before /\ s[1].file = t[1].file)
  BY <1>6 DEF After
<1>8. /\ After(s, 2, "index", "unindex") /\ After(s, 2, "unembed", "unindex")
      /\ After(s, 2, "unembed chunks", "unembed") /\ After(s, 2, "delete chunks", "unembed chunks")
      /\ After(s, 2, "unlink", "delete chunks") /\ After(s, 2, "forget", "unlink") /\ After(s, 2, "remove", "forget")
  BY <1>6 DEF Orderly, Chained
<1>9. t[1].do = "unembed chunks" => Len(s) > 1 /\ s[2].do = "unembed chunks"
  <2>1. Len(s) > 1
    BY <1>3, <1>5
  <2> QED
    BY <2>1, <1>6
<1>10. /\ t[1].do = "index" => s[1].do = "unindex" /\ s[1].file = t[1].file
       /\ t[1].do = "unembed" => s[1].do = "unindex" /\ s[1].file = t[1].file
       /\ t[1].do = "unembed chunks" => s[1].do = "unembed" /\ s[1].file = t[1].file
       /\ t[1].do = "delete chunks" => s[1].do = "unembed chunks" /\ s[1].file = t[1].file
       /\ t[1].do = "unlink" => s[1].do = "delete chunks" /\ s[1].file = t[1].file
       /\ t[1].do = "forget" => s[1].do = "unlink" /\ s[1].file = t[1].file
       /\ t[1].do = "remove" => s[1].do = "forget" /\ s[1].file = t[1].file
  BY <1>7, <1>8
<1> QED
  BY <1>9, <1>10 DEF t

LEMMA Turn ==
  ASSUME CatalogueInv, NEW what, Doing(what)
  PROVE  /\ todo # <<>> /\ Head(todo) = todo[1] /\ todo[1] \in Statements /\ todo[1].do = what
         /\ Target = todo[1].file /\ todo' = Tail(todo)
         /\ \A stored : what \notin {"symbols", "references"} \/ stored \subseteq Stored => Orderly(todo', stored)
         /\ what \in {"unindex", "write", "scan", "invalidate"} => Settles(todo', 0, Target)
         /\ what = "clear" => \A f \in Stored : Settles(todo', 0, f)
         /\ \A f : Settles(todo, 0, f) => Settles(todo', 0, f) \/ (what \in {"index", "remove"} /\ Target = f)
<1>1. Orderly(todo, Stored) /\ todo \in Seq(Statements)
  BY DEF CatalogueInv, Orderly
<1>2. todo # <<>> /\ todo' = Tail(todo) /\ Head(todo).do = what
  BY DEF Doing
<1>3. Head(todo) = todo[1] /\ todo[1] \in Statements /\ Len(todo) \in Nat \ {0}
  BY <1>1, <1>2, TailIsSeq
<1>4. what \in {"unindex", "write", "scan", "invalidate"} => Settles(todo, 1, Target)
  BY <1>1, <1>2, <1>3 DEF Orderly, Settled, Target
<1>5. what = "clear" => \A f \in Stored : Settles(todo, 1, f)
  BY <1>1, <1>2, <1>3 DEF Orderly, Alone
<1> QED
  BY <1>1, <1>2, <1>3, <1>4, <1>5, TailOrderly DEF Target

(* The next statement finds what it relies on, if this one removes what it  *)
(* is to remove and gives nothing back.                                     *)
LEMMA ReadyKept ==
  ASSUME CatalogueInv, NEW what, Doing(what), NEW f, f = Target,
         what = "unindex" => NoDocument(f)',
         what \in {"unembed", "unembed chunks", "delete chunks", "unlink", "forget"} =>
           /\ NoDocument(f) => NoDocument(f)'
           /\ what = "unembed" \/ NoVector(f) => NoVector(f)'
           /\ what # "unembed" /\ (what = "unembed chunks" \/ NoChunkVector(f)) => NoChunkVector(f)'
           /\ what \notin {"unembed", "unembed chunks"} /\ (what = "delete chunks" \/ NoChunk(f)) => NoChunk(f)'
  PROVE  Ready(todo)'
<1>1. /\ todo # <<>> /\ todo[1].do = what /\ f = todo[1].file /\ todo' = Tail(todo)
      /\ Orderly(todo, Stored) /\ Ready(todo)
  BY Turn DEF CatalogueInv
<1> SUFFICES ASSUME todo' # <<>>
             PROVE  Ready(todo)'
  BY DEF Ready
<1>2. /\ todo'[1].do = "index" => what = "unindex" /\ f = todo'[1].file
      /\ todo'[1].do = "unembed" => what = "unindex" /\ f = todo'[1].file
      /\ todo'[1].do = "unembed chunks" =>
           what = "unembed" /\ f = todo'[1].file /\ Len(todo) > 1 /\ todo[2].do = "unembed chunks"
      /\ todo'[1].do = "delete chunks" => what = "unembed chunks" /\ f = todo'[1].file
      /\ todo'[1].do = "unlink" => what = "delete chunks" /\ f = todo'[1].file
      /\ todo'[1].do = "forget" => what = "unlink" /\ f = todo'[1].file
      /\ todo'[1].do = "remove" => what = "forget" /\ f = todo'[1].file
  BY <1>1, TailChained
<1>3. /\ what \in {"unembed chunks", "delete chunks", "unlink", "forget"} =>
           NoDocument(f) /\ NoVector(f)
      /\ what = "unembed" /\ Len(todo) > 1 /\ todo[2].do = "unembed chunks" => NoDocument(f)
      /\ what \in {"delete chunks", "unlink", "forget"} => NoChunkVector(f)
      /\ what \in {"unlink", "forget"} => NoChunk(f)
  BY <1>1 DEF Ready
<1>4. /\ todo'[1].do \in {"index", "unembed", "unembed chunks", "delete chunks", "unlink", "forget", "remove"} =>
           f = todo'[1].file /\ NoDocument(f)'
      /\ todo'[1].do \in {"unembed chunks", "delete chunks", "unlink", "forget", "remove"} => NoVector(f)'
      /\ todo'[1].do \in {"delete chunks", "unlink", "forget", "remove"} => NoChunkVector(f)'
      /\ todo'[1].do \in {"unlink", "forget", "remove"} => NoChunk(f)'
  BY <1>2, <1>3
<1> QED
  BY <1>4 DEF Ready

LEMMA ReadyAnyway ==
  ASSUME CatalogueInv, NEW what, Doing(what),
         what \notin {"unindex", "unembed", "unembed chunks", "delete chunks", "unlink", "forget"}
  PROVE  Ready(todo)'
  BY ReadyKept

(* Before and after a statement: which files are indexed, or will be.       *)
LEMMA IndexTurn ==
  ASSUME CatalogueInv, NEW what, Doing(what)
  PROVE  /\ what # "clear" /\ (indexed \/ what = "rebuilt" \/ (Includes(todo', "rebuilt") /\ ~Includes(todo', "clear"))) =>
              \A f \in Stored : \/ Documented(f) \/ Settles(todo', 0, f)
                                \/ what \in {"index", "remove"} /\ Target = f
         /\ what \notin {"symbols", "references", "clear", "unindex", "index"} => ~Includes(todo', "rebuilt")
<1>1. /\ todo # <<>> /\ todo[1].do = what /\ Target = todo[1].file /\ todo' = Tail(todo)
      /\ Orderly(todo, Stored) /\ IndexCurrent /\ Len(todo) \in Nat \ {0}
      /\ \A f : Settles(todo, 0, f) => Settles(todo', 0, f) \/ (what \in {"index", "remove"} /\ Target = f)
  BY Turn, TailIsSeq DEF CatalogueInv, Orderly
<1>2. /\ \A do : Includes(todo', do) => Includes(todo, do)
      /\ \A do : Includes(todo, do) /\ what # do => Includes(todo', do)
      /\ what \notin {"symbols", "references"} => ~Includes(todo', "clear")
      /\ what \notin {"symbols", "references", "clear", "unindex", "index"} => ~Includes(todo', "rebuilt")
  BY <1>1, TailOrderly
<1>3. what = "rebuilt" => Includes(todo, "rebuilt") /\ ~Includes(todo, "clear")
  <2>1. what = "rebuilt" => Includes(todo, "rebuilt")
    BY <1>1 DEF Includes
  <2> QED
    BY <1>2, <2>1
<1>4. what # "clear" /\ Includes(todo', "rebuilt") /\ ~Includes(todo', "clear") => Includes(todo, "rebuilt") /\ ~Includes(todo, "clear")
  BY <1>2
<1> QED
  BY <1>1, <1>2, <1>3, <1>4 DEF IndexCurrent

(* A statement that touches no table a search reads, and no row.            *)
LEMMA TurnKeeps ==
  ASSUME CatalogueInv, NEW what, Doing(what),
         what \in {"rebuilt", "flag", "unlink", "forget", "symbols", "references"},
         UNCHANGED <<atlasFiles, atlasFts, embeddings, chunks, chunkEmbeddings, left, listed, ids>>,
         indexed' => indexed \/ what = "rebuilt"
  PROVE  CatalogueInv'
<1>1. FilesKept' /\ ExtractionsCurrent' /\ DocumentsKept' /\ ChunksKept' /\ VectorsKept' /\ Stored' = Stored
  BY DEF CatalogueInv, FilesKept, ExtractionsCurrent, DocumentsKept, ChunksKept, VectorsKept, Stored, Ids
<1>2. Orderly(todo, Stored)'
  BY <1>1, Turn
<1>3. \A f : /\ NoDocument(f)' = NoDocument(f) /\ NoVector(f)' = NoVector(f)
             /\ NoChunkVector(f)' = NoChunkVector(f) /\ NoChunk(f)' = NoChunk(f)
             /\ Documented(f)' = Documented(f)
  BY DEF NoDocument, NoVector, NoChunkVector, NoChunk, Stored, Documented
<1>4. Ready(todo)'
  BY <1>3, ReadyKept
<1>5. IndexCurrent'
  BY <1>1, <1>3, IndexTurn DEF IndexCurrent
<1> QED
  BY <1>1, <1>2, <1>4, <1>5 DEF CatalogueInv

-----------------------------------------------------------------------------
(* Statement by statement                                                   *)

LEMMA UnindexKeeps == CatalogueInv /\ Unindex => CatalogueInv'
<1> SUFFICES ASSUME CatalogueInv, Unindex
             PROVE  CatalogueInv'
  OBVIOUS
<1>1. Doing("unindex") /\ UNCHANGED <<atlasFiles, embeddings, chunks, chunkEmbeddings, left, listed, ids, indexed>>
  BY DEF Unindex, others, vectors
<1>2. FilesKept' /\ ExtractionsCurrent' /\ ChunksKept' /\ VectorsKept' /\ Stored' = Stored /\ Ids' = Ids
  BY <1>1 DEF CatalogueInv, FilesKept, ExtractionsCurrent, ChunksKept, VectorsKept, Stored, Ids
<1>3. PICK f : f = Target
  OBVIOUS
<1>4. f \in Paths /\ Settles(todo', 0, f)
  BY <1>1, <1>3, Turn, StatementFields DEF FileStatements
<1>5. atlasFts' = {d \in atlasFts : f \in Stored => d.id # atlasFiles[f].id}
  BY <1>3, <1>4 DEF Unindex, Row, Stored
<1>6. DocumentsKept'
  BY <1>2, <1>5 DEF CatalogueInv, DocumentsKept
<1>7. Orderly(todo, Stored)'
  BY <1>1, <1>2, Turn
<1>8. NoDocument(f)'
  BY <1>1, <1>2, <1>5 DEF NoDocument
<1>9. Ready(todo)'
  <2>1. PICK what : what = "unindex"
    OBVIOUS
  <2>2. /\ Doing(what)
        /\ what = "unindex" => NoDocument(f)'
        /\ what \notin {"unembed", "unembed chunks", "delete chunks", "unlink", "forget"}
    BY <1>1, <1>8, <2>1
  <2> QED
    BY <1>3, <2>2, ReadyKept
<1>10. IndexCurrent'
  <2> SUFFICES ASSUME indexed \/ (Includes(todo', "rebuilt") /\ ~Includes(todo', "clear")),
                      NEW g \in Stored, g # f
               PROVE  Documented(g)' \/ Settles(todo', 0, g)
    BY <1>1, <1>2, <1>4 DEF IndexCurrent
  <2>1. Documented(g) \/ Settles(todo', 0, g)
    BY <1>1, IndexTurn
  <2>2. f \in Stored => atlasFiles[g].id # atlasFiles[f].id
    BY DEF CatalogueInv, FilesKept
  <2> QED
    BY <1>1, <1>5, <2>1, <2>2 DEF Documented
<1> QED
  BY <1>2, <1>6, <1>7, <1>9, <1>10 DEF CatalogueInv

LEMMA IndexKeeps == CatalogueInv /\ Index => CatalogueInv'
<1> SUFFICES ASSUME CatalogueInv, Index
             PROVE  CatalogueInv'
  OBVIOUS
<1>1. Doing("index") /\ UNCHANGED <<atlasFiles, embeddings, chunks, chunkEmbeddings, left, listed, ids, indexed>>
  BY DEF Index, others, vectors
<1>2. FilesKept' /\ ExtractionsCurrent' /\ ChunksKept' /\ VectorsKept' /\ Stored' = Stored /\ Ids' = Ids
  BY <1>1 DEF CatalogueInv, FilesKept, ExtractionsCurrent, ChunksKept, VectorsKept, Stored, Ids
<1>3. PICK f : f = Target
  OBVIOUS
<1>4. f \in Paths /\ NoDocument(f)
  BY <1>1, <1>3, Turn, StatementFields DEF FileStatements, CatalogueInv, Ready
<1> DEFINE new == [id |-> atlasFiles[f].id, words |-> FtsDocumentForRecord(atlasFiles[f])]
<1>5. atlasFts' = IF f \in Stored THEN atlasFts \cup {new} ELSE atlasFts
  BY <1>3, <1>4 DEF Index, Row, Stored
<1>6. /\ f \in Stored => \A d \in atlasFts : d.id # new.id
      /\ f \in Stored => new.id \in Ids
      /\ new.id = atlasFiles[f].id /\ new.words = FtsDocumentForRecord(atlasFiles[f])
  BY <1>4 DEF NoDocument, Ids
<1> HIDE DEF new
<1>7. DocumentsKept'
  BY <1>2, <1>5, <1>6 DEF CatalogueInv, DocumentsKept
<1>8. Orderly(todo, Stored)'
  BY <1>1, <1>2, Turn
<1>9. Ready(todo)'
  BY <1>1, ReadyAnyway
<1>10. IndexCurrent'
  <2> SUFFICES ASSUME indexed \/ (Includes(todo', "rebuilt") /\ ~Includes(todo', "clear")),
                      NEW g \in Stored
               PROVE  Documented(g)' \/ Settles(todo', 0, g)
    BY <1>1, <1>2 DEF IndexCurrent
  <2>1. Documented(g) \/ Settles(todo', 0, g) \/ g = f
    BY <1>1, <1>3, IndexTurn
  <2>2. CASE g = f
    BY <1>1, <1>5, <1>6, <2>2 DEF Documented
  <2>3. CASE Documented(g)
    BY <1>1, <1>5, <2>3 DEF Documented
  <2> QED
    BY <2>1, <2>2, <2>3
<1> QED
  BY <1>2, <1>7, <1>8, <1>9, <1>10 DEF CatalogueInv

LEMMA ClearKeeps == CatalogueInv /\ Clear => CatalogueInv'
<1> SUFFICES ASSUME CatalogueInv, Clear
             PROVE  CatalogueInv'
  OBVIOUS
<1>1. Doing("clear") /\ UNCHANGED <<atlasFiles, embeddings, chunks, chunkEmbeddings, left, listed, ids, indexed>> /\ atlasFts' = {}
  BY DEF Clear, others, vectors
<1>2. FilesKept' /\ ExtractionsCurrent' /\ ChunksKept' /\ VectorsKept' /\ DocumentsKept' /\ Stored' = Stored
  BY <1>1 DEF CatalogueInv, FilesKept, ExtractionsCurrent, ChunksKept, VectorsKept, DocumentsKept, Stored, Ids
<1>4. Orderly(todo, Stored)' /\ \A g \in Stored : Settles(todo', 0, g)
  BY <1>1, <1>2, Turn
<1>5. Ready(todo)'
  BY <1>1, ReadyAnyway
<1>6. IndexCurrent'
  BY <1>2, <1>4 DEF IndexCurrent
<1> QED
  BY <1>2, <1>4, <1>5, <1>6 DEF CatalogueInv

(* A row that is written keeps its id, or gets a new one; it is indexed in  *)
(* the same operation, or the index is known to be behind.                  *)
LEMMA RowKeeps ==
  ASSUME CatalogueInv, NEW what \in {"write", "scan", "invalidate", "cross-reference"}, Doing(what),
         NEW f \in Paths, f = Target, NEW row \in Rows,
         atlasFiles' = [atlasFiles EXCEPT ![f] = row],
         IF f \in Stored THEN row.id = atlasFiles[f].id /\ ids' = ids ELSE row.id = ids + 1 /\ ids' = ids + 1,
         row.model # "none" => row.made = row.hash,
         UNCHANGED searched, indexed' => indexed /\ what # "cross-reference"
  PROVE  CatalogueInv'
<1>1. FilesKept /\ ExtractionsCurrent /\ DocumentsKept /\ ChunksKept /\ VectorsKept /\ row # NoRow
  BY CatalogueAssumption DEF CatalogueInv
<1>2. /\ Stored' = Stored \cup {f}
      /\ \A g \in Stored \ {f} : atlasFiles'[g] = atlasFiles[g]
      /\ atlasFiles'[f] = row
      /\ atlasFiles' \in [Paths -> Rows \cup {NoRow}]
  BY <1>1 DEF FilesKept, Stored
<1>3. ids \in Nat /\ ids' \in Nat /\ ids <= ids' /\ row.id <= ids'
  BY <1>1 DEF FilesKept
<1>4. \A g \in Stored : atlasFiles'[g].id = atlasFiles[g].id /\ atlasFiles[g].id \in Nat
  BY <1>1, <1>2 DEF FilesKept, Stored, Rows
<1>5. FilesKept'
  <2>1. \A g \in Stored' : atlasFiles'[g].id <= ids'
    BY <1>1, <1>2, <1>3, <1>4 DEF FilesKept
  <2>2. \A g, h \in Stored' : atlasFiles'[g].id = atlasFiles'[h].id => g = h
    BY <1>1, <1>2, <1>3, <1>4 DEF FilesKept
  <2> QED
    BY <1>2, <1>3, <2>1, <2>2 DEF FilesKept
<1>6. ExtractionsCurrent'
  BY <1>1, <1>2 DEF ExtractionsCurrent
<1>7. Ids \subseteq Ids'
  BY <1>2, <1>4 DEF Ids
<1>8. DocumentsKept' /\ VectorsKept'
  <2>1. DocumentsKept'
    BY <1>1, <1>7 DEF DocumentsKept, searched
  <2>2. UNCHANGED <<embeddings, chunks, chunkEmbeddings, left>>
    BY DEF searched, vectors
  <2>3. ASSUME NEW v \in embeddings
        PROVE  /\ v.id \in Nat /\ v.id <= ids'
               /\ \A g \in Stored' : atlasFiles'[g].id = v.id => v.path = g
               /\ (v.path \in Stored' /\ atlasFiles'[v.path].id = v.id) \/ v \in left
    <3>1. /\ v.id \in Nat /\ v.id <= ids
          /\ \A g \in Stored : atlasFiles[g].id = v.id => v.path = g
          /\ (v.path \in Stored /\ atlasFiles[v.path].id = v.id) \/ v \in left
      BY <1>1 DEF VectorsKept
    <3>2. v.id \in Nat /\ v.id <= ids'
      BY <1>3, <3>1
    <3>3. f \notin Stored => row.id # v.id
      BY <1>3, <3>1
    <3> QED
      BY <1>2, <1>4, <3>1, <3>2, <3>3
  <2>4. VectorsKept'
    BY <1>1, <2>2, <2>3 DEF VectorsKept
  <2> QED
    BY <2>1, <2>4
<1>9. ChunksKept'
  BY <1>1, <1>2, <1>3, <1>4 DEF ChunksKept, searched, vectors
<1>10. Orderly(todo, Stored)'
  BY Turn
<1>11. Ready(todo)'
  BY ReadyAnyway
<1>12. IndexCurrent'
  <2> SUFFICES ASSUME indexed' \/ (Includes(todo', "rebuilt") /\ ~Includes(todo', "clear")),
                      NEW g \in Stored'
               PROVE  Documented(g)' \/ Settles(todo', 0, g)
    BY DEF IndexCurrent
  <2>1. indexed' /\ indexed /\ what # "cross-reference"
    BY IndexTurn
  <2>2. Settles(todo', 0, f)
    BY <2>1, Turn
  <2>3. g # f => Documented(g) \/ Settles(todo', 0, g)
    BY <1>2, <2>1, IndexTurn
  <2>4. g # f /\ Documented(g) => Documented(g)'
    BY <1>2 DEF Documented, searched, vectors
  <2> QED
    BY <2>2, <2>3, <2>4
<1> QED
  BY <1>5, <1>6, <1>8, <1>9, <1>10, <1>11, <1>12 DEF CatalogueInv

LEMMA WriteKeeps == CatalogueInv /\ Write => CatalogueInv'
<1> SUFFICES ASSUME CatalogueInv, Write
             PROVE  CatalogueInv'
  OBVIOUS
<1>1. Doing("write") /\ UNCHANGED searched /\ UNCHANGED indexed
  BY DEF Write, others
<1>2. PICK f : f = Target
  OBVIOUS
<1>3. f \in Paths /\ todo[1].row \in Records /\ todo[1].hash \in Hashes /\ Head(todo) = todo[1]
  BY <1>1, <1>2, Turn, StatementFields
<1> DEFINE said == todo[1].row
           row == [id |-> IF Row = NoRow THEN NewId ELSE Row.id, hash |-> todo[1].hash, words |-> said.words,
                   hazards |-> said.hazards, ranges |-> said.ranges, patterns |-> said.patterns,
                   model |-> said.model, xrefs |-> IF Row = NoRow THEN <<>> ELSE Row.xrefs, made |-> todo[1].hash]
<1>4. atlasFiles' = [atlasFiles EXCEPT ![f] = row] /\ ids' = IF Row = NoRow THEN NewId ELSE ids
  BY <1>2, <1>3 DEF Write
<1>5. Row = atlasFiles[f] /\ (f \in Stored <=> Row # NoRow) /\ (f \in Stored => Row \in Rows) /\ ids \in Nat
  BY <1>2, <1>3 DEF Row, Stored, CatalogueInv, FilesKept
<1>6. row \in Rows
  <2>1. row.id \in Nat /\ row.xrefs \in CallSites \cup {<<>>}
    BY <1>3, <1>5 DEF Rows, NewId
  <2>2. /\ said.words \in Said("words") /\ said.hazards \in Said("hazards") /\ said.ranges \in Said("ranges")
        /\ said.patterns \in Said("patterns") /\ said.model \in {r.model : r \in Records} \cup {"none"}
    BY <1>3 DEF Said
  <2> QED
    BY <1>3, <2>1, <2>2 DEF Rows
<1>7. /\ IF f \in Stored THEN row.id = atlasFiles[f].id /\ ids' = ids ELSE row.id = ids + 1 /\ ids' = ids + 1
      /\ row.made = row.hash
  BY <1>4, <1>5 DEF NewId
<1> HIDE DEF row
<1>8. PICK what \in {"write", "scan", "invalidate", "cross-reference"} : what = "write"
  OBVIOUS
<1> QED
  BY <1>1, <1>2, <1>3, <1>4, <1>6, <1>7, <1>8, RowKeeps

LEMMA ScanRowKeeps == CatalogueInv /\ ScanRow => CatalogueInv'
<1> SUFFICES ASSUME CatalogueInv, ScanRow
             PROVE  CatalogueInv'
  OBVIOUS
<1>1. Doing("scan") /\ UNCHANGED searched /\ UNCHANGED indexed
  BY DEF ScanRow, others
<1>2. PICK f : f = Target
  OBVIOUS
<1>3. f \in Paths /\ todo[1].hash \in Hashes /\ Head(todo) = todo[1]
  BY <1>1, <1>2, Turn, StatementFields
<1>4. PICK row : row = IF Row = NoRow THEN EmptyRow(NewId, todo[1].hash) ELSE ScannedRow(Row, todo[1].hash)
  OBVIOUS
<1>5. atlasFiles' = [atlasFiles EXCEPT ![f] = row] /\ ids' = IF Row = NoRow THEN NewId ELSE ids
  BY <1>2, <1>3, <1>4 DEF ScanRow
<1>6. /\ Row = atlasFiles[f] /\ (f \in Stored <=> Row # NoRow) /\ (f \in Stored => Row \in Rows) /\ ids \in Nat
      /\ f \in Stored => (Row.model # "none" => Row.made = Row.hash)
  BY <1>2, <1>3 DEF Row, Stored, CatalogueInv, FilesKept, ExtractionsCurrent
<1>7. /\ row \in Rows /\ (row.model # "none" => row.made = row.hash)
      /\ IF f \in Stored THEN row.id = atlasFiles[f].id ELSE row.id = ids + 1
  <2>1. CASE Row = NoRow
    BY <1>3, <1>4, <1>6, <2>1 DEF EmptyRow, Rows, Said, NewId
  <2>2. CASE Row # NoRow
    BY <1>3, <1>4, <1>6, <2>2 DEF ScannedRow, Rows
  <2> QED
    BY <2>1, <2>2
<1>8. IF f \in Stored THEN row.id = atlasFiles[f].id /\ ids' = ids ELSE row.id = ids + 1 /\ ids' = ids + 1
  BY <1>5, <1>6, <1>7 DEF NewId
<1>9. PICK what \in {"write", "scan", "invalidate", "cross-reference"} : what = "scan"
  OBVIOUS
<1> QED
  BY <1>1, <1>2, <1>3, <1>5, <1>7, <1>8, <1>9, RowKeeps

LEMMA SetXrefsKeeps ==
  ASSUME NEW what \in {"invalidate", "cross-reference"}, CatalogueInv, SetXrefs(what)
  PROVE  CatalogueInv'
<1>1. Doing(what) /\ UNCHANGED searched /\ UNCHANGED ids
  BY DEF SetXrefs
<1>2. PICK f : f = Target
  OBVIOUS
<1>3. f \in Paths /\ todo[1].found \in CallSites \cup {<<>>} /\ Head(todo) = todo[1]
  BY <1>1, <1>2, Turn, StatementFields
<1>4. /\ Row = atlasFiles[f] /\ (f \in Stored <=> Row # NoRow) /\ (f \in Stored => Row \in Rows)
      /\ atlasFiles \in [Paths -> Rows \cup {NoRow}]
      /\ f \in Stored => (Row.model # "none" => Row.made = Row.hash)
  BY <1>2, <1>3 DEF Row, Stored, CatalogueInv, FilesKept, ExtractionsCurrent
<1>5. CASE Row = NoRow
  <2>1. UNCHANGED <<atlasFiles, indexed>>
    BY <1>5 DEF SetXrefs
  <2>2. FilesKept' /\ ExtractionsCurrent' /\ DocumentsKept' /\ ChunksKept' /\ VectorsKept' /\ Stored' = Stored
    BY <1>1, <2>1 DEF CatalogueInv, FilesKept, ExtractionsCurrent, DocumentsKept, ChunksKept, VectorsKept, Stored, Ids, searched, vectors
  <2>3. Orderly(todo, Stored)'
    BY <1>1, <2>2, Turn
  <2>4. Ready(todo)'
    BY <1>1, ReadyAnyway
  <2>5. \A g : Documented(g) => Documented(g)'
    BY <1>1, <2>1 DEF Documented, searched, vectors
  <2>6. IndexCurrent'
    BY <1>1, <2>1, <2>2, <2>5, IndexTurn DEF IndexCurrent
  <2> QED
    BY <2>2, <2>3, <2>4, <2>6 DEF CatalogueInv
<1>6. CASE Row # NoRow
  <2>1. PICK row : row = [Row EXCEPT !.xrefs = todo[1].found]
    OBVIOUS
  <2>2. /\ row \in Rows /\ row.id = Row.id /\ (row.model # "none" => row.made = row.hash)
    BY <1>3, <1>4, <1>6, <2>1 DEF Rows
  <2>3. atlasFiles' = [atlasFiles EXCEPT ![f] = row] /\ (indexed' => indexed /\ what # "cross-reference")
    BY <1>2, <1>3, <1>4, <1>6, <2>1 DEF SetXrefs
  <2>4. what \in {"write", "scan", "invalidate", "cross-reference"}
    OBVIOUS
  <2> QED
    BY <1>1, <1>2, <1>3, <1>4, <1>6, <2>2, <2>3, <2>4, RowKeeps
<1> QED
  BY <1>5, <1>6

(* A statement on vectors or chunks leaves the files and their documents.   *)
LEMMA BesideKeeps ==
  ASSUME CatalogueInv, NEW what \in {"embed", "unembed", "unembed chunks", "delete chunks"}, Doing(what),
         UNCHANGED <<atlasFiles, atlasFts, ids, indexed>>
  PROVE  /\ FilesKept' /\ ExtractionsCurrent' /\ DocumentsKept' /\ Orderly(todo, Stored)' /\ IndexCurrent'
         /\ Stored' = Stored /\ Ids' = Ids
         /\ \A f : NoDocument(f)' = NoDocument(f)
<1>1. FilesKept' /\ ExtractionsCurrent' /\ DocumentsKept' /\ Stored' = Stored /\ Ids' = Ids
  <2>1. Stored' = Stored
    BY DEF Stored
  <2>2. Ids' = Ids
    BY <2>1 DEF Ids
  <2> QED
    BY <2>1, <2>2 DEF CatalogueInv, FilesKept, ExtractionsCurrent, DocumentsKept
<1>4. \A f : NoDocument(f)' = NoDocument(f) /\ Documented(f)' = Documented(f)
  BY <1>1 DEF NoDocument, Documented
<1>2. Orderly(todo, Stored)'
  BY <1>1, Turn
<1>3. IndexCurrent'
  BY <1>1, <1>4, IndexTurn DEF IndexCurrent
<1> QED
  BY <1>1, <1>2, <1>3, <1>4

LEMMA EmbedKeeps == CatalogueInv /\ Embed => CatalogueInv'
<1> SUFFICES ASSUME CatalogueInv, Embed
             PROVE  CatalogueInv'
  OBVIOUS
<1>1. /\ Doing("embed") /\ UNCHANGED <<atlasFiles, atlasFts, chunks, chunkEmbeddings, left, listed, ids, indexed>>
      /\ embeddings' \in
           {embeddings, embeddings \cup {[id |-> atlasFiles[f].id, path |-> f] : f \in Stored \cap {Target}}}
  BY DEF Embed, others
<1>2. PICK what \in {"embed", "unembed", "unembed chunks", "delete chunks"} : what = "embed"
  OBVIOUS
<1>3. /\ FilesKept' /\ ExtractionsCurrent' /\ DocumentsKept' /\ Orderly(todo, Stored)' /\ IndexCurrent'
      /\ Stored' = Stored /\ Ids' = Ids
  BY <1>1, <1>2, BesideKeeps
<1>4. Ready(todo)'
  BY <1>1, ReadyAnyway
<1>5. ChunksKept'
  BY <1>1, <1>3 DEF CatalogueInv, ChunksKept
<1>6. VectorsKept'
  <2>1. \A v \in embeddings' : v \in embeddings \/ \E f \in Stored : v = [id |-> atlasFiles[f].id, path |-> f]
    BY <1>1
  <2>2. ASSUME NEW v, NEW f \in Stored, v = [id |-> atlasFiles[f].id, path |-> f]
        PROVE  /\ v.id \in Nat /\ v.id <= ids
               /\ \A g \in Stored : atlasFiles[g].id = v.id => v.path = g
               /\ v.path \in Stored /\ atlasFiles[v.path].id = v.id
    <3>1. v.id = atlasFiles[f].id /\ v.path = f
      BY <2>2
    <3>2. atlasFiles[f].id \in Nat /\ atlasFiles[f].id <= ids
      BY DEF CatalogueInv, FilesKept, Stored, Rows
    <3> QED
      BY <3>1, <3>2 DEF CatalogueInv, FilesKept
  <2>3. VectorsKept
    BY DEF CatalogueInv
  <2> QED
    BY <1>1, <1>3, <2>1, <2>2, <2>3, ZenonT(60) DEF VectorsKept
<1> QED
  BY <1>3, <1>4, <1>5, <1>6 DEF CatalogueInv

LEMMA UnembedKeeps == CatalogueInv /\ Unembed => CatalogueInv'
<1> SUFFICES ASSUME CatalogueInv, Unembed
             PROVE  CatalogueInv'
  OBVIOUS
<1>1. Doing("unembed") /\ UNCHANGED <<atlasFiles, atlasFts, chunks, chunkEmbeddings, listed, ids, indexed>>
  BY DEF Unembed, others
<1>2. PICK what \in {"embed", "unembed", "unembed chunks", "delete chunks"} : what = "unembed"
  OBVIOUS
<1>3. /\ FilesKept' /\ ExtractionsCurrent' /\ DocumentsKept' /\ Orderly(todo, Stored)' /\ IndexCurrent'
      /\ Stored' = Stored /\ Ids' = Ids /\ \A f : NoDocument(f)' = NoDocument(f)
  BY <1>1, <1>2, BesideKeeps
<1>5. PICK f : f = Target
  OBVIOUS
<1>8. /\ embeddings' \subseteq embeddings /\ left \subseteq left'
      /\ \A v \in embeddings' : f \in Stored /\ v.id = atlasFiles[f].id => v \in left'
  BY <1>5 DEF Unembed, VectorsOf
<1>4. ChunksKept' /\ VectorsKept'
  BY <1>1, <1>3, <1>8 DEF CatalogueInv, ChunksKept, VectorsKept
<1>6. NoVector(f)'
  BY <1>1, <1>3, <1>8 DEF NoVector
<1>7. Ready(todo)'
  <2>1. /\ Doing(what)
        /\ what \notin {"unindex", "unembed chunks", "delete chunks", "unlink", "forget"}
        /\ NoDocument(f) => NoDocument(f)'
    BY <1>1, <1>2, <1>3
  <2> QED
    BY <1>2, <1>5, <1>6, <2>1, ReadyKept
<1> QED
  BY <1>3, <1>4, <1>7 DEF CatalogueInv

LEMMA UnembedChunksKeeps == CatalogueInv /\ UnembedChunks => CatalogueInv'
<1> SUFFICES ASSUME CatalogueInv, UnembedChunks
             PROVE  CatalogueInv'
  OBVIOUS
<1>1. Doing("unembed chunks") /\ UNCHANGED <<atlasFiles, atlasFts, embeddings, chunks, listed, ids, indexed>>
  BY DEF UnembedChunks, others
<1>2. PICK what \in {"embed", "unembed", "unembed chunks", "delete chunks"} : what = "unembed chunks"
  OBVIOUS
<1>3. /\ FilesKept' /\ ExtractionsCurrent' /\ DocumentsKept' /\ Orderly(todo, Stored)' /\ IndexCurrent'
      /\ Stored' = Stored /\ Ids' = Ids /\ \A f : NoDocument(f)' = NoDocument(f)
  BY <1>1, <1>2, BesideKeeps
<1>5. PICK f : f = Target
  OBVIOUS
<1>8. RemoveChunkVectors(f)
  BY <1>5 DEF UnembedChunks
<1>9. /\ chunkEmbeddings' \subseteq chunkEmbeddings /\ left \subseteq left'
      /\ \A c \in chunks : c.path = f /\ c \in chunkEmbeddings' => c \in left'
  BY <1>8 DEF RemoveChunkVectors, ChunkVectorsOf, ChunksOf
<1>4. ChunksKept' /\ VectorsKept'
  BY <1>1, <1>3, <1>9 DEF CatalogueInv, ChunksKept, VectorsKept
<1>6. NoChunkVector(f)' /\ (NoVector(f) => NoVector(f)')
  BY <1>1, <1>3, <1>9 DEF NoChunkVector, NoVector
<1>7. Ready(todo)'
  <2>1. /\ Doing(what)
        /\ what \notin {"unindex", "unembed", "delete chunks", "unlink", "forget"}
        /\ NoDocument(f) => NoDocument(f)'
    BY <1>1, <1>2, <1>3
  <2> QED
    BY <1>2, <1>5, <1>6, <2>1, ReadyKept
<1> QED
  BY <1>3, <1>4, <1>7 DEF CatalogueInv

LEMMA DeleteChunksKeeps == CatalogueInv /\ DeleteChunks => CatalogueInv'
<1> SUFFICES ASSUME CatalogueInv, DeleteChunks
             PROVE  CatalogueInv'
  OBVIOUS
<1>1. Doing("delete chunks") /\ UNCHANGED <<atlasFiles, atlasFts, embeddings, chunkEmbeddings, left, listed, ids, indexed>>
  BY DEF DeleteChunks, others
<1>2. PICK what \in {"embed", "unembed", "unembed chunks", "delete chunks"} : what = "delete chunks"
  OBVIOUS
<1>3. /\ FilesKept' /\ ExtractionsCurrent' /\ DocumentsKept' /\ Orderly(todo, Stored)' /\ IndexCurrent'
      /\ Stored' = Stored /\ Ids' = Ids /\ \A f : NoDocument(f)' = NoDocument(f)
  BY <1>1, <1>2, BesideKeeps
<1>4. PICK f : f = Target
  OBVIOUS
<1>5. chunks' = {c \in chunks : c.path # f}
  BY <1>4 DEF DeleteChunks, ChunksOf
<1>6. NoChunkVector(f) /\ IsFiniteSet(chunks')
  <2>1. IsFiniteSet(chunks) /\ chunks' \in SUBSET chunks
    BY <1>5 DEF CatalogueInv, ChunksKept
  <2>2. NoChunkVector(f)
    BY <1>1, <1>4, Turn DEF CatalogueInv, Ready
  <2> QED
    BY <2>1, <2>2, FS_Subset
<1>7. ChunksKept'
  BY <1>1, <1>3, <1>5, <1>6 DEF CatalogueInv, ChunksKept
<1>8. VectorsKept'
  BY <1>1, <1>3, <1>5, <1>6 DEF CatalogueInv, VectorsKept, NoChunkVector
<1>9. Ready(todo)'
  <2>1. /\ Doing(what)
        /\ what \notin {"unindex", "unembed", "unembed chunks", "unlink", "forget"}
        /\ NoDocument(f) => NoDocument(f)'
    BY <1>1, <1>2, <1>3
  <2>2. /\ NoVector(f) => NoVector(f)'
        /\ NoChunkVector(f) => NoChunkVector(f)'
        /\ NoChunk(f)'
    BY <1>1, <1>3, <1>5 DEF NoVector, NoChunkVector, NoChunk
  <2> QED
    BY <1>2, <1>4, <2>1, <2>2, ReadyKept
<1> QED
  BY <1>3, <1>7, <1>8, <1>9 DEF CatalogueInv

(* The last statement of a deletion finds nothing that is still derived.    *)
LEMMA RemoveRowKeeps == CatalogueInv /\ RemoveRow => CatalogueInv'
<1> SUFFICES ASSUME CatalogueInv, RemoveRow
             PROVE  CatalogueInv'
  OBVIOUS
<1>1. Doing("remove") /\ UNCHANGED <<atlasFts, embeddings, chunkEmbeddings, left, listed, ids, indexed>>
  BY DEF RemoveRow, others
<1>2. PICK f : f = Target
  OBVIOUS
<1>3. f \in Paths /\ NoDocument(f) /\ NoVector(f) /\ NoChunk(f)
  BY <1>1, <1>2, Turn, StatementFields DEF FileStatements, CatalogueInv, Ready
<1>4. FilesKept /\ ExtractionsCurrent /\ DocumentsKept /\ ChunksKept /\ VectorsKept
  BY DEF CatalogueInv
<1>5. atlasFiles' = [atlasFiles EXCEPT ![f] = NoRow] /\ atlasFiles \in [Paths -> Rows \cup {NoRow}]
  BY <1>2, <1>4 DEF RemoveRow, FilesKept
<1>6. Stored' = Stored \ {f} /\ \A g \in Stored' : atlasFiles'[g] = atlasFiles[g]
  BY <1>3, <1>5 DEF Stored
<1>7. chunks' = chunks
  <2>1. \A c \in chunks : f \in Stored => c.file # atlasFiles[f].id
    BY <1>3, <1>4 DEF ChunksKept, FilesKept, NoChunk
  <2>2. chunks' = IF f \in Stored THEN {c \in chunks : c.file # atlasFiles[f].id} ELSE chunks
    BY <1>2, <1>3 DEF RemoveRow, Row, Stored
  <2> QED
    BY <2>1, <2>2
<1>8. FilesKept'
  BY <1>1, <1>3, <1>4, <1>5, <1>6 DEF FilesKept
<1>9. ExtractionsCurrent'
  BY <1>4, <1>6 DEF ExtractionsCurrent
<1>10. \A n \in Ids : (f \in Stored /\ n = atlasFiles[f].id) \/ n \in Ids'
  BY <1>6 DEF Ids
<1>11. DocumentsKept' /\ VectorsKept'
  <2>1. DocumentsKept'
    BY <1>1, <1>3, <1>4, <1>7, <1>10 DEF DocumentsKept, NoDocument
  <2>2. VectorsKept'
    BY <1>1, <1>3, <1>4, <1>6, <1>7 DEF VectorsKept, NoVector
  <2> QED
    BY <2>1, <2>2
<1>12. ChunksKept'
  BY <1>1, <1>3, <1>4, <1>6, <1>7 DEF ChunksKept, NoChunk
<1>13. Orderly(todo, Stored)'
  BY <1>1, Turn
<1>14. Ready(todo)'
  BY <1>1, ReadyAnyway
<1>15. IndexCurrent'
  <2> SUFFICES ASSUME indexed \/ (Includes(todo', "rebuilt") /\ ~Includes(todo', "clear")),
                      NEW g \in Stored'
               PROVE  Documented(g)' \/ Settles(todo', 0, g)
    BY <1>1 DEF IndexCurrent
  <2>1. g \in Stored /\ g # f /\ (Documented(g) \/ Settles(todo', 0, g))
    BY <1>1, <1>2, <1>6, IndexTurn
  <2> QED
    BY <1>1, <1>6, <2>1 DEF Documented
<1> QED
  BY <1>8, <1>9, <1>11, <1>12, <1>13, <1>14, <1>15 DEF CatalogueInv

LEMMA StatementKeeps == CatalogueInv /\ Step => CatalogueInv'
<1> SUFFICES ASSUME CatalogueInv, Step
             PROVE  CatalogueInv'
  OBVIOUS
<1>1. CASE Rebuilt
  BY <1>1, TurnKeeps DEF Rebuilt, searched, vectors
<1>2. CASE Flag
  BY <1>2, TurnKeeps DEF Flag, searched, vectors
<1>3. CASE Unlink
  BY <1>3, TurnKeeps DEF Unlink, searched, vectors, others
<1>4. CASE Forget
  BY <1>4, TurnKeeps DEF Forget, searched, vectors, others
<1>5. CASE UpsertSymbols
  BY <1>5, TurnKeeps DEF UpsertSymbols, searched, vectors, others
<1>6. CASE ReplaceReferences
  BY <1>6, TurnKeeps DEF ReplaceReferences, searched, vectors, others
<1> QED
  BY <1>1, <1>2, <1>3, <1>4, <1>5, <1>6, UnindexKeeps, IndexKeeps, ClearKeeps, WriteKeeps, ScanRowKeeps,
     SetXrefsKeeps, EmbedKeeps, UnembedKeeps, UnembedChunksKeeps, DeleteChunksKeeps, RemoveRowKeeps DEF Step

-----------------------------------------------------------------------------
(* Operations                                                               *)

(* A sequence of statements that may be begun when none is under way.       *)
Startable(s, files) ==
  /\ Orderly(s, files)
  /\ s # <<>> =>
       /\ s[1].do \notin {"index", "unembed chunks", "delete chunks", "unlink", "forget", "remove"}
       /\ ~(s[1].do = "unembed" /\ Len(s) > 1 /\ s[2].do = "unembed chunks")
  /\ Includes(s, "rebuilt") => Includes(s, "clear")

LEMMA BeginKeeps ==
  ASSUME CatalogueInv, NEW s, Startable(s, Stored), Begin(s)
  PROVE  CatalogueInv'
<1>1. todo = <<>> /\ todo' = s /\ UNCHANGED <<atlasFiles, atlasFts, embeddings, chunks, chunkEmbeddings, left, listed, ids, indexed>>
  BY DEF Begin, searched, vectors, others
<1>2. FilesKept' /\ ExtractionsCurrent' /\ DocumentsKept' /\ ChunksKept' /\ VectorsKept' /\ Stored' = Stored
  BY <1>1 DEF CatalogueInv, FilesKept, ExtractionsCurrent, DocumentsKept, ChunksKept, VectorsKept, Stored, Ids
<1>3. Orderly(todo, Stored)'
  BY <1>1, <1>2 DEF Startable
<1>4. Ready(todo)'
  BY <1>1 DEF Startable, Ready
<1>5. \A f : Documented(f)' = Documented(f)
  BY <1>1 DEF Documented
<1>6. \A f : ~Settles(<<>>, 0, f)
  BY DEF Settles
<1>7. IndexCurrent'
  BY <1>1, <1>2, <1>5, <1>6 DEF CatalogueInv, IndexCurrent, Startable
<1> QED
  BY <1>2, <1>3, <1>4, <1>7 DEF CatalogueInv

(* Of the operations on one file.                                           *)
LEMMA RowOperation ==
  ASSUME NEW f \in Paths, NEW first \in Statements, first.file = f, NEW files,
         first.do \in {"write", "scan", "invalidate"}
  PROVE  Startable(<<first>> \o PopulateFts(f), files)
<1> DEFINE s == <<first, Statement("unindex", f), Statement("index", f)>>
<1>1. Statement("unindex", f) \in Statements /\ Statement("index", f) \in Statements
  BY DEF Statement, Statements, FileStatements
<1>2. s = <<first>> \o PopulateFts(f)
  BY <1>1 DEF PopulateFts
<1>3. s \in Seq(Statements) /\ Len(s) = 3 /\ s[1] = first
  BY <1>1
<1>4. s[2].do = "unindex" /\ s[2].file = f /\ s[3].do = "index" /\ s[3].file = f
  BY DEF Statement
<1> HIDE DEF s
<1>5. Chained(s)
  <2> SUFFICES ASSUME NEW i \in 2..3
               PROVE  s[i].do \in {"unindex", "index"} /\ (s[i].do = "index" => s[i - 1].do = "unindex" /\ s[i - 1].file = s[i].file)
    BY <1>3 DEF Chained, After
  <2>1. i = 2 \/ (i = 3 /\ i - 1 = 2)
    OBVIOUS
  <2> QED
    BY <1>4, <2>1
<1>6. Settles(s, 1, f) /\ Settles(s, 2, f)
  BY <1>3, <1>4 DEF Settles
<1>7. Settled(s) /\ Alone(s, files) /\ ~Includes(s, "rebuilt")
  BY <1>3, <1>4, <1>6 DEF Settled, Alone, Includes
<1> QED
  BY <1>2, <1>3, <1>5, <1>7 DEF Startable, Orderly

LEMMA DeletionStartable ==
  ASSUME NEW f \in Paths, NEW files
  PROVE  Startable(DeleteAtlasFile(f), files)
<1> DEFINE s == DeleteAtlasFile(f)
<1>1. \A do \in FileStatements : Statement(do, f) \in Statements
  BY DEF Statement, Statements
<1>2. s \in Seq(Statements) /\ Len(s) = 7
  <2>1. /\ Statement("unindex", f) \in Statements /\ Statement("unembed", f) \in Statements
        /\ Statement("unembed chunks", f) \in Statements /\ Statement("delete chunks", f) \in Statements
        /\ Statement("unlink", f) \in Statements /\ Statement("forget", f) \in Statements
        /\ Statement("remove", f) \in Statements
    BY <1>1 DEF FileStatements
  <2>2. \A a, b, c, d, e, g, h \in Statements :
          <<a, b, c, d, e, g, h>> \in Seq(Statements) /\ Len(<<a, b, c, d, e, g, h>>) = 7
    OBVIOUS
  <2> HIDE DEF s
  <2>3. s = <<Statement("unindex", f), Statement("unembed", f), Statement("unembed chunks", f),
              Statement("delete chunks", f), Statement("unlink", f), Statement("forget", f), Statement("remove", f)>>
    BY DEF s, DeleteAtlasFile
  <2> QED
    BY <2>1, <2>2, <2>3
<1>3. /\ s[1].do = "unindex" /\ s[2].do = "unembed" /\ s[3].do = "unembed chunks" /\ s[4].do = "delete chunks"
      /\ s[5].do = "unlink" /\ s[6].do = "forget" /\ s[7].do = "remove"
      /\ s[1].file = f /\ s[2].file = f /\ s[3].file = f /\ s[4].file = f
      /\ s[5].file = f /\ s[6].file = f /\ s[7].file = f
  BY DEF DeleteAtlasFile, Statement
<1> HIDE DEF s
<1>4. Chained(s)
  <2> SUFFICES ASSUME NEW i \in 2..7
               PROVE  /\ After(s, i, "index", "unindex")
                      /\ After(s, i, "unembed", "unindex")
                      /\ After(s, i, "unembed chunks", "unembed")
                      /\ After(s, i, "delete chunks", "unembed chunks")
                      /\ After(s, i, "unlink", "delete chunks")
                      /\ After(s, i, "forget", "unlink")
                      /\ After(s, i, "remove", "forget")
    BY <1>2 DEF Chained
  <2>1. CASE i = 2
    <3>1. i - 1 = 1
      BY <2>1
    <3> QED
      BY <1>3, <2>1, <3>1 DEF After
  <2>2. CASE i = 3
    <3>1. i - 1 = 2
      BY <2>2
    <3> QED
      BY <1>3, <2>2, <3>1 DEF After
  <2>3. CASE i = 4
    <3>1. i - 1 = 3
      BY <2>3
    <3> QED
      BY <1>3, <2>3, <3>1 DEF After
  <2>4. CASE i = 5
    <3>1. i - 1 = 4
      BY <2>4
    <3> QED
      BY <1>3, <2>4, <3>1 DEF After
  <2>5. CASE i = 6
    <3>1. i - 1 = 5
      BY <2>5
    <3> QED
      BY <1>3, <2>5, <3>1 DEF After
  <2>6. CASE i = 7
    <3>1. i - 1 = 6
      BY <2>6
    <3> QED
      BY <1>3, <2>6, <3>1 DEF After
  <2>7. i \in {2, 3, 4, 5, 6, 7}
    OBVIOUS
  <2> QED
    BY <2>1, <2>2, <2>3, <2>4, <2>5, <2>6, <2>7
<1>5. Settles(s, 1, f)
  <2>1. 7 \in 1 + 1..Len(s)
    BY <1>2
  <2> QED
    BY <1>3, <2>1 DEF Settles
<1>6. \A i \in 1..Len(s) : s[i].do \notin {"write", "scan", "invalidate", "clear", "rebuilt"} /\ (s[i].do = "unindex" => i = 1)
  <2> SUFFICES ASSUME NEW i \in 1..7
               PROVE  s[i].do \notin {"write", "scan", "invalidate", "clear", "rebuilt"} /\ (s[i].do = "unindex" => i = 1)
    BY <1>2
  <2>1. i \in {1, 2, 3, 4, 5, 6, 7}
    OBVIOUS
  <2> QED
    BY <1>3, <2>1
<1>7. Settled(s) /\ Alone(s, files) /\ ~Includes(s, "rebuilt")
  BY <1>3, <1>5, <1>6 DEF Settled, Alone, Includes
<1>8. Orderly(s, files)
  BY <1>2, <1>4, <1>7 DEF Orderly
<1>9. Startable(s, files)
  BY <1>3, <1>7, <1>8 DEF Startable
<1> QED
  BY <1>9 DEF s

LEMMA PairStartable ==
  ASSUME NEW a \in Statements, NEW b \in Statements, NEW files,
         (a.do = "unembed" /\ b.do = "embed") \/ (a.do = "cross-reference" /\ b.do = "references")
  PROVE  Startable(<<a, b>>, files)
<1> DEFINE s == <<a, b>>
<1>1. s \in Seq(Statements) /\ Len(s) = 2 /\ s[1] = a /\ s[2] = b
  OBVIOUS
<1> HIDE DEF s
<1>2. Chained(s)
  <2> SUFFICES ASSUME NEW i \in 2..2
               PROVE  s[i].do \in {"embed", "references"}
    BY <1>1 DEF Chained, After
  <2> QED
    BY <1>1
<1>3. Settled(s) /\ Alone(s, files) /\ ~Includes(s, "rebuilt")
  BY <1>1 DEF Settled, Alone, Includes
<1>4. Startable(s, files)
  BY <1>1, <1>2, <1>3 DEF Startable, Orderly
<1> QED
  BY <1>4 DEF s

(* Rows m + 2 to l of a sequence clear and fill the index, file by file.    *)
Rebuilds(s, m, l, files) ==
  /\ s \in Seq(Statements) /\ m < l /\ l < Len(s)
  /\ \A i \in 1..m : s[i].do \in {"symbols", "references"}
  /\ s[m + 1].do = "clear"
  /\ \A i \in m + 2..l :
       \/ s[i].do = "unindex" /\ i + 1 <= l /\ s[i + 1].do = "index" /\ s[i + 1].file = s[i].file
       \/ s[i].do = "index" /\ i - 1 > m + 1 /\ s[i - 1].do = "unindex" /\ s[i - 1].file = s[i].file
  /\ \A f \in files : \E i \in m + 2..l : s[i].do = "index" /\ s[i].file = f
  /\ s[l + 1].do = "rebuilt"
  /\ \A i \in l + 2..Len(s) : s[i].do = "flag"

LEMMA RebuildStartable ==
  ASSUME NEW m \in Nat, NEW l \in Nat, NEW s, NEW files, Rebuilds(s, m, l, files)
  PROVE  Startable(s, files)
<1>1. s \in Seq(Statements) /\ m < l /\ l < Len(s) /\ Len(s) \in Nat
  BY DEF Rebuilds
<1>2. \A i \in 1..Len(s) :
        \/ i <= m /\ s[i].do \in {"symbols", "references"}
        \/ i = m + 1 /\ s[i].do = "clear"
        \/ /\ i > m + 1 /\ i <= l /\ s[i].do = "unindex"
           /\ i + 1 <= l /\ s[i + 1].do = "index" /\ s[i + 1].file = s[i].file
        \/ i > m + 1 /\ i <= l /\ s[i].do = "index" /\ s[i - 1].do = "unindex" /\ s[i - 1].file = s[i].file
        \/ i = l + 1 /\ s[i].do = "rebuilt"
        \/ i > l + 1 /\ s[i].do = "flag"
  <2> SUFFICES ASSUME NEW i \in 1..Len(s)
               PROVE  \/ i <= m /\ s[i].do \in {"symbols", "references"}
                      \/ i = m + 1 /\ s[i].do = "clear"
                      \/ /\ i > m + 1 /\ i <= l /\ s[i].do = "unindex"
                         /\ i + 1 <= l /\ s[i + 1].do = "index" /\ s[i + 1].file = s[i].file
                      \/ i > m + 1 /\ i <= l /\ s[i].do = "index" /\ s[i - 1].do = "unindex" /\ s[i - 1].file = s[i].file
                      \/ i = l + 1 /\ s[i].do = "rebuilt"
                      \/ i > l + 1 /\ s[i].do = "flag"
    OBVIOUS
  <2>1. i \in 1..m \/ i = m + 1 \/ i \in m + 2..l \/ i = l + 1 \/ i \in l + 2..Len(s)
    BY <1>1
  <2> QED
    BY <1>1, <2>1 DEF Rebuilds
<1>3. \A i \in 2..Len(s) :
        /\ s[i].do \in {"symbols", "references", "clear", "unindex", "index", "rebuilt", "flag"}
        /\ s[i].do = "index" => s[i - 1].do = "unindex" /\ s[i - 1].file = s[i].file
  BY <1>1, <1>2
<1>4. Chained(s)
  BY <1>3 DEF Chained, After
<1>5. Settled(s)
  <2> SUFFICES ASSUME NEW i \in 1..Len(s), s[i].do \in {"unindex", "write", "scan", "invalidate"}
               PROVE  Settles(s, i, s[i].file)
    BY DEF Settled
  <2>1. i + 1 <= l /\ s[i + 1].do = "index" /\ s[i + 1].file = s[i].file
    BY <1>2
  <2>2. i + 1 \in i + 1..Len(s)
    BY <1>1, <2>1
  <2> QED
    BY <2>1, <2>2 DEF Settles
<1>6. \A f \in files : Settles(s, m + 1, f)
  <2> SUFFICES ASSUME NEW f \in files
               PROVE  Settles(s, m + 1, f)
    OBVIOUS
  <2>1. PICK i \in m + 2..l : s[i].do = "index" /\ s[i].file = f
    BY DEF Rebuilds
  <2>2. i \in (m + 1) + 1..Len(s)
    BY <1>1
  <2> QED
    BY <2>1, <2>2 DEF Settles
<1>7. Alone(s, files)
  <2>1. \A i \in 1..Len(s) : (s[i].do = "clear" => i = m + 1) /\ (s[i].do = "rebuilt" => i = l + 1)
    BY <1>2
  <2>2. \A j \in 1..m : s[j].do \in {"symbols", "references"}
    BY DEF Rebuilds
  <2>3. \A j \in 1..l : s[j].do \in {"symbols", "references", "clear", "unindex", "index"}
    <3> SUFFICES ASSUME NEW j \in 1..l
                 PROVE  s[j].do \in {"symbols", "references", "clear", "unindex", "index"}
      OBVIOUS
    <3>1. j \in 1..Len(s) /\ ~(j = l + 1) /\ ~(j > l + 1)
      BY <1>1
    <3> QED
      BY <1>2, <3>1
  <2>4. ASSUME NEW i \in 1..Len(s), s[i].do = "clear"
        PROVE  (\A j \in 1..i - 1 : s[j].do \in {"symbols", "references"}) /\ (\A f \in files : Settles(s, i, f))
    BY <2>1, <2>2, <2>4, <1>6
  <2>5. ASSUME NEW i \in 1..Len(s), s[i].do = "rebuilt"
        PROVE  \A j \in 1..i - 1 : s[j].do \in {"symbols", "references", "clear", "unindex", "index"}
    BY <2>1, <2>3, <2>5
  <2> QED
    BY <2>4, <2>5 DEF Alone
<1>8. Includes(s, "clear")
  <2>1. m + 1 \in 1..Len(s) /\ s[m + 1].do = "clear"
    BY <1>1 DEF Rebuilds
  <2> QED
    BY <2>1 DEF Includes
<1>9. s[1].do \in {"symbols", "references", "clear"}
  BY <1>1 DEF Rebuilds
<1>10. Orderly(s, files)
  BY <1>1, <1>4, <1>5, <1>7 DEF Orderly
<1> QED
  BY <1>8, <1>9, <1>10 DEF Startable

LEMMA BackfillStartable ==
  ASSUME NEW s \in Seq(Statements), NEW files, \A i \in 1..Len(s) : s[i].do \in {"symbols", "references"}
  PROVE  Startable(s, files)
<1>1. Chained(s) /\ Settled(s) /\ Alone(s, files) /\ ~Includes(s, "rebuilt")
  <2>1. \A i \in 2..Len(s) : s[i].do \in {"symbols", "references"}
    OBVIOUS
  <2>2. Chained(s)
    BY <2>1 DEF Chained, After
  <2> QED
    BY <2>2 DEF Settled, Alone, Includes
<1>2. s # <<>> => s[1].do \in {"symbols", "references"}
  <2>1. s # <<>> => 1 \in 1..Len(s)
    OBVIOUS
  <2> QED
    BY <2>1
<1> QED
  BY <1>1, <1>2 DEF Startable, Orderly

(* The order in which the files are visited has each of them.               *)
LEMMA OrderOfFiles ==
  ASSUME NEW S, IsFiniteSet(S)
  PROVE  /\ SetToSeq(S) \in Seq(S)
         /\ \A f \in S : \E k \in 1..Len(SetToSeq(S)) : SetToSeq(S)[k] = f
<1> DEFINE n == Cardinality(S)
<1>1. n \in Nat /\ ExistsBijection(1..n, S)
  BY FS_CardinalityType
<1>2. PICK g \in Bijection(1..n, S) : TRUE
  BY <1>1 DEF ExistsBijection
<1>3. g \in [1..n -> S] /\ IsInjective(g)
  BY <1>2 DEF Bijection, Injection
<1> DEFINE order == SetToSeq(S)
<1>4. order \in [1..n -> S] /\ IsInjective(order)
  BY <1>3 DEF SetToSeq
<1> HIDE DEF order
<1>5. order \in Injection(1..n, S)
  BY <1>4 DEF Injection
<1>6. Cardinality(1..n) = n
  BY <1>1, FS_Interval
<1>7. order \in Surjection(1..n, S)
  BY <1>5, <1>6, FS_Injection
<1>8. order \in Seq(S) /\ Len(order) = n
  BY <1>1, <1>4
<1>9. \A f \in S : \E k \in 1..n : order[k] = f
  BY <1>7 DEF Surjection
<1> QED
  BY <1>8, <1>9 DEF order

(* Two statements for each file, in the order of the files.                 *)
Populates(e, order) ==
  /\ e \in Seq(Statements) /\ Len(e) = 2 * Len(order)
  /\ \A k \in 1..2 * Len(order) :
       \/ e[k].do = "unindex" /\ k + 1 <= 2 * Len(order) /\ e[k + 1].do = "index" /\ e[k + 1].file = e[k].file
       \/ e[k].do = "index" /\ k - 1 >= 1 /\ e[k - 1].do = "unindex" /\ e[k - 1].file = e[k].file
  /\ \A i \in 1..Len(order) : \E k \in 1..2 * Len(order) : e[k].do = "index" /\ e[k].file = order[i]

LEMMA EachPopulates ==
  ASSUME NEW order \in Seq(Paths), NEW T, NEW e \in [1..2 * Len(order) -> T],
         \A k \in 1..2 * Len(order) : e[k] = PopulateFts(order[(k + 1) \div 2])[2 - (k % 2)]
  PROVE  Populates(e, order)
<1> DEFINE n == Len(order)
           file(k) == order[(k + 1) \div 2]
<1>1. n \in Nat /\ 2 * n \in Nat
  OBVIOUS
<1>2. \A k \in 1..2 * n : (k + 1) \div 2 \in 1..n /\ (k % 2 = 1 \/ k % 2 = 0)
  <2> HIDE DEF n
  <2> QED
    BY <1>1
<1>3. \A k \in 1..2 * n : k % 2 = 1 =>
        k + 1 \in 1..2 * n /\ k + 1 <= 2 * n /\ (k + 1) % 2 = 0 /\ (k + 1 + 1) \div 2 = (k + 1) \div 2
  <2> HIDE DEF n
  <2> SUFFICES ASSUME NEW k \in 1..2 * n, k % 2 = 1
               PROVE  k + 1 \in 1..2 * n /\ k + 1 <= 2 * n /\ (k + 1) % 2 = 0 /\ (k + 1 + 1) \div 2 = (k + 1) \div 2
    OBVIOUS
  <2>1. PICK q \in Int : k = 2 * q + 1
    <3>1. k = 2 * (k \div 2) + (k % 2) /\ k \div 2 \in Int
      OBVIOUS
    <3> QED
      BY <3>1
  <2>2. k + 1 <= 2 * n /\ k + 1 \in 1..2 * n
    BY <1>1, <2>1
  <2>3. (k + 1) % 2 = 0
    <3>1. PICK r \in Int : k + 1 = 2 * r
      <4>1. q + 1 \in Int /\ k + 1 = 2 * (q + 1)
        BY <2>1
      <4> QED
        BY <4>1
    <3>2. (2 * r) % 2 = 0
      OBVIOUS
    <3> QED
      BY <3>1, <3>2
  <2>4. (k + 1 + 1) \div 2 = (k + 1) \div 2
    BY <1>1
  <2> QED
    BY <2>2, <2>3, <2>4
<1>4. \A k \in 1..2 * n : k % 2 = 0 =>
        k - 1 \in 1..2 * n /\ k - 1 >= 1 /\ (k - 1) % 2 = 1 /\ (k - 1 + 1) \div 2 = (k + 1) \div 2
  <2> HIDE DEF n
  <2> QED
    BY <1>1
<1>5. \A i \in 1..n : 2 * i \in 1..2 * n /\ (2 * i) % 2 = 0 /\ (2 * i + 1) \div 2 = i
  <2> HIDE DEF n
  <2> QED
    BY <1>1
<1>6. \A k \in 1..2 * n : file(k) \in Paths
  BY <1>2
<1>7. \A f \in Paths : /\ PopulateFts(f)[1] \in Statements /\ PopulateFts(f)[2] \in Statements
                       /\ PopulateFts(f)[1].do = "unindex" /\ PopulateFts(f)[1].file = f
                       /\ PopulateFts(f)[2].do = "index" /\ PopulateFts(f)[2].file = f
  BY DEF PopulateFts, Statement, Statements, FileStatements
<1>8. \A k \in 1..2 * n : /\ k % 2 = 1 => e[k] = PopulateFts(file(k))[1]
                          /\ k % 2 = 0 => e[k] = PopulateFts(file(k))[2]
  OBVIOUS
<1>9. /\ \A k \in 1..2 * n : k % 2 = 1 => file(k + 1) = file(k)
      /\ \A k \in 1..2 * n : k % 2 = 0 => file(k - 1) = file(k)
      /\ \A i \in 1..n : file(2 * i) = order[i]
  BY <1>3, <1>4, <1>5
<1>10. DOMAIN e = 1..2 * n /\ e = [k \in 1..2 * n |-> e[k]]
  OBVIOUS
<1> HIDE DEF n, file
<1>11. \A k \in 1..2 * n : /\ k % 2 = 1 => e[k] \in Statements /\ e[k].do = "unindex" /\ e[k].file = file(k)
                           /\ k % 2 = 0 => e[k] \in Statements /\ e[k].do = "index" /\ e[k].file = file(k)
  <2> SUFFICES ASSUME NEW k \in 1..2 * n
               PROVE  /\ k % 2 = 1 => e[k] \in Statements /\ e[k].do = "unindex" /\ e[k].file = file(k)
                      /\ k % 2 = 0 => e[k] \in Statements /\ e[k].do = "index" /\ e[k].file = file(k)
    OBVIOUS
  <2>1. PICK f \in Paths : f = file(k)
    BY <1>6
  <2>2. /\ k % 2 = 1 => e[k] = PopulateFts(f)[1]
        /\ k % 2 = 0 => e[k] = PopulateFts(f)[2]
    BY <1>8, <2>1
  <2> QED
    BY <1>7, <2>1, <2>2
<1>12. e \in Seq(Statements) /\ Len(e) = 2 * n
  <2>1. PICK m \in Nat : m = 2 * n
    BY <1>1
  <2>2. e \in [1..m -> Statements]
    BY <1>2, <1>10, <1>11, <2>1
  <2>3. e \in Seq(Statements) /\ Len(e) = m
    BY <2>2
  <2> QED
    BY <2>1, <2>3
<1>13. \A k \in 1..2 * n :
         \/ e[k].do = "unindex" /\ k + 1 <= 2 * n /\ e[k + 1].do = "index" /\ e[k + 1].file = e[k].file
         \/ e[k].do = "index" /\ k - 1 >= 1 /\ e[k - 1].do = "unindex" /\ e[k - 1].file = e[k].file
  <2> SUFFICES ASSUME NEW k \in 1..2 * n
               PROVE  \/ e[k].do = "unindex" /\ k + 1 <= 2 * n /\ e[k + 1].do = "index" /\ e[k + 1].file = e[k].file
                      \/ e[k].do = "index" /\ k - 1 >= 1 /\ e[k - 1].do = "unindex" /\ e[k - 1].file = e[k].file
    OBVIOUS
  <2>1. CASE k % 2 = 1
    <3>1. k + 1 \in 1..2 * n /\ k + 1 <= 2 * n /\ (k + 1) % 2 = 0 /\ file(k + 1) = file(k)
      BY <1>3, <1>9, <2>1
    <3> QED
      BY <1>11, <2>1, <3>1
  <2>2. CASE k % 2 = 0
    <3>1. k - 1 \in 1..2 * n /\ k - 1 >= 1 /\ (k - 1) % 2 = 1 /\ file(k - 1) = file(k)
      BY <1>4, <1>9, <2>2
    <3> QED
      BY <1>11, <2>2, <3>1
  <2> QED
    BY <1>2, <2>1, <2>2
<1>14. \A i \in 1..n : \E k \in 1..2 * n : e[k].do = "index" /\ e[k].file = order[i]
  BY <1>5, <1>9, <1>11
<1> QED
  BY <1>12, <1>13, <1>14 DEF n, Populates

LEMMA Joined ==
  ASSUME NEW S, NEW a \in Seq(S), NEW b \in Seq(S), NEW m \in Nat, m = Len(a)
  PROVE  /\ a \o b \in Seq(S) /\ Len(a \o b) = m + Len(b) /\ Len(b) \in Nat
         /\ \A i \in 1..m : (a \o b)[i] = a[i]
         /\ \A i \in 1..Len(b) : (a \o b)[i + m] = b[i]
  BY ConcatProperties

LEMMA RebuildFtsRebuilds ==
  /\ Stored \in SUBSET Paths
  /\ Rebuilds(RebuildFts, 0, Len(RebuildFts) - 1, Stored) /\ Len(RebuildFts) \in Nat \ {0}
<1> DEFINE order == SetToSeq(Stored)
           e == Each(PopulateFts)
<1>1. Stored \in SUBSET Paths /\ IsFiniteSet(Stored)
  BY CatalogueAssumption, FS_Subset DEF Stored
<1>2. order \in Seq(Stored) /\ \A f \in Stored : \E k \in 1..Len(order) : order[k] = f
  BY <1>1, OrderOfFiles
<1>3. order \in Seq(Paths) /\ Len(order) \in Nat
  BY <1>1, <1>2
<1>4. PICK T : /\ e \in [1..2 * Len(order) -> T]
               /\ \A k \in 1..2 * Len(order) : e[k] = PopulateFts(order[(k + 1) \div 2])[2 - (k % 2)]
  <2>1. /\ e \in [1..2 * Len(order) -> {e[k] : k \in 1..2 * Len(order)}]
        /\ \A k \in 1..2 * Len(order) : e[k] = PopulateFts(order[(k + 1) \div 2])[2 - (k % 2)]
    BY DEF Each
  <2> HIDE DEF order, e
  <2> QED
    BY <2>1
<1> HIDE DEF order, e
<1>5. /\ e \in Seq(Statements) /\ Len(e) = 2 * Len(order)
      /\ \A k \in 1..2 * Len(order) :
           \/ e[k].do = "unindex" /\ k + 1 <= 2 * Len(order) /\ e[k + 1].do = "index" /\ e[k + 1].file = e[k].file
           \/ e[k].do = "index" /\ k - 1 >= 1 /\ e[k - 1].do = "unindex" /\ e[k - 1].file = e[k].file
      /\ \A i \in 1..Len(order) : \E k \in 1..2 * Len(order) : e[k].do = "index" /\ e[k].file = order[i]
  <2>1. Populates(e, order)
    BY <1>3, <1>4, EachPopulates
  <2> QED
    BY <2>1 DEF Populates
<1> DEFINE s == RebuildFts
           n == Len(e)
<1>6. n \in Nat /\ n = 2 * Len(order)
  BY <1>3, <1>5
<1>7. [do |-> "clear"] \in Statements /\ [do |-> "rebuilt"] \in Statements
  BY DEF Statements
<1>8. s = <<[do |-> "clear"]>> \o e \o <<[do |-> "rebuilt"]>>
  BY DEF RebuildFts, e
<1>9. /\ s \in Seq(Statements) /\ Len(s) = n + 2
      /\ s[1] = [do |-> "clear"] /\ s[n + 2] = [do |-> "rebuilt"]
      /\ \A k \in 1..n : s[k + 1] = e[k]
  <2> DEFINE a == <<[do |-> "clear"]>> \o e
  <2>1. a \in Seq(Statements) /\ Len(a) = n + 1 /\ a[1] = [do |-> "clear"] /\ \A k \in 1..n : a[k + 1] = e[k]
    <3>1. /\ <<[do |-> "clear"]>> \in Seq(Statements) /\ Len(<<[do |-> "clear"]>>) = 1
          /\ <<[do |-> "clear"]>>[1] = [do |-> "clear"]
      BY <1>7
    <3> HIDE DEF n
    <3> QED
      BY <1>5, <1>6, <3>1, Joined DEF n
  <2> HIDE DEF a
  <2>2. s = a \o <<[do |-> "rebuilt"]>>
    BY <1>8 DEF a
  <2> HIDE DEF s, n
  <2>3. /\ <<[do |-> "rebuilt"]>> \in Seq(Statements) /\ Len(<<[do |-> "rebuilt"]>>) = 1
        /\ <<[do |-> "rebuilt"]>>[1] = [do |-> "rebuilt"]
    BY <1>7
  <2>4. PICK m \in Nat : m = n + 1
    BY <1>6
  <2>5. /\ s \in Seq(Statements) /\ Len(s) = m + 1 /\ s[1 + m] = [do |-> "rebuilt"]
        /\ \A i \in 1..m : s[i] = a[i]
    BY <2>1, <2>2, <2>3, <2>4, Joined
  <2>6. 1 \in 1..m /\ (\A k \in 1..n : k + 1 \in 1..m) /\ 1 + m = n + 2 /\ m + 1 = n + 2
    BY <1>6, <2>4
  <2> QED
    BY <2>1, <2>5, <2>6
<1>11. \A i \in 2..n + 1 :
         \/ s[i].do = "unindex" /\ i + 1 <= n + 1 /\ s[i + 1].do = "index" /\ s[i + 1].file = s[i].file
         \/ s[i].do = "index" /\ i - 1 > 1 /\ s[i - 1].do = "unindex" /\ s[i - 1].file = s[i].file
  <2> SUFFICES ASSUME NEW i \in 2..n + 1
               PROVE  \/ s[i].do = "unindex" /\ i + 1 <= n + 1 /\ s[i + 1].do = "index" /\ s[i + 1].file = s[i].file
                      \/ s[i].do = "index" /\ i - 1 > 1 /\ s[i - 1].do = "unindex" /\ s[i - 1].file = s[i].file
    OBVIOUS
  <2> HIDE DEF s
  <2>1. PICK k \in 1..n : i = k + 1 /\ s[i] = e[k]
    <3> HIDE DEF n
    <3>1. i - 1 \in 1..n /\ i = (i - 1) + 1
      BY <1>6
    <3> QED
      BY <1>9, <3>1
  <2>2. CASE e[k].do = "unindex" /\ k + 1 <= n /\ e[k + 1].do = "index" /\ e[k + 1].file = e[k].file
    <3> HIDE DEF n
    <3>1. k + 1 \in 1..n /\ i + 1 = (k + 1) + 1 /\ i + 1 <= n + 1
      BY <1>6, <2>1, <2>2
    <3>2. s[i + 1] = e[k + 1]
      BY <1>9, <3>1
    <3> QED
      BY <2>1, <2>2, <3>1, <3>2
  <2>3. CASE e[k].do = "index" /\ k - 1 >= 1 /\ e[k - 1].do = "unindex" /\ e[k - 1].file = e[k].file
    <3> HIDE DEF n
    <3>1. k - 1 \in 1..n /\ i - 1 = (k - 1) + 1 /\ i - 1 > 1
      BY <1>6, <2>1, <2>3
    <3>2. s[i - 1] = e[k - 1]
      BY <1>9, <3>1
    <3> QED
      BY <2>1, <2>3, <3>1, <3>2
  <2> QED
    BY <1>5, <1>6, <2>2, <2>3
<1>12. \A f \in Stored : \E i \in 2..n + 1 : s[i].do = "index" /\ s[i].file = f
  <2> SUFFICES ASSUME NEW f \in Stored
               PROVE  \E i \in 2..n + 1 : s[i].do = "index" /\ s[i].file = f
    OBVIOUS
  <2>1. PICK j \in 1..Len(order) : order[j] = f
    BY <1>2
  <2>2. PICK k \in 1..n : e[k].do = "index" /\ e[k].file = f
    BY <1>5, <1>6, <2>1
  <2> HIDE DEF s, n
  <2>3. k + 1 \in 2..n + 1 /\ s[k + 1] = e[k]
    BY <1>6, <1>9
  <2> QED
    BY <2>2, <2>3
<1>13. Rebuilds(s, 0, n + 1, Stored)
  <2> HIDE DEF s, n
  <2>1. s[n + 2].do = "rebuilt" /\ s[1].do = "clear"
    BY <1>9
  <2>2. (n + 1) + 1 = n + 2 /\ 0 < n + 1 /\ n + 1 < n + 2 /\ (n + 1) + 2..n + 2 = {}
    BY <1>6
  <2> QED
    BY <1>6, <1>9, <1>11, <1>12, <2>1, <2>2 DEF Rebuilds
<1> QED
  BY <1>1, <1>6, <1>9, <1>13

LEMMA RebuildsFlag ==
  ASSUME NEW m \in Nat, NEW l \in Nat, NEW s, NEW files, Rebuilds(s, m, l, files)
  PROVE  Rebuilds(s \o <<[do |-> "flag"]>>, m, l, files)
<1> DEFINE t == s \o <<[do |-> "flag"]>>
<1>1. [do |-> "flag"] \in Statements
  BY DEF Statements
<1>2. s \in Seq(Statements) /\ Len(s) \in Nat /\ m < l /\ l < Len(s)
  BY DEF Rebuilds
<1>3. /\ t \in Seq(Statements) /\ Len(t) = Len(s) + 1 /\ t[Len(s) + 1] = [do |-> "flag"]
      /\ \A i \in 1..Len(s) : t[i] = s[i]
  BY <1>1, <1>2, ConcatProperties
<1> HIDE DEF t
<1>4. \A i \in m + 2..l : i \in 1..Len(s) /\ (i + 1 <= l => i + 1 \in 1..Len(s)) /\ (i - 1 > m + 1 => i - 1 \in 1..Len(s))
  BY <1>2
<1>5. \A i \in m + 2..l :
        \/ t[i].do = "unindex" /\ i + 1 <= l /\ t[i + 1].do = "index" /\ t[i + 1].file = t[i].file
        \/ t[i].do = "index" /\ i - 1 > m + 1 /\ t[i - 1].do = "unindex" /\ t[i - 1].file = t[i].file
  <2> SUFFICES ASSUME NEW i \in m + 2..l
               PROVE  \/ t[i].do = "unindex" /\ i + 1 <= l /\ t[i + 1].do = "index" /\ t[i + 1].file = t[i].file
                      \/ t[i].do = "index" /\ i - 1 > m + 1 /\ t[i - 1].do = "unindex" /\ t[i - 1].file = t[i].file
    OBVIOUS
  <2>1. t[i] = s[i] /\ (i + 1 <= l => t[i + 1] = s[i + 1]) /\ (i - 1 > m + 1 => t[i - 1] = s[i - 1])
    BY <1>3, <1>4
  <2>2. \/ s[i].do = "unindex" /\ i + 1 <= l /\ s[i + 1].do = "index" /\ s[i + 1].file = s[i].file
        \/ s[i].do = "index" /\ i - 1 > m + 1 /\ s[i - 1].do = "unindex" /\ s[i - 1].file = s[i].file
    BY DEF Rebuilds
  <2> QED
    BY <2>1, <2>2
<1>6. \A f \in files : \E i \in m + 2..l : t[i].do = "index" /\ t[i].file = f
  BY <1>3, <1>4, SMTT(30) DEF Rebuilds
<1>7. /\ \A i \in 1..m : t[i].do \in {"symbols", "references"}
      /\ t[m + 1].do = "clear" /\ t[l + 1].do = "rebuilt"
      /\ \A i \in l + 2..Len(t) : t[i].do = "flag"
  <2>1. /\ \A i \in 1..m : i \in 1..Len(s)
        /\ m + 1 \in 1..Len(s) /\ l + 1 \in 1..Len(s)
        /\ \A i \in l + 2..Len(t) : (i \in l + 2..Len(s) /\ i \in 1..Len(s)) \/ i = Len(s) + 1
    BY <1>2, <1>3
  <2> QED
    BY <1>3, <2>1 DEF Rebuilds
<1> QED
  BY <1>2, <1>3, <1>5, <1>6, <1>7 DEF Rebuilds, t

LEMMA RebuildsAfter ==
  ASSUME NEW l \in Nat, NEW s, NEW files, Rebuilds(s, 0, l, files), NEW b \in Seq(Statements),
         \A i \in 1..Len(b) : b[i].do \in {"symbols", "references"}
  PROVE  Rebuilds(b \o s, Len(b), l + Len(b), files)
<1> DEFINE t == b \o s
<1>1. PICK m \in Nat : m = Len(b)
  OBVIOUS
<1>2. s \in Seq(Statements) /\ Len(s) \in Nat /\ 0 < l /\ l < Len(s)
  BY DEF Rebuilds
<1>3. /\ t \in Seq(Statements) /\ Len(t) = m + Len(s)
      /\ \A i \in 1..m : t[i] = b[i]
      /\ \A i \in 1..Len(s) : t[i + m] = s[i]
  BY <1>1, <1>2, ConcatProperties
<1> HIDE DEF t
<1>4. \A i \in 2..l : i \in 1..Len(s) /\ (i + 1 <= l => i + 1 \in 1..Len(s)) /\ (i - 1 > 1 => i - 1 \in 1..Len(s))
  BY <1>2
<1>5. \A i \in m + 2..l + m :
        \/ t[i].do = "unindex" /\ i + 1 <= l + m /\ t[i + 1].do = "index" /\ t[i + 1].file = t[i].file
        \/ t[i].do = "index" /\ i - 1 > m + 1 /\ t[i - 1].do = "unindex" /\ t[i - 1].file = t[i].file
  <2> SUFFICES ASSUME NEW i \in m + 2..l + m
               PROVE  \/ t[i].do = "unindex" /\ i + 1 <= l + m /\ t[i + 1].do = "index" /\ t[i + 1].file = t[i].file
                      \/ t[i].do = "index" /\ i - 1 > m + 1 /\ t[i - 1].do = "unindex" /\ t[i - 1].file = t[i].file
    OBVIOUS
  <2>1. PICK k \in 2..l : i = k + m
    <3>1. i - m \in 2..l /\ i = (i - m) + m
      OBVIOUS
    <3> QED
      BY <3>1
  <2>2. k \in 1..Len(s) /\ t[i] = s[k]
    BY <1>3, <1>4, <2>1
  <2>3. CASE s[k].do = "unindex" /\ k + 1 <= l /\ s[k + 1].do = "index" /\ s[k + 1].file = s[k].file
    <3>1. k + 1 \in 1..Len(s) /\ i + 1 = (k + 1) + m /\ i + 1 <= l + m
      BY <1>4, <2>1, <2>3
    <3>2. t[(k + 1) + m] = s[k + 1]
      BY <1>3, <3>1
    <3>3. t[i + 1] = s[k + 1]
      BY <3>1, <3>2
    <3> QED
      BY <2>2, <2>3, <3>1, <3>3
  <2>4. CASE s[k].do = "index" /\ k - 1 > 1 /\ s[k - 1].do = "unindex" /\ s[k - 1].file = s[k].file
    <3>1. k - 1 \in 1..Len(s) /\ i - 1 = (k - 1) + m /\ i - 1 > m + 1
      BY <1>4, <2>1, <2>4
    <3>2. t[i - 1] = s[k - 1]
      BY <1>3, <3>1
    <3> QED
      BY <2>2, <2>4, <3>1, <3>2
  <2> QED
    BY <2>3, <2>4 DEF Rebuilds
<1>6. \A f \in files : \E i \in m + 2..l + m : t[i].do = "index" /\ t[i].file = f
  <2> SUFFICES ASSUME NEW f \in files
               PROVE  \E i \in m + 2..l + m : t[i].do = "index" /\ t[i].file = f
    OBVIOUS
  <2>1. PICK k \in 2..l : s[k].do = "index" /\ s[k].file = f
    BY DEF Rebuilds
  <2>2. k + m \in m + 2..l + m /\ t[k + m] = s[k]
    BY <1>2, <1>3, <1>4
  <2> QED
    BY <2>1, <2>2
<1>7. t[m + 1].do = "clear" /\ t[(l + m) + 1].do = "rebuilt"
  <2>1. 1 \in 1..Len(s) /\ l + 1 \in 1..Len(s) /\ m + 1 = 1 + m /\ (l + m) + 1 = (l + 1) + m
    BY <1>2
  <2>2. t[m + 1] = s[1] /\ t[(l + m) + 1] = s[l + 1]
    BY <1>3, <2>1
  <2>3. s[1].do = "clear" /\ s[l + 1].do = "rebuilt"
    BY DEF Rebuilds
  <2> QED
    BY <2>2, <2>3
<1>8. \A i \in (l + m) + 2..Len(t) : t[i].do = "flag"
  <2> SUFFICES ASSUME NEW i \in (l + m) + 2..Len(t)
               PROVE  t[i].do = "flag"
    OBVIOUS
  <2>1. PICK k \in l + 2..Len(s) : i = k + m /\ k \in 1..Len(s)
    <3>1. i - m \in l + 2..Len(s) /\ i = (i - m) + m /\ i - m \in 1..Len(s)
      BY <1>2, <1>3
    <3> QED
      BY <3>1
  <2> QED
    BY <1>3, <2>1 DEF Rebuilds
<1>9. m < l + m /\ l + m < Len(t)
  BY <1>2, <1>3
<1>10. Rebuilds(t, m, l + m, files)
  BY <1>1, <1>3, <1>5, <1>6, <1>7, <1>8, <1>9 DEF Rebuilds
<1> QED
  BY <1>1, <1>10 DEF t

LEMMA BackfillStatements ==
  ASSUME CatalogueInv
  PROVE  BackfillTables \in Seq(Statements) /\ \A i \in 1..Len(BackfillTables) : BackfillTables[i].do \in {"symbols", "references"}
<1>1. CASE symbols # {} \/ references # {}
  BY <1>1 DEF BackfillTables
<1>2. CASE ~(symbols # {} \/ references # {})
  <2> DEFINE order == SetToSeq(Stored)
             e == Each(BackfillFile)
  <2>1. Stored \in SUBSET Paths /\ IsFiniteSet(Stored)
    BY CatalogueAssumption, FS_Subset DEF Stored
  <2>2. order \in Seq(Stored)
    BY <2>1, OrderOfFiles
  <2>3. PICK n \in Nat : n = 2 * Len(order)
    BY <2>2
  <2>4. e = [k \in 1..n |-> BackfillFile(order[(k + 1) \div 2])[2 - (k % 2)]]
    BY <2>3 DEF Each
  <2>5. \A f \in Stored : \A r \in {1, 2} :
          BackfillFile(f)[r] \in Statements /\ BackfillFile(f)[r].do \in {"symbols", "references"}
    <3> SUFFICES ASSUME NEW f \in Stored
                 PROVE  \A r \in {1, 2} : BackfillFile(f)[r] \in Statements /\ BackfillFile(f)[r].do \in {"symbols", "references"}
      OBVIOUS
    <3>1. f \in Paths /\ atlasFiles[f].xrefs \in CallSites \cup {<<>>}
      BY DEF CatalogueInv, FilesKept, Stored, Rows
    <3>2. /\ BackfillFile(f)[1] = Statement("symbols", f)
          /\ BackfillFile(f)[2] = [do |-> "references", file |-> f, found |-> atlasFiles[f].xrefs]
      BY DEF BackfillFile
    <3>3. Statement("symbols", f) \in Statements /\ Statement("symbols", f).do = "symbols"
      BY <3>1 DEF Statement, Statements, FileStatements
    <3>4. [do |-> "references", file |-> f, found |-> atlasFiles[f].xrefs] \in Statements
      BY <3>1 DEF Statements
    <3> QED
      BY <3>2, <3>3, <3>4
  <2> HIDE DEF order, e
  <2>6. \A k \in 1..n : (k + 1) \div 2 \in 1..Len(order) /\ 2 - (k % 2) \in {1, 2}
    <3>1. PICK m \in Nat : m = Len(order)
      BY <2>2
    <3>2. \A k \in 1..2 * m : (k + 1) \div 2 \in 1..m /\ 2 - (k % 2) \in {1, 2}
      OBVIOUS
    <3> QED
      BY <2>3, <3>1, <3>2
  <2>7. \A k \in 1..n : e[k] \in Statements /\ e[k].do \in {"symbols", "references"}
    <3> SUFFICES ASSUME NEW k \in 1..n
                 PROVE  e[k] \in Statements /\ e[k].do \in {"symbols", "references"}
      OBVIOUS
    <3>1. PICK f \in Stored, r \in {1, 2} : f = order[(k + 1) \div 2] /\ r = 2 - (k % 2)
      BY <2>2, <2>6
    <3>2. e[k] = BackfillFile(f)[r]
      BY <2>4, <3>1
    <3> QED
      BY <2>5, <3>1, <3>2
  <2>8. e \in [1..n -> Statements]
    BY <2>4, <2>7
  <2>9. e \in Seq(Statements) /\ Len(e) = n
    BY <2>8
  <2>10. BackfillTables = e
    BY <1>2 DEF BackfillTables, e
  <2> QED
    BY <2>7, <2>9, <2>10
<1> QED
  BY <1>1, <1>2

LEMMA OpenStartable ==
  ASSUME CatalogueInv
  PROVE  Startable(Open, Stored)
<1>1. PICK b \in Seq(Statements) : b = BackfillTables /\ \A i \in 1..Len(b) : b[i].do \in {"symbols", "references"}
  BY BackfillStatements
<1>2. CASE flag
  <2>1. Open = b \o <<>>
    BY <1>1, <1>2 DEF Open
  <2>2. Open = b
    BY <2>1, ConcatEmptySeq
  <2> QED
    BY <1>1, <2>2, BackfillStartable
<1>3. CASE ~flag
  <2>1. PICK l \in Nat : Rebuilds(RebuildFts, 0, l, Stored)
    <3>1. Len(RebuildFts) - 1 \in Nat
      BY RebuildFtsRebuilds
    <3> QED
      BY <3>1, RebuildFtsRebuilds
  <2>2. PICK s : s = RebuildFts \o <<[do |-> "flag"]>> /\ Rebuilds(s, 0, l, Stored)
    BY <2>1, RebuildsFlag
  <2>3. PICK m \in Nat, k \in Nat : m = Len(b) /\ k = l + Len(b)
    BY <1>1
  <2>4. Rebuilds(b \o s, m, k, Stored)
    BY <1>1, <2>2, <2>3, RebuildsAfter
  <2>5. Open = b \o s
    BY <1>1, <1>3, <2>2 DEF Open
  <2> QED
    BY <2>4, <2>5, RebuildStartable
<1> QED
  BY <1>2, <1>3

LEMMA OperationKeeps ==
  ASSUME NEW f \in Paths, CatalogueInv, Operation(f)
  PROVE  CatalogueInv'
<1>1. CASE \E record \in Records, h \in Hashes : Begin(UpsertFileRecord(f, record, h))
  <2>1. PICK record \in Records, h \in Hashes : Begin(UpsertFileRecord(f, record, h))
    BY <1>1
  <2> DEFINE first == [do |-> "write", file |-> f, row |-> record, hash |-> h]
  <2>2. first \in Statements /\ first.do = "write" /\ first.file = f
    BY DEF Statements
  <2>3. UpsertFileRecord(f, record, h) = <<first>> \o PopulateFts(f)
    BY DEF UpsertFileRecord
  <2> HIDE DEF first
  <2>4. Startable(UpsertFileRecord(f, record, h), Stored)
    BY <2>2, <2>3, RowOperation
  <2> QED
    BY <2>1, <2>4, BeginKeeps
<1>2. CASE \E h \in Hashes : Begin(UpsertScanRecord(f, h))
  <2>1. PICK h \in Hashes : Begin(UpsertScanRecord(f, h))
    BY <1>2
  <2> DEFINE first == [do |-> "scan", file |-> f, hash |-> h]
  <2>2. first \in Statements /\ first.do = "scan" /\ first.file = f
    BY DEF Statements
  <2>3. UpsertScanRecord(f, h) = <<first>> \o PopulateFts(f)
    BY DEF UpsertScanRecord
  <2> HIDE DEF first
  <2>4. Startable(UpsertScanRecord(f, h), Stored)
    BY <2>2, <2>3, RowOperation
  <2> QED
    BY <2>1, <2>4, BeginKeeps
<1>3. CASE Begin(DeleteAtlasFile(f))
  BY <1>3, DeletionStartable, BeginKeeps
<1>4. CASE Begin(UpsertEmbedding(f))
  <2>1. Statement("unembed", f) \in Statements /\ Statement("embed", f) \in Statements
    BY DEF Statement, Statements, FileStatements
  <2>2. Statement("unembed", f).do = "unembed" /\ Statement("embed", f).do = "embed"
    BY DEF Statement
  <2>3. Startable(UpsertEmbedding(f), Stored)
    BY <2>1, <2>2, PairStartable DEF UpsertEmbedding
  <2> QED
    BY <1>4, <2>3, BeginKeeps
<1>5. CASE Begin(Invalidate(f))
  <2> DEFINE first == [do |-> "invalidate", file |-> f, found |-> <<>>]
  <2>1. first \in Statements /\ first.do = "invalidate" /\ first.file = f
    BY DEF Statements
  <2>2. Invalidate(f) = <<first>> \o PopulateFts(f)
    BY DEF Invalidate
  <2> HIDE DEF first
  <2>3. Startable(Invalidate(f), Stored)
    BY <2>1, <2>2, RowOperation
  <2> QED
    BY <1>5, <2>3, BeginKeeps
<1>6. CASE \E found \in CallSites : Begin(PersistCrossRefs(f, found))
  <2>1. PICK found \in CallSites : Begin(PersistCrossRefs(f, found))
    BY <1>6
  <2> DEFINE a == [do |-> "cross-reference", file |-> f, found |-> found]
             b == [do |-> "references", file |-> f, found |-> found]
  <2>2. a \in Statements /\ b \in Statements /\ a.do = "cross-reference" /\ b.do = "references"
    BY DEF Statements
  <2>3. PersistCrossRefs(f, found) = <<a, b>>
    BY DEF PersistCrossRefs
  <2> HIDE DEF a, b
  <2>4. Startable(PersistCrossRefs(f, found), Stored)
    BY <2>2, <2>3, PairStartable
  <2> QED
    BY <2>1, <2>4, BeginKeeps
<1> QED
  BY <1>1, <1>2, <1>3, <1>4, <1>5, <1>6 DEF Operation

LEMMA RebuildKeeps == CatalogueInv /\ Begin(RebuildFts) => CatalogueInv'
<1>1. PICK l \in Nat : Rebuilds(RebuildFts, 0, l, Stored)
  <2>1. Len(RebuildFts) - 1 \in Nat
    BY RebuildFtsRebuilds
  <2> QED
    BY <2>1, RebuildFtsRebuilds
<1>2. Startable(RebuildFts, Stored)
  BY <1>1, RebuildStartable
<1> QED
  BY <1>2, BeginKeeps

-----------------------------------------------------------------------------
(* Between operations.                                                      *)
LEMMA ReplaceSourceChunksKeeps ==
  ASSUME NEW f \in Paths, CatalogueInv, ReplaceSourceChunks(f)
  PROVE  CatalogueInv'
<1> DEFINE new == [id |-> NewId, file |-> atlasFiles[f].id, path |-> f]
<1>1. /\ todo = <<>> /\ todo' = <<>> /\ f \in Stored /\ ids' = ids + 1 /\ ids \in Nat
      /\ UNCHANGED <<atlasFiles, atlasFts, embeddings, indexed>>
      /\ chunks' = {c \in chunks : c.path # f} \cup {new} /\ listed' = listed \cup {new}
      /\ RemoveChunkVectors(f)
      /\ new.id = ids + 1 /\ new.path = f /\ new.file = atlasFiles[f].id
  BY DEF ReplaceSourceChunks, NewId, ChunksOf, others, CatalogueInv, FilesKept
<1> HIDE DEF new
<1>2. Stored' = Stored
  BY <1>1 DEF Stored
<1>3. Ids' = Ids
  BY <1>1, <1>2 DEF Ids
<1>4. FilesKept' /\ ExtractionsCurrent' /\ DocumentsKept'
  <2>1. \A g \in Stored : atlasFiles[g].id \in Nat
    BY DEF CatalogueInv, FilesKept, Stored, Rows
  <2> QED
    BY <1>1, <1>2, <1>3, <2>1 DEF CatalogueInv, FilesKept, ExtractionsCurrent, DocumentsKept
<1>11. /\ chunkEmbeddings' \subseteq chunkEmbeddings /\ left \subseteq left'
       /\ \A c \in chunks : c.path = f /\ c \in chunkEmbeddings' => c \in left'
  BY <1>1 DEF RemoveChunkVectors, ChunkVectorsOf, ChunksOf
<1>5. IsFiniteSet(chunks')
  <2>1. IsFiniteSet({c \in chunks : c.path # f})
    BY FS_Subset DEF CatalogueInv, ChunksKept
  <2> QED
    BY <1>1, <2>1, FS_AddElement
<1>6. ChunksKept'
  <2>1. \A c \in listed : c.id \in Nat /\ c.id <= ids
    BY DEF CatalogueInv, ChunksKept
  <2>2. \A c \in listed' : c.id \in Nat /\ c.id <= ids'
    BY <1>1, <2>1
  <2>3. \A c, d \in listed' : c.id = d.id => c = d
    BY <1>1, <2>1 DEF CatalogueInv, ChunksKept
  <2>4. \A c \in chunks' : c.id \in Nat /\ c.id <= ids' /\ c.path \in Stored /\ atlasFiles[c.path].id = c.file
    BY <1>1, <2>2 DEF CatalogueInv, ChunksKept
  <2> QED
    BY <1>1, <1>2, <1>5, <1>11, <2>2, <2>3, <2>4 DEF CatalogueInv, ChunksKept
<1>7. VectorsKept'
  <2>1. \A v \in embeddings : v.id \in Nat /\ v.id <= ids
    BY DEF CatalogueInv, VectorsKept
  <2>2. \A v \in embeddings : v.id \in Nat /\ v.id <= ids'
    BY <1>1, <2>1
  <2> QED
    BY <1>1, <1>2, <1>11, <2>2 DEF CatalogueInv, VectorsKept
<1>8. Orderly(todo, Stored)' /\ Ready(todo)'
  BY <1>1, <1>2 DEF CatalogueInv, Ready
<1>9. \A g : Documented(g)' = Documented(g)
  BY <1>1 DEF Documented
<1>10. IndexCurrent'
  BY <1>1, <1>2, <1>9 DEF CatalogueInv, IndexCurrent
<1> QED
  BY <1>4, <1>6, <1>7, <1>8, <1>10 DEF CatalogueInv

(* What leaves the files, their documents and the statements under way.     *)
LEMMA RestKeeps ==
  ASSUME CatalogueInv, UNCHANGED <<atlasFiles, atlasFts, embeddings, chunks, listed, ids, todo, indexed>>,
         \/ UNCHANGED <<chunkEmbeddings, left>>
         \/ /\ todo = <<>>
            /\ \E chunk \in listed : UpsertSourceChunkEmbedding(chunk)
  PROVE  CatalogueInv'
<1>1. Stored' = Stored
  BY DEF Stored
<1>2. Ids' = Ids
  BY <1>1 DEF Ids
<1>8. /\ chunkEmbeddings' \subseteq listed /\ left \subseteq left'
      /\ \A v \in chunkEmbeddings' : v \in chunkEmbeddings \/ v \in chunks \/ v \in left'
  BY DEF CatalogueInv, ChunksKept, UpsertSourceChunkEmbedding
<1>3. FilesKept' /\ ExtractionsCurrent' /\ DocumentsKept' /\ ChunksKept' /\ VectorsKept'
  BY <1>1, <1>2, <1>8 DEF CatalogueInv, FilesKept, ExtractionsCurrent, DocumentsKept, ChunksKept, VectorsKept
<1>4. \A g : Documented(g)' = Documented(g) /\ NoDocument(g)' = NoDocument(g)
             /\ (todo = <<>> \/ NoVector(g)' = NoVector(g))
             /\ NoChunk(g)' = NoChunk(g) /\ (todo = <<>> \/ NoChunkVector(g)' = NoChunkVector(g))
  BY <1>1 DEF Documented, NoDocument, NoVector, NoChunk, NoChunkVector
<1>5. Orderly(todo, Stored)'
  BY <1>1 DEF CatalogueInv
<1>6. Ready(todo)'
  BY <1>4 DEF CatalogueInv, Ready
<1>7. IndexCurrent'
  BY <1>1, <1>4 DEF CatalogueInv, IndexCurrent
<1> QED
  BY <1>3, <1>5, <1>6, <1>7 DEF CatalogueInv

LEMMA CutKeeps == CatalogueInv /\ Cut => CatalogueInv'
<1> SUFFICES ASSUME CatalogueInv, Cut
             PROVE  CatalogueInv'
  OBVIOUS
<1>1. todo' = <<>> /\ ~indexed' /\ UNCHANGED <<atlasFiles, atlasFts, embeddings, chunks, chunkEmbeddings, left, listed, ids>>
  BY DEF Cut, searched, vectors
<1>2. FilesKept' /\ ExtractionsCurrent' /\ DocumentsKept' /\ ChunksKept' /\ VectorsKept'
  BY <1>1 DEF CatalogueInv, FilesKept, ExtractionsCurrent, DocumentsKept, ChunksKept, VectorsKept, Stored, Ids
<1>3. Orderly(<<>>, Stored')
  BY DEF Orderly, Chained, Settled, Alone
<1>4. ~Includes(<<>>, "rebuilt")
  BY DEF Includes
<1> QED
  BY <1>1, <1>2, <1>3, <1>4 DEF CatalogueInv, Ready, IndexCurrent

-----------------------------------------------------------------------------
LEMMA CatalogueInitInv == CatalogueInit => CatalogueInv
<1> SUFFICES ASSUME CatalogueInit
             PROVE  CatalogueInv
  OBVIOUS
<1>1. Stored = {} /\ todo = <<>>
  BY DEF CatalogueInit, Stored
<1>2. FilesKept /\ ExtractionsCurrent /\ DocumentsKept /\ ChunksKept /\ VectorsKept
  BY <1>1, FS_EmptySet DEF CatalogueInit, FilesKept, ExtractionsCurrent, DocumentsKept, ChunksKept, VectorsKept
<1>3. Orderly(<<>>, Stored)
  BY DEF Orderly, Chained, Settled, Alone
<1> QED
  BY <1>1, <1>2, <1>3 DEF CatalogueInv, Ready, IndexCurrent

LEMMA CatalogueStep == CatalogueInv /\ [NextFile \/ NextWitness]_catalogueVars => CatalogueInv'
<1> SUFFICES ASSUME CatalogueInv, [NextFile \/ NextWitness]_catalogueVars
             PROVE  CatalogueInv'
  OBVIOUS
<1>1. ASSUME NEW f \in Paths, Operation(f) PROVE CatalogueInv'
  BY <1>1, OperationKeeps
<1>2. ASSUME NEW f \in Paths, ReplaceSourceChunks(f) PROVE CatalogueInv'
  BY <1>2, ReplaceSourceChunksKeeps
<1>3. ASSUME NEW f \in Paths, NEW g \in Paths, StructurePhase(f, g) PROVE CatalogueInv'
  BY <1>3, RestKeeps DEF StructurePhase, searched, vectors, others
<1>4. CASE Begin(Open)
  BY <1>4, OpenStartable, BeginKeeps
<1>5. ASSUME NEW chunk \in listed, UpsertSourceChunkEmbedding(chunk) PROVE CatalogueInv'
  BY <1>5, RestKeeps DEF UpsertSourceChunkEmbedding, others
<1>6. CASE NextWitness
  BY <1>6, RestKeeps DEF NextWitness, RecordAtlasFileWitness, searched, vectors
<1>7. CASE UNCHANGED catalogueVars
  BY <1>7, RestKeeps DEF catalogueVars
<1> QED
  BY <1>1, <1>2, <1>3, <1>4, <1>5, <1>6, <1>7, RebuildKeeps, StatementKeeps, CutKeeps DEF NextFile, RebuildFails, Crash

LEMMA InvNothingLost == CatalogueInv => NothingLost
<1> SUFFICES ASSUME CatalogueInv
             PROVE  NothingLost
  OBVIOUS
<1>1. FilesKept /\ DocumentsKept /\ ChunksKept /\ VectorsKept
  BY DEF CatalogueInv
<1>2. ASSUME NEW v \in embeddings
      PROVE  SearchVector({v}) \in {{v.path}} \cup (IF v \in left THEN {{}} ELSE {})
  <2>1. /\ \A f \in Stored : atlasFiles[f].id = v.id => v.path = f
        /\ (v.path \in Stored /\ atlasFiles[v.path].id = v.id) \/ v \in left
    BY <1>1 DEF VectorsKept
  <2>2. \A f : f \in SearchVector({v}) <=> f \in Stored /\ v.id = atlasFiles[f].id
    BY DEF SearchVector
  <2>3. CASE v.path \in SearchVector({v})
    <3>1. SearchVector({v}) = {v.path}
      BY <2>1, <2>2, <2>3
    <3> QED
      BY <3>1
  <2>4. CASE v.path \notin SearchVector({v})
    <3>1. SearchVector({v}) = {} /\ v \in left
      BY <2>1, <2>2, <2>4
    <3> QED
      BY <3>1
  <2> QED
    BY <2>3, <2>4
<1>3. ASSUME NEW v \in chunkEmbeddings
      PROVE  SearchSourceChunks({v}) \in {{v}} \cup (IF v \in left THEN {{}} ELSE {})
  <2>1. (v \in chunks \/ v \in left) /\ \A c \in chunks : v.id = c.id => v = c
    BY <1>1 DEF VectorsKept, ChunksKept
  <2>2. \A c : c \in SearchSourceChunks({v}) <=> c \in chunks /\ v.id = c.id
    BY DEF SearchSourceChunks
  <2>3. CASE v \in chunks
    <3>1. SearchSourceChunks({v}) = {v}
      BY <2>1, <2>2, <2>3
    <3> QED
      BY <3>1
  <2>4. CASE v \notin chunks
    <3>1. SearchSourceChunks({v}) = {} /\ v \in left
      BY <2>1, <2>2, <2>4
    <3> QED
      BY <3>1
  <2> QED
    BY <2>3, <2>4
<1>4. /\ \A c \in chunks : c.path \in Stored /\ atlasFiles[c.path].id = c.file
      /\ {d.id : d \in atlasFts} \subseteq Ids
      /\ \A d, e \in atlasFts : d.id = e.id => d = e
  BY <1>1 DEF ChunksKept, DocumentsKept
<1> QED
  BY <1>2, <1>3, <1>4 DEF NothingLost

LEMMA InvSearchCurrent == CatalogueInv => SearchCurrent
<1> SUFFICES ASSUME CatalogueInv, indexed, todo = <<>>, NEW f \in Stored, NEW w
             PROVE  f \in SearchFts({w}) <=> w \in FtsDocumentForRecord(atlasFiles[f]) \ StopWords
  BY DEF SearchCurrent, FtsDocumentForRecord
<1>1. ~Settles(<<>>, 0, f)
  BY DEF Settles
<1>2. Documented(f)
  BY <1>1 DEF CatalogueInv, IndexCurrent
<1>3. PICK d \in atlasFts : d.id = atlasFiles[f].id /\ d.words = FtsDocumentForRecord(atlasFiles[f])
  BY <1>2 DEF Documented
<1>4. \A e \in atlasFts : e.id = atlasFiles[f].id => e = d
  BY <1>3 DEF CatalogueInv, DocumentsKept
<1>5. f \in SearchFts({w}) <=> d.words \cap ({w} \ StopWords) # {}
  BY <1>3, <1>4 DEF SearchFts, PrepareFtsQuery
<1> QED
  BY <1>3, <1>5

LEMMA InvCompleteIsCurrent == CatalogueInv => CompleteIsCurrent
  BY DEF CatalogueInv, ExtractionsCurrent, CompleteIsCurrent, IsFileComplete

(* Whatever operations come, and wherever one is cut: no search finds what   *)
(* is gone, none misses what an index that is up to date has, and no file    *)
(* passes for complete with an extraction of other contents.                *)
THEOREM CatalogueIsSound == CatalogueSpec => []CatalogueSound
<1>1. CatalogueInv => CatalogueSound
  BY InvNothingLost, InvSearchCurrent, InvCompleteIsCurrent DEF CatalogueSound
<1> QED
  BY CatalogueInitInv, CatalogueStep, <1>1, PTL DEF CatalogueSpec

-----------------------------------------------------------------------------
(* The witnesses.                                                           *)

(* How many of the first m places, or of all but one of them, lie up to p.  *)
LEMMA PlacesUpTo ==
  ASSUME NEW m \in Nat, NEW p \in 1..m
  PROVE  Cardinality({q \in 1..m : q <= p}) = p
<1>1. {q \in 1..m : q <= p} = 1..p
  OBVIOUS
<1>2. Cardinality(1..p) = p
  BY FS_Interval
<1> QED
  BY <1>1, <1>2

LEMMA PlacesButOne ==
  ASSUME NEW m \in Nat, NEW o \in 1..m, NEW p \in (1..m) \ {o}
  PROVE  Cardinality({q \in (1..m) \ {o} : q <= p}) = IF p < o THEN p ELSE p - 1
<1>1. CASE p < o
  <2>1. {q \in (1..m) \ {o} : q <= p} = {q \in 1..m : q <= p}
    BY <1>1
  <2> QED
    BY <1>1, <2>1, PlacesUpTo
<1>2. CASE p > o
  <2>1. {q \in (1..m) \ {o} : q <= p} = (1..p) \ {o}
    BY <1>2
  <2>2. IsFiniteSet(1..p) /\ Cardinality(1..p) = p
    BY FS_Interval
  <2>3. o \in 1..p
    BY <1>2
  <2>4. Cardinality((1..p) \ {o}) = p - 1
    BY <2>2, <2>3, FS_RemoveElement
  <2> QED
    BY <1>2, <2>1, <2>4
<1> QED
  BY <1>1, <1>2

(* Where nothing has the key of what is said, nothing goes.                 *)
LEMMA OthersAreAll ==
  ASSUME NEW ev \in Seq(Evidence), NEW next, \A p \in DOMAIN ev : ~SameKey(ev[p], next)
  PROVE  Others(ev, next) = ev
<1> DEFINE stay == {p \in DOMAIN ev : ~SameKey(ev[p], next)}
<1>1. PICK m \in Nat : m = Len(ev) /\ DOMAIN ev = 1..m
  OBVIOUS
<1>2. stay = 1..m
  BY <1>1
<1>3. Cardinality(stay) = m
  <2>1. Cardinality(1..m) = m
    BY FS_Interval
  <2> QED
    BY <1>2, <2>1
<1>4. \A n \in 1..m : (CHOOSE p \in stay : Cardinality({q \in stay : q <= p}) = n) = n
  <2> TAKE n \in 1..m
  <2>1. \A p \in stay : Cardinality({q \in stay : q <= p}) = p
    BY <1>2, PlacesUpTo
  <2> HIDE DEF stay
  <2> QED
    BY <1>2, <2>1
<1>5. Others(ev, next) = [n \in 1..m |-> ev[CHOOSE p \in stay : Cardinality({q \in stay : q <= p}) = n]]
  BY <1>3 DEF Others
<1> HIDE DEF stay
<1>6. Others(ev, next) = [n \in 1..m |-> ev[n]]
  BY <1>4, <1>5
<1> QED
  BY <1>1, <1>6

(* Where one has it, that one goes.                                         *)
LEMMA OthersAreRest ==
  ASSUME NEW ev \in Seq(Evidence), NEW next, NEW o \in DOMAIN ev,
         \A p \in DOMAIN ev : SameKey(ev[p], next) <=> p = o
  PROVE  Others(ev, next) = [n \in 1..Len(ev) - 1 |-> ev[IF n < o THEN n ELSE n + 1]]
<1> DEFINE stay == {p \in DOMAIN ev : ~SameKey(ev[p], next)}
<1>1. PICK m \in Nat : m = Len(ev) /\ DOMAIN ev = 1..m
  OBVIOUS
<1>2. stay = (1..m) \ {o}
  BY <1>1
<1>3. Cardinality(stay) = m - 1
  <2>1. IsFiniteSet(1..m) /\ Cardinality(1..m) = m
    BY FS_Interval
  <2>2. Cardinality((1..m) \ {o}) = m - 1
    BY <1>1, <2>1, FS_RemoveElement
  <2> QED
    BY <1>2, <2>2
<1>4. \A n \in 1..m - 1 : (CHOOSE p \in stay : Cardinality({q \in stay : q <= p}) = n) = IF n < o THEN n ELSE n + 1
  <2> TAKE n \in 1..m - 1
  <2>1. \A p \in stay : Cardinality({q \in stay : q <= p}) = IF p < o THEN p ELSE p - 1
    BY <1>1, <1>2, PlacesButOne, SMTT(30)
  <2>2. (IF n < o THEN n ELSE n + 1) \in stay
    BY <1>1, <1>2
  <2> HIDE DEF stay
  <2>3. \A p \in stay : Cardinality({q \in stay : q <= p}) = n <=> p = IF n < o THEN n ELSE n + 1
    BY <1>1, <1>2, <2>1
  <2> QED
    BY <2>2, <2>3
<1>5. Others(ev, next) = [n \in 1..m - 1 |-> ev[CHOOSE p \in stay : Cardinality({q \in stay : q <= p}) = n]]
  BY <1>3 DEF Others
<1> HIDE DEF stay
<1> QED
  BY <1>1, <1>4, <1>5

(* Evidence that shows what these calls said, the newest first, and leaves  *)
(* out older ones only.                                                     *)
Shows(ev, calls, said) ==
  \E shown \in [DOMAIN ev -> calls] :
    /\ \A p \in DOMAIN shown : ev[p] = said[shown[p]]
    /\ \A p, q \in DOMAIN shown : p < q => shown[p] > shown[q]
    /\ \A k \in calls : \/ \E p \in DOMAIN shown : shown[p] = k
                        \/ Len(ev) = MaxEvidence /\ \A p \in DOMAIN shown : shown[p] > k

(* What mergeWitnessEvidence makes of it has the new call at its head, then *)
(* the rest.                                                                *)
LEMMA MergedIs ==
  ASSUME NEW next \in Evidence, NEW ev, NEW rest \in Seq(Evidence), Others(ev, next) = rest,
         NEW m \in Nat, m = IF Len(rest) < MaxEvidence THEN Len(rest) + 1 ELSE MaxEvidence
  PROVE  /\ MergeWitnessEvidence(ev, next) \in Seq(Evidence)
         /\ Len(MergeWitnessEvidence(ev, next)) = m
         /\ \A p \in 1..m : MergeWitnessEvidence(ev, next)[p] = IF p = 1 THEN next ELSE rest[p - 1]
<1> DEFINE s == <<next>> \o rest
<1>1. s \in Seq(Evidence) /\ Len(s) = Len(rest) + 1
  OBVIOUS
<1>2. \A p \in 1..Len(s) : s[p] = IF p = 1 THEN next ELSE rest[p - 1]
  OBVIOUS
<1>3. MaxEvidence \in Nat \ {0} /\ Len(rest) \in Nat
  BY WitnessAssumption
<1>4. (IF Len(s) < MaxEvidence THEN Len(s) ELSE MaxEvidence) = m /\ m <= Len(s)
  BY <1>1, <1>3
<1>5. MergeWitnessEvidence(ev, next) = SubSeq(s, 1, m)
  BY <1>4 DEF MergeWitnessEvidence, AtMostThe
<1> HIDE DEF s
<1>6. SubSeq(s, 1, m) \in Seq(Evidence) /\ Len(SubSeq(s, 1, m)) = m /\ \A p \in 1..m : SubSeq(s, 1, m)[p] = s[p]
  BY <1>1, <1>4
<1> QED
  BY <1>1, <1>2, <1>4, <1>5, <1>6

LEMMA MergedShows ==
  ASSUME NEW ev \in Seq(Evidence), Len(ev) <= MaxEvidence, NEW n \in Nat, NEW calls \in SUBSET Nat,
         \A k \in calls : k < n, NEW said, Shows(ev, calls, said),
         \A j, k \in calls : j # k => ~SameKey(said[j], said[k]),
         NEW next \in Evidence, said[n] = next,
         NEW stay, stay = {n} \cup {k \in calls : ~SameKey(next, said[k])}
  PROVE  /\ MergeWitnessEvidence(ev, next) \in Seq(Evidence)
         /\ Len(MergeWitnessEvidence(ev, next)) <= MaxEvidence
         /\ Shows(MergeWitnessEvidence(ev, next), stay, said)
<1> DEFINE merged == MergeWitnessEvidence(ev, next)
<1>0. MaxEvidence \in Nat \ {0}
  BY WitnessAssumption
<1>2. PICK m \in Nat : m = Len(ev) /\ DOMAIN ev = 1..m /\ m <= MaxEvidence
  OBVIOUS
<1>1. PICK shown \in [1..m -> calls] :
        /\ \A p \in 1..m : ev[p] = said[shown[p]]
        /\ \A p, q \in 1..m : p < q => shown[p] > shown[q]
        /\ \A k \in calls : \/ \E p \in 1..m : shown[p] = k
                            \/ m = MaxEvidence /\ \A p \in 1..m : shown[p] > k
  BY <1>2 DEF Shows
<1>5. \A p \in 1..m : shown[p] \in calls /\ shown[p] \in Nat /\ shown[p] < n
  OBVIOUS
<1>3. CASE \A p \in 1..m : ~SameKey(ev[p], next)
  <2> DEFINE after == [p \in 1..m + 1 |-> IF p = 1 THEN n ELSE shown[p - 1]]
  <2>1. Others(ev, next) = ev
    BY <1>2, <1>3, OthersAreAll
  <2>2. PICK l \in 1..m + 1 : l = IF m < MaxEvidence THEN m + 1 ELSE MaxEvidence
    BY <1>0, <1>2
  <2>3. merged \in Seq(Evidence) /\ Len(merged) = l /\ \A p \in 1..l : merged[p] = IF p = 1 THEN next ELSE ev[p - 1]
    BY <1>2, <2>1, <2>2, MergedIs
  <2>4. DOMAIN merged = 1..l /\ l <= MaxEvidence
    BY <1>0, <1>2, <2>2, <2>3
  <2> HIDE DEF merged
  <2>5. after[1] = n /\ \A p \in 1..m : after[p + 1] = shown[p]
    OBVIOUS
  <2>6. \A p \in 2..m + 1 : p - 1 \in 1..m /\ after[p] = shown[p - 1]
    OBVIOUS
  <2> HIDE DEF after
  <2>7. \A p \in 1..l : after[p] \in stay /\ merged[p] = said[after[p]]
    <3>1. merged[1] = said[after[1]] /\ after[1] \in stay
      BY <2>2, <2>3, <2>5
    <3>2. ASSUME NEW p \in 2..l PROVE after[p] \in stay /\ merged[p] = said[after[p]]
      <4>1. p - 1 \in 1..m /\ after[p] = shown[p - 1] /\ merged[p] = ev[p - 1]
        BY <2>2, <2>3, <2>6
      <4>2. PICK q \in 1..m : q = p - 1
        BY <4>1
      <4>3. ev[q] = said[shown[q]] /\ shown[q] \in calls /\ ~SameKey(ev[q], next)
        BY <1>1, <1>3
      <4> QED
        BY <4>1, <4>2, <4>3 DEF SameKey
    <3> QED
      BY <3>1, <3>2
  <2>8. \A p, q \in 1..l : p < q => after[p] > after[q]
    <3> SUFFICES ASSUME NEW p \in 1..l, NEW q \in 1..l, p < q
                 PROVE  after[p] > after[q]
      OBVIOUS
    <3>1. PICK b \in 1..m : b = q - 1 /\ after[q] = shown[b]
      BY <2>2, <2>6
    <3>2. CASE p = 1
      BY <1>5, <2>5, <3>1, <3>2
    <3>3. CASE p # 1
      <4>1. PICK a \in 1..m : a = p - 1 /\ after[p] = shown[a]
        BY <2>2, <2>6, <3>3
      <4> QED
        BY <1>1, <3>1, <4>1
    <3> QED
      BY <3>2, <3>3
  <2>9. \A k \in stay : \/ \E p \in 1..l : after[p] = k
                        \/ l = MaxEvidence /\ \A p \in 1..l : after[p] > k
    <3> SUFFICES ASSUME NEW k \in stay
                 PROVE  \/ \E p \in 1..l : after[p] = k
                        \/ l = MaxEvidence /\ \A p \in 1..l : after[p] > k
      OBVIOUS
    <3>1. CASE k = n
      BY <2>2, <2>5, <3>1
    <3>2. CASE k \in calls /\ \E p \in 1..m : shown[p] = k
      <4>1. PICK p \in 1..m : shown[p] = k
        BY <3>2
      <4>0. l \in Nat /\ p \in Nat
        BY <2>2
      <4>2. CASE p + 1 <= l
        <5>1. p + 1 \in 1..l /\ after[p + 1] = k
          BY <2>5, <4>0, <4>1, <4>2
        <5> QED
          BY <5>1
      <4>3. CASE p + 1 > l
        <5>1. l = MaxEvidence /\ p = l /\ p = m
          BY <1>0, <1>2, <2>2, <4>3
        <5>3. \A q \in 1..l : after[q] > k
          <6> TAKE q \in 1..l
          <6>1. CASE q = 1
            BY <1>5, <2>5, <4>1, <6>1
          <6>2. CASE q # 1
            <7>1. PICK a \in 1..m : a = q - 1 /\ after[q] = shown[a]
              BY <2>2, <2>6, <6>2
            <7>2. a < p
              BY <5>1, <7>1
            <7> QED
              BY <1>1, <4>1, <7>1, <7>2
          <6> QED
            BY <6>1, <6>2
        <5> QED
          BY <5>1, <5>3
      <4> QED
        BY <4>0, <4>2, <4>3
    <3>3. CASE k \in calls /\ ~\E p \in 1..m : shown[p] = k
      <4>1. m = MaxEvidence /\ \A p \in 1..m : shown[p] > k
        BY <1>1, <3>3
      <4>2. l = MaxEvidence
        BY <2>2, <4>1
      <4>3. \A q \in 1..l : after[q] > k
        <5> TAKE q \in 1..l
        <5>1. CASE q = 1
          BY <2>5, <3>3, <5>1
        <5>2. CASE q # 1
          BY <2>2, <2>6, <4>1, <5>2
        <5> QED
          BY <5>1, <5>2
      <4> QED
        BY <4>2, <4>3
    <3> QED
      BY <3>1, <3>2, <3>3
  <2> DEFINE first == [p \in 1..l |-> after[p]]
  <2>10. first \in [DOMAIN merged -> stay]
    BY <2>4, <2>7
  <2>11. /\ \A p \in DOMAIN first : merged[p] = said[first[p]]
         /\ \A p, q \in DOMAIN first : p < q => first[p] > first[q]
    BY <2>4, <2>7, <2>8
  <2>12. \A k \in stay : \/ \E p \in DOMAIN first : first[p] = k
                         \/ Len(merged) = MaxEvidence /\ \A p \in DOMAIN first : first[p] > k
    BY <2>3, <2>9
  <2> HIDE DEF first
  <2>13. Shows(merged, stay, said)
    BY <2>10, <2>11, <2>12 DEF Shows
  <2> QED
    BY <2>3, <2>4, <2>13 DEF merged
<1>4. CASE \E p \in 1..m : SameKey(ev[p], next)
  <2>1. PICK o \in 1..m : SameKey(ev[o], next)
    BY <1>4
  <2>2. \A p \in 1..m : SameKey(ev[p], next) <=> p = o
    <3>1. ASSUME NEW p \in 1..m, SameKey(ev[p], next), p # o PROVE FALSE
      <4>1. shown[p] \in calls /\ shown[o] \in calls
        BY <1>1
      <4>2. shown[p] # shown[o]
        <5>1. shown[p] \in Nat /\ shown[o] \in Nat
          BY <1>5
        <5>2. p < o \/ o < p
          BY <3>1
        <5> QED
          BY <1>1, <5>1, <5>2
      <4>3. ~SameKey(said[shown[p]], said[shown[o]])
        BY <4>1, <4>2
      <4>4. ev[p] = said[shown[p]] /\ ev[o] = said[shown[o]]
        BY <1>1
      <4> QED
        BY <2>1, <3>1, <4>3, <4>4 DEF SameKey
    <3> QED
      BY <2>1, <3>1
  <2> DEFINE rest == [p \in 1..m - 1 |-> ev[IF p < o THEN p ELSE p + 1]]
             after == [p \in 1..m |-> IF p = 1 THEN n ELSE IF p <= o THEN shown[p - 1] ELSE shown[p]]
  <2>3. Others(ev, next) = rest
    <3>1. o \in DOMAIN ev /\ \A p \in DOMAIN ev : SameKey(ev[p], next) <=> p = o
      BY <1>2, <2>2
    <3>2. Others(ev, next) = [p \in 1..Len(ev) - 1 |-> ev[IF p < o THEN p ELSE p + 1]]
      BY <3>1, OthersAreRest, SMTT(30)
    <3> QED
      BY <1>2, <3>2
  <2>4. rest \in [1..m - 1 -> Evidence] /\ m - 1 \in Nat
    BY <1>2, <2>1
  <2>5. \A p \in 2..m : rest[p - 1] = IF p <= o THEN ev[p - 1] ELSE ev[p]
    <3> SUFFICES ASSUME NEW p \in 2..m PROVE rest[p - 1] = IF p <= o THEN ev[p - 1] ELSE ev[p]
      OBVIOUS
    <3>1. p - 1 \in 1..m - 1 /\ (p - 1 < o <=> p <= o) /\ (p - 1) + 1 = p
      OBVIOUS
    <3> QED
      BY <3>1
  <2> HIDE DEF rest
  <2>6. rest \in Seq(Evidence) /\ Len(rest) = m - 1
    <3>1. PICK t \in Nat : t = m - 1
      BY <2>4
    <3>2. rest \in [1..t -> Evidence]
      BY <2>4, <3>1
    <3> QED
      BY <3>1, <3>2
  <2>7. merged \in Seq(Evidence) /\ Len(merged) = m /\ \A p \in 1..m : merged[p] = IF p = 1 THEN next ELSE rest[p - 1]
    <3>1. m = IF Len(rest) < MaxEvidence THEN Len(rest) + 1 ELSE MaxEvidence
      BY <1>0, <1>2, <2>6
    <3> QED
      BY <2>3, <2>6, <3>1, MergedIs
  <2>8. DOMAIN merged = 1..m
    BY <2>7
  <2> HIDE DEF merged
  <2>9. \A p \in 1..m : shown[p] \in calls /\ (p # o => ~SameKey(next, said[shown[p]]))
    BY <1>1, <2>2 DEF SameKey
  <2>10. SameKey(next, said[shown[o]])
    BY <1>1, <2>1 DEF SameKey
  <2>11. after[1] = n
    BY <2>1
  <2>12. \A p \in 2..o : p - 1 \in 1..m /\ p - 1 # o /\ p - 1 < o /\ after[p] = shown[p - 1]
    BY <2>1
  <2>13. \A p \in o + 1..m : after[p] = shown[p] /\ p # 1 /\ p # o
    BY <2>1
  <2>14. \A p \in 1..m : p = 1 \/ p \in 2..o \/ p \in o + 1..m
    BY <2>1
  <2>15. DOMAIN after = 1..m
    OBVIOUS
  <2> HIDE DEF after
  <2>16. \A p \in 1..m : after[p] \in stay /\ merged[p] = said[after[p]]
    <3> TAKE p \in 1..m
    <3>1. CASE p = 1
      BY <2>7, <2>11, <3>1
    <3>2. CASE p \in 2..o
      <4>1. PICK a \in 1..m : a = p - 1 /\ a # o /\ after[p] = shown[a]
        BY <2>12, <3>2
      <4>2. p \in 2..m /\ p # 1 /\ p <= o /\ p \in 1..m
        BY <2>1, <3>2
      <4>3. merged[p] = rest[p - 1] /\ rest[p - 1] = ev[p - 1]
        BY <2>5, <2>7, <4>2
      <4> QED
        BY <1>1, <2>9, <4>1, <4>3
    <3>3. CASE p \in o + 1..m
      <4>1. after[p] = shown[p] /\ p # o /\ p # 1
        BY <2>13, <3>3
      <4>2. p \in 2..m /\ p # 1 /\ ~(p <= o) /\ p \in 1..m
        BY <2>1, <3>3
      <4>3. merged[p] = rest[p - 1] /\ rest[p - 1] = ev[p]
        BY <2>5, <2>7, <4>2
      <4> QED
        BY <1>1, <2>9, <4>1, <4>3
    <3> QED
      BY <2>14, <3>1, <3>2, <3>3
  <2>17. \A p, q \in 1..m : p < q => after[p] > after[q]
    <3> SUFFICES ASSUME NEW p \in 1..m, NEW q \in 1..m, p < q PROVE after[p] > after[q]
      OBVIOUS
    <3>1. PICK b \in 1..m : after[q] = shown[b] /\ b = IF q \in 2..o THEN q - 1 ELSE q
      BY <2>12, <2>13, <2>14
    <3>2. CASE p = 1
      BY <1>5, <2>11, <3>1, <3>2
    <3>3. CASE p # 1
      <4>1. PICK a \in 1..m : after[p] = shown[a] /\ a = IF p \in 2..o THEN p - 1 ELSE p
        BY <2>12, <2>13, <2>14, <3>3
      <4>2. a < b
        BY <2>1, <3>1, <3>3, <4>1
      <4> QED
        BY <1>1, <3>1, <4>1, <4>2
    <3> QED
      BY <3>2, <3>3
  <2>18. \A k \in stay : \/ \E p \in 1..m : after[p] = k
                         \/ m = MaxEvidence /\ \A p \in 1..m : after[p] > k
    <3> SUFFICES ASSUME NEW k \in stay
                 PROVE  \/ \E p \in 1..m : after[p] = k
                        \/ m = MaxEvidence /\ \A p \in 1..m : after[p] > k
      OBVIOUS
    <3>1. CASE k = n
      BY <2>1, <2>11, <3>1
    <3>2. CASE k \in calls /\ k # n /\ \E p \in 1..m : shown[p] = k
      <4>1. PICK p \in 1..m : shown[p] = k
        BY <3>2
      <4>2. ~SameKey(next, said[k])
        BY <3>2
      <4>3. p # o
        BY <2>10, <4>1, <4>2
      <4>4. CASE p < o
        <5>1. p + 1 \in 2..o /\ p + 1 \in 1..m /\ (p + 1) - 1 = p
          BY <4>4
        <5>2. after[p + 1] = shown[p]
          BY <2>12, <5>1
        <5> QED
          BY <4>1, <5>1, <5>2
      <4>5. CASE p > o
        <5>1. p \in o + 1..m
          BY <4>5
        <5>2. after[p] = k
          BY <2>13, <4>1, <5>1
        <5> QED
          BY <5>2
      <4> QED
        BY <4>3, <4>4, <4>5
    <3>3. CASE k \in calls /\ ~\E p \in 1..m : shown[p] = k
      <4>1. m = MaxEvidence /\ \A p \in 1..m : shown[p] > k
        BY <1>1, <3>3
      <4>2. \A q \in 1..m : after[q] > k
        BY <2>11, <2>12, <2>13, <2>14, <3>3, <4>1
      <4> QED
        BY <4>1, <4>2
    <3> QED
      BY <3>1, <3>2, <3>3
  <2>19. after \in [DOMAIN merged -> stay]
    BY <2>8, <2>15, <2>16 DEF after
  <2>21. /\ \A p \in DOMAIN after : merged[p] = said[after[p]]
         /\ \A p, q \in DOMAIN after : p < q => after[p] > after[q]
    BY <2>15, <2>16, <2>17
  <2>22. \A k \in stay : \/ \E p \in DOMAIN after : after[p] = k
                         \/ Len(merged) = MaxEvidence /\ \A p \in DOMAIN after : after[p] > k
    BY <2>7, <2>15, <2>18
  <2>20. Shows(merged, stay, said)
    BY <2>19, <2>21, <2>22 DEF Shows
  <2> QED
    BY <1>2, <2>7, <2>20 DEF merged
<1> QED
  BY <1>2, <1>3, <1>4

-----------------------------------------------------------------------------
(* Every call is of an instance there is, every row is the row of its       *)
(* instance's calls.                                                        *)
WitnessInv ==
  /\ events \in Seq(Instances \X Events \X (Int \cup {NoRow}))
  /\ witnesses \in [Instances -> WitnessRows \cup {NoRow}]
  /\ \A i \in Instances : CallsOf(i) # {} => witnesses[i] # NoRow
  /\ WitnessFaithful
  /\ \A i \in Instances : IsFiniteSet(Points(i))

(* What the tables of files do, no witness sees.                            *)
LEMMA FilesRecordNothing ==
  ASSUME NextFile
  PROVE  UNCHANGED <<events, witnesses>>
<1>1. CASE Step
  BY <1>1 DEF Step, Unindex, Index, Clear, Rebuilt, Flag, Write, ScanRow, Embed, Unembed, UnembedChunks, DeleteChunks,
              Unlink, Forget, RemoveRow, SetXrefs, UpsertSymbols, ReplaceReferences, others
<1>2. CASE Cut
  BY <1>2 DEF Cut
<1>3. ASSUME NEW statements, Begin(statements) PROVE UNCHANGED <<events, witnesses>>
  BY <1>3 DEF Begin, others
<1>4. ASSUME NEW f, Operation(f) PROVE UNCHANGED <<events, witnesses>>
  BY <1>3, <1>4 DEF Operation
<1>5. ASSUME NEW f, ReplaceSourceChunks(f) \/ UpsertSourceChunkEmbedding(f) PROVE UNCHANGED <<events, witnesses>>
  BY <1>5 DEF ReplaceSourceChunks, UpsertSourceChunkEmbedding, others
<1>6. ASSUME NEW f, NEW g, StructurePhase(f, g) PROVE UNCHANGED <<events, witnesses>>
  BY <1>6 DEF StructurePhase, others
<1> QED
  BY <1>1, <1>2, <1>3, <1>4, <1>5, <1>6 DEF NextFile, RebuildFails, Crash

LEMMA WitnessStays ==
  ASSUME WitnessInv, UNCHANGED <<events, witnesses>>
  PROVE  WitnessInv'
<1>1. WitnessFaithful' = WitnessFaithful
  BY DEF WitnessFaithful, RowIsFaithful, CallsOf, Told, Recent, EvidenceIsNewest, Points
<1>2. \A i : Points(i)' = Points(i) /\ CallsOf(i)' = CallsOf(i)
  BY DEF Points, CallsOf, Told
<1> QED
  BY <1>1, <1>2 DEF WitnessInv

(* What a call brings is a number, and brings as many points.              *)
LEMMA DeltaIsNat ==
  ASSUME NEW delta \in Int \cup {NoRow}, NEW i \in Interactions
  PROVE  ConfidenceDelta(delta, i) \in Nat
  BY DEF ConfidenceDelta, ConfidenceWeight, Interactions

LEMMA PointsOfOne ==
  ASSUME NEW k, NEW d \in Nat
  PROVE  IsFiniteSet({k} \X (1..d)) /\ Cardinality({k} \X (1..d)) = d
<1>1. IsFiniteSet(1..d) /\ Cardinality(1..d) = d
  BY FS_Interval
<1>2. IsFiniteSet({k}) /\ Cardinality({k}) = 1
  BY FS_Singleton
<1>3. /\ IsFiniteSet({k} \X (1..d)) /\ Cardinality({k} \X (1..d)) = Cardinality({k}) * Cardinality(1..d)
  BY <1>1, <1>2, FS_Product
<1> QED
  BY <1>1, <1>2, <1>3

Brought(k) == {k} \X (1..ConfidenceDelta(events[k][3], Told(k).interaction))

LEMMA PointsAre == \A i : \A x : x \in Points(i) <=> \E k \in CallsOf(i) : x \in Brought(k)
  BY DEF Points, Brought

(* A call that is recorded is shown first, counted, and weighed up to the   *)
(* limit; the rows of the other instances stay those of their calls.        *)
LEMMA RecordKeeps ==
  ASSUME WitnessInv, NEW i \in Instances, NEW e \in Events, NEW delta \in Int \cup {NoRow},
         RecordAtlasFileWitness(i, e, delta)
  PROVE  WitnessInv'
<1> DEFINE kind == NormalizeWitnessInteraction(e.interaction)
           next == [e EXCEPT !.interaction = kind]
<1>1. PICK n \in Nat \ {0} : n = Len(events) + 1 /\ DOMAIN events = 1..n - 1
  BY DEF WitnessInv
<1>2. /\ events' = Append(events, <<i, e, delta>>) /\ events' \in Seq(Instances \X Events \X (Int \cup {NoRow}))
      /\ DOMAIN events' = 1..n /\ events'[n] = <<i, e, delta>>
      /\ \A k \in 1..n - 1 : events'[k] = events[k]
  BY <1>1 DEF RecordAtlasFileWitness, WitnessInv
<1>3. kind \in Interactions
  BY DEF NormalizeWitnessInteraction, Interactions
<1>4. next \in Evidence /\ next.interaction = kind
  BY <1>3, WitnessAssumption DEF Evidence
<1>5. \A k \in 1..n - 1 : Told(k)' = Told(k)
  BY <1>2 DEF Told
<1>6. Told(n)' = next
  BY <1>2 DEF Told
<1>7. \A j : CallsOf(j) \subseteq 1..n - 1
  BY <1>1 DEF CallsOf
<1>8. \A j : CallsOf(j)' = IF j = i THEN CallsOf(j) \cup {n} ELSE CallsOf(j)
  BY <1>1, <1>2 DEF CallsOf
<1> HIDE DEF next, kind
<1>33. PICK d \in Nat : d = ConfidenceDelta(delta, kind)
  BY <1>3, DeltaIsNat
<1>34. Brought(n)' = {n} \X (1..d) /\ \A k \in 1..n - 1 : Brought(k)' = Brought(k)
  BY <1>2, <1>4, <1>5, <1>6, <1>33 DEF Brought
<1>35. \A j : Points(j)' = IF j = i THEN Points(j) \cup ({n} \X (1..d)) ELSE Points(j)
  <2> SUFFICES ASSUME NEW j PROVE Points(j)' = IF j = i THEN Points(j) \cup ({n} \X (1..d)) ELSE Points(j)
    OBVIOUS
  <2>1. \A x : x \in Points(j)' <=> \E k \in CallsOf(j)' : x \in Brought(k)'
    BY DEF Points, Brought
  <2>2. \A x : x \in Points(j) <=> \E k \in CallsOf(j) : x \in Brought(k)
    BY PointsAre
  <2>3. \A k \in CallsOf(j) : Brought(k)' = Brought(k)
    BY <1>7, <1>34
  <2>4. CallsOf(j)' = IF j = i THEN CallsOf(j) \cup {n} ELSE CallsOf(j)
    BY <1>8
  <2>5. CASE j = i
    <3>1. \A x : x \in Points(j)' <=> x \in Points(j) \/ x \in Brought(n)'
      BY <2>1, <2>2, <2>3, <2>4, <2>5
    <3> QED
      BY <1>34, <2>5, <3>1
  <2>6. CASE j # i
    <3>1. \A x : x \in Points(j)' <=> x \in Points(j)
      BY <2>1, <2>2, <2>3, <2>4, <2>6
    <3> QED
      BY <2>6, <3>1
  <2> QED
    BY <2>5, <2>6
<1>36. \E c \in Nat : c = Cardinality(Points(i)) /\ IsFiniteSet(Points(i)') /\ Cardinality(Points(i)') = c + d
  <2> DEFINE new == {n} \X (1..d)
  <2>1. IsFiniteSet(new) /\ Cardinality(new) = d
    BY PointsOfOne
  <2>2. IsFiniteSet(Points(i)) /\ Cardinality(Points(i)) \in Nat
    BY FS_CardinalityType DEF WitnessInv
  <2>3. Points(i) \cap new = {}
    <3> SUFFICES ASSUME NEW x \in Points(i), x \in new PROVE FALSE
      OBVIOUS
    <3>1. PICK k \in CallsOf(i) : x \in Brought(k)
      BY PointsAre
    <3>2. x[1] = k /\ x[1] = n
      BY <3>1 DEF Brought
    <3> QED
      BY <1>7, <3>2
  <2>4. Points(i)' = Points(i) \cup new
    BY <1>35
  <2> HIDE DEF new
  <2>5. Cardinality({}) = 0
    BY FS_EmptySet
  <2>6. /\ IsFiniteSet(Points(i) \cup new)
        /\ Cardinality(Points(i) \cup new) = Cardinality(Points(i)) + Cardinality(new) - Cardinality(Points(i) \cap new)
    BY <2>1, <2>2, FS_Union
  <2>7. PICK c \in Nat : c = Cardinality(Points(i))
    BY <2>2
  <2>8. Cardinality(Points(i) \cup new) = c + d - 0
    BY <2>1, <2>3, <2>5, <2>6, <2>7
  <2>9. c + d - 0 = c + d
    OBVIOUS
  <2>10. IsFiniteSet(Points(i)') /\ Cardinality(Points(i)') = c + d
    BY <2>4, <2>6, <2>8, <2>9
  <2> QED
    BY <2>7, <2>10
<1>9. ASSUME NEW j \in Instances, j # i
      PROVE  witnesses'[j] = witnesses[j] /\ Recent(j)' = Recent(j) /\ CallsOf(j)' = CallsOf(j)
  <2>1. witnesses'[j] = witnesses[j]
    BY <1>9 DEF RecordAtlasFileWitness, WitnessInv
  <2>2. CallsOf(j)' = CallsOf(j)
    BY <1>8, <1>9
  <2>3. Recent(j)' = Recent(j)
    BY <1>5, <1>7, <2>2 DEF Recent
  <2> QED
    BY <2>1, <2>2, <2>3
<1>10. Recent(i)' = {n} \cup {k \in Recent(i) : ~SameKey(next, Told(k))}
  <2>1. \A k \in CallsOf(i) : k < n /\ k # n
    BY <1>7
  <2>2. CallsOf(i)' = CallsOf(i) \cup {n}
    BY <1>8
  <2>3. \A k \in CallsOf(i) : Told(k)' = Told(k)
    BY <1>5, <1>7
  <2>4. ASSUME NEW k \in Recent(i)' PROVE k \in {n} \cup {k2 \in Recent(i) : ~SameKey(next, Told(k2))}
    <3>1. k = n \/ k \in CallsOf(i)
      BY <2>2, <2>4 DEF Recent
    <3>2. CASE k \in CallsOf(i)
      <4>1. ~SameKey(Told(n)', Told(k)')
        BY <2>1, <2>2, <2>4, <3>2 DEF Recent
      <4>2. \A j \in CallsOf(i) : j > k => ~SameKey(Told(j)', Told(k)')
        BY <2>2, <2>4 DEF Recent
      <4>3. \A j \in CallsOf(i) : j > k => ~SameKey(Told(j), Told(k))
        BY <2>3, <3>2, <4>2
      <4> QED
        BY <1>6, <2>3, <3>2, <4>1, <4>3 DEF Recent
    <3> QED
      BY <3>1, <3>2
  <2>5. ASSUME NEW k \in Recent(i), ~SameKey(next, Told(k)) PROVE k \in Recent(i)'
    <3>1. k \in CallsOf(i)
      BY DEF Recent
    <3>2. \A j \in CallsOf(i) : j > k => ~SameKey(Told(j)', Told(k)')
      BY <2>3, <3>1 DEF Recent
    <3>3. ~SameKey(Told(n)', Told(k)')
      BY <1>6, <2>3, <2>5, <3>1
    <3> QED
      BY <2>2, <3>1, <3>2, <3>3 DEF Recent
  <2>6. n \in Recent(i)'
    <3>1. \A j \in CallsOf(i)' : ~(j > n)
      BY <1>7, <2>2
    <3> QED
      BY <2>2, <3>1 DEF Recent
  <2> QED
    BY <2>4, <2>5, <2>6
<1> DEFINE before == IF witnesses[i] = NoRow THEN NoWitness(e.at) ELSE witnesses[i]
           said == [k \in 1..n |-> IF k = n THEN next ELSE Told(k)]
           Of(x) == {k \in CallsOf(i) : Told(k).interaction = x}
           Few(x) == IF x < MaxConfidence THEN x ELSE MaxConfidence
<1>11. witnesses[i] = NoRow <=> CallsOf(i) = {}
  BY DEF WitnessInv, WitnessFaithful, RowIsFaithful
<1>12. MaxConfidence \in Nat /\ MaxEvidence \in Nat /\ NoRow \notin WitnessRows
  BY WitnessAssumption
<1>13. before \in WitnessRows
  <2>1. NoWitness(e.at) \in WitnessRows
    BY DEF NoWitness, WitnessRows
  <2> QED
    BY <2>1 DEF WitnessInv
<1>14. \A x \in Interactions : before.counts[x] = Cardinality(Of(x))
  <2>1. CASE witnesses[i] = NoRow
    <3>1. \A x : Of(x) = {}
      BY <1>11, <2>1
    <3>2. \A x \in Interactions : before.counts[x] = 0
      BY <2>1 DEF NoWitness
    <3> QED
      BY <3>1, <3>2, FS_EmptySet
  <2>2. CASE witnesses[i] # NoRow
    BY <1>11, <2>2 DEF WitnessInv, WitnessFaithful, RowIsFaithful
  <2> QED
    BY <2>1, <2>2
<1>15. before.confidence = Few(Cardinality(Points(i)))
  <2>1. CASE witnesses[i] = NoRow
    <3>1. before.confidence = 0
      BY <2>1 DEF NoWitness
    <3>2. Points(i) = {}
      BY <1>11, <2>1, PointsAre
    <3>3. Cardinality(Points(i)) = 0
      BY <3>2, FS_EmptySet
    <3> QED
      BY <1>12, <3>1, <3>3
  <2>2. CASE witnesses[i] # NoRow
    BY <1>11, <2>2 DEF WitnessInv, WitnessFaithful, RowIsFaithful
  <2> QED
    BY <2>1, <2>2
<1>16. Len(before.evidence) <= MaxEvidence /\ EvidenceIsNewest(before, i)
  <2>1. CASE witnesses[i] = NoRow
    <3>1. before.evidence = <<>>
      BY <2>1 DEF NoWitness
    <3>2. Recent(i) = {}
      BY <1>11, <2>1 DEF Recent
    <3> DEFINE none == [p \in {} |-> p]
    <3>3. DOMAIN before.evidence = {} /\ Len(before.evidence) = 0
      BY <3>1
    <3>4. none \in [DOMAIN before.evidence -> Recent(i)] /\ DOMAIN none = {}
      BY <3>3
    <3> HIDE DEF none, before
    <3>5. Len(before.evidence) <= MaxEvidence
      BY <1>12, <3>3
    <3>6. \A k \in Recent(i) : FALSE
      BY <3>2
    <3>7. EvidenceIsNewest(before, i)
      BY <3>4, <3>6 DEF EvidenceIsNewest
    <3> QED
      BY <3>5, <3>7
  <2>2. CASE witnesses[i] # NoRow
    BY <1>11, <2>2 DEF WitnessInv, WitnessFaithful, RowIsFaithful
  <2> QED
    BY <2>1, <2>2
<1>17. witnesses' = [witnesses EXCEPT ![i] =
          [counts |-> [before.counts EXCEPT ![kind] = @ + 1], evidence |-> MergeWitnessEvidence(before.evidence, next),
           confidence |-> Few(before.confidence + d), first |-> before.first]]
  BY <1>33 DEF RecordAtlasFileWitness, next, kind
<1> HIDE DEF before
<1>18. PICK row : row = witnesses'[i]
  OBVIOUS
<1>19. row = [counts |-> [before.counts EXCEPT ![kind] = @ + 1], evidence |-> MergeWitnessEvidence(before.evidence, next),
              confidence |-> Few(before.confidence + d), first |-> before.first]
  BY <1>17, <1>18 DEF WitnessInv
<1>20. /\ before.counts \in [Interactions -> Nat] /\ before.evidence \in Seq(Evidence)
       /\ before.confidence \in Nat /\ before.first \in {x.at : x \in Events}
  BY <1>13 DEF WitnessRows
<1>21. /\ row.counts \in [Interactions -> Nat] /\ row.confidence \in Nat
       /\ row.confidence = Few(Cardinality(Points(i)'))
  <2>1. PICK c \in Nat : c = Cardinality(Points(i)) /\ Cardinality(Points(i)') = c + d
    BY <1>36
  <2>2. row.counts = [before.counts EXCEPT ![kind] = @ + 1] /\ row.confidence = Few(Few(c) + d)
    BY <1>15, <1>19, <2>1
  <2>3. Few(Few(c) + d) = Few(c + d) /\ Few(c + d) \in Nat
    BY <1>12
  <2>4. row.counts \in [Interactions -> Nat]
    BY <1>3, <1>20, <2>2
  <2> HIDE DEF Few
  <2> QED
    BY <2>1, <2>2, <2>3, <2>4
<1>22. \A x \in Interactions : row.counts[x] = Cardinality({k \in CallsOf(i)' : Told(k)'.interaction = x})
  <2> SUFFICES ASSUME NEW x \in Interactions
               PROVE  row.counts[x] = Cardinality({k \in CallsOf(i)' : Told(k)'.interaction = x})
    OBVIOUS
  <2>1. {k \in CallsOf(i)' : Told(k)'.interaction = x} = IF x = kind THEN Of(x) \cup {n} ELSE Of(x)
    <3>1. \A k \in CallsOf(i) : Told(k)' = Told(k) /\ k # n
      BY <1>5, <1>7
    <3>2. CallsOf(i)' = CallsOf(i) \cup {n}
      BY <1>8
    <3> QED
      BY <1>4, <1>6, <3>1, <3>2
  <2>2. IsFiniteSet(Of(x)) /\ n \notin Of(x)
    <3>1. Of(x) \subseteq 1..n - 1
      BY <1>7
    <3>2. IsFiniteSet(1..n - 1)
      BY FS_Interval
    <3>3. n \notin 1..n - 1
      OBVIOUS
    <3> HIDE DEF Of
    <3> QED
      BY <3>1, <3>2, <3>3, FS_Subset
  <2>3. Cardinality(Of(x) \cup {n}) = Cardinality(Of(x)) + 1
    BY <2>2, FS_AddElement
  <2>4. row.counts[x] = IF x = kind THEN before.counts[x] + 1 ELSE before.counts[x]
    BY <1>3, <1>19, <1>20
  <2> HIDE DEF Of
  <2> QED
    BY <1>14, <2>1, <2>3, <2>4
<1>23. \E k \in CallsOf(i)' : row.first = events'[k][2].at /\ \A j \in CallsOf(i)' : k <= j
  <2>1. CallsOf(i)' = CallsOf(i) \cup {n} /\ row.first = before.first
    BY <1>8, <1>19
  <2>2. CASE witnesses[i] = NoRow
    <3>1. before.first = e.at /\ CallsOf(i) = {}
      BY <1>11, <2>2 DEF before, NoWitness
    <3> QED
      BY <1>2, <2>1, <3>1
  <2>3. CASE witnesses[i] # NoRow
    <3>1. PICK k \in CallsOf(i) : before.first = events[k][2].at /\ \A j \in CallsOf(i) : k <= j
      BY <1>11, <2>3 DEF before, WitnessInv, WitnessFaithful, RowIsFaithful
    <3>2. k \in 1..n - 1 /\ events'[k] = events[k]
      BY <1>2, <1>7
    <3>3. row.first = events'[k][2].at /\ k \in CallsOf(i)'
      BY <2>1, <3>1, <3>2
    <3>4. \A j \in CallsOf(i)' : k <= j
      BY <1>7, <2>1, <3>1, <3>2
    <3> QED
      BY <3>3, <3>4
  <2> QED
    BY <2>2, <2>3
<1>24. row.evidence \in Seq(Evidence) /\ Len(row.evidence) <= MaxEvidence /\ Shows(row.evidence, Recent(i)', said)
  <2>1. Recent(i) \in SUBSET Nat /\ \A k \in Recent(i) : k < n
    BY <1>7 DEF Recent
  <2>2. \A k \in Recent(i) : said[k] = Told(k)
    BY <1>7 DEF Recent
  <2>3. said[n] = next
    OBVIOUS
  <2> HIDE DEF said
  <2>4. Shows(before.evidence, Recent(i), said)
    <3>1. PICK shown \in [DOMAIN before.evidence -> Recent(i)] :
            /\ \A p \in DOMAIN shown : before.evidence[p] = Told(shown[p])
            /\ \A p, q \in DOMAIN shown : p < q => shown[p] > shown[q]
            /\ \A k \in Recent(i) : \/ \E p \in DOMAIN shown : shown[p] = k
                                    \/ Len(before.evidence) = MaxEvidence /\ \A p \in DOMAIN shown : shown[p] > k
      BY <1>16 DEF EvidenceIsNewest
    <3>2. \A p \in DOMAIN shown : before.evidence[p] = said[shown[p]]
      BY <2>2, <3>1
    <3> QED
      BY <3>1, <3>2 DEF Shows
  <2>5. \A j, k \in Recent(i) : j # k => ~SameKey(said[j], said[k])
    <3> SUFFICES ASSUME NEW j \in Recent(i), NEW k \in Recent(i), j # k PROVE ~SameKey(said[j], said[k])
      OBVIOUS
    <3>1. j < k \/ k < j
      BY <2>1
    <3>2. j \in CallsOf(i) /\ k \in CallsOf(i)
      BY DEF Recent
    <3>3. ~SameKey(Told(j), Told(k))
      BY <2>1, <3>1, <3>2 DEF Recent, SameKey
    <3> QED
      BY <2>2, <3>3
  <2>6. Recent(i)' = {n} \cup {k \in Recent(i) : ~SameKey(next, said[k])}
    BY <1>10, <2>2
  <2>7. row.evidence = MergeWitnessEvidence(before.evidence, next)
    BY <1>19
  <2>8. PICK after : after = Recent(i)'
    OBVIOUS
  <2>9. after = {n} \cup {k \in Recent(i) : ~SameKey(next, said[k])}
    BY <2>6, <2>8
  <2>10. PICK calls \in SUBSET Nat : calls = Recent(i)
    BY <2>1
  <2>11. /\ MergeWitnessEvidence(before.evidence, next) \in Seq(Evidence)
         /\ Len(MergeWitnessEvidence(before.evidence, next)) <= MaxEvidence
         /\ Shows(MergeWitnessEvidence(before.evidence, next), after, said)
    BY <1>4, <1>16, <1>20, <2>1, <2>3, <2>4, <2>5, <2>9, <2>10, MergedShows
  <2> QED
    BY <2>7, <2>8, <2>11
<1>25. /\ \A k \in Recent(i)' : said[k] = Told(k)'
       /\ \A k \in CallsOf(i)' : k \in 1..n
  <2>1. \A k \in CallsOf(i)' : k \in 1..n
    BY <1>7, <1>8
  <2>2. \A k \in 1..n : said[k] = Told(k)'
    <3> TAKE k \in 1..n
    <3>1. CASE k = n
      BY <1>6, <3>1
    <3>2. CASE k # n
      <4>1. k \in 1..n - 1
        BY <3>2
      <4> QED
        BY <1>5, <3>2, <4>1
    <3> QED
      BY <3>1, <3>2
  <2> HIDE DEF said
  <2> QED
    BY <2>1, <2>2 DEF Recent
<1> HIDE DEF said
<1>26. \E shown \in [DOMAIN row.evidence -> Recent(i)'] :
         /\ \A p \in DOMAIN shown : row.evidence[p] = Told(shown[p])'
         /\ \A p, q \in DOMAIN shown : p < q => shown[p] > shown[q]
         /\ \A k \in Recent(i)' : \/ \E p \in DOMAIN shown : shown[p] = k
                                  \/ Len(row.evidence) = MaxEvidence /\ \A p \in DOMAIN shown : shown[p] > k
  <2>1. PICK shown \in [DOMAIN row.evidence -> Recent(i)'] :
         /\ \A p \in DOMAIN shown : row.evidence[p] = said[shown[p]]
         /\ \A p, q \in DOMAIN shown : p < q => shown[p] > shown[q]
         /\ \A k \in Recent(i)' : \/ \E p \in DOMAIN shown : shown[p] = k
                                  \/ Len(row.evidence) = MaxEvidence /\ \A p \in DOMAIN shown : shown[p] > k
    BY <1>24 DEF Shows
  <2>2. \A p \in DOMAIN shown : row.evidence[p] = Told(shown[p])'
    BY <1>25, <2>1
  <2> QED
    BY <2>1, <2>2
<1>27. row \in WitnessRows
  BY <1>19, <1>20, <1>21, <1>24 DEF WitnessRows
<1>28. witnesses' \in [Instances -> WitnessRows \cup {NoRow}]
  <2>1. witnesses' = [witnesses EXCEPT ![i] = row]
    BY <1>17, <1>19
  <2> QED
    BY <1>27, <2>1 DEF WitnessInv
<1>29. \A j \in Instances : CallsOf(j)' # {} => witnesses'[j] # NoRow
  BY <1>9, <1>12, <1>18, <1>27 DEF WitnessInv
<1>30. CallsOf(i)' # {} /\ RowIsFaithful(row, i)'
  <2>1. EvidenceIsNewest(row, i)'
    BY <1>26 DEF EvidenceIsNewest
  <2>2. CallsOf(i)' # {}
    BY <1>8
  <2> QED
    BY <1>21, <1>22, <1>23, <1>24, <2>1, <2>2 DEF RowIsFaithful
<1>31. ASSUME NEW j \in Instances, j # i, NEW r, r = witnesses[j]
       PROVE  IF CallsOf(j)' = {} THEN r = NoRow ELSE RowIsFaithful(r, j)'
  <2>1. CallsOf(j)' = CallsOf(j) /\ Recent(j)' = Recent(j)
    BY <1>9, <1>31
  <2>2. \A k \in CallsOf(j) : Told(k)' = Told(k) /\ events'[k] = events[k]
    BY <1>2, <1>5, <1>7
  <2>3. CASE CallsOf(j) = {}
    BY <1>31, <2>1, <2>3 DEF WitnessInv, WitnessFaithful
  <2>4. CASE CallsOf(j) # {}
    <3>1. RowIsFaithful(r, j)
      BY <1>31, <2>4 DEF WitnessInv, WitnessFaithful
    <3>2. \A x \in Interactions : r.counts[x] = Cardinality({k \in CallsOf(j)' : Told(k)'.interaction = x})
      <4> TAKE x \in Interactions
      <4>1. {k \in CallsOf(j)' : Told(k)'.interaction = x} = {k \in CallsOf(j) : Told(k).interaction = x}
        BY <2>1, <2>2
      <4> QED
        BY <3>1, <4>1 DEF RowIsFaithful
    <3>3. \E k \in CallsOf(j)' : r.first = events'[k][2].at /\ \A l \in CallsOf(j)' : k <= l
      BY <2>1, <2>2, <3>1 DEF RowIsFaithful
    <3>4. EvidenceIsNewest(r, j)'
      <4>1. PICK shown \in [DOMAIN r.evidence -> Recent(j)] :
              /\ \A p \in DOMAIN shown : r.evidence[p] = Told(shown[p])
              /\ \A p, q \in DOMAIN shown : p < q => shown[p] > shown[q]
              /\ \A k \in Recent(j) : \/ \E p \in DOMAIN shown : shown[p] = k
                                      \/ Len(r.evidence) = MaxEvidence /\ \A p \in DOMAIN shown : shown[p] > k
        BY <3>1 DEF RowIsFaithful, EvidenceIsNewest
      <4>2. \A p \in DOMAIN shown : r.evidence[p] = Told(shown[p])'
        BY <2>2, <4>1 DEF Recent
      <4> QED
        BY <2>1, <4>1, <4>2 DEF EvidenceIsNewest
    <3>5. Points(j)' = Points(j)
      BY <1>31, <1>35
    <3> QED
      BY <2>1, <2>4, <3>1, <3>2, <3>3, <3>4, <3>5 DEF RowIsFaithful
  <2> QED
    BY <2>3, <2>4
<1>32. WitnessFaithful'
  <2>1. ASSUME NEW j \in Instances
        PROVE  IF CallsOf(j)' = {} THEN witnesses'[j] = NoRow ELSE RowIsFaithful(witnesses[j], j)'
    <3>1. CASE j = i
      BY <1>18, <1>30, <3>1 DEF RowIsFaithful, EvidenceIsNewest
    <3>2. CASE j # i
      <4>1. PICK r : r = witnesses[j]
        OBVIOUS
      <4>2. r = witnesses'[j]
        BY <1>9, <3>2, <4>1
      <4>3. IF CallsOf(j)' = {} THEN r = NoRow ELSE RowIsFaithful(r, j)'
        BY <1>31, <3>2, <4>1
      <4> QED
        BY <4>2, <4>3 DEF RowIsFaithful, EvidenceIsNewest
    <3> QED
      BY <3>1, <3>2
  <2> QED
    BY <2>1 DEF WitnessFaithful
<1>37. \A j \in Instances : IsFiniteSet(Points(j)')
  BY <1>35, <1>36 DEF WitnessInv
<1> QED
  BY <1>2, <1>28, <1>29, <1>32, <1>37 DEF WitnessInv

(* The row of an instance is that of the calls it made, whatever was said    *)
(* and in whatever order: each interaction is counted once for each call     *)
(* that names it, the confidence is what the calls have brought, the weight  *)
(* of the interaction or what the caller said, up to the limit, and the      *)
(* evidence keeps the newest call of each key, the newest     *)
(* first, and drops only what is older than all it keeps.                    *)
THEOREM WitnessesAreFaithful ==
  CatalogueSpec => []WitnessFaithful
<1>1. CatalogueInit => WitnessInv
  <2> SUFFICES ASSUME CatalogueInit PROVE WitnessInv
    OBVIOUS
  <2>1. events = <<>> /\ witnesses = [i \in Instances |-> NoRow]
    BY DEF CatalogueInit
  <2>2. \A i \in Instances : CallsOf(i) = {} /\ witnesses[i] = NoRow
    BY <2>1 DEF CallsOf
  <2>3. \A i : Points(i) = {}
    BY <2>1, PointsAre DEF CallsOf
  <2>4. IsFiniteSet({})
    BY FS_EmptySet
  <2> QED
    BY <2>1, <2>2, <2>3, <2>4 DEF WitnessInv, WitnessFaithful
<1>2. WitnessInv /\ [NextFile \/ NextWitness]_catalogueVars => WitnessInv'
  <2> SUFFICES ASSUME WitnessInv, [NextFile \/ NextWitness]_catalogueVars PROVE WitnessInv'
    OBVIOUS
  <2>1. CASE NextFile
    BY <2>1, FilesRecordNothing, WitnessStays
  <2>2. CASE NextWitness
    <3>1. PICK instance \in Instances, call \in Calls : RecordAtlasFileWitness(instance, call[1], call[2])
      BY <2>2 DEF NextWitness
    <3>2. call[1] \in Events /\ call[2] \in Int \cup {NoRow}
      BY WitnessAssumption
    <3> QED
      BY <3>1, <3>2, RecordKeeps
  <2>3. CASE UNCHANGED catalogueVars
    BY <2>3, WitnessStays DEF catalogueVars
  <2> QED
    BY <2>1, <2>2, <2>3
<1>3. WitnessInv => WitnessFaithful
  BY DEF WitnessInv
<1> QED
  BY <1>1, <1>2, <1>3, PTL DEF CatalogueSpec

-----------------------------------------------------------------------------
(* Numbers of which 0 is one, and each the next of which is one, are all    *)
(* there are.                                                               *)
LEMMA AllNumbers ==
  ASSUME NEW l \in Nat, NEW T \in SUBSET (0..l), 0 \in T, \A n \in 1..l : n - 1 \in T => n \in T
  PROVE  T = 0..l
<1> DEFINE rest == (0..l) \ T
<1>1. ASSUME rest # {} PROVE FALSE
  <2>1. rest \in SUBSET Nat
    OBVIOUS
  <2>2. PICK n \in rest : \A m \in rest : n <= m
    <3> HIDE DEF rest
    <3> QED
      BY <1>1, <2>1, LeastNat
  <2>3. n \in 1..l /\ n - 1 \in 0..l /\ n - 1 \notin rest
    BY <2>2
  <2> QED
    BY <2>2, <2>3
<1> QED
  BY <1>1

(* What leads from a value to the next.                                     *)
StepsOn(S) == [Nat \X S -> S]
Made(f, S, l, first, step) ==
  f \in [0..l -> S] /\ f[0] = first /\ \A n \in 1..l : f[n] = step[<<n, f[n - 1]>>]

(* A first value and a step to the next make a row of values of any length. *)
LEMMA StepsMakeRow ==
  ASSUME NEW S, NEW first \in S, NEW step \in StepsOn(S), NEW l \in Nat
  PROVE  \E f : Made(f, S, l, first, step)
<1> DEFINE has == {k \in 0..l : \E f : Made(f, S, k, first, step)}
<1>1. 0 \in has
  <2> DEFINE g == [n \in 0..0 |-> first]
  <2>1. g \in [0..0 -> S] /\ g[0] = first /\ 0 \in 0..l
    OBVIOUS
  <2>2. Made(g, S, 0, first, step)
    BY <2>1 DEF Made
  <2> QED
    BY <2>1, <2>2
<1>2. ASSUME NEW k \in 1..l, k - 1 \in has PROVE k \in has
  <2>1. PICK f : Made(f, S, k - 1, first, step)
    BY <1>2
  <2> DEFINE g == [n \in 0..k |-> IF n = k THEN step[<<k, f[k - 1]>>] ELSE f[n]]
  <2>2. g \in [0..k -> S] /\ g[0] = first /\ g[k] = step[<<k, f[k - 1]>>]
    BY <2>1 DEF StepsOn, Made
  <2>3. \A n \in 0..k - 1 : g[n] = f[n]
    OBVIOUS
  <2> HIDE DEF g
  <2>4. ASSUME NEW n \in 1..k PROVE g[n] = step[<<n, g[n - 1]>>]
    <3>1. n - 1 \in 0..k - 1 /\ g[n - 1] = f[n - 1]
      BY <2>3
    <3>2. CASE n = k
      BY <2>2, <3>1, <3>2
    <3>3. CASE n # k
      <4>1. n \in 1..k - 1 /\ g[n] = f[n]
        BY <2>3, <3>3
      <4> QED
        BY <2>1, <3>1, <4>1 DEF Made
    <3> QED
      BY <3>2, <3>3
  <2>5. Made(g, S, k, first, step)
    BY <2>2, <2>4 DEF Made
  <2> QED
    BY <2>2, <2>5
<1>3. has \in SUBSET (0..l)
  OBVIOUS
<1>4. has = 0..l
  <2> HIDE DEF has
  <2> QED
    BY <1>1, <1>2, <1>3, AllNumbers
<1>5. l \in has
  BY <1>4
<1> QED
  BY <1>5

-----------------------------------------------------------------------------
(* What a diff tells.                                                       *)
ScriptLine == [op : {"+", "-", "="}, line : Lines]

(* One line more is one more at most, if it does not have the mark.         *)
LEMMA CountStep ==
  ASSUME NEW s, NEW x, NEW k \in Nat \ {0}
  PROVE  /\ CountBefore(s, 1, x) = 0 /\ CountBefore(s, k, x) \in Nat
         /\ CountBefore(s, k + 1, x) = CountBefore(s, k, x) + (IF s[k].op # x THEN 1 ELSE 0)
<1> DEFINE Those(n) == {m \in 1..n - 1 : s[m].op # x}
<1>1. \A n \in Nat : IsFiniteSet(Those(n)) /\ Cardinality(Those(n)) \in Nat
  <2> SUFFICES ASSUME NEW n \in Nat PROVE IsFiniteSet(Those(n)) /\ Cardinality(Those(n)) \in Nat
    OBVIOUS
  <2>1. IsFiniteSet(1..n - 1)
    BY FS_Interval
  <2>2. IsFiniteSet(Those(n))
    BY <2>1, FS_Subset
  <2> QED
    BY <2>2, FS_CardinalityType
<1>2. Those(1) = {}
  OBVIOUS
<1>3. CASE s[k].op # x
  <2>1. Those(k + 1) = Those(k) \cup {k} /\ k \notin Those(k)
    BY <1>3
  <2> HIDE DEF Those
  <2>2. Cardinality(Those(k) \cup {k}) = Cardinality(Those(k)) + 1
    BY <1>1, <2>1, FS_AddElement
  <2>3. Cardinality(Those(k + 1)) = Cardinality(Those(k)) + 1 /\ Cardinality(Those(1)) = 0
    BY <1>2, <2>1, <2>2, FS_EmptySet
  <2>4. /\ CountBefore(s, 1, x) = Cardinality(Those(1)) /\ CountBefore(s, k, x) = Cardinality(Those(k))
        /\ CountBefore(s, k + 1, x) = Cardinality(Those(k + 1))
    BY DEF CountBefore, Those
  <2>5. (IF s[k].op # x THEN 1 ELSE 0) = 1
    BY <1>3
  <2>6. Cardinality(Those(k)) \in Nat
    BY <1>1
  <2> QED
    BY <2>3, <2>4, <2>5, <2>6
<1>4. CASE s[k].op = x
  <2>1. Those(k + 1) = Those(k)
    BY <1>4
  <2>2. Cardinality(Those(k + 1)) = Cardinality(Those(k)) /\ Cardinality(Those(1)) = 0
    BY <1>2, <2>1, FS_EmptySet
  <2>3. /\ CountBefore(s, 1, x) = Cardinality(Those(1)) /\ CountBefore(s, k, x) = Cardinality(Those(k))
        /\ CountBefore(s, k + 1, x) = Cardinality(Those(k + 1))
    BY DEF CountBefore
  <2>4. (IF s[k].op # x THEN 1 ELSE 0) = 0
    BY <1>4
  <2> HIDE DEF Those
  <2>5. Cardinality(Those(k)) \in Nat
    BY <1>1
  <2> QED
    BY <2>2, <2>3, <2>4, <2>5
<1> QED
  BY <1>3, <1>4

(* A script that goes on counts what it goes on with.                       *)
LEMMA CountShift ==
  ASSUME NEW s \in Seq(ScriptLine), NEW t \in Seq(ScriptLine), NEW x
  PROVE  /\ \A k \in 1..Len(s) + 1 : CountBefore(s \o t, k, x) = CountBefore(s, k, x)
         /\ \A k \in 1..Len(t) + 1 : CountBefore(s \o t, Len(s) + k, x) = CountWithout(s, x) + CountBefore(t, k, x)
<1>1. ASSUME NEW k \in 1..Len(s) + 1 PROVE CountBefore(s \o t, k, x) = CountBefore(s, k, x)
  <2>1. \A m \in 1..k - 1 : (s \o t)[m] = s[m]
    OBVIOUS
  <2> QED
    BY <2>1 DEF CountBefore
<1> DEFINE Agrees(k) == CountBefore(s \o t, Len(s) + k, x) = CountWithout(s, x) + CountBefore(t, k, x)
           good == {n \in 0..Len(t) : Agrees(n + 1)}
<1>2. Len(t) \in Nat /\ Len(s) \in Nat
  OBVIOUS
<1>3. 0 \in good
  <2>1. CountBefore(s \o t, Len(s) + 1, x) = CountWithout(s, x)
    BY <1>1, <1>2 DEF CountWithout
  <2>2. CountBefore(t, 1, x) = 0 /\ CountWithout(s, x) \in Nat
    BY <1>2, CountStep DEF CountWithout
  <2> QED
    BY <1>2, <2>1, <2>2
<1>4. ASSUME NEW n \in 1..Len(t), n - 1 \in good PROVE n \in good
  <2>1. CountBefore(s \o t, Len(s) + n, x) = CountWithout(s, x) + CountBefore(t, n, x)
    BY <1>4
  <2>2. /\ CountBefore(s \o t, Len(s) + n + 1, x)
             = CountBefore(s \o t, Len(s) + n, x) + (IF (s \o t)[Len(s) + n].op # x THEN 1 ELSE 0)
        /\ CountBefore(t, n + 1, x) = CountBefore(t, n, x) + (IF t[n].op # x THEN 1 ELSE 0)
        /\ CountBefore(t, n, x) \in Nat /\ CountWithout(s, x) \in Nat
    <3>1. n \in Nat \ {0} /\ Len(s) + n \in Nat \ {0} /\ Len(s) + 1 \in Nat \ {0}
      BY <1>2
    <3> QED
      BY <3>1, CountStep DEF CountWithout
  <2>3. (s \o t)[Len(s) + n] = t[n] /\ Len(s) + (n + 1) = Len(s) + n + 1
    BY <1>2
  <2>4. Agrees(n + 1)
    BY <2>1, <2>2, <2>3
  <2> QED
    BY <2>4
<1>5. good = 0..Len(t)
  <2>1. good \in SUBSET (0..Len(t))
    OBVIOUS
  <2> HIDE DEF good
  <2> QED
    BY <1>2, <1>3, <1>4, <2>1, AllNumbers
<1>6. ASSUME NEW k \in 1..Len(t) + 1 PROVE Agrees(k)
  <2>1. k - 1 \in 0..Len(t) /\ (k - 1) + 1 = k
    BY <1>2
  <2>2. k - 1 \in good
    <3> HIDE DEF good
    <3> QED
      BY <1>5, <2>1
  <2> QED
    BY <2>1, <2>2
<1> QED
  BY <1>1, <1>6

(* Marked lines are counted all or not at all.                              *)
LEMMA CountMarked ==
  ASSUME NEW kind, NEW lines \in Seq(Lines), NEW x, NEW k \in 1..Len(lines) + 1
  PROVE  CountBefore(Marked(kind, lines), k, x) = IF kind = x THEN 0 ELSE k - 1
<1>1. \A m \in 1..k - 1 : Marked(kind, lines)[m].op = kind
  BY DEF Marked
<1>2. CASE kind = x
  BY <1>1, <1>2, FS_EmptySet DEF CountBefore
<1>3. CASE kind # x
  <2>1. {m \in 1..k - 1 : Marked(kind, lines)[m].op # x} = 1..k - 1
    BY <1>1, <1>3
  <2>2. Cardinality(1..k - 1) = k - 1
    BY FS_Interval
  <2> QED
    BY <1>3, <2>1, <2>2 DEF CountBefore
<1> QED
  BY <1>2, <1>3

(* Lines with a mark are a script of their own.                             *)
LEMMA MarkedIsScript ==
  ASSUME NEW kind \in {"+", "-", "="}, NEW lines \in Seq(Lines)
  PROVE  /\ Marked(kind, lines) \in Seq(ScriptLine) /\ Len(Marked(kind, lines)) = Len(lines)
         /\ \A k \in 1..Len(lines) : Marked(kind, lines)[k] = [op |-> kind, line |-> lines[k]]
<1>1. DOMAIN lines = 1..Len(lines) /\ Len(lines) \in Nat
  OBVIOUS
<1>2. Marked(kind, lines) \in [1..Len(lines) -> ScriptLine]
  BY <1>1 DEF Marked, ScriptLine
<1> QED
  BY <1>1, <1>2 DEF Marked

(* A script that tells the first n lines of a content.                      *)
TellsUpto(script, mark, content, n) ==
  /\ CountWithout(script, mark) = n
  /\ \A k \in DOMAIN script :
       script[k].op # mark => script[k].line = content[CountBefore(script, k + 1, mark)]

Continues(lines, content, n) == \A k \in 1..Len(lines) : lines[k] = content[n + k]

(* Going on with lines of the other content it tells as much, with lines of *)
(* this one as much more.                                                   *)
LEMMA TellsMore ==
  ASSUME NEW s \in Seq(ScriptLine), NEW lines \in Seq(Lines), NEW kind \in {"+", "-", "="}, NEW mark, NEW content, NEW n \in Nat,
         TellsUpto(s, mark, content, n),
         kind # mark => Continues(lines, content, n)
  PROVE  /\ s \o Marked(kind, lines) \in Seq(ScriptLine)
         /\ TellsUpto(s \o Marked(kind, lines), mark, content, IF kind = mark THEN n ELSE n + Len(lines))
<1> DEFINE t == Marked(kind, lines)
           all == s \o t
<1> HIDE DEF all
<1>1. /\ t \in Seq(ScriptLine) /\ Len(t) = Len(lines) /\ Len(lines) \in Nat /\ Len(s) \in Nat
      /\ \A k \in 1..Len(lines) : t[k].op = kind /\ t[k].line = lines[k]
  <2>1. /\ t \in Seq(ScriptLine) /\ Len(t) = Len(lines)
        /\ \A k \in 1..Len(lines) : t[k] = [op |-> kind, line |-> lines[k]]
    BY MarkedIsScript
  <2>2. Len(lines) \in Nat /\ Len(s) \in Nat
    OBVIOUS
  <2> HIDE DEF t
  <2>3. ASSUME NEW k \in 1..Len(lines) PROVE t[k].op = kind /\ t[k].line = lines[k]
    <3>1. t[k] = [op |-> kind, line |-> lines[k]]
      BY <2>1
    <3> QED
      BY <3>1
  <2> QED
    BY <2>1, <2>2, <2>3
<1>2. \A k \in 1..Len(lines) + 1 : CountBefore(t, k, mark) = IF kind = mark THEN 0 ELSE k - 1
  BY CountMarked
<1> HIDE DEF t
<1>3. /\ all \in Seq(ScriptLine) /\ Len(all) = Len(s) + Len(lines) /\ DOMAIN all = 1..Len(all)
      /\ \A k \in 1..Len(s) : all[k] = s[k]
      /\ \A k \in 1..Len(lines) : all[Len(s) + k] = t[k]
  <2>1. all \in Seq(ScriptLine) /\ Len(all) = Len(s) + Len(t)
    <3>1. t \in Seq(ScriptLine)
      BY <1>1
    <3> QED
      BY <3>1 DEF all
  <2>2. DOMAIN all = 1..Len(all)
    BY <2>1
  <2>3. (\A k \in 1..Len(s) : all[k] = s[k]) /\ \A k \in 1..Len(t) : all[Len(s) + k] = t[k]
    BY <1>1 DEF all
  <2> QED
    BY <1>1, <2>1, <2>2, <2>3
<1>4. /\ \A k \in 1..Len(s) + 1 : CountBefore(all, k, mark) = CountBefore(s, k, mark)
      /\ \A k \in 1..Len(t) + 1 : CountBefore(all, Len(s) + k, mark) = CountWithout(s, mark) + CountBefore(t, k, mark)
  BY <1>1, CountShift DEF all
<1>5. CountWithout(s, mark) = n /\ DOMAIN s = 1..Len(s)
  BY DEF TellsUpto
<1>6. CountWithout(all, mark) = IF kind = mark THEN n ELSE n + Len(lines)
  <2>1. Len(lines) + 1 \in 1..Len(t) + 1 /\ Len(all) + 1 = Len(s) + (Len(lines) + 1)
    BY <1>1, <1>3
  <2>2. CountBefore(all, Len(all) + 1, mark) = n + CountBefore(t, Len(lines) + 1, mark)
    BY <1>4, <1>5, <2>1
  <2>3. CountBefore(t, Len(lines) + 1, mark) = IF kind = mark THEN 0 ELSE Len(lines)
    BY <1>1, <1>2, <2>1
  <2>4. CountWithout(all, mark) = CountBefore(all, Len(all) + 1, mark)
    BY DEF CountWithout
  <2>5. CASE kind = mark
    BY <1>1, <2>2, <2>3, <2>4, <2>5
  <2>6. CASE kind # mark
    BY <1>1, <2>2, <2>3, <2>4, <2>6
  <2> QED
    BY <2>5, <2>6
<1>7. ASSUME NEW k \in DOMAIN all, all[k].op # mark
      PROVE  all[k].line = content[CountBefore(all, k + 1, mark)]
  <2>1. CASE k \in 1..Len(s)
    <3>1. all[k] = s[k] /\ k + 1 \in 1..Len(s) + 1 /\ k \in DOMAIN s
      BY <1>1, <1>3, <1>5, <2>1
    <3>2. CountBefore(all, k + 1, mark) = CountBefore(s, k + 1, mark)
      BY <1>4, <3>1
    <3> QED
      BY <1>7, <3>1, <3>2 DEF TellsUpto
  <2>2. CASE k \notin 1..Len(s)
    <3>1. PICK m \in 1..Len(lines) : k = Len(s) + m
      <4>1. k - Len(s) \in 1..Len(lines) /\ k = Len(s) + (k - Len(s))
        BY <1>1, <1>3, <2>2
      <4> QED
        BY <4>1
    <3>2. all[k].op = kind /\ all[k].line = lines[m] /\ kind # mark
      BY <1>1, <1>3, <1>7, <3>1
    <3>3. m + 1 \in 1..Len(t) + 1 /\ m + 1 \in 1..Len(lines) + 1 /\ k + 1 = Len(s) + (m + 1)
      BY <1>1, <3>1
    <3>4. CountBefore(all, k + 1, mark) = n + CountBefore(t, m + 1, mark)
      BY <1>4, <1>5, <3>3
    <3>5. CountBefore(t, m + 1, mark) = m
      BY <1>2, <3>1, <3>2, <3>3
    <3>6. lines[m] = content[n + m]
      BY <3>1, <3>2 DEF Continues
    <3> QED
      BY <3>1, <3>2, <3>4, <3>5, <3>6
  <2> QED
    BY <2>1, <2>2
<1> QED
  BY <1>3, <1>6, <1>7 DEF TellsUpto, t, all

(* Where a walk may be, and what its script tells.                          *)
Walks(old, new) == [i : 1..Len(old) + 1, j : 1..Len(new) + 1, edits : Seq(ScriptLine)]

Faithfully(old, new, walk) ==
  /\ walk \in Walks(old, new)
  /\ TellsUpto(walk.edits, "+", old, walk.i - 1) /\ TellsUpto(walk.edits, "-", new, walk.j - 1)

(* Lines of the old content that are deleted are told on its side only.     *)
LEMMA DeletedTells ==
  ASSUME NEW old \in Seq(Lines), NEW new \in Seq(Lines), NEW walk, Faithfully(old, new, walk),
         NEW to \in walk.i + 1..Len(old) + 1
  PROVE  /\ Faithfully(old, new, Deleted(old, walk, to))
         /\ Deleted(old, walk, to).i = to /\ Deleted(old, walk, to).j = walk.j
<1>1. /\ walk \in Walks(old, new) /\ walk.i \in 1..Len(old) + 1 /\ walk.j \in 1..Len(new) + 1
      /\ walk.edits \in Seq(ScriptLine) /\ Len(old) \in Nat /\ Len(new) \in Nat
  BY DEF Faithfully, Walks
<1> DEFINE lines == SubSeq(old, walk.i, to - 1)
           result == Deleted(old, walk, to)
<1>2. /\ lines \in Seq(Lines) /\ Len(lines) = to - walk.i
      /\ \A k \in 1..Len(lines) : lines[k] = old[walk.i - 1 + k]
  <2>1. to - 1 \in Nat /\ walk.i <= to - 1 /\ to - 1 <= Len(old)
    BY <1>1
  <2>2. \A k \in walk.i..to - 1 : old[k] \in Lines
    BY <1>1, <2>1
  <2>3. Len(lines) = to - 1 - walk.i + 1
    BY <1>1, <2>1
  <2>4. \A k \in 1..Len(lines) : lines[k] = old[walk.i + k - 1]
    BY <1>1, <2>1, SMTT(30)
  <2>5. lines \in Seq(Lines)
    BY <1>1, <2>1, <2>2
  <2> HIDE DEF lines
  <2>6. ASSUME NEW k \in 1..Len(lines) PROVE lines[k] = old[walk.i - 1 + k]
    <3>1. k \in Int /\ walk.i + k - 1 = walk.i - 1 + k
      BY <1>1, <2>1, <2>3
    <3> QED
      BY <2>4, <3>1
  <2> QED
    BY <1>1, <2>1, <2>3, <2>5, <2>6
<1>3. result = [i |-> to, j |-> walk.j, edits |-> walk.edits \o Marked("-", lines)]
  BY DEF Deleted
<1> HIDE DEF lines, result
<1>4. TellsUpto(walk.edits, "+", old, walk.i - 1) /\ TellsUpto(walk.edits, "-", new, walk.j - 1)
  BY DEF Faithfully
<1>5. walk.i - 1 \in Nat /\ walk.j - 1 \in Nat /\ walk.i - 1 + Len(lines) = to - 1
  <2>1. to \in Nat
    BY <1>1
  <2>2. Len(lines) = to - walk.i
    BY <1>2
  <2>3. walk.i \in Nat \ {0} /\ walk.j \in Nat \ {0}
    BY <1>1
  <2>4. walk.i - 1 + Len(lines) = walk.i - 1 + (to - walk.i)
    BY <2>2
  <2>5. walk.i - 1 + (to - walk.i) = to - 1 /\ walk.i - 1 \in Nat /\ walk.j - 1 \in Nat
    BY <2>1, <2>3, SMTT(30)
  <2> QED
    BY <2>4, <2>5
<1>6. Continues(lines, old, walk.i - 1)
  BY <1>2 DEF Continues
<1>7. /\ walk.edits \o Marked("-", lines) \in Seq(ScriptLine)
      /\ TellsUpto(walk.edits \o Marked("-", lines), "+", old, to - 1)
  <2>1. TellsUpto(walk.edits \o Marked("-", lines), "+", old,
                  IF "-" = "+" THEN walk.i - 1 ELSE walk.i - 1 + Len(lines))
        /\ walk.edits \o Marked("-", lines) \in Seq(ScriptLine)
    BY <1>1, <1>2, <1>4, <1>5, <1>6, TellsMore
  <2> QED
    BY <1>5, <2>1
<1>8. TellsUpto(walk.edits \o Marked("-", lines), "-", new, walk.j - 1)
  <2>1. TellsUpto(walk.edits \o Marked("-", lines), "-", new,
                  IF "-" = "-" THEN walk.j - 1 ELSE walk.j - 1 + Len(lines))
    BY <1>1, <1>2, <1>4, <1>5, TellsMore
  <2> QED
    BY <2>1
<1>9. result.i = to /\ result.j = walk.j /\ result.edits = walk.edits \o Marked("-", lines)
  BY <1>3
<1>10. result \in Walks(old, new)
  BY <1>1, <1>3, <1>7 DEF Walks
<1> QED
  BY <1>7, <1>8, <1>9, <1>10 DEF Faithfully, result

(* And lines of the new one that are inserted on the other.                 *)
LEMMA InsertedTells ==
  ASSUME NEW old \in Seq(Lines), NEW new \in Seq(Lines), NEW walk, Faithfully(old, new, walk),
         NEW to \in walk.j + 1..Len(new) + 1
  PROVE  /\ Faithfully(old, new, Inserted(new, walk, to))
         /\ Inserted(new, walk, to).i = walk.i /\ Inserted(new, walk, to).j = to
<1>1. /\ walk \in Walks(old, new) /\ walk.i \in 1..Len(old) + 1 /\ walk.j \in 1..Len(new) + 1
      /\ walk.edits \in Seq(ScriptLine) /\ Len(old) \in Nat /\ Len(new) \in Nat
  BY DEF Faithfully, Walks
<1> DEFINE lines == SubSeq(new, walk.j, to - 1)
           result == Inserted(new, walk, to)
<1>2. /\ lines \in Seq(Lines) /\ Len(lines) = to - walk.j
      /\ \A k \in 1..Len(lines) : lines[k] = new[walk.j - 1 + k]
  <2>1. to - 1 \in Nat /\ walk.j <= to - 1 /\ to - 1 <= Len(new)
    BY <1>1
  <2>2. \A k \in walk.j..to - 1 : new[k] \in Lines
    BY <1>1, <2>1
  <2>3. Len(lines) = to - 1 - walk.j + 1
    BY <1>1, <2>1
  <2>4. \A k \in 1..Len(lines) : lines[k] = new[walk.j + k - 1]
    BY <1>1, <2>1, SMTT(30)
  <2>5. lines \in Seq(Lines)
    BY <1>1, <2>1, <2>2
  <2> HIDE DEF lines
  <2>6. ASSUME NEW k \in 1..Len(lines) PROVE lines[k] = new[walk.j - 1 + k]
    <3>1. k \in Int /\ walk.j + k - 1 = walk.j - 1 + k
      BY <1>1, <2>1, <2>3
    <3> QED
      BY <2>4, <3>1
  <2> QED
    BY <1>1, <2>1, <2>3, <2>5, <2>6
<1>3. result = [i |-> walk.i, j |-> to, edits |-> walk.edits \o Marked("+", lines)]
  BY DEF Inserted
<1> HIDE DEF lines, result
<1>4. TellsUpto(walk.edits, "+", old, walk.i - 1) /\ TellsUpto(walk.edits, "-", new, walk.j - 1)
  BY DEF Faithfully
<1>5. walk.i - 1 \in Nat /\ walk.j - 1 \in Nat /\ walk.j - 1 + Len(lines) = to - 1
  <2>1. to \in Nat
    BY <1>1
  <2>2. Len(lines) = to - walk.j
    BY <1>2
  <2> QED
    BY <1>1, <2>1, <2>2, SMTT(30)
<1>6. Continues(lines, new, walk.j - 1)
  BY <1>2 DEF Continues
<1>7. /\ walk.edits \o Marked("+", lines) \in Seq(ScriptLine)
      /\ TellsUpto(walk.edits \o Marked("+", lines), "-", new, to - 1)
  <2>1. TellsUpto(walk.edits \o Marked("+", lines), "-", new,
                  IF "+" = "-" THEN walk.j - 1 ELSE walk.j - 1 + Len(lines))
        /\ walk.edits \o Marked("+", lines) \in Seq(ScriptLine)
    BY <1>1, <1>2, <1>4, <1>5, <1>6, TellsMore
  <2> QED
    BY <1>5, <2>1
<1>8. TellsUpto(walk.edits \o Marked("+", lines), "+", old, walk.i - 1)
  <2>1. TellsUpto(walk.edits \o Marked("+", lines), "+", old,
                  IF "+" = "+" THEN walk.i - 1 ELSE walk.i - 1 + Len(lines))
    BY <1>1, <1>2, <1>4, <1>5, TellsMore
  <2> QED
    BY <2>1
<1>9. result.i = walk.i /\ result.j = to /\ result.edits = walk.edits \o Marked("+", lines)
  BY <1>3
<1>10. result \in Walks(old, new)
  BY <1>1, <1>3, <1>7 DEF Walks
<1> QED
  BY <1>7, <1>8, <1>9, <1>10 DEF Faithfully, result

(* A line that both have is told on both sides.                             *)
LEMMA UnchangingTells ==
  ASSUME NEW old \in Seq(Lines), NEW new \in Seq(Lines), NEW walk, Faithfully(old, new, walk),
         walk.i <= Len(old), walk.j <= Len(new), old[walk.i] = new[walk.j]
  PROVE  /\ Faithfully(old, new, Unchanging(old, walk))
         /\ Unchanging(old, walk).i = walk.i + 1 /\ Unchanging(old, walk).j = walk.j + 1
<1>1. /\ walk \in Walks(old, new) /\ walk.i \in 1..Len(old) /\ walk.j \in 1..Len(new)
      /\ walk.edits \in Seq(ScriptLine) /\ Len(old) \in Nat /\ Len(new) \in Nat
  BY DEF Faithfully, Walks
<1> DEFINE lines == <<old[walk.i]>>
           result == Unchanging(old, walk)
<1>2. lines \in Seq(Lines) /\ Len(lines) = 1 /\ lines[1] = old[walk.i] /\ lines[1] = new[walk.j]
  BY <1>1
<1>3. result = [i |-> walk.i + 1, j |-> walk.j + 1, edits |-> walk.edits \o Marked("=", lines)]
  BY DEF Unchanging
<1> HIDE DEF lines, result
<1>4. TellsUpto(walk.edits, "+", old, walk.i - 1) /\ TellsUpto(walk.edits, "-", new, walk.j - 1)
  BY DEF Faithfully
<1>5. walk.i - 1 \in Nat /\ walk.j - 1 \in Nat /\ walk.i - 1 + Len(lines) = walk.i /\ walk.j - 1 + Len(lines) = walk.j
  BY <1>1, <1>2
<1>6. Continues(lines, old, walk.i - 1) /\ Continues(lines, new, walk.j - 1)
  <2>1. \A k \in 1..Len(lines) : k = 1
    BY <1>2
  <2>2. walk.i - 1 + 1 = walk.i /\ walk.j - 1 + 1 = walk.j
    BY <1>1
  <2> QED
    BY <1>2, <2>1, <2>2 DEF Continues
<1>7. /\ walk.edits \o Marked("=", lines) \in Seq(ScriptLine)
      /\ TellsUpto(walk.edits \o Marked("=", lines), "+", old, walk.i)
  <2>1. TellsUpto(walk.edits \o Marked("=", lines), "+", old,
                  IF "=" = "+" THEN walk.i - 1 ELSE walk.i - 1 + Len(lines))
        /\ walk.edits \o Marked("=", lines) \in Seq(ScriptLine)
    BY <1>1, <1>2, <1>4, <1>5, <1>6, TellsMore
  <2> QED
    BY <1>5, <2>1
<1>8. TellsUpto(walk.edits \o Marked("=", lines), "-", new, walk.j)
  <2>1. TellsUpto(walk.edits \o Marked("=", lines), "-", new,
                  IF "=" = "-" THEN walk.j - 1 ELSE walk.j - 1 + Len(lines))
    BY <1>1, <1>2, <1>4, <1>5, <1>6, TellsMore
  <2> QED
    BY <1>5, <2>1
<1>9. result.i = walk.i + 1 /\ result.j = walk.j + 1 /\ result.edits = walk.edits \o Marked("=", lines)
  BY <1>3
<1>10. result \in Walks(old, new) /\ walk.i + 1 - 1 = walk.i /\ walk.j + 1 - 1 = walk.j
  BY <1>1, <1>3, <1>7, SMTT(30) DEF Walks
<1>11. TellsUpto(result.edits, "+", old, result.i - 1) /\ TellsUpto(result.edits, "-", new, result.j - 1)
  <2>1. result.i - 1 = walk.i /\ result.j - 1 = walk.j
    BY <1>1, <1>9
  <2> QED
    BY <1>7, <1>8, <1>9, <2>1
<1>12. Faithfully(old, new, result)
  BY <1>10, <1>11 DEF Faithfully
<1> QED
  BY <1>9, <1>12 DEF result

(* A line is found after the place, or not at all.                          *)
LEMMA AheadIsAhead ==
  ASSUME NEW lines \in Seq(Lines), NEW line, NEW from \in 1..Len(lines)
  PROVE  Ahead(lines, line, from) \in {0} \cup (from + 1..Len(lines))
<1> DEFINE places == {k \in from + 1..Lesser(from + LookAhead - 1, Len(lines)) : lines[k] = line}
<1>1. Len(lines) \in Nat /\ LookAhead \in Nat
  BY LookAheadAssumption
<1>2. places \subseteq from + 1..Len(lines)
  BY <1>1 DEF Lesser
<1>3. places \in SUBSET Nat
  BY <1>1, <1>2
<1>4. Ahead(lines, line, from) = IF places = {} THEN 0 ELSE Min(places)
  BY DEF Ahead
<1> HIDE DEF places
<1>5. CASE places = {}
  BY <1>4, <1>5
<1>6. CASE places # {}
  <2>1. \E x \in places : \A y \in places : x <= y
    BY <1>3, <1>6, LeastNat
  <2>2. Min(places) \in places
    BY <2>1 DEF Min
  <2> QED
    BY <1>2, <1>4, <1>6, <2>2
<1> QED
  BY <1>5, <1>6

(* A round tells what it takes, and takes a line, until none is left.       *)
Complete(old, new, walk) == walk.i = Len(old) + 1 /\ walk.j = Len(new) + 1

LEMMA RoundTells ==
  ASSUME NEW old \in Seq(Lines), NEW new \in Seq(Lines), NEW walk, Faithfully(old, new, walk)
  PROVE  /\ Faithfully(old, new, Round(old, new, walk))
         /\ \/ Complete(old, new, Round(old, new, walk))
            \/ Round(old, new, walk).i + Round(old, new, walk).j > walk.i + walk.j
<1>1. /\ walk.i \in 1..Len(old) + 1 /\ walk.j \in 1..Len(new) + 1
      /\ Len(old) \in Nat /\ Len(new) \in Nat
  BY DEF Faithfully, Walks
<1>2. CASE walk.i > Len(old) /\ walk.j > Len(new)
  BY <1>1, <1>2 DEF Round, Complete
<1>3. CASE walk.i > Len(old) /\ walk.j <= Len(new)
  <2>1. Round(old, new, walk) = Inserted(new, walk, walk.j + 1)
    BY <1>1, <1>3 DEF Round
  <2>2. walk.j + 1 \in walk.j + 1..Len(new) + 1
    BY <1>1, <1>3
  <2> QED
    BY <1>1, <2>1, <2>2, InsertedTells
<1>4. CASE walk.i <= Len(old) /\ walk.j > Len(new)
  <2>1. Round(old, new, walk) = Deleted(old, walk, walk.i + 1)
    BY <1>1, <1>4 DEF Round
  <2>2. walk.i + 1 \in walk.i + 1..Len(old) + 1
    BY <1>1, <1>4
  <2> QED
    BY <1>1, <2>1, <2>2, DeletedTells
<1>5. CASE walk.i <= Len(old) /\ walk.j <= Len(new) /\ old[walk.i] = new[walk.j]
  <2>1. Round(old, new, walk) = Unchanging(old, walk)
    BY <1>1, <1>5 DEF Round
  <2> QED
    BY <1>1, <1>5, <2>1, UnchangingTells, SMTT(30)
<1>6. CASE walk.i <= Len(old) /\ walk.j <= Len(new) /\ old[walk.i] # new[walk.j]
  <2> DEFINE inNew == Ahead(new, old[walk.i], walk.j)
             inOld == Ahead(old, new[walk.j], walk.i)
  <2>1. Round(old, new, walk) = Differ(old, new, walk)
    BY <1>1, <1>6 DEF Round
  <2>2. inNew \in {0} \cup (walk.j + 1..Len(new)) /\ inOld \in {0} \cup (walk.i + 1..Len(old))
    <3>1. walk.i \in 1..Len(old) /\ walk.j \in 1..Len(new)
      BY <1>1, <1>6
    <3> QED
      BY <3>1, AheadIsAhead
  <2>3. Differ(old, new, walk) =
          IF inNew # 0 /\ (inOld = 0 \/ inNew - walk.j <= inOld - walk.i) THEN Inserted(new, walk, inNew)
          ELSE IF inOld # 0 THEN Deleted(old, walk, inOld)
          ELSE Inserted(new, Deleted(old, walk, walk.i + 1), walk.j + 1)
    BY DEF Differ
  <2> HIDE DEF inNew, inOld
  <2>4. CASE inNew # 0 /\ (inOld = 0 \/ inNew - walk.j <= inOld - walk.i)
    <3>1. Differ(old, new, walk) = Inserted(new, walk, inNew)
      BY <2>3, <2>4
    <3>2. inNew \in walk.j + 1..Len(new) + 1
      BY <1>1, <2>2, <2>4
    <3> QED
      BY <1>1, <2>1, <3>1, <3>2, InsertedTells
  <2>5. CASE ~(inNew # 0 /\ (inOld = 0 \/ inNew - walk.j <= inOld - walk.i)) /\ inOld # 0
    <3>1. Differ(old, new, walk) = Deleted(old, walk, inOld)
      BY <2>3, <2>5
    <3>2. inOld \in walk.i + 1..Len(old) + 1
      BY <1>1, <2>2, <2>5
    <3> QED
      BY <1>1, <2>1, <3>1, <3>2, DeletedTells
  <2>6. CASE ~(inNew # 0 /\ (inOld = 0 \/ inNew - walk.j <= inOld - walk.i)) /\ inOld = 0
    <3> DEFINE mid == Deleted(old, walk, walk.i + 1)
    <3>1. Differ(old, new, walk) = Inserted(new, mid, walk.j + 1)
      BY <2>3, <2>6
    <3>2. walk.i + 1 \in walk.i + 1..Len(old) + 1
      BY <1>1, <1>6
    <3>3. Faithfully(old, new, mid) /\ mid.i = walk.i + 1 /\ mid.j = walk.j
      BY <3>2, DeletedTells
    <3> HIDE DEF mid
    <3>4. walk.j + 1 \in mid.j + 1..Len(new) + 1
      BY <1>1, <1>6, <3>3
    <3>5. Faithfully(old, new, Inserted(new, mid, walk.j + 1)) /\ Inserted(new, mid, walk.j + 1).i = mid.i
          /\ Inserted(new, mid, walk.j + 1).j = walk.j + 1
      BY <3>3, <3>4, InsertedTells
    <3> QED
      BY <1>1, <2>1, <3>1, <3>3, <3>5
  <2> QED
    BY <2>4, <2>5, <2>6
<1> QED
  BY <1>1, <1>2, <1>3, <1>4, <1>5, <1>6

(* A walk is a row of rounds, whose last one has the script.                *)
NoWalk == [i |-> 1, j |-> 1, edits |-> <<>>]

(* A walk that has not begun tells nothing.                                 *)
LEMMA NoWalkTells ==
  ASSUME NEW old \in Seq(Lines), NEW new \in Seq(Lines)
  PROVE  Faithfully(old, new, NoWalk)
<1>1. NoWalk \in Walks(old, new)
  <2>1. 1 \in 1..Len(old) + 1 /\ 1 \in 1..Len(new) + 1 /\ <<>> \in Seq(ScriptLine)
    OBVIOUS
  <2> QED
    BY <2>1 DEF NoWalk, Walks
<1>2. CountBefore(<<>>, 1, "+") = 0 /\ CountBefore(<<>>, 1, "-") = 0
  BY CountStep
<1>3. \A mark, content : CountBefore(<<>>, 1, mark) = 0 => TellsUpto(<<>>, mark, content, 0)
  <2>1. Len(<<>>) = 0 /\ DOMAIN <<>> = {}
    OBVIOUS
  <2> QED
    BY <2>1 DEF TellsUpto, CountWithout
<1>4. NoWalk.i - 1 = 0 /\ NoWalk.j - 1 = 0 /\ NoWalk.edits = <<>>
  BY DEF NoWalk
<1> QED
  BY <1>1, <1>2, <1>3, <1>4 DEF Faithfully

LEMMA ScriptIsWalk ==
  ASSUME NEW old \in Seq(Lines), NEW new \in Seq(Lines)
  PROVE  \E walk \in [0..Len(old) + Len(new) -> Walks(old, new)] :
           /\ walk[0] = NoWalk /\ \A n \in 1..Len(old) + Len(new) : walk[n] = Round(old, new, walk[n - 1])
           /\ Script(old, new) = walk[Len(old) + Len(new)].edits
<1> DEFINE l == Len(old) + Len(new)
           S == {w \in Walks(old, new) : Faithfully(old, new, w)}
           step == [p \in Nat \X S |-> Round(old, new, p[2])]
           Shape(f) == [n \in 0..l |-> IF n = 0 THEN NoWalk ELSE Round(old, new, f[n - 1])]
<1>1. l \in Nat
  OBVIOUS
<1>2. NoWalk \in S
  BY NoWalkTells DEF Faithfully
<1>3. \A w \in S : Round(old, new, w) \in S
  BY RoundTells DEF Faithfully
<1>4. step \in StepsOn(S)
  BY <1>3 DEF StepsOn
<1> HIDE DEF l
<1>5. \E f : Made(f, S, l, NoWalk, step)
  <2> HIDE DEF step, S
  <2> QED
    BY <1>1, <1>2, <1>4, StepsMakeRow
<1>6. PICK f : Made(f, S, l, NoWalk, step)
  BY <1>5
<1>7. f \in [0..l -> S] /\ f[0] = NoWalk /\ \A n \in 1..l : f[n] = step[<<n, f[n - 1]>>]
  BY <1>6 DEF Made
<1>8. \A n \in 1..l : n - 1 \in 0..l /\ f[n] = Round(old, new, f[n - 1])
  <2> SUFFICES ASSUME NEW n \in 1..l PROVE n - 1 \in 0..l /\ f[n] = Round(old, new, f[n - 1])
    OBVIOUS
  <2>1. n \in Nat /\ n - 1 \in 0..l
    BY <1>1
  <2>2. f[n - 1] \in S
    <3> HIDE DEF S
    <3> QED
      BY <1>7, <2>1
  <2>3. step[<<n, f[n - 1]>>] = Round(old, new, f[n - 1])
    <3> HIDE DEF S
    <3> QED
      BY <2>1, <2>2
  <2> QED
    BY <1>7, <2>1, <2>3
<1> HIDE DEF step
<1>9. f = Shape(f)
  <2> HIDE DEF S
  <2> QED
    BY <1>1, <1>7, <1>8
<1> DEFINE walk == CHOOSE w : w = Shape(w)
<1>10. Script(old, new) = walk[l].edits
  BY DEF Script, NoWalk, l
<1>11. walk = Shape(walk)
  BY <1>9
<1> HIDE DEF walk
<1>12. DOMAIN walk = 0..l /\ walk[0] = NoWalk /\ \A n \in 1..l : walk[n] = Round(old, new, walk[n - 1])
  <2>1. DOMAIN walk = 0..l
    BY <1>11
  <2>2. \A n \in 0..l : Shape(walk)[n] = IF n = 0 THEN NoWalk ELSE Round(old, new, walk[n - 1])
    OBVIOUS
  <2> HIDE DEF Shape
  <2> QED
    BY <1>1, <1>11, <2>1, <2>2
<1>13. \A n \in 0..l : walk[n] = f[n]
  <2> DEFINE same == {n \in 0..l : walk[n] = f[n]}
  <2>1. same \in SUBSET (0..l) /\ 0 \in same
    BY <1>1, <1>7, <1>12
  <2>2. \A n \in 1..l : n - 1 \in same => n \in same
    BY <1>1, <1>8, <1>12
  <2>3. same = 0..l
    <3> HIDE DEF same
    <3> QED
      BY <1>1, <2>1, <2>2, AllNumbers
  <2> QED
    BY <2>3
<1>14. f \in [0..l -> Walks(old, new)]
  <2>1. \A n \in 0..l : f[n] \in Walks(old, new)
    BY <1>7
  <2> HIDE DEF S
  <2> QED
    BY <1>7, <2>1
<1>15. l \in 0..l /\ Script(old, new) = f[l].edits
  BY <1>1, <1>10, <1>13
<1> QED
  BY <1>7, <1>8, <1>14, <1>15 DEF l

(* So the script tells both contents.                                       *)
LEMMA ScriptTells ==
  ASSUME NEW old \in Seq(Lines), NEW new \in Seq(Lines)
  PROVE  /\ Script(old, new) \in Seq(ScriptLine)
         /\ Tells(Script(old, new), "+", old) /\ Tells(Script(old, new), "-", new)
<1> DEFINE l == Len(old) + Len(new)
<1>1. l \in Nat /\ Len(old) \in Nat /\ Len(new) \in Nat
  OBVIOUS
<1>2. PICK walk \in [0..l -> Walks(old, new)] :
        /\ walk[0] = NoWalk /\ \A n \in 1..l : walk[n] = Round(old, new, walk[n - 1])
        /\ Script(old, new) = walk[l].edits
  BY ScriptIsWalk
<1> DEFINE Far(n) == Complete(old, new, walk[n]) \/ walk[n].i + walk[n].j >= n + 2
           good == {n \in 0..l : Faithfully(old, new, walk[n]) /\ Far(n)}
<1>3. 0 \in good
  <2>1. walk[0].i = 1 /\ walk[0].j = 1
    BY <1>2 DEF NoWalk
  <2> QED
    BY <1>1, <1>2, <2>1, NoWalkTells
<1>4. ASSUME NEW n \in 1..l, n - 1 \in good PROVE n \in good
  <2>1. Faithfully(old, new, walk[n - 1]) /\ Far(n - 1)
    BY <1>4
  <2>2. walk[n] = Round(old, new, walk[n - 1])
    BY <1>2
  <2>3. /\ Faithfully(old, new, walk[n])
        /\ Complete(old, new, walk[n]) \/ walk[n].i + walk[n].j > walk[n - 1].i + walk[n - 1].j
    BY <2>1, <2>2, RoundTells
  <2>4. /\ walk[n].i \in 1..Len(old) + 1 /\ walk[n].j \in 1..Len(new) + 1
        /\ walk[n - 1].i \in 1..Len(old) + 1 /\ walk[n - 1].j \in 1..Len(new) + 1
    BY <2>1, <2>3 DEF Faithfully, Walks
  <2>5. Complete(old, new, walk[n - 1]) => Complete(old, new, walk[n])
    <3>1. Complete(old, new, walk[n - 1]) => Round(old, new, walk[n - 1]) = walk[n - 1]
      BY <1>1 DEF Complete, Round
    <3> QED
      BY <2>2, <3>1
  <2>6. Far(n)
    <3>1. CASE Complete(old, new, walk[n])
      BY <3>1
    <3>2. CASE ~Complete(old, new, walk[n])
      <4>1. walk[n - 1].i + walk[n - 1].j >= n - 1 + 2 /\ walk[n].i + walk[n].j > walk[n - 1].i + walk[n - 1].j
        BY <2>1, <2>3, <2>5, <3>2
      <4>2. n \in Nat /\ walk[n - 1].i + walk[n - 1].j \in Int /\ walk[n].i + walk[n].j \in Int
        BY <1>1, <2>4, SMTT(30)
      <4>3. \A a, b \in Int : a >= n - 1 + 2 /\ b > a => b >= n + 2
        BY <4>2
      <4>4. walk[n].i + walk[n].j >= n + 2
        BY <4>1, <4>2, <4>3
      <4> QED
        BY <4>4
    <3> QED
      BY <3>1, <3>2
  <2> QED
    BY <2>3, <2>6
<1>5. good = 0..l
  <2>1. good \in SUBSET (0..l)
    OBVIOUS
  <2> HIDE DEF good, l
  <2> QED
    BY <1>1, <1>3, <1>4, <2>1, AllNumbers
<1>6. Faithfully(old, new, walk[l]) /\ Far(l)
  <2>1. l \in good
    <3> HIDE DEF good, l
    <3> QED
      BY <1>1, <1>5
  <2> QED
    BY <2>1
<1>7. walk[l].i = Len(old) + 1 /\ walk[l].j = Len(new) + 1
  <2>1. walk[l].i \in 1..Len(old) + 1 /\ walk[l].j \in 1..Len(new) + 1
    BY <1>6 DEF Faithfully, Walks
  <2> QED
    BY <1>1, <1>6, <2>1 DEF Complete
<1>8. walk[l].edits \in Seq(ScriptLine) /\ walk[l].i - 1 = Len(old) /\ walk[l].j - 1 = Len(new)
  BY <1>1, <1>6, <1>7 DEF Faithfully, Walks
<1> QED
  BY <1>2, <1>6, <1>8 DEF Faithfully, TellsUpto, Tells

(* The places up to one are counted by its rank.                            *)
Rank(places, k) == Cardinality({c \in places : c <= k})

LEMMA RanksAre ==
  ASSUME NEW l \in Nat, NEW places \in SUBSET (1..l)
  PROVE  /\ IsFiniteSet(places) /\ Cardinality(places) \in Nat
         /\ \A k \in Int : IsFiniteSet({c \in places : c <= k}) /\ Rank(places, k) \in Nat
<1>1. IsFiniteSet(1..l)
  BY FS_Interval
<1>2. \A S \in SUBSET (1..l) : IsFiniteSet(S) /\ Cardinality(S) \in Nat
  BY <1>1, FS_Subset, FS_CardinalityType
<1>3. ASSUME NEW k \in Int PROVE {c \in places : c <= k} \in SUBSET (1..l)
  OBVIOUS
<1> QED
  BY <1>2, <1>3 DEF Rank

(* Each rank up to their number is that of a place.                         *)
LEMMA NthHasRank ==
  ASSUME NEW l \in Nat, NEW places \in SUBSET (1..l), NEW n \in 1..Cardinality(places)
  PROVE  Nth(places, n) \in places /\ Rank(places, Nth(places, n)) = n
<1> DEFINE Below(k) == {c \in places : c <= k}
           enough == {k \in 0..l : Rank(places, k) >= n}
<1>0. \A c \in places : c \in Int /\ 1 <= c /\ c <= l
  OBVIOUS
<1>1. n \in Nat \ {0} /\ Cardinality(places) \in Nat /\ n <= Cardinality(places)
  <2>1. Cardinality(places) \in Nat
    BY RanksAre
  <2> QED
    BY <2>1
<1>2. \A k \in 0..l : IsFiniteSet(Below(k)) /\ Rank(places, k) \in Nat /\ Rank(places, k) = Cardinality(Below(k))
  BY RanksAre DEF Rank
<1>3. l \in enough
  <2>1. Below(l) = places
    BY <1>0
  <2> HIDE DEF Below
  <2>2. Rank(places, l) = Cardinality(places)
    BY <1>2, <2>1
  <2> QED
    BY <1>1, <2>2
<1>4. PICK k \in enough : \A m \in enough : k <= m
  <2>1. enough \in SUBSET Nat /\ enough # {}
    BY <1>3
  <2> HIDE DEF enough
  <2> QED
    BY <2>1, LeastNat
<1>5. k # 0
  <2>1. Below(0) = {}
    <3>1. \A c \in places : ~(c <= 0)
      BY <1>0
    <3> QED
      BY <3>1
  <2> HIDE DEF Below
  <2>2. Rank(places, 0) = 0
    BY <1>2, <2>1, FS_EmptySet
  <2> QED
    BY <1>1, <1>4, <2>2
<1>6. k \in 1..l /\ k - 1 \in 0..l /\ Rank(places, k) >= n
  BY <1>4, <1>5
<1>7. Rank(places, k - 1) < n
  <2>1. k - 1 \notin enough
    BY <1>4, <1>6
  <2>2. ~(Rank(places, k - 1) >= n)
    BY <1>6, <2>1
  <2>3. Rank(places, k - 1) \in Nat
    BY <1>2, <1>6
  <2> QED
    BY <1>1, <2>2, <2>3
<1>8. k \in places
  <2>1. ASSUME k \notin places PROVE FALSE
    <3>1. Below(k) = Below(k - 1)
      <4>1. \A c \in places : c <= k <=> c <= k - 1
        BY <1>0, <1>6, <2>1
      <4> QED
        BY <4>1
    <3> HIDE DEF Below
    <3>2. Rank(places, k) = Rank(places, k - 1)
      BY <1>2, <1>6, <3>1
    <3> QED
      BY <1>1, <1>2, <1>6, <1>7, <3>2
  <2> QED
    BY <2>1
<1>9. Rank(places, k) = Rank(places, k - 1) + 1
  <2>1. Below(k) = Below(k - 1) \cup {k} /\ k \notin Below(k - 1)
    <3>1. \A c \in places : c <= k <=> c <= k - 1 \/ c = k
      BY <1>0, <1>6
    <3>2. k \in Int /\ k <= k /\ ~(k <= k - 1)
      BY <1>6
    <3> QED
      BY <1>8, <3>1, <3>2
  <2> HIDE DEF Below
  <2>2. Cardinality(Below(k - 1) \cup {k}) = Cardinality(Below(k - 1)) + 1
    BY <1>2, <1>6, <2>1, FS_AddElement
  <2>3. Rank(places, k) = Cardinality(Below(k)) /\ Rank(places, k - 1) = Cardinality(Below(k - 1))
    BY <1>2, <1>6
  <2> QED
    BY <2>1, <2>2, <2>3
<1>10. Rank(places, k) = n
  <2>1. Rank(places, k - 1) \in Nat
    BY <1>2, <1>6
  <2> QED
    BY <1>1, <1>6, <1>7, <1>9, <2>1
<1>11. Nth(places, n) = CHOOSE c \in places : Rank(places, c) = n
  BY DEF Nth, Rank
<1> QED
  BY <1>8, <1>10, <1>11

(* Ranks run as the places do.                                              *)
LEMMA RanksGrow ==
  ASSUME NEW l \in Nat, NEW places \in SUBSET (1..l), NEW k \in places, NEW m \in places, k < m
  PROVE  Rank(places, k) < Rank(places, m)
<1> DEFINE Below(x) == {c \in places : c <= x}
<1>1. Below(k) \in SUBSET Below(m) /\ m \in Below(m) /\ m \notin Below(k)
  <2>1. \A c \in places : c \in Int
    OBVIOUS
  <2>2. m <= m /\ ~(m <= k) /\ \A c \in places : c <= k => c <= m
    BY <2>1
  <2> QED
    BY <2>2
<1>2. k \in Int /\ m \in Int
  OBVIOUS
<1>3. /\ IsFiniteSet(Below(m)) /\ Rank(places, m) = Cardinality(Below(m)) /\ Rank(places, k) = Cardinality(Below(k))
      /\ Rank(places, m) \in Nat /\ Rank(places, k) \in Nat
  BY <1>2, RanksAre DEF Rank
<1> HIDE DEF Below
<1>4. Cardinality(Below(k)) <= Cardinality(Below(m)) /\ Cardinality(Below(k)) # Cardinality(Below(m))
  BY <1>1, <1>3, FS_Subset
<1> QED
  BY <1>3, <1>4

(* The places of growing ranks grow.                                        *)
LEMMA NthGrows ==
  ASSUME NEW l \in Nat, NEW places \in SUBSET (1..l),
         NEW n \in 1..Cardinality(places), NEW m \in 1..Cardinality(places), n < m
  PROVE  Nth(places, n) < Nth(places, m)
<1> DEFINE a == Nth(places, n)
           b == Nth(places, m)
<1>1. a \in places /\ b \in places /\ Rank(places, a) = n /\ Rank(places, b) = m
  BY NthHasRank
<1>2. Cardinality(places) \in Nat /\ n \in Nat /\ m \in Nat
  <2>1. Cardinality(places) \in Nat
    BY RanksAre
  <2> QED
    BY <2>1
<1> HIDE DEF a, b
<1>3. a \in Int /\ b \in Int
  BY <1>1
<1>4. a # b
  BY <1>1, <1>2
<1>5. ~(b < a)
  <2>1. b < a => m < n
    BY <1>1, RanksGrow
  <2> QED
    BY <1>2, <2>1
<1> QED
  BY <1>3, <1>4, <1>5 DEF a, b

(* Each place is the one of its rank.                                       *)
LEMMA NthOfRank ==
  ASSUME NEW l \in Nat, NEW places \in SUBSET (1..l), NEW k \in places
  PROVE  Rank(places, k) \in 1..Cardinality(places) /\ Nth(places, Rank(places, k)) = k
<1> DEFINE below == {c \in places : c <= k}
           n == Rank(places, k)
<1>1. k \in Int /\ below \in SUBSET places /\ k \in below
  OBVIOUS
<1>2. /\ IsFiniteSet(places) /\ IsFiniteSet(below) /\ Cardinality(places) \in Nat /\ n \in Nat
      /\ n = Cardinality(below)
  BY <1>1, RanksAre DEF Rank
<1> HIDE DEF below, n
<1>3. n # 0 /\ n <= Cardinality(places)
  BY <1>1, <1>2, FS_EmptySet, FS_Subset
<1>4. n \in 1..Cardinality(places)
  BY <1>2, <1>3
<1>5. Nth(places, n) \in places /\ Rank(places, Nth(places, n)) = n
  BY <1>4, NthHasRank
<1>6. ~(Nth(places, n) < k) /\ ~(k < Nth(places, n))
  <2>1. Rank(places, k) = n /\ n \in Nat
    BY <1>2 DEF n
  <2>2. Nth(places, n) < k => n < n
    BY <1>5, <2>1, RanksGrow
  <2>3. k < Nth(places, n) => n < n
    BY <1>5, <2>1, RanksGrow
  <2> QED
    BY <2>1, <2>2, <2>3
<1>7. Nth(places, n) \in Int
  <2>1. \A c \in places : c \in Int
    OBVIOUS
  <2> QED
    BY <1>5, <2>1
<1> QED
  BY <1>1, <1>4, <1>6, <1>7 DEF n

(* Hunks are apart and leave no change out.                                 *)
LEMMA HunksCover ==
  ASSUME NEW script \in Seq(ScriptLine), NEW context \in Nat \ {0}
  PROVE  Covers(Hunks(script, context), script)
<1> DEFINE l == Len(script)
           changes == {k \in DOMAIN script : script[k].op # "="}
           ends == {k \in changes : \A c \in changes : c > k => c - k > 2 * context}
           count == Cardinality(ends)
           End(n) == Nth(ends, n)
           rest(n) == {c \in changes : n > 1 => c > End(n - 1)}
           From(n) == Greater(1, Min(rest(n)) - context)
           To(n) == Lesser(LastLine(End(n), context, n = count), l)
           hunks == Hunks(script, context)
<1>1. l \in Nat /\ DOMAIN script = 1..l /\ changes \in SUBSET (1..l) /\ ends \in SUBSET (1..l)
  OBVIOUS
<1>2. hunks = [n \in 1..count |-> Hunk(script, From(n), LastLine(End(n), context, n = count))]
  BY DEF Hunks
<1>3. \A k \in ends : k \in changes /\ \A c \in changes : c > k => c - k > 2 * context
  OBVIOUS
<1>4. \A k \in changes : (\A c \in changes : c <= k) => k \in ends
  BY <1>1
<1>5. \A k \in 1..l : k \in changes <=> script[k].op # "="
  BY <1>1
<1>6. count \in Nat
  BY <1>1, RanksAre
<1>7. \A n \in 1..count : hunks[n].lines = SubSeq(script, From(n), To(n))
  <2> SUFFICES ASSUME NEW n \in 1..count PROVE hunks[n].lines = SubSeq(script, From(n), To(n))
    OBVIOUS
  <2>1. hunks[n] = Hunk(script, From(n), LastLine(End(n), context, n = count))
    BY <1>2
  <2>2. \A first, last : Hunk(script, first, last).lines = SubSeq(script, first, Lesser(last, l))
    BY DEF Hunk
  <2> HIDE DEF From, hunks, End
  <2> QED
    BY <2>1, <2>2
<1>8. DOMAIN hunks = 1..count
  BY <1>2
<1> HIDE DEF changes, ends, hunks, count, l
<1>9. \A n \in 1..count : End(n) \in ends
  BY <1>1, NthHasRank DEF count
<1>10. \A n, m \in 1..count : n < m => End(n) < End(m)
  BY <1>1, NthGrows DEF count
<1> HIDE DEF End
<1>11. ASSUME NEW n \in 1..count
       PROVE  /\ Min(rest(n)) \in rest(n) /\ Min(rest(n)) \in 1..l
              /\ \A c \in rest(n) : Min(rest(n)) <= c
              /\ Min(rest(n)) <= End(n) /\ End(n) \in 1..l
  <2>1. End(n) \in rest(n)
    <3>1. n > 1 => n - 1 \in 1..count /\ n - 1 < n
      BY <1>6
    <3> QED
      BY <1>3, <1>9, <1>10, <3>1
  <2>2. rest(n) \in SUBSET (1..l) /\ rest(n) # {}
    BY <1>1, <2>1
  <2> HIDE DEF rest
  <2>3. PICK x \in rest(n) : \A y \in rest(n) : x <= y
    <3>1. rest(n) \in SUBSET Nat
      BY <2>2
    <3> QED
      BY <2>2, <3>1, LeastNat
  <2>4. Min(rest(n)) \in rest(n) /\ \A y \in rest(n) : Min(rest(n)) <= y
    BY <2>3 DEF Min
  <2> QED
    BY <2>1, <2>2, <2>4
<1>12. ASSUME NEW n \in 1..count
       PROVE  /\ From(n) \in 1..l /\ From(n) <= Min(rest(n)) /\ From(n) >= Min(rest(n)) - context
              /\ To(n) \in End(n)..l /\ From(n) <= To(n)
              /\ n # count => To(n) < End(n) + context
  <2>1. Min(rest(n)) \in 1..l /\ End(n) \in 1..l /\ Min(rest(n)) <= End(n)
    BY <1>11
  <2> DEFINE first == Min(rest(n))
             last == End(n)
  <2>2. first \in 1..l /\ last \in 1..l /\ first <= last /\ context \in Nat \ {0} /\ l \in Nat
    BY <1>1, <2>1
  <2>3. From(n) = Greater(1, first - context) /\ To(n) = Lesser(LastLine(last, context, n = count), l)
    OBVIOUS
  <2> HIDE DEF first, last, From, To
  <2>4. From(n) \in 1..l /\ From(n) <= first /\ From(n) >= first - context
    BY <2>2, <2>3 DEF Greater
  <2>5. To(n) \in last..l /\ (n # count => To(n) < last + context)
    <3>1. CASE n = count
      BY <2>2, <2>3, <3>1 DEF Lesser, LastLine
    <3>2. CASE n # count
      BY <2>2, <2>3, <3>2 DEF Lesser, LastLine
    <3> QED
      BY <3>1, <3>2
  <2>6. From(n) <= To(n)
    BY <2>2, <2>4, <2>5
  <2> QED
    BY <2>4, <2>5, <2>6 DEF first, last
<1>13. ASSUME NEW n \in 1..count, NEW m \in 1..count, n < m
       PROVE  To(n) < From(m)
  <2>1. n \in Nat /\ m \in Nat /\ n # count /\ m > 1 /\ m - 1 \in 1..count /\ n <= m - 1
    BY <1>6, <1>13
  <2>2. End(n) <= End(m - 1) /\ End(n) \in 1..l /\ End(m - 1) \in 1..l
    <3>1. n = m - 1 \/ n < m - 1
      BY <2>1
    <3>2. n < m - 1 => End(n) < End(m - 1)
      BY <1>10, <2>1
    <3>3. End(n) \in 1..l /\ End(m - 1) \in 1..l
      BY <1>11, <2>1
    <3> QED
      BY <1>1, <3>1, <3>2, <3>3
  <2>3. Min(rest(m)) \in changes /\ Min(rest(m)) > End(m - 1) /\ Min(rest(m)) \in 1..l
    BY <1>11, <2>1
  <2>4. Min(rest(m)) > End(n)
    BY <2>2, <2>3
  <2>5. Min(rest(m)) - End(n) > 2 * context
    BY <1>3, <1>9, <2>3, <2>4
  <2>6. To(n) \in Int /\ To(n) < End(n) + context
    <3>1. To(n) \in End(n)..l /\ To(n) < End(n) + context
      BY <1>12, <2>1
    <3> HIDE DEF To
    <3> QED
      BY <1>1, <2>2, <3>1
  <2>7. From(m) \in Int /\ From(m) >= Min(rest(m)) - context
    BY <1>1, <1>12
  <2> HIDE DEF rest, From, To
  <2> QED
    BY <2>2, <2>3, <2>5, <2>6, <2>7
<1>14. ASSUME NEW k \in changes
       PROVE  \E n \in 1..count : From(n) <= k /\ k <= To(n)
  <2>1. k \in 1..l
    BY <1>1
  <2>2. PICK g \in changes : \A c \in changes : c <= g
    <3>1. changes \in SUBSET Nat /\ \A c \in changes : c <= l
      BY <1>1
    <3> QED
      BY <1>1, <1>14, <3>1, GreatestNat
  <2>3. g \in ends /\ g >= k
    BY <1>1, <1>4, <2>2
  <2> DEFINE later == {e \in ends : e >= k}
  <2>4. PICK e \in later : \A d \in later : e <= d
    <3>1. later \in SUBSET Nat /\ later # {}
      <4>1. \A d \in ends : d \in Nat
        BY <1>1
      <4> QED
        BY <2>3, <4>1
    <3> HIDE DEF later
    <3> QED
      BY <3>1, LeastNat
  <2>5. PICK n \in 1..count : End(n) = e
    <3>1. Rank(ends, e) \in 1..count /\ Nth(ends, Rank(ends, e)) = e
      BY <1>1, <2>4, NthOfRank DEF count
    <3> QED
      BY <3>1 DEF End
  <2>6. n > 1 => k > End(n - 1)
    <3>1. ASSUME n > 1 PROVE k > End(n - 1)
      <4>1. n - 1 \in 1..count /\ n - 1 < n
        BY <1>6, <3>1
      <4>2. End(n - 1) < e /\ End(n - 1) \in ends /\ End(n - 1) \in 1..l /\ e \in 1..l
        BY <1>1, <1>9, <1>10, <2>4, <2>5, <4>1
      <4>3. End(n - 1) \notin later
        BY <2>4, <4>2
      <4> QED
        BY <2>1, <4>2, <4>3
    <3> QED
      BY <3>1
  <2>7. k \in rest(n)
    BY <2>6
  <2>8. Min(rest(n)) <= k /\ From(n) <= Min(rest(n)) /\ From(n) \in 1..l /\ To(n) \in End(n)..l /\ Min(rest(n)) \in 1..l
    BY <1>11, <1>12, <2>7
  <2>9. k <= e /\ e \in 1..l
    BY <1>1, <2>4
  <2> HIDE DEF rest, From, To
  <2>10. From(n) <= k /\ k <= To(n)
    BY <1>1, <2>1, <2>5, <2>8, <2>9
  <2> QED
    BY <2>10
<1> HIDE DEF rest, From, To
<1> DEFINE first == [n \in DOMAIN hunks |-> From(n)]
<1>15. first \in [DOMAIN hunks -> DOMAIN script] /\ \A n \in 1..count : first[n] = From(n)
  BY <1>1, <1>8, <1>12
<1> HIDE DEF first
<1>16. ASSUME NEW n \in 1..count
       PROVE  Beyond(first[n], hunks[n]) = To(n) + 1 /\ From(n) \in 1..l /\ To(n) \in 1..l
  <2>1. From(n) \in 1..l /\ To(n) \in 1..l /\ From(n) <= To(n)
    <3>1. From(n) \in 1..l /\ To(n) \in End(n)..l /\ From(n) <= To(n)
      BY <1>12
    <3> QED
      BY <1>1, <3>1
  <2>2. Len(SubSeq(script, From(n), To(n))) = To(n) - From(n) + 1
    BY <1>1, <2>1 DEF l
  <2>3. Beyond(first[n], hunks[n]) = From(n) + (To(n) - From(n) + 1)
    BY <1>7, <1>15, <2>2 DEF Beyond
  <2>4. From(n) + (To(n) - From(n) + 1) = To(n) + 1
    BY <1>1, <2>1
  <2> QED
    BY <2>1, <2>3, <2>4
<1>17. ASSUME NEW n \in 1..count
       PROVE  /\ Beyond(first[n], hunks[n]) <= l + 1
              /\ hunks[n].lines = SubSeq(script, first[n], Beyond(first[n], hunks[n]) - 1)
  <2>1. Beyond(first[n], hunks[n]) = To(n) + 1 /\ To(n) \in 1..l
    BY <1>16
  <2>2. Beyond(first[n], hunks[n]) - 1 = To(n) /\ Beyond(first[n], hunks[n]) <= l + 1
    BY <1>1, <2>1
  <2> QED
    BY <1>7, <1>15, <2>2
<1>18. ASSUME NEW n \in 1..count, NEW m \in 1..count, n < m
       PROVE  Beyond(first[n], hunks[n]) <= first[m]
  <2>1. Beyond(first[n], hunks[n]) = To(n) + 1 /\ To(n) \in 1..l /\ From(m) \in 1..l /\ first[m] = From(m) /\ To(n) < From(m)
    BY <1>13, <1>15, <1>16, <1>18
  <2> QED
    BY <1>1, <2>1
<1>19. ASSUME NEW k \in DOMAIN script, script[k].op # "="
       PROVE  \E n \in 1..count : first[n] <= k /\ k < Beyond(first[n], hunks[n])
  <2>1. k \in changes /\ k \in 1..l
    BY <1>1, <1>5, <1>19
  <2>2. PICK n \in 1..count : From(n) <= k /\ k <= To(n)
    BY <1>14, <2>1
  <2>3. first[n] = From(n) /\ Beyond(first[n], hunks[n]) = To(n) + 1 /\ To(n) \in 1..l
    BY <1>15, <1>16
  <2> QED
    BY <1>1, <2>1, <2>2, <2>3
<1> QED
  BY <1>8, <1>15, <1>17, <1>18, <1>19 DEF Covers, hunks, l

(* Whatever is written line by line is a sequence of lines.                 *)
Comparable == oldLines \in Seq(Lines) /\ newLines \in Seq(Lines)

(* So a diff of any two contents is whole.                                  *)
LEMMA ComparableIsWhole ==
  ASSUME Comparable
  PROVE  DiffWhole
<1>1. /\ Script(oldLines, newLines) \in Seq(ScriptLine)
      /\ Tells(Script(oldLines, newLines), "+", oldLines) /\ Tells(Script(oldLines, newLines), "-", newLines)
  BY ScriptTells DEF Comparable
<1>2. \A context \in Contexts : context > 0 => context \in Nat \ {0}
  BY ContextsAssumption
<1> QED
  BY <1>1, <1>2, HunksCover DEF DiffWhole

(* Of any two contents, with any number of lines of context but none, the   *)
(* diff of computeUnifiedDiff makes the new content of the old one, and     *)
(* each changed line is in one hunk.                                        *)
THEOREM DiffIsWhole == ComparisonSpec => []DiffWhole
<1>1. ComparisonInit => Comparable
  BY DEF ComparisonInit, Comparable
<1>2. Comparable /\ [ComparisonNext]_comparisonVars => Comparable'
  <2> SUFFICES ASSUME Comparable, [ComparisonNext]_comparisonVars PROVE Comparable'
    OBVIOUS
  <2> USE DEF Comparable
  <2>1. CASE SaveLines
    BY <2>1 DEF SaveLines
  <2>2. ASSUME NEW line \in Lines, AddLine(line) PROVE Comparable'
    BY <2>2 DEF AddLine
  <2>3. CASE UNCHANGED comparisonVars
    BY <2>3 DEF comparisonVars
  <2> QED
    BY <2>1, <2>2, <2>3 DEF ComparisonNext
<1>3. Comparable => DiffWhole
  BY ComparableIsWhole
<1> QED
  BY <1>1, <1>2, <1>3, PTL DEF ComparisonSpec
=============================================================================
