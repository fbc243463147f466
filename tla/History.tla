------------------------------- MODULE History -------------------------------
(* The history of a workspace: commits of file records with a changelog     *)
(* entry (writeback/commit.ts), the snapshots that are stored of a file     *)
(* (db.ts) and the endpoints that diffs and snapshots name (tools/diff.ts). *)
(* A commit, a snapshot and a maintenance operation are one transaction of  *)
(* the database worker each; the callers that send them interleave.         *)
EXTENDS Changelog, Diff

CONSTANTS Files, Contents, Callers,
          Keep,           \* the snapshots pruneSnapshots keeps
          MaxEntries,     \* bound: entries of the changelog
          MaxSecond       \* bound: seconds that pass

CONSTANTS Requests  \* what callers send: functions from fields to texts and lists, "" being an empty one, with evidence or an author

ASSUME KeepAssumption == Keep \in Nat

VARIABLES second, disk, records, entries, snapshots, callers,
          hasty  \* the files with two entries or two snapshots of one second, or an entry whose predecessor has had no turn at its snapshot

historyVars == <<second, disk, records, entries, snapshots, callers, hasty>>

(* The fields of a record: texts, which an empty one leaves as they were,   *)
(* and lists, which an empty one empties.  The identity has to be complete. *)
Texts == {"purpose", "blurb", "cluster"}
Lists == {"tags", "sourceHighlights"}
Fields == Texts \cup Lists
Identity == {"purpose", "blurb", "tags", "sourceHighlights"}

(* The hazards of a file are stored twice, as texts and as texts with lines: *)
(* two sets of what is warned of, whichever of the columns it came in.      *)
Columns == {"hazards", "rangedHazards"}

NoRecord ==
  [f \in Fields \cup Columns \cup {"hash"} |-> IF f = "hash" THEN <<>> ELSE IF f \in Columns THEN {} ELSE ""]
NoCall == [status |-> "idle"]

Init ==
  /\ second = 0
  /\ disk \in [Files -> Contents]
  /\ records = [f \in Files |-> NoRecord]
  /\ entries = {} /\ snapshots = {}
  /\ callers = [c \in Callers |-> NoCall]
  /\ hasty = {}

NextId(rows) == IF rows = {} THEN 1 ELSE Max({r.id : r \in rows}) + 1

Tick == second < MaxSecond /\ second' = second + 1
        /\ UNCHANGED <<disk, records, entries, snapshots, callers, hasty>>

Edit(f, content) ==
  /\ disk[f] # content
  /\ disk' = [disk EXCEPT ![f] = content]
  /\ UNCHANGED <<second, records, entries, snapshots, callers, hasty>>

-----------------------------------------------------------------------------
(* executeAtlasCommit.                                                      *)
RecordVersion(r) == r
AnyVersion == [any |-> TRUE]

Sent(request, field) == field \in DOMAIN request /\ (field \in Lists \/ request[field] # "")

(* What one column lacks is appended to it from the other.                  *)
AutoSyncHazardsColumns(legacy, structured) ==
  [column \in Columns |-> IF column = "hazards" THEN legacy \cup (structured \ legacy)
                          ELSE structured \cup (legacy \ structured)]

(* A request has no hazards with lines: these are kept as they are.         *)
MergeFile(existing, request) ==
  LET hazards == IF "hazards" \in DOMAIN request THEN request["hazards"] ELSE existing["hazards"]
      synced == AutoSyncHazardsColumns(hazards, existing["rangedHazards"])
  IN  [f \in DOMAIN existing |-> IF f \in Columns THEN synced[f]
                                 ELSE IF Sent(request, f) THEN request[f] ELSE existing[f]]

Incomplete(r) == \E f \in Identity : r[f] = ""

(* A caller reads the record it will write to.  The version, which it knows *)
(* from the answer to a commit of its own or from that to a conflict, it    *)
(* may leave out of its request.                                            *)
Look(c, f) ==
  /\ callers[c].status = "idle"
  /\ \E expected \in {RecordVersion(records[f]), AnyVersion} :
       callers' = [callers EXCEPT ![c] = [status |-> "looked", file |-> f, seen |-> records[f],
                                          expected |-> expected]]
  /\ UNCHANGED <<second, disk, records, entries, snapshots, hasty>>

(* Evidence has the authority it claims unless its payload has another hash *)
(* than it says; an author comes with the attribution.                      *)
ValidateEvidence(request) == "evidence" \in DOMAIN request => request.evidence # "mismatched"
ValidateAttribution(request) == "author" \in DOMAIN request => request.author # "malformed"

NewEntry(f, r, request) ==
  [id |-> NextId(entries), file_path |-> f, created_at |-> second, commit_sha |-> <<>>,
   cluster |-> IF r.cluster = "" THEN "none" ELSE r.cluster,
   verification_status |-> IF "evidence" \in DOMAIN request /\ request.evidence = "verified-external"
                           THEN "verified" ELSE "pending",
   author_name |-> IF "author" \in DOMAIN request THEN request.author ELSE "none", content |-> disk[f]]

(* Mutant: the version a caller expects is not looked at.                   *)
MutantConflicts(call) == FALSE

Conflicts(call) == call.expected \notin {AnyVersion, RecordVersion(records[call.file])}

Awaited(f) == \E c \in Callers : callers[c].status = "committed" /\ callers[c].file = f

Commit(c, request) ==
  LET call == callers[c]
      merged == MergeFile(records[call.file], request)
  IN  /\ call.status = "looked"
      /\ Cardinality(entries) < MaxEntries
      /\ IF Conflicts(call) \/ Incomplete(merged) \/ ~ValidateAttribution(request) \/ ~ValidateEvidence(request)
         THEN callers' = [callers EXCEPT ![c] = NoCall] /\ UNCHANGED <<entries, records, hasty>>
         ELSE /\ entries' = entries \cup {NewEntry(call.file, merged, request)}
              /\ records' = [records EXCEPT ![call.file] = merged]
              /\ callers' = [callers EXCEPT ![c] =
                   [status |-> "committed", file |-> call.file,
                    seen |-> call.seen, expected |-> call.expected, sent |-> request,
                    entry |-> NextId(entries), content |-> disk[call.file]]]
              /\ hasty' = IF Awaited(call.file) \/ \E e \in entries : e.file_path = call.file /\ e.created_at = second
                          THEN hasty \cup {call.file} ELSE hasty
      /\ UNCHANGED <<second, disk, snapshots>>

(* The index run takes the hash of the file it has scanned.                 *)
Scan(f) ==
  /\ records[f].hash # disk[f]
  /\ records' = [records EXCEPT ![f].hash = disk[f]]
  /\ UNCHANGED <<second, disk, entries, snapshots, callers, hasty>>

Delete(f) ==
  /\ records[f] # NoRecord
  /\ records' = [records EXCEPT ![f] = NoRecord]
  /\ UNCHANGED <<second, disk, entries, snapshots, callers, hasty>>

-----------------------------------------------------------------------------
(* Rows ordered by created_at only: among those of one second the database  *)
(* takes the one that was inserted first.                                   *)
NewestFirst(a, b) == a.created_at > b.created_at \/ (a.created_at = b.created_at /\ a.id < b.id)

Newest(rows) == CHOOSE r \in rows : \A q \in rows \ {r} : NewestFirst(r, q)

SnapshotsOf(f) == {s \in snapshots : s.file_path = f}

Unchanged(f, content) == SnapshotsOf(f) # {} /\ Newest(SnapshotsOf(f)).content = content

(* insertSnapshot of the content that was committed; a caller may also      *)
(* leave it at the commit.                                                  *)
NewSnapshot(call) ==
  [id |-> NextId(snapshots), file_path |-> call.file, content |-> call.content,
   changelog_id |-> call.entry, created_at |-> second]

InsertSnapshot(c) ==
  LET call == callers[c]
  IN  /\ call.status = "committed"
      /\ snapshots' = IF Unchanged(call.file, call.content) THEN snapshots
                      ELSE snapshots \cup {NewSnapshot(call)}
      /\ hasty' = IF snapshots' # snapshots /\ \E s \in SnapshotsOf(call.file) : s.created_at = second
                  THEN hasty \cup {call.file} ELSE hasty
      /\ callers' = [callers EXCEPT ![c] = NoCall]
      /\ UNCHANGED <<second, disk, records, entries>>

Leave(c) ==
  /\ callers[c] # NoCall
  /\ callers' = [callers EXCEPT ![c] = NoCall]
  /\ hasty' = IF callers[c].status = "committed" THEN hasty \cup {callers[c].file} ELSE hasty
  /\ UNCHANGED <<second, disk, records, entries, snapshots>>

Prune(f) ==
  LET newer(s) == {t \in SnapshotsOf(f) : NewestFirst(t, s)}
  IN  /\ Cardinality(SnapshotsOf(f)) > Keep
      /\ snapshots' = {s \in snapshots : s.file_path = f => Cardinality(newer(s)) < Keep}
      /\ UNCHANGED <<second, disk, records, entries, callers, hasty>>

(* stampAtlasChangelogCommit gives the entries the revision that holds them *)
(* now, unless they have one; a revision is what the files were then.       *)
Stamp(f) ==
  /\ entries' = {IF e.file_path = f /\ e.commit_sha = <<>> THEN [e EXCEPT !.commit_sha = disk[f]] ELSE e : e \in entries}
  /\ entries' # entries
  /\ UNCHANGED <<second, disk, records, snapshots, callers, hasty>>

(* updateChangelogVerification of the last entries of a file, by their ids. *)
Verify(f, lastN, status) ==
  LET later(e) == {d \in entries : d.file_path = f /\ d.id > e.id}
  IN  /\ entries' = {IF e.file_path = f /\ Cardinality(later(e)) < lastN
                     THEN [e EXCEPT !.verification_status = status] ELSE e : e \in entries}
      /\ entries' # entries
      /\ UNCHANGED <<second, disk, records, snapshots, callers, hasty>>

(* backfillAtlasChangelogAuthors fills what is empty.                       *)
Backfill(ids, name) ==
  /\ entries' = {IF e.id \in ids /\ e.author_name = "none" THEN [e EXCEPT !.author_name = name] ELSE e : e \in entries}
  /\ entries' # entries
  /\ UNCHANGED <<second, disk, records, snapshots, callers, hasty>>

Next ==
  \/ Tick
  \/ \E f \in Files : \/ \E content \in Contents : Edit(f, content)
                      \/ Scan(f) \/ Delete(f) \/ Prune(f) \/ Stamp(f)
                      \/ Verify(f, 1, "verified")
  \/ \E c \in Callers : \/ \E f \in Files : Look(c, f)
                        \/ \E request \in Requests : Commit(c, request)
                        \/ InsertSnapshot(c) \/ Leave(c)
  \/ \E e \in entries : Backfill({e.id}, "someone")

Spec == Init /\ [][Next]_historyVars

-----------------------------------------------------------------------------
(* Endpoints.  An endpoint is a record of the form it has and the number or *)
(* the second it names.                                                     *)
Failed == [error |-> TRUE]
NoEntry == [id |-> 0]
IsError(x) == "error" \in DOMAIN x

EntriesOf(f) == {e \in entries : e.file_path = f}
NewestOr(rows) == IF rows = {} THEN NoEntry ELSE Newest(rows)

FindChangelogById(id) == IF \E e \in entries : e.id = id THEN CHOOSE e \in entries : e.id = id ELSE NoEntry

(* A time without a time of day is taken for the end of its day.            *)
FindChangelogByTimestamp(f, endpoint) ==
  LET time == [form |-> IF endpoint.form = "date" THEN "iso" ELSE endpoint.form, at |-> endpoint.at]
  IN  NewestOr({e \in EntriesOf(f) : AtMost(e.created_at, time)})

FindLatestChangelog(f) == NewestOr(EntriesOf(f))

FindPrevChangelog(f, id) ==
  LET target == FindChangelogById(id)
  IN  IF target = NoEntry THEN NoEntry
      ELSE NewestOr({e \in EntriesOf(f) : e.created_at < target.created_at})

LookupSnapshot(f, id) ==
  LET rows == {s \in SnapshotsOf(f) : s.changelog_id = id}
  IN  IF rows = {} THEN Failed ELSE [content |-> Newest(rows).content]

(* The snapshots of the entries of the file at or before an entry, the      *)
(* newest entry first, with the entry each belongs to.                      *)
MutantNearest(f, entry) ==
  {[id |-> s.id, changelog_id |-> s.changelog_id, content |-> s.content,
    created_at |-> FindChangelogById(s.changelog_id).created_at] : s \in SnapshotsOf(f)}

Nearest(f, entry) ==
  {[id |-> s.id, changelog_id |-> s.changelog_id, content |-> s.content,
    created_at |-> FindChangelogById(s.changelog_id).created_at] :
     s \in {s \in SnapshotsOf(f) : LET c == FindChangelogById(s.changelog_id)
                                   IN  c.file_path = f /\ c.created_at <= entry.created_at}}

FindNearestSnapshot(f, entry) ==
  LET rows == Nearest(f, entry)
  IN  IF rows = {} THEN Failed ELSE LookupSnapshot(f, Newest(rows).changelog_id)

(* An empty file of a revision is taken for none.                           *)
ReconstructFromGit(entry) ==
  IF entry.commit_sha \in {<<>>, <<"">>} THEN Failed ELSE [content |-> entry.commit_sha]

ResolveChangelogContent(f, entry) ==
  LET exact == LookupSnapshot(f, entry.id)
      nearest == FindNearestSnapshot(f, entry)
      git == ReconstructFromGit(entry)
      Answer(found, source) == [content |-> found.content, id |-> entry.id, source |-> source]
  IN  IF entry = NoEntry \/ entry.file_path # f THEN Failed
      ELSE IF ~IsError(exact) THEN Answer(exact, "exact_snapshot")
      ELSE IF ~IsError(nearest) THEN Answer(nearest, "nearest_snapshot")
      ELSE IF ~IsError(git) THEN Answer(git, "git")
      ELSE Failed

(* "prev" is the entry before the one that the other endpoint named, 0 if   *)
(* there is none.                                                           *)
ResolveEndpoint(f, endpoint, toId) ==
  ResolveChangelogContent(f,
    CASE endpoint.form = "id"   -> FindChangelogById(endpoint.at)
      [] endpoint.form = "prev" -> IF toId = 0 THEN NoEntry ELSE FindPrevChangelog(f, toId)
      [] endpoint.form = "latest" -> FindLatestChangelog(f)
      [] OTHER -> FindChangelogByTimestamp(f, endpoint))

ComputeDiff(f, from, to, context, highlights) ==
  LET new == ResolveEndpoint(f, to, 0)
      old == ResolveEndpoint(f, from, IF IsError(new) THEN 0 ELSE new.id)
      hunks == IF old.content = new.content THEN <<>> ELSE ComputeUnifiedDiff(old.content, new.content, context)
  IN  IF IsError(new) \/ IsError(old) THEN Failed
      ELSE [from |-> old.id, to |-> new.id, hunks |-> hunks, stat |-> ParseDiffStat(hunks),
            highlights |-> AnnotateWithHighlights(hunks, highlights)]

(* "changelog" is the entry the caller has selected.                        *)
NormalizeChangelogEndpoint(endpoint, id) ==
  IF endpoint.form = "changelog" THEN [form |-> "id", at |-> id] ELSE endpoint

ComputeChangelogDiff(id, from, to, highlights) ==
  LET entry == FindChangelogById(id)
  IN  IF entry = NoEntry THEN Failed
      ELSE ComputeDiff(entry.file_path, NormalizeChangelogEndpoint(from, id),
                       NormalizeChangelogEndpoint(to, id), 3, highlights)

(* computeSnapshot: an entry that is selected, or named by its id, gives    *)
(* the file when none is given; 0 is no entry.                              *)
Latest == [form |-> "latest", at |-> 0]

SnapshotWindow(content, r) ==
  LET total == Len(content)
      start == Lesser(Greater(r.start, 1), Greater(total, 1))
      capped == Lesser(Greater(IF r.end = 0 THEN total ELSE r.end, start), total)
      end == Lesser(capped, start + r.maxLines - 1)
  IN  [start |-> start, end |-> end, lines |-> SubSeq(content, start, end), truncated |-> end < capped]

ComputeSnapshot(r) ==
  LET at == NormalizeChangelogEndpoint(r.at, r.id)
      selected == IF r.id # 0 THEN r.id ELSE IF at.form = "id" THEN at.at ELSE 0
      entry == FindChangelogById(selected)
      f == IF r.file # "none" THEN r.file ELSE IF selected = 0 THEN "none" ELSE entry.file_path
      found == ResolveEndpoint(f, at, selected)
      refused == \/ selected # 0 /\ entry = NoEntry
                 \/ f = "none"
                 \/ r.at.form = "changelog" /\ r.id = 0
  IN  IF refused \/ IsError(found) THEN Failed
      ELSE [id |-> found.id, source |-> found.source, window |-> SnapshotWindow(found.content, r),
            content |-> found.content]

-----------------------------------------------------------------------------
(* Properties.                                                              *)
(* The entry that was made last before another one, or 0.                   *)
LastOf(S) == IF S = {} THEN 0 ELSE Max({e.id : e \in S})

(* While nothing of a file is done twice in a second and every commit has   *)
(* its snapshot stored, or found to be stored, before the next one, an      *)
(* endpoint stands for the entry it names, also after old snapshots have    *)
(* been dropped and with contents that come back: what a snapshot answers   *)
(* for it is what the file was when the entry was made.                     *)
HistoryFaithful ==
  \A f \in Files \ hasty : ~Awaited(f) =>
    /\ \A e \in EntriesOf(f) :
         LET found == ResolveChangelogContent(f, e)
         IN  ~IsError(found) => found.source = "git" \/ found.content = e.content
    /\ FindLatestChangelog(f).id = LastOf(EntriesOf(f))
    /\ \A e \in EntriesOf(f) :
         /\ FindPrevChangelog(f, e.id).id = LastOf({d \in EntriesOf(f) : d.id < e.id})
         /\ FindChangelogByTimestamp(f, [form |-> "spaced", at |-> e.created_at]).id = e.id

(* A commit that says which version of the record it is for changes what    *)
(* its caller has seen and nothing that another commit or an index run has  *)
(* written in between, and none leaves a record with a text or a list of    *)
(* its identity emptied.  Both columns of hazards warn of the same, of what *)
(* the caller sends and of all that either column warned of before: no      *)
(* commit drops a hazard, and one that is repeated changes nothing.         *)
NoLostUpdate ==
  [][\A c \in Callers :
       callers[c].status = "looked" /\ callers'[c].status = "committed" =>
         LET call == callers'[c]
             before == records[call.file]
             after == records'[call.file]
         IN  /\ call.expected # AnyVersion => \A field \in DOMAIN call.seen \ Columns :
                  after[field] \in {call.seen[field]} \cup (IF field \in DOMAIN call.sent THEN {call.sent[field]} ELSE {})
             /\ \A field \in Identity : after[field] # ""
             /\ after["hazards"] = after["rangedHazards"]
             /\ before["hazards"] \cup before["rangedHazards"] \subseteq after["hazards"]
             /\ "hazards" \in DOMAIN call.sent => call.sent["hazards"] \subseteq after["hazards"]
             /\ MergeFile(after, call.sent) = after]_historyVars

(* A time names an entry that was made at that time or before: not so of a  *)
(* time written in ISO form, of which the queries compare the day alone.    *)
MomentsRight ==
  \A f \in Files, at \in 0..MaxSecond :
    FindChangelogByTimestamp(f, [form |-> "iso", at |-> at]) # NoEntry =>
      FindChangelogByTimestamp(f, [form |-> "iso", at |-> at]).created_at <= at
=============================================================================
