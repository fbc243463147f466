# Atlas in TLA+

Atlas (`src/`) is a local code-intelligence store: it indexes a repository into
one SQLite database and answers queries about it, from a CLI, a library and an
MCP server.  This directory holds TLA+ modules of the parts of Atlas in which
order, failure, concurrency and boundary cases decide whether the answers can be
trusted, the TLC configurations that check them, and theorems that TLAPS proves.

- [1. The system](#1-the-system)
- [2. Modules and the code they model](#2-modules-and-the-code-they-model)
- [3. What the runs check](#3-what-the-runs-check)
- [4. Where the code and its documents disagree](#4-where-the-code-and-its-documents-disagree)
- [5. What is proved](#5-what-is-proved)
- [6. What is only model-checked, and what is not modelled](#6-what-is-only-model-checked-and-what-is-not-modelled)
- [7. Plan](#7-plan)

`tlc -config MCStoreKeyed.cfg MCStore` checks a run, `tlapm SupervisorProofs.tla`
a proof.  `PROJECT.json` maps every definition to the lines it models and lists
the runs, the mutants that show that each property can fail, the hazards and the
theorems.

## 1. The system

    caller's thread                          worker thread
    +-------------------------+  request,    +---------------------------+
    | MCP session, CLI        |  close       | request chain             |
    |   |                     | -----------> |   one operation at a time |
    | AtlasReadService        |              |   SQLite transaction +    |    database file
    |   AtlasWorkerSupervisor | <----------- |   idempotency row         | --> lock file
    |   WorkerThreadEndpoint  |  ready,      |   index-repository        |    backups
    +-------------------------+  responses,  |   retrieval engine        |    quarantine
            ^                    exit        +---------------------------+
            | index(paths)                               ^
    watcher (atlas watch)                     files of the repository:
            ^                                 editors, git
            +--------------------------------------------+

| Component | State | Operations | What is hard | What makes it correct |
| --- | --- | --- | --- | --- |
| Persistence supervisor (`persistence/supervisor.ts`) | three queues, the in-flight map, the state of each request, a read counter, whether it is closed or failed | `execute`, `pump`, answers, cancellation, deadlines, failure of the worker, `close` | answers, timers, aborts, failures and `close()` in every order; a handler that forgets to pump; a queue at its limit | each promise settles once; nothing is lost; writes are alone; the queues are bounded; nothing dispatchable waits |
| Worker: request loop (`persistence/sqliteWorker.ts`) | the message queue, the request chain, the awaited operation, the database with its idempotency table | receive, execute in a transaction, replay a key, index and retrieve while awaiting, answer, shut down | a crash between a commit and its answer; a retry of a write that is still queued, or was committed | a refused write leaves no trace, an acknowledged one is stored, a key takes effect once |
| SQLite store (`persistence/sqliteStore.ts`) | the worker, a startup timer, whether the worker owned the lock | open, deliver messages and the exit, terminate on close | an exit racing the last answers; a worker that never answers | every accepted call settles; `close()` resolves |
| Worker: writer lock (`sqliteWorker.ts`, `sqliteStore.ts`) | a file that holds a pid and a token | `acquireLock`, `releaseLock`, `cleanupOwnedLock` | every system call is a step of its own and several processes take them; kills leave the file behind | one store has the database open; its file stays; dead owners are reclaimed |
| Worker: migrations, backup, recovery (`sqliteWorker.ts`, `db.ts`) | the database and its log, migration rows, full-text flag, backup files, the quarantined database | `start`, `openAtlasDatabase`, `verifyAndRecordMigrations`, `createBackup`, `recoverLatestBackup` | a crash between two file operations; an edited migration; a half-made backup among good ones | a database file is in one place or the other, and its log goes only when a verified copy is at hand; answered backups stay; a store that serves has recorded and applied its package |
| Indexing pipeline (`pipeline/*.ts`) | records, symbols, references, import edges, cross references; the run in memory; a search index per process | scan, delete, invalidate, structure, flow, cross reference, communities | dozens of transactions per run, any of which may be the last; edits while a run reads files; runs restricted to paths | after a run the tables are those of a fresh index; nothing is stored of a file that is gone |
| Communities (`pipeline/community.ts`) | a partition of the files, level by level | move, refine, aggregate, split, merge, label | three phases that alternate until nothing changes | every file is in one group, groups are connected, a move never makes it worse |
| Indexing watcher (`indexing/watcher.ts`, `server.ts`) | pending changes, a timer, a chain of batches, directory watchers | observe a path, register a directory, push, flush, index, close | answers of `stat` out of order, flushes during a batch, close in the middle | the last change of every path that raised an event reaches the index |
| Catalogue (`db.ts`, `migrations/`) | all tables | upserts, scans, cascades, vectors, full text, witnesses, backfill | hand-written cascades of several statements; rows that survive a crash | derived rows follow their file, search finds what is there |
| Writeback and history (`writeback/commit.ts`, `db.ts`, `tools/diff.ts`) | records, changelog, snapshots | commit, stamp, verify, backfill, prune, resolve endpoints, diff | a record read before and written after; times of one second; contexts that meet | no update is lost, an endpoint names what it says, a diff is whole |
| Core policies (`core/*.ts`) | the budget and the cache of a request; else none | cursors and budgets, evidence authority, quality gates, path rules | limits at their boundaries; a failing load in a full cache; links and renames that loop | budgets are kept, one name per file, rules agree with each other |
| Embedding controller (`embedding/controller.ts`) | cursor over batches, workers, answers | embed with limits, abort, close, rank | one of several concurrent batches fails | each item has the vector of its own batch, or the request fails |
| Retrieval and graph (`retrieval/engine.ts`, `service/AtlasReadService.ts`) | none; reads the store, the disk and a cursor | look-ups, plans, history, snippets, audits, impact, trace, cycles, reachability | pages over changing data; budgets inside graph walks; stale source | pages cover the result once; a trace is the cheapest |
| Host, command line, MCP session (`node/*.ts`, `server.ts`, `mcp/adapter.ts`) | the identity file of a directory, the open store, calls under way | claim a directory, open, run a command, serve, stop | two programs start at once; a signal during a call | a directory serves one repository; exit codes are the answers' |
| Legacy tools (`tools/*`, `persistence` facade of the former server) | - | registrations that `server.ts` does not reach | - | - |

How they interact: the services call the store, which admits each call to the
supervisor; the supervisor posts it to the worker and settles the promise when
the response, a deadline, an abort, the worker's exit or `close()` comes first.
Indexing is one of the worker's operations: it is awaited inside the request
chain, so no other request runs beside it, but unlike every other write it is
many transactions.  The watcher turns file events into indexing requests for
the paths that changed.  Before a worker serves anything it takes the writer
lock, which is shared with every other process that opens the database; under
the lock it migrates, verifies and, if need be, recovers the database file.
Reads come through the service, which adds what the disk holds now to what the
store says, and hands long answers out in pages.

## 2. Modules and the code they model

| Module | Models | Actions or main operators |
| --- | --- | --- |
| `Supervisor` | `AtlasWorkerSupervisor`; the endpoint may do anything | `Refuse`, `Admit`, `Loop` (one turn of `pump`), `CancelQueued`, `CancelDispatched`, `HandleResponse`, `HandleFailure`, `Renew`, `Close`, `Release`, `EndpointClosed`, `EndpointReceive`, `Kill`, `Reopen` |
| `SqliteWorker` | the worker's thread and the database file | `ReceiveRequest`, `ReceiveClose`, `HandleRequest`, `FinishAwaited`, `PostReply`, `Shutdown`, `Die` |
| `SqliteAtlasStore` | both composed, with the two message channels | steps of `Supervisor` and `SqliteWorker`, delivery of responses and of the exit, `Terminate`, `WorkerCrash`, `ProcessKilled`, `OpenAgain` |
| `StoreContract` | the promise of `AtlasStore.execute`, independent of workers | `Submit`, `Begin`, `Apply`, `Conclude` |
| `StoreLock` | `acquireLock`, `releaseLock`, `start`, `shutdown` and the endpoint's side of them, one action per system call | `Open`, `Create`, `Write`, `Read`, `Probe`, `Remove`, `Started`, `Shutdown`, `ReleaseRead`, `ReleaseUnlink`, `HandleMessage`, `HandleExit`, `CleanupRead`, `CleanupUnlink`, `StartupTimeout`, `Crash`, `Close`, `Terminate`, `Kill` |
| `StoreFiles` | `start`, `openAtlasDatabase`, migrations, backups, recovery, one action per file operation or transaction | `Start`, `Open`, `Migrate`, `RebuildFts`, `Verify`, `Try`, `CheckCopy`, `RemoveSidecars`, `Quarantine`, `Publish`, `RenameFails`, `StartFails`, `CreateBackup` and its steps, `Commit`, `Checkpoint`, `Close`, `Crash`, `Corrupt` |
| `Indexing` | `runRuntimeReindex` with the phases it calls | `Begin`, `ScanRecord`, `ScanExports`, `ScanEdges`, `Delete`, `DeleteDone`, `Invalidate`, `Choose`, `Parse`, `ParseDone`, `WriteSymbols`, `WriteReferences`, `StructureFails`, `Flow`, `WriteFlow`, `FlowFails`, `Crossref`, `Cluster`, `Finish`, `Edit`, `Crash` |
| `Structure` | the extraction of `pipeline/structure.ts`: from a syntax tree in one of five languages to the symbols of its file and the edges between them, and the symbol that a name is taken for | `TypeScript`, `Python`, `Go`, `Rust`, `Java`, `ExtractFromTree`, `ExtractCalls`, `ResolveEdges` |
| `Flow` | `runFlow`: from the syntax tree of a file to its flow edges | `AnalyzeScope`, `ExtractFlow`, `EventEdges`, `ResolveSymbol`, `ResolveFlowEdges` |
| `Crossref` | `runCrossref`: the cross references of one file | `GetDeterministicExportedSymbols`, `BuildHeuristicCrossRef`, `RunCrossref` |
| `Community` | `runCommunityDetection`, the last phase of a run | moves, refinement, aggregation, splits, merges, labels and the rows written, one step each |
| `Watcher` | `watchAtlasRepository`, `AtlasWatchBatcher`, `runWatch` and the tree they watch | `Write`, `Unlink`, `Mkdir`, `MoveAway`; `Report`, `Answer`, `FoundFile`, `FoundDirectory`, `Register`, `FoundGone`, `CallFails`, `WatcherFails`, `TimerFires`; `NextBatch`, `IndexFile`, `BatchFails`; `Close` |
| `Catalogue` | the tables of files, full text, vectors, chunks, symbols, references and witnesses | one action per statement (`Unindex`, `Index`, `Write`, `ScanRow`, `Embed`, `Unlink`, `RemoveRow`, ...); an operation is the sequence of its statements |
| `Changelog` | the queries over the changelog | `Matches`, `QueryAtlasChangelog`, `CountAtlasChangelog`, `GroupAtlasChangelog`, `TimelineAtlasChangelog`, `QueryPending` |
| `Diff` | the diff engine of `tools/diff.ts` | `Round` (one round of the walk through both contents), `Script`, `Hunks`, `AnnotateWithHighlights` |
| `Comparison` | a program that writes two contents for `Diff` to compare | `AddLine`, `SaveLines` |
| `History` | commits, the two columns of hazards, snapshots, maintenance of the changelog, endpoints | `Look`, `Commit`, `InsertSnapshot`, `Leave`; `Edit`, `Scan`, `Delete`, `Stamp`, `Verify`, `Backfill`, `Prune`, `Tick` |
| `QueryControl`, `QueryController` | plan, limits, paging and cursors; the budget, deadline and cache of one request | `Cooperate`, `Resume`, `Cancel`, `TimeUp`, `Snapshot`, `Hit`, `Miss`, `LoadSucceeds`, `LoadFails` |
| `RetrievalGraph` | impact, neighbors, trace, cycles, reachability, cluster, graph | `ExecuteGraph` and what it is made of |
| `Retrieval` | look-ups, plans, snippets, history, audits, and the service before them | a client that asks, follows the cursor and is answered, while the stores and the disk change |
| `EmbeddingController` | `AtlasEmbeddingController` and the ranking by vectors | `Embed`, `Heed`, `Refuse`, `Abort`, `CloseProvider`, `Mutate`, `Rerank`, `FallBack` |
| `Paths`, `Quality`, `EvidenceAuthority`, `Policies` | the pure rules of `core/` | `CanonicalizeRepositoryPath` and the mappings; completeness and the choice of a record; authority of evidence; what the rules have to agree on |
| `NodeHost` | the programs of one machine: command line, layout, host, MCP session | `Launch`, `Create`, `Write`, `Compare`, `Open`, `RunServiceCommand`, `Batch`, `Answer`, `Tool`, `Use`, `Catch`, `Quit`, `Kill`, `CloseService`, `CloseStore` |
| `SupervisorProofs`, `StoreProofs`, `StoreLockProofs`, `StoreFilesProofs`, `IndexingProofs`, `WatcherProofs`, `HistoryProofs`, `ServiceProofs` | theorems | |
| `MCSupervisor`, `MCStore`, `MCStoreLock`, `MCStoreFiles`, `MCIndexing`, `MCWatcher`, `MCReads`, `MCHistory`, `MCServices` | constants of the runs; the last three put components side by side that share nothing | |

**Supervisor.**  The caller's thread is an event loop, so a handler is one
action, except that each turn of the loop in `pump()` is a step (`pumping`
holds back the other handlers meanwhile).  A request is an id; its operation is
reduced to its work class, its payload to the constants that say which check it
trips.  `consecutiveReads` is only ever compared with 4 and saturates there.
An id may be used again for a new call (`Recurring`, `Renew`): that is how a
caller that never stops reading fits in a finite model.

**SqliteWorker.**  `effect` and `ledger` are the database, everything else is
lost when the thread dies.  A write is one step that stores its effect and the
row of its idempotency key, which is what the transaction in
`executeIdempotently` makes atomic; an answer is computed in one step and posted
in the next, so a crash may come between.  Indexing begins in one step
(`partial`) and ends in another (`done`).

**SqliteAtlasStore and StoreContract.**  The composition reads the same
variables through `INSTANCE`.  It is shown to implement `StoreContract` under a
mapping that forgets queues and messages: a call is idle, pending, acknowledged,
refused or unknown, and a write has taken effect or not.  It is also shown to be
an instance of `Supervisor`, so that what is proved there holds here.

**StoreLock.**  A lock file is known by the store that created it; its content
is there only after `Write`.  A pid of a killed process is not used again.  A
worker may be ended before it has said "ready" only if it is in `Abrupt`.

**StoreFiles.**  A database is what it holds (`data`, how many commits), the
migrations that have taken effect (`schema`), the checksums of those recorded,
whether its full-text rows and the flag that vouches for them are there, and
whether it is whole.  SQLite keeps commits in a log beside the file
(`journal_mode = WAL`): `primary` is what a reader sees, `file` what the database
file has without its log.  A checkpoint of SQLite, while a store serves or when
it closes, makes them equal; closing may fail to.  Recovery deletes the log
(`RemoveSidecars`, `sqliteWorker.ts:359-361`) before it renames the file, so what
is set aside is `file`.  `backups`, `quarantine` and the staged copy are the other
files; `worker` is the process, lost in a crash.  A rename is atomic, a copy and a
`VACUUM INTO` are not.  A start may meet a newer or an older package of migrations
than the last, one whose first migration was edited, and a database from before
the table of migrations, with as many of them in effect as `Legacies` says: of
those the statement fails, is rolled back, and the row is stored all the same
(`db.ts:528-538`).  Of the vector tables nothing is modelled: `db.ts:337-345`
tries to make them again and, if that fails, warns and goes on.

**Indexing and Community.**  A file exports one symbol, named after it; its text
is the record of what the extractors find (imports, calls, flows, whether it
parses); the hash of a text is the text.  A flow is an edge in both directions:
the function that hands a value on consumes the other (`CONSUMES`), whose answer
flows back (`DATA_FLOWS_TO`).  The second edge is stored under the *other* file
as its source, although this file is what it was found in (`FlowEdges`).  Each action is what the code does
between two awaits or in one commit.  The deletion of a symbol cascades over the
references as the foreign keys of `migrations/0002_symbols_references.sql` say:
references from it are deleted, references to it lose their target.  `Edit`
changes the disk between any two steps and `Crash` ends the process there.
`Cluster` is one step of a run; what it computes is `Community`, where one visit
of a node, one refinement and one aggregation are a step each.  Weights are
integers, and modularities are compared multiplied by the square of twice the
total weight.

**Structure, Flow and Crossref.**  What `Indexing` takes as given.  In `Structure` a
node has the field of its parent that it is in, a type, a text (the sequence of
the names it is made of) and its named children; each language has its own
extractor, as in the code.  In `Flow` a syntax tree is built
of nodes with a type, a text and children, of which the first are the fields the
code asks for; its functions are walked in the order of the code, with the
origins of the variables as an accumulator.  `Crossref` starts from the
declarations of a file, the uses that are stored of its symbols and what a text
search finds of each name; a use has a file, an edge and a count.  They are
recursive or fold over small data and are for TLC.

**Watcher.**  `disk` and `inode` are the tree, `events` what the operating system
will still report, `tasks` the calls of `observePath` and `registerDirectory`
that are under way, each with what its `stat` or `readdir` has answered.
`pending`, `timer`, `chain` and `batch` are the batcher's; `index` is what the
indexer has read.  A callback is one action up to its first await.  Pushing a
path that is pending replaces the kind of its change: the indexer only uses the
path, so the kind is left out.  A `stat`, `readdir` or `fs.watch` that fails with
something else than `ENOENT` ends its call without a word (`CallFails`,
`watcher.ts:153`); a watcher that reports an error is closed, and the map loses
its directory (`WatcherFails`, `watcher.ts:196-199`).  `noticed` remembers of which
files the last change raised an event that was not lost in one of these ways and
did not end in a failed batch.

**Catalogue.**  An operation of `db.ts` puts the sequence of its statements in
`todo`, and `Step` executes the next; a crash empties it, and so does an error of
the full-text rebuild at an opening, which is logged (`RebuildFails`).  Rows keep
their ids as `AUTOINCREMENT` and upserts do.  `made` remembers the content a row's
extraction was computed from; no statement reads it.  A vector has the id of its
row and, for the property, what it was made of; every statement on a vector table
may fail, which the code swallows (`db.ts:2658-2662,3079-3091,3183-3187`), and
`left` remembers the vectors that stayed for it.  The vector of a chunk is stored
under an id that the caller was handed earlier (`listed`), which nobody checks
(`UpsertSourceChunkEmbedding`).  Nothing in `src/` calls `replaceSourceChunks`: the
chunks are those that an embedder would store.  A witness brings the confidence
its caller gives, or else the weight of its kind (`ConfidenceDelta`).

**Changelog, Diff and History.**  A text column is a value, a time is a second,
and `DaySeconds` seconds are a day.  `Look` and `Commit` are the two halves of a
caller's read and write; the snapshot of a commit is a request of its own
(`InsertSnapshot`), and a caller may leave before it (`Leave`).  A record has the
hazards twice, as texts and with ranges; a hazard with a range is its text,
which is what `AutoSyncHazardsColumns` compares, and the fuzzy comparison of
texts is left to `Quality`.  `Script` is the
edit script, made by as many rounds of the walk as there are lines (a round that
finds both contents at their ends changes nothing) with the look-ahead of the
code; `Hunks` is what is cut out of it.  An unchanged line, which has a blank in
the text, is marked `=`.  The contents of files are sequences of lines, and
`Comparison` writes any two of them.

**QueryControl to RetrievalGraph.**  Requests, arguments and filters are records
of the fields that are present, with `Bad` for a value out of its bounds.  Files
are numbers in the order of their paths.  Ranking scores are the numbers that
the stored rows give; ties are broken as `ORDER BY` does.  Graph walks are
recursive functions of the bounded number of hops.  `Retrieval` has the
awaited read of a file from disk as a step of its own (`Ask`, then `Read` or
`Throw`), between which the stores and the disk change.  Whether an answer is
current (`Stale`) is modelled and is no property: see section 4.

**EmbeddingController.**  `cursor` is the next batch, `workers` what each
concurrent worker waits for, `outputs` what has been stored for each item.  The
provider may answer too few, too many, repeated, unknown or wrongly sized
vectors; `Mutate` is a caller that changes the model between two answers.  After
an abort a worker still takes the next batch and does not ask for it, as in the
loop of `embed`.  What the sort of `rerankWithEmbeddings` returns is given by what
it has to be, a permutation in which no pair is the wrong way round (`Fused`), and
the sums of reciprocal ranks are compared as fractions.

**Paths, Quality, EvidenceAuthority, Policies.**  Pure functions of their
arguments, asked of one `subject` per state.  A path is a lead (`/`, `C:/`, a
scheme...) and segments, since canonicalisation never looks into a segment
except to fold its case.  The signature of a hazard has its markers one by one
and of its negations whether there is any (`quality.ts:632`).  The limits above
which `quality.ts:644-656,690,818` throw a `RangeError` are left out.

**NodeHost.**  `identities` is the file `repository.json` of each data directory,
which is created and written in two steps; `holders` are the owners of the
writer locks.  A command line is a sequence of words and flags and is parsed by
`ParseArguments` as the code does, also where that surprises.  `--checks=schema`
is a text, which `AtlasReadService.ts:294` spreads into letters and refuses; a
list comes from `--request`, a flag in JSON or a flag that is repeated
(`ChecksRefusal`, `Lists`; the last is left out).  If
`host.close()` rejects, a command that had its answer exits with 2, and the
process stays with its store until it is killed (`CloseStore`).

## 3. What the runs check

| Run | Properties | Shows |
| --- | --- | --- |
| `supervisor` | `TypeOK HeldOnce WritesExclusive AdmissionBounded NothingIdle ShutdownSettlesAll SettledOnce` | two reads, two writes, a backup and a refused call against the most general endpoint |
| `store_keyed` | `ImplementsContract` | a keyed write, its retry and a write that uses the key for something else, over two stores opened one after the other, with crashes and kills anywhere |
| `store_live` | `ImplementsSupervisor ImplementsContract EventuallySettled CloseTerminates` | a write, an indexing run and a retrieval: every accepted call settles and `close()` resolves |
| `starvation` | `WritesProgress`, violated | section 4 |
| `lock` | `LockHeld ServedLockReleased DeadOwnerReclaimed` | three stores in two processes that open one at a time, with crashes and kills anywhere |
| `lock_race` | `OneOwner`, violated | section 4 |
| `index` | `NoOrphans GraphConverges NothingPending RebuildConverges` | three runs of any mode, whole, restricted or cross-reference only, with an edit, a crash and a failed phase anywhere, without ripgrep |
| `files` | `ReadyPromises AnsweredBackupsKept NothingDiscarded StartupEnds` | three starts, two backups, a commit and a corruption, with a log beside the file, a crash between any two file operations and operations that fail |
| `watcher` | `CaughtUp ClosedForGood ComesToRest` | changes of two files and a directory, with answers in any order, calls, watchers and batches that fail, and `close()` at any moment |
| `reads` | `PagesWhole GraphAnswersSound ControlSound EmbedWhole` | a client that pages while stores and disk change; graph requests over every small graph; the budget and cache of one request; an embedding request |
| `history` | `HistoryFaithful NoLostUpdate DiffWhole CatalogueSound WitnessFaithful` | two callers that commit and leave while the file changes; maintenance of the changelog; every pair of small contents; the statements of the catalogue with crashes; witnesses |
| `services` | `RulesSound CommunitySound HostSound` | the rules of the core and of the pipeline on every small subject; the grouping of every small graph; two programs on one machine |

**The properties.**  `HeldOnce` ties the queues and the map to the states of the
promises; a path that moves or drains requests and drops one breaks it.
`NothingIdle` says that no handler returns while something could be dispatched.
`ImplementsContract` says for all calls at once what a unit test checks for one
history: a refused write never takes effect, not even later; an acknowledged one
has; of the writes under one key at most one does; only a caller who was told
"indeterminate" may be surprised.  `LockHeld` relates the worker of one store to
what all others do to the file; `ServedLockReleased` the exit of one to the file
it leaves.  `NoOrphans` looks at the tables in every state, in the middle of a
run and after a crash; `GraphConverges` and `RebuildConverges` compare the
tables after a run with the index of an empty database (`Graph`, `Users`);
`NothingPending` says that an interrupted run is taken up where it stopped.

`NothingDiscarded` follows the data through every file operation of recovery: a
database file leaves its path for the quarantine only, and the quarantine for its
path; a sound database loses no commit, its log included; and a damaged one loses
its log only while a copy that was verified lies ready, although that copy may not
be published in the end.  `ReadyPromises` says that the rows of the migrations
are those of the package and that each migration is in effect, the tolerated ones
too.  `AnsweredBackupsKept` weighs the retention
against failed and protected backups.  `CaughtUp` says what the late answers of
`stat` may not break: once all is quiet the index has the last version of each
file it was told of; `ComesToRest` that this happens.  `SearchCurrent` and
`CompleteIsCurrent`, in `CatalogueSound`, relate what a search finds and what
passes for complete to the rows, over any sequence of operations, failures and
crashes.  Of vectors it says that one finds what it was made of or nothing: an id
that is given again would make the vector that a failed delete has left find
another file.
`HistoryFaithful` compares what an endpoint resolves to with what the file was
when the entry was made, with its premises (`hasty`) spelt out; `DiffWhole` says
that the edit script has the lines of both contents at their places and that every
change is in one hunk.  `NoLostUpdate` is the optimistic check of a commit seen
from its caller: what it did not send stays as it saw it, both columns of hazards
say the same and lose none, and a retry changes nothing.  `GraphAnswersSound` compares each walk with the definition of
what it looks for: all routes, strongly connected components, the files within
a distance.  `EmbedWhole` is about workers that do not wait for each other: each item has the
output of its own batch whatever the order of the answers, and a ranking agrees
with both lists where they agree.  `RulesSound` asks the rules of the core for what they owe each
other: a canonical name stays one and comes out of every spelling; the choice of
a record does not depend on the order; two places that judge freshness agree.
It compares the symbols and edges extracted in each language with the program that
was written as a tree, the edges of a function with a run of its statements, its events
with the listeners of all files, and the reach of a symbol with the files that
name and use it.
`CommunitySound` has modularity grow with every move and every named cluster
connected.  `HostSound` says that who works in a directory works for the
repository that its identity names and holds its store, and that the exit code
is that of the answer.

**Bounds, and why they are enough.**
`supervisor`: `MaxQueued = 2` and two read slots with six requests fill every
queue and every slot; `ReadBurst = 1` reaches the burst rule with the one read
that recurs; one write can time out and no request can be aborted (cancelled
reads in flight are left to `ExclusiveWrites`, section 5).  `store_keyed`: `MaxOpens = 2` is the least with which a retry meets
what a former process committed; three requests are a write, a retry and a
clash.  `store_live`: one request of each kind of execution.  `starvation`: two
callers are the least that overlap; the read slots and `ReadBurst` have their real
values, 4.
`lock`: two stores in one process and one in another are the least with which a
store can meet the file of a living thread of its own process and of a killed
one; `MaxAcquiring` is the number of workers inside `acquireLock()` at once: with
1 the lock is sound (and proved so for any number of stores), with 2 it is not.
`index`: three files are a library, a file that may import and call it and one
that mentions it and has values flow to it; three runs are a first index, one
that is disturbed and one that follows; `MaxRuns`, `MaxEdits` and `MaxCrashes`
are conjuncts of the guards of `Begin`, `Edit` and `Crash`.
`files`: `MaxStarts = 3` is a store that was used, a start that is interrupted
and one that follows; `Retained = 1` with `MaxBackups = 2` makes the retention
choose; one commit and one corruption tell a database that has something to lose,
in its file or in its log, from one that has not; `Legacies = {1}` is a database
that has the first migration and no row of it.
`watcher`: a file of the root and one of a directory that comes and goes are the
two ways an event reaches `observePath`; two `Tasks` are the least that overtake
each other; `MaxChanges = 3` is a creation, a change and a removal.
`reads`: two stores of four files give lists longer than the largest page of the
run; every import graph of three files, with references, has all shapes of
cycle, and the seven files of the detour are the least on which the cheapest
route has more hops than the shortest; two keys with `CacheEntries = 1` evict,
`MaxLoads = 3` brings an evicted key back; four items in batches of two with two
workers are concurrent batches of which one may fail.
`history`: `MaxEntries = 3`, two seconds and days of two seconds put two entries
in one second, in two seconds of a day and in two days; `Keep = 1` prunes; five
lines of two letters give two hunks with contexts that touch.  Two paths, two
contents and `MaxIds = 3` let an id follow a deleted one.
`services`: every text of up to three segments with each lead, two records, three
hazards; functions of three statements that read and write two variables, two
files with every small table of symbols; up to 17 files that name a symbol, one
more than the limits at 1, 5, 10 and 15 need; every graph of four files, one without a record, with weights up to two,
and two triangles with a bridge, at the resolutions one and two; two launches of programs between them
(`MaxStarts` counts the launches of all), of which each serves one call at a time
and at most one (`MaxCalls`).

Components that share nothing are in one run, side by side, in states that tell
which of them moves (`mode`, `part`), so that their states add up and do not
multiply.  `history` splits the actions of `History` and `Catalogue` in the same
way: callers that write, that write hazards, that also store snapshots (one at a
time), the maintenance of what is there; contents that are compared; the tables of one file
with its full-text rows, or with its vectors; two files with their symbols and
references; and witnesses.

Deadlock is checked for the supervisor, the store and `history`.  It is not for `StoreLock`, `Indexing`, `StoreFiles`, `Watcher`,
`reads` and `services`, which stop when every store is closed, the request is
answered or the bounds are used up.

**Fairness.**  `SqliteAtlasStore`: weak fairness of the steps of the event loop
(`Loop`, `Release`), of the worker's thread, of message delivery and of the end
of `close()`, whose timer terminates the worker.  The loop of Node and the
scheduler run what is ready.  Nothing makes a caller call, an abort fire, a
worker crash or a process die.  `StoreLock`: weak fairness of each worker and
endpoint, and of the termination that `close()` forces after two seconds.
`StoreFiles`: weak fairness of `StartStep`, the straight line of statements in
`start`; crashes may end it, and their number is bounded.  `Watcher`: weak
fairness of `WatchStep` (callbacks that are due run, a timer that is set fires)
and of `BatchStep` (the awaited indexing returns).  Nothing makes a file change,
a batch fail or the user stop the watch.

## 4. Where the code and its documents disagree

`lock_race` is a run of its own because it refutes the promise on which the
whole store rests: the lock file is created and filled in two system calls, and a
file that is empty or whose pid is gone is removed with an unlink that does not
look at what it removes (`sqliteWorker.ts:123,141`).  Of two stores that acquire
at once each can remove the other's file, and both open the database.

`starvation` is the other violated run.  `src/ARCHITECTURE.md:405-406` says that
"queries cannot prevent indexing from making progress forever".  The burst counter
is looked at only when nothing is in flight (`supervisor.ts:268-269`): with the
four read slots of the code two callers whose reads overlap, each asking again when
it is answered, keep a queued write waiting for ever, while every read is answered
and every message delivered.  (With one read slot the property holds.)

The following properties are in the modules too, and TLC finds each violated
when it is put in a configuration.  The passing runs check what holds instead.

- `NoOrphan` (`StoreLock`).  The startup timer terminates the worker
  (`sqliteStore.ts:91`); the endpoint has not heard "ready" and does not clean
  up.  The file stays, with the pid of a living process: no store can open the
  database until that process ends.
- `IncrementalConverges` (`Indexing`).  `src/IMPLEMENTATION_SEQUENCE.md:113` says
  that graph rebuild and incremental updates are equivalent.  Invalidation goes
  from a changed file to the files that import it (`pipeline/index.ts:645`), but
  the cross references of a file are found in *other* files: after an edit of a
  caller the file it calls keeps its old cross references.
- `PartialConverges` (`Indexing`).  A run restricted to paths, such as every batch
  of `atlas watch`, scans all files.  `runScan` replaces the symbols of each,
  which cascades over its references, and only the requested files are parsed
  again (`pipeline/index.ts:752`).  A later run over the whole repository
  restores the others (`GraphConverges`).
- `EveryRebuildConverges` (`Indexing`).  `pipeline/crossref.ts:156` says that the
  in-process index is reused across *the* crossref run.  It is kept per source
  root for the life of the process, so without ripgrep later runs search the
  texts of the first.  `RebuildConverges` has the premise that the searched
  texts are those on disk.
- `LossReported` (`StoreFiles`).  `src/ARCHITECTURE.md:931` promises an actionable
  recovery state after interruption.  When the process dies between the two
  renames of a recovery (`sqliteWorker.ts:368`), the next start finds no database,
  makes an empty one and reports neither recovery nor loss.  The database file is in
  the quarantine (`NothingDiscarded`), without its log.
- `ClosedReleases` (`Watcher`).  A directory that two `stat` calls register at
  once has two watchers, of which the map holds one; `close()` leaves the other
  open.
- `EverythingFresh` (`Watcher`).  A file written between the `readdir` of a new
  directory and its `watch` raises no event; a `stat` or `readdir` that fails loses
  the change it was about, and a watcher that reports an error every later one of
  its directory; a batch that failed is not repeated.  `CaughtUp` has all of these
  as its premise.
- `HighlightsExact` (`MCHistory`).  The header of a hunk has the old and the new
  start the wrong way round after a hunk of another length (`diff.ts:530-531`).  A
  hunk that is not the last has a line less of context at its end
  (`diff.ts:524`), so with no lines of context, which `retrieval/engine.ts:249`
  accepts, its last change is lost.  With a line of context or more changes are
  all there (`DiffWhole`).
- `MomentsRight` (`History`).  Times are compared as texts; an endpoint in ISO
  form (`2026-01-01T...`) sorts after every row of its day, so it stands for the
  end of the day.

What else the modules show, in words:

- *Recovery.*  The log is deleted before the renames (`sqliteWorker.ts:359-361`), so
  what was committed and not yet checkpointed is lost even if the rename then fails
  and the damaged file is moved back; `src/MIGRATION_PLAN.md:318` has WAL and SHM
  preserved and inspected.  A migration that an old database has only in part is
  rolled back and recorded as applied (`db.ts:528-538`), so the rest of it never
  comes; the model has such databases with whole migrations.
- *Vectors.*  A vector that a failed delete has left takes one of the `k` places of
  a search and answers nothing.  The functions for chunk vectors in `embeddings.ts`
  select a column `kind` that `atlas_source_chunks` does not have.
- *Store.*  A locked store makes every command exit with 2, where
  `src/PUBLIC_API.md:228-230` has 4 for temporary failures.  A crash between the
  creation and the writing of `repository.json` makes every later start of that
  directory fail.  `atlas migrate` makes a backup only with the domain flag
  `--backup`, so the `--no-backup` of `src/docs/TOOLS.md:47` changes nothing.
- *Indexing.*  An error of the whole structure or flow phase is logged and passed
  over (`StructureFails`, `FlowFails`): the result does not list it, which is why
  `Rebuilt` needs `last.stored`.  `Cluster` runs under the name of the first
  selected file and takes it out of `failedFiles`.  The cross references of a run
  reach the full-text index in the rebuild at its end; a crash inside that
  rebuild leaves files without rows, and the flag says they are complete.  A
  backfill of symbols that is interrupted is never finished.
- *Flows.*  What a variable holds is recorded before the calls on the right of its
  own assignment are looked at: `x = g(x)` loses the edge to `g`, and an origin
  outlives an assignment of something else.  `FlowsFollowed` has both as premises.
  Both ends of an event are looked up as names of the file that *emits* it
  (`flow.ts:488`), so a symbol there with the handler's name is taken for the
  handler.  `Users` counts the file a value flows from as a user of the symbol it
  flows to.
- *Cross references.*  A file whose only export is `default` is given a symbol of
  that name, whose uses are every line with the word.  A symbol without stored
  uses is never called critical, since the search counts ten files at most.
- *Communities.*  Aggregation drops the weight inside a group, so at the default
  resolution groups always grow to whole components (`GroupsAreComponents`), and
  the modularity reported is that of the last graph.
- *History.*  Of rows of the same second the one inserted first is returned.  A
  commit of the service stores no snapshot, so the nearest snapshot may be one of
  another content; `Stamp` gives pending older entries the latest content
  (`hasty`).  Statistics of a diff skip lines that themselves begin with `++` or
  `--` (`Signs`).  `tools/hazardsAutoSync.ts:82-83` says how an agent clears both
  columns of hazards; a commit has no field `hazards_with_ranges`
  (`writeback/commit.ts:32-38`), so hazards can be added and never removed
  (`NoLostUpdate` says that they stay).
- *Reads.*  A record without a hash is called current whatever the disk holds
  (`retrieval/engine.ts:697,772`), and `writeback/commit.ts:229` can store one.  For
  every other record the answer says what the comparison in the same step gives, so
  there is no property of it.  A cursor is bound to the scope of its request, not to a revision as
  `src/ARCHITECTURE.md:242-245` says, so `PagesWhole` is about a store that does
  not change.  `plan_context` calls a file joined by the graph near a second hit
  a lexical match; `hotspots` cuts to the limit before it pages; `impact` of a
  symbol ignores the filters; cycles beyond `maxNodes` are missed and not
  reported as truncated.
- *Core.*  A mapping of a directory into itself (`a/a` to `a`) on a deep path is
  reported as a cycle.  Quality and evidence judge an unknown path state with
  differing hashes differently (`FreshnessAgrees` leaves it out).
- *Embedding.*  `close()` closes the provider under the batches that are under
  way, where `src/ARCHITECTURE.md:472` has a bounded drain.
- *Command line.*  A flag without `=` takes the next word, so `index --full src/a`
  indexes everything; `--full=false` is still full; `--action` overrides the
  command.  Unknown commands open the store before they fail.  The schemas of the
  MCP tools accept fields and bounds that the engine refuses.

## 5. What is proved

The theorems are of the form `Spec => []Inv` (or `[][A]_vars`) for every value
of the constants that satisfies the modules' named assumptions; those about
operators (`PlansFit`, `DiffIsWhole`, the walks through the graph) are about every
argument of the shape that is named.

| Theorem | Module | Argument |
| --- | --- | --- |
| `TypeCorrect` | `SupervisorProofs` | `TypeOK` is inductive |
| `NothingForgotten`, `ShutdownComplete` | `SupervisorProofs` | `HeldInv`: types, `HeldOnce`, `ShutdownSettlesAll` and `CloseDrains` (`pump` runs only while open; a closed supervisor queues nothing), without which the answers after `close()` could not be told from those before |
| `NoSecondOutcome` | `SupervisorProofs` | action property from `HeldInv`: no step settles what is settled, because no queue and no map names it |
| `ExclusiveWrites` | `SupervisorProofs` | `ExclusiveInv`: the in-flight map is finite and `WritesExclusive`; dispatch is the only step that adds to it |
| `NeverIdle` | `SupervisorProofs` | every handler that frees a slot or adds to a queue sets `pumping`, and `PumpDone` needs that nothing is ready |
| `QueuesBounded` | `SupervisorProofs` | `BoundedInv`: inside a handler the queues may hold one request too many, provided that one is about to be dispatched |
| `LockIsHeld`, `OneWriter` | `StoreLockProofs` | under `MaxAcquiring = 1`, for any number of stores and processes and any `Abrupt`: `LockInv` says that whoever counts on the file being its own is right (`HoldersRight`), that whoever is about to remove a lock has seen one nobody alive has written and no other has appeared since (`ReclaimRight`), and that an endpoint only cleans up after a worker that has exited (`ReadyRight`) |
| `LockGoesToo` | `StoreLockProofs` | without that assumption, since a file is created by its own store only, and once: `ReleaseInv` says that an exited worker has left its file only if its endpoint knows, or is about to be told, that it was ready, and that an endpoint which is open or closing knows it |
| `StoreIsSupervisor`, `StoreHoldsOnce` | `StoreProofs` | the refinement of `Supervisor` by the composed store: `WireTypeOK` types the two channels, and each action of the store is matched with a step of `Supervisor` or a stutter (`StepOfSupervisor`); its invariants carry over |
| `ContractKept` | `StoreProofs` | the refinement of `StoreContract`.  `Trace` follows each request from the queue to its answer: it is in one place at a time (`InOnePlace`), has left no trace while it waits (`AheadClean`, `RunningClean`), an answer on its way says what the database holds (`AnswersTrue`), and a row of the key table belongs to the write that took effect (`LedgerExact`) |
| `StoreKeepsPromises` | `StoreProofs` | `Promises` is an invariant of `StoreContract`, hence of what implements it |
| `NothingOrphaned` | `IndexingProofs` | `NoOrphans` with `InvRun` (what a run still has to do concerns files that it has scanned and that have records) and `InvDelete` (which statements of `deleteAtlasFile` have been executed) |
| `TypeCorrect` | `IndexingProofs` | the same invariant |
| `RunsConverge`, `RebuildsConverge`, `RunsTakeUpWhatIsPending` | `IndexingProofs` | for any files, texts, runs, edits, crashes and failed phases: `InvCalm` says what an undisturbed run has established at each of its phases (what was scanned is on disk, records, symbols and edges of what is done are those of an index from nothing, the rest is still to do, and the files without cross references are pending); it holds from any state of the tables that `NoOrphans` allows, so what earlier runs left does not matter.  `InvResult` carries it over to the result until the next edit or run |
| `ServesWhatItPromises`, `NothingThrownAway` | `StoreFilesProofs` | for any packages, retention and number of starts, crashes and corruptions: `Phases` says what the steps of `start()` have established when the worker is at each of them (the database exists, each recorded migration is in effect, the flag is not yet set), that a copy about to be published has been verified, and that between the two renames of a recovery the path is empty and what was there is the last of the quarantine; the second theorem is an action property from the same invariant |
| `RetentionIsSafe` | `StoreFilesProofs` | for any retention: `BackupInv` says that the backup being made is the newest (`InHand`), so that it never expires itself, is complete when others are removed, and vouches for each of them |
| `EveryChangeIndexed`, `ClosedStays` | `WatcherProofs` | for any tree, any number of tasks and of changes, with calls and watchers that fail anywhere: `NothingMissed` says of every path that was noticed and is not known as it is that somebody owes it to the index: it was handed over (pending, in the chain, in the batch), an event or an answer about it is on its way, or it went with a directory whose answer is on its way; `EventsRight` and `WatchersRight` say that events and watchers are of directories that have been there |
| `TypeCorrect` | `HistoryProofs` | `TypeOK` is inductive |
| `EndpointsAreFaithful` | `HistoryProofs` | for any files, callers, contents and any `Keep`: ids and times of entries run alike and each has its commit (`Numbered`, `Founded`); of a file that nobody wrote hastily the entries are in order of the seconds (`Paced`), and the snapshot nearest to an entry holds what the file was then (`Remembered`).  Pruning removes the oldest, of which the theorem needs that what is left is nearest to nothing else |
| `CommitsLoseNoUpdate` | `HistoryProofs` | action property: a record that has the expected version is the one the caller has seen (`SeenExpected`), the columns of hazards are in step (`InStep`), and the merge of a request into its own result is that result |
| `DiffIsWhole` | `HistoryProofs` | for any contents, any look-ahead and any number of lines of context from one on: what a walk has written down tells the lines it has passed on either side (`Faithfully`), which each round keeps, and a round passes a line at least until both contents are at their ends (`Complete`), so that the row of rounds, which exists by `StepsMakeRow`, tells both.  Lines are counted one by one (`CountStep`, `CountShift`).  A hunk is found by the rank of the change it ends with (`NthHasRank`, `NthGrows`, `NthOfRank`); between that and the next change there are more lines than two contexts, so the hunks are apart |
| `CatalogueIsSound` | `HistoryProofs` | for any finite set of paths, any records, events and number of ids: `CatalogueInv` says of the statements that are left what has to come of them (an index entry is made right after the old one has gone, a row is removed after everything derived from it, every row that is written is indexed, a rebuild stands alone: `Chained`, `Settled`, `Alone`), and of the tables what the statements before have removed (`Ready`).  Ids are unique and no larger than the last one given, so that what is derived from one row is never taken for another's, a vector that a failed delete has left included; each vector that finds nothing is one of those; `IndexCurrent` has of every stored file its document in the index, or the statement that writes it still to come.  A crash drops the statements that are left, and `indexed` with them until the next rebuild |
| `WitnessesAreFaithful` | `HistoryProofs` | for any calls of any number of instances: `WitnessInv` says that the row is that of its instance's calls, and the property is inductive with the types of what is stored.  A merge removes the one entry that has the key of the new one (`OthersAreRest`) or none (`OthersAreAll`), puts the new one first and drops at most the last, so what is left out is older than all that is shown (`MergedShows`); the confidence, a sum that is cut at every step, is the cut number of points that the calls have brought (`Points`), because no call brings less than none |
| `FollowingIsWhole` | `ServiceProofs` | for any stores, requests, limits and budgets: `ReadInv` says that what the client has got by its cursors is a beginning of the list as the stores give it now (`Chained`: up to the place where the last answer ends, which its cursor names), and that the request it continues is one the service accepts and its cursor one the service made (`Accepted`, `Genuine`).  Most of the proof is about the operators: each of the lists (search, catalog, clusters, history, audit and so on) is a row, since what it is sorted from is finite; a page, be it cut by the limit, by the character budget or by the store, is a part of that row which starts at the cursor, ends where the next one says and is empty only at the end |
| `AroundIsWhole`, `SymbolImpactIsWhole`, `TraceIsShortest` | `ServiceProofs` | for any finite set of files, any edges, depth and bound: `Going` says that the routes noted by a search lead from its start by edges, one to each file seen, the shorter ones first; that the queue is the end of them; and that of each route taken from the queue the files it leads to have a route that is longer by one at most, unless the bound is reached (`EachFollowed`).  A round keeps this (`RoundKeeps`), and there are no more rounds than files, because each takes a route from the queue and no file enters it twice (`RoutesAreFew`, `SearchEnds`).  So a search below its bound has, to the end of every route, one that is no longer (`RoutesAreFound`).  An answer is cut short where a walk was: the union of walks that is below the bound has each of them below it.  A trace by steps has a bound no walk reaches |
| `PlansFit` | `ServiceProofs` | for every action and any integers: the work asked for is clamped to a positive number, and the nodes and edges planned are quotients of it by the costs of the action |
| `ControlKeepsItsPlan` | `ServiceProofs` | for any keys, arguments and sizes: `ControlInv` says that the plan fits and is not overspent, that a cache entry names a load of its key that was made, and that a failed load is in no entry and no key in two.  Needed is what `Forget` does: the one entry that goes is that of the load that failed, and the others keep their order |
| `EmbeddingIsWhole` | `ServiceProofs` | for any items, limits, rankings and answers, in any order, with refusals, aborts and changes of the model between them: `EmbedInv` says that the batches before the cursor have been taken, each once and in their order (`AskedOnce`), that a batch which was taken is with a worker, or its items have their outputs, or the request has failed (`NothingLost`), and that an output names the batch its item is in (`Sound`).  `splitBatches` is a recursive function, shown to have a value for every number of items by counting up from none (`StepsMakeRow`, `AllNumbers`), as its batches are shown to be consecutive pieces of the request within the limits.  Where both lists have one item above another, its sum of reciprocal ranks is the larger one or the first list decides |
| `HostsKeepApart` | `ServiceProofs` | for any number of programs, command lines, calls, signals and kills: `HostInv` says of each place of a program what it has found or left in its directory (`SettledIn`; a file that is found can be blank, one that was compared or written is not), which calls and answers it can have (`ProcOk`: whoever asks once has one call and no answer before it closes; a migration has its backup left only after its health was looked at), and that a store is held by who works on it (`HeldRightly`) |

The properties were checked by TLC before they were proved.  The runs
`supervisor`, `store_keyed`, `store_live`, `lock`, `index`, `files`, `watcher`,
`history`, `reads` and `services` show them on small instances.

Assumptions: each module names those on its constants (`SupervisorAssumption`,
`LockAssumption`, `CatalogueAssumption` and so on), and the runs evaluate them.  They say
that limits are numbers and sets are what they are meant to be.
`ControllerAssumption` takes integers for the numbers of a request, which
`clampInteger` floors or replaces if they are anything else; `FailuresAssumption`
says that no failure of the store is the code of a success; `WitnessAssumption` that a
call names an interaction, an event and a time and that the two limits of a row are numbers,
the one on its evidence not zero (they are 100 and 8 in `db.ts:1121,1152`).  `Retrieval` has
three: `StoresAreFinite` (a store has finitely many files and entries and its
lines are numbers: they are rows of tables), `LinesAreNumbers` (limits, line counts
and lengths are), and `RequestsAreRequests` (a request has a family and an action,
names workspaces that exist, and has in each numeric field a positive number or
`Bad`; the client invents no cursor).  `EmbeddingAssumption` takes from the
constructor of the controller that the limits are positive and an item may not be larger
than a batch.  Beyond them
`MaxAcquiring = 1` is the hypothesis of the theorems that need it: without it the
lock is unsound (section 4).  The composed store has ids that are used once, as
`requestIdFactory` makes them; ids that recur are there for the runs of the
supervisor alone, whose theorems hold of them too.

## 6. What is only model-checked, and what is not modelled

Only model-checked: the liveness properties (`EventuallySettled`,
`CloseTerminates`, `DeadOwnerReclaimed`, `StartupEnds`, `ComesToRest`), which rest on fairness; the cycles and weighted traces of
`GraphAnswersSound` (its breadth-first walks are proved, section 5), `RulesSound` and `CommunitySound`, which compare
recursive walks, folds and choices with reference definitions over small data: what a
recursive definition computes needs an induction over the data, and several of these
modules have recursive operators.  `TypeOK` of `Indexing` and of `StoreLock`
is in the modules and not in the runs; that of `Indexing` is a theorem.

Abstracted: the text of SQL, ranking formulas and layout; the contents of
payloads; clocks (a timer may fire whenever it is set); several symbols per file;
the grammars of the languages.  External and modelled from how the code uses
them: worker threads (messages in order, exit last), the atomicity of a SQLite
transaction, the file system calls of the lock and of recovery, `fs.watch`, the
operating system that kills a process, editors that change files, the embedding
provider, the client of a session.

Not modelled:

- the legacy entry points `runFullPipeline`, `tools/reindex.ts`, `src/watcher.ts`,
  `resetAtlasDatabase`, the hourly in-process backups and the registrations in
  `tools/`, which no command of the shipped binary reaches.  What those tools
  computed is computed by `retrieval/engine.ts` now, which is modelled; where they
  differ (`tools/commit.ts` drops tags and hazard ranges) nothing observes it;
- the grammars and their parsers; `Structure` and `Flow` start from the syntax tree;
- `embeddings.ts`, which selects a column that does not exist and is not called;
- the vector tables of a start (`db.ts:322-346,540-555`): whether they work is left
  open, and a search without them answers nothing;
- flags that are given twice, which `parseArguments` makes lists of, and numbers
  among the values of flags;
- the lists beyond which `quality.ts` throws a `RangeError`;
- the schemas and the layout of the MCP answers; of the adapter only the order in
  which a call is admitted, run and answered.

## 7. Plan

The modules with state are written so that they can be proved about: constants
with named assumptions, one action per operation.  Recursive operators are kept
to `Structure`, `Flow` and the run modules, whose functions are for TLC.
Every module planned for the system is there, and every safety property of the
store, of indexing, the watcher, the history, the catalogue's tables, the read
service, the controllers and the host is a theorem.  What remains is TLC's:
the liveness properties, and the properties of recursive walks over data.
