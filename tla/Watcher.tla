------------------------------ MODULE Watcher -------------------------------
(* atlas watch: watchAtlasRepository and AtlasWatchBatcher turn the events *)
(* of fs.watch into batches of changed paths (indexing/watcher.ts), and    *)
(* runWatch hands each batch to the indexer (server.ts).  Callbacks of the *)
(* event loop are atomic up to their first await; what a stat or a readdir *)
(* has found may be out of date when its continuation runs, and two calls  *)
(* may answer in any order.                                                *)
EXTENDS Integers, Sequences, FiniteSets

CONSTANTS
  Nothing,
  Root, Dirs,    \* the repository and the directories in it
  Files,         \* the files that are neither ignored nor of another type
  Parent,        \* the directory of a file
  BatchesFail,   \* whether the indexer may answer with an error
  WatchesFail,   \* whether a watcher may report an error
  Tasks,         \* names for calls of observePath that are under way
  MaxChanges

VARIABLES
  disk,          \* the version of each file, 0 when there is none
  inode,         \* the identity of each directory, 0 when there is none
  open,          \* the watchers that have been opened and not closed
  watchers,      \* the watcher registered for each directory, or Nothing
  events,        \* what the watchers are about to report
  tasks,         \* the calls of observePath and registerDirectory under way
  known,         \* knownFiles
  pending, timer, chain, batch, closed,   \* the batcher
  index,         \* the version of each file that the indexer has seen last
  noticed,       \* whether the last change of a file has raised an event
  changes        \* how many changes there have been

tree == <<disk, inode, changes>>
batcher == <<pending, timer, chain, batch>>
vars == <<tree, open, watchers, events, tasks, known, batcher, closed, index, noticed>>

WatcherAssumption ==
  /\ Root \notin Dirs \cup Files /\ Files \cap Dirs = {} /\ Parent \in [Files -> Dirs \cup {Root}]
  /\ BatchesFail \in BOOLEAN /\ WatchesFail \in BOOLEAN /\ MaxChanges \in Nat
ASSUME WatcherAssumption

Watched == Dirs \cup {Root}

Inside(dir) == {f \in Files : Parent[f] = dir}

(* canonicalFilePath of a path that has disappeared is a prefix of those   *)
(* of the files that were in it.                                           *)
Under(path) == IF path \in Dirs THEN Inside(path) ELSE {path}

Identity(dir) == IF dir = Root THEN 1 ELSE inode[dir]

(* A watcher reports what happens to the directory it was opened on, not   *)
(* to one that has taken its place.                                        *)
Watching(dir) == {w \in open : w.dir = dir /\ w.inode = Identity(dir)}

Raised(dir, path) == {[by |-> w, path |-> path] : w \in Watching(dir)}

(* Nothing has changed since the repository was indexed and its            *)
(* directories were registered.                                            *)
Init ==
  /\ disk \in [Files -> {0, 1}] /\ inode \in [Dirs -> {0, 1}]
  /\ \A f \in Files : Parent[f] \in Dirs /\ inode[Parent[f]] = 0 => disk[f] = 0
  /\ open = {[dir |-> d, inode |-> 1, task |-> Nothing] : d \in {Root} \cup {d \in Dirs : inode[d] = 1}}
  /\ watchers = [d \in Watched |-> IF d = Root \/ inode[d] = 1
                                   THEN [dir |-> d, inode |-> 1, task |-> Nothing] ELSE Nothing]
  /\ events = {} /\ tasks = {} /\ known = {f \in Files : disk[f] # 0}
  /\ pending = {} /\ timer = FALSE /\ chain = <<>> /\ batch = {} /\ closed = FALSE
  /\ index = disk /\ noticed = [f \in Files |-> TRUE] /\ changes = 0

(* What a change of a file raises: without a watcher on its directory it   *)
(* goes unnoticed.                                                         *)
Change(f) ==
  /\ changes < MaxChanges /\ changes' = changes + 1
  /\ events' = events \cup Raised(Parent[f], f)
  /\ noticed' = [noticed EXCEPT ![f] = Watching(Parent[f]) # {}]
  /\ UNCHANGED <<inode, open, watchers, tasks, known, batcher, closed, index>>

(* What a change of a directory raises.                                    *)
ChangeDirectory(d) ==
  /\ changes < MaxChanges /\ changes' = changes + 1
  /\ events' = events \cup Raised(Root, d)
  /\ UNCHANGED <<open, watchers, tasks, known, batcher, closed, index>>

Write(f) ==
  /\ Parent[f] \in Dirs => inode[Parent[f]] # 0
  /\ Change(f)
  /\ disk' = [disk EXCEPT ![f] = changes + 2]

Unlink(f) ==
  /\ disk[f] # 0
  /\ Change(f)
  /\ disk' = [disk EXCEPT ![f] = 0]

(* A directory made in the place of one whose disappearance has not been    *)
(* handled yet is taken for the one before: it has an entry in watchers, or *)
(* its files are among the known ones.                                      *)
Mkdir(d) ==
  /\ inode[d] = 0
  /\ ChangeDirectory(d)
  /\ inode' = [inode EXCEPT ![d] = changes + 2] /\ UNCHANGED disk
  /\ noticed' = [f \in Files |-> noticed[f] /\ (f \in Inside(d) => watchers[d] = Nothing /\ f \notin known)]

(* The directory is moved out of the repository with all that is in it;    *)
(* only of the files that are known will anybody say that they are gone,   *)
(* and only if the repository itself is still watched.                     *)
MoveAway(d) ==
  /\ inode[d] # 0
  /\ ChangeDirectory(d)
  /\ inode' = [inode EXCEPT ![d] = 0]
  /\ disk' = [f \in Files |-> IF f \in Inside(d) THEN 0 ELSE disk[f]]
  /\ noticed' = [f \in Files |-> noticed[f] /\ (f \in Inside(d) /\ disk[f] # 0 =>
                                                  f \in known /\ Watching(Root) # {})]

(* Mutant: a change pushed while a batch is under way is taken for part of it. *)
MutantPush(paths) ==
  IF closed \/ paths = {} \/ batch # {} THEN UNCHANGED <<pending, timer>>
  ELSE pending' = pending \cup paths /\ timer' = TRUE

(* AtlasWatchBatcher.push: the last kind of change of a path counts, but   *)
(* only the paths are handed over.  Every push sets the timer anew.        *)
Push(paths) ==
  IF closed \/ paths = {} THEN UNCHANGED <<pending, timer>>
  ELSE pending' = pending \cup paths /\ timer' = TRUE

(* A watcher's callback calls observePath, which asks for the metadata.    *)
Report(e, n) ==
  /\ e \in events /\ \A t \in tasks : t.name # n
  /\ events' = events \ {e}
  /\ tasks' = IF closed THEN tasks
              ELSE tasks \cup {[name |-> n, path |-> e.path, at |-> "stat", found |-> {}]}
  /\ UNCHANGED <<tree, open, watchers, known, batcher, closed, index, noticed>>

Exists(path) == IF path \in Dirs THEN inode[path] # 0 ELSE disk[path] # 0

(* The file system answers: stat says whether the path is there, readdir   *)
(* what is in it.                                                          *)
Answer(t) ==
  /\ t \in tasks
  /\ \/ /\ t.at = "stat"
        /\ tasks' = (tasks \ {t}) \cup {[t EXCEPT !.at = IF Exists(t.path) THEN "there" ELSE "gone"]}
     \/ /\ t.at = "readdir"
        /\ tasks' = (tasks \ {t}) \cup {[t EXCEPT !.at = IF Exists(t.path) THEN "listed" ELSE "failed",
                                                   !.found = {f \in Inside(t.path) : disk[f] # 0}]}
  /\ UNCHANGED <<tree, open, watchers, events, known, batcher, closed, index, noticed>>

(* observePath goes on with a file that is there.                          *)
FoundFile(t) ==
  /\ t \in tasks /\ t.at = "there" /\ t.path \in Files
  /\ tasks' = tasks \ {t}
  /\ known' = known \cup {t.path}
  /\ Push({t.path})
  /\ UNCHANGED <<tree, open, watchers, events, chain, batch, closed, index, noticed>>

(* registerDirectory returns at once for a directory that has an entry.    *)
FoundDirectory(t) ==
  /\ t \in tasks /\ t.at = "there" /\ t.path \in Dirs
  /\ tasks' = (tasks \ {t}) \cup
              IF closed \/ watchers[t.path] # Nothing THEN {} ELSE {[t EXCEPT !.at = "readdir"]}
  /\ UNCHANGED <<tree, open, watchers, events, known, batcher, closed, index, noticed>>

(* Mutant: registerDirectory does not look at closed again after readdir.  *)
MutantRegister(t) ==
  LET w == [dir |-> t.path, inode |-> inode[t.path], task |-> t.name] IN
  /\ t \in tasks /\ t.at = "listed" /\ Exists(t.path)
  /\ tasks' = tasks \ {t}
  /\ known' = known \cup t.found
  /\ Push(t.found)
  /\ open' = open \cup {w} /\ watchers' = [watchers EXCEPT ![t.path] = w]
  /\ UNCHANGED <<tree, events, chain, batch, closed, index, noticed>>

(* registerDirectory goes on after readdir: every file is pushed, and the  *)
(* directory is watched from now on.                                       *)
Register(t) ==
  LET w == [dir |-> t.path, inode |-> inode[t.path], task |-> t.name] IN
  /\ t \in tasks /\ t.at = "listed" /\ (closed \/ Exists(t.path))
  /\ tasks' = tasks \ {t}
  /\ known' = known \cup t.found
  /\ Push(t.found)
  /\ IF closed THEN UNCHANGED <<open, watchers>>
     ELSE open' = open \cup {w} /\ watchers' = [watchers EXCEPT ![t.path] = w]
  /\ UNCHANGED <<tree, events, chain, batch, closed, index, noticed>>

(* observePath goes on with a path that is gone, whether stat, readdir or  *)
(* fs.watch has said so: what was known of it is deleted, and the watcher  *)
(* of a directory is closed, and what it has not reported yet is lost, even *)
(* if the directory is back by now and the watcher is a new one.           *)
Deleted(path) ==
  LET gone == known \cap Under(path)
  IN  IF gone = {} /\ path \in Files THEN {path} ELSE gone

FoundGone(t) ==
  LET old == IF t.path \in Dirs THEN {watchers[t.path]} \ {Nothing} ELSE {} IN
  /\ t \in tasks
  /\ t.at \in {"gone", "failed"} \/ (t.at = "listed" /\ ~closed /\ ~Exists(t.path))
  /\ tasks' = tasks \ {t}
  /\ known' = known \ Deleted(t.path)
  /\ Push(Deleted(t.path) \cup t.found)
  /\ open' = open \ old
  /\ events' = {e \in events : e.by \notin old}
  /\ watchers' = [d \in Watched |-> IF watchers[d] \in old THEN Nothing ELSE watchers[d]]
  /\ noticed' = [f \in Files |-> noticed[f] /\ (f \in Under(t.path) /\ old # {} =>
                                                  f \in known /\ ~Exists(t.path))]
  /\ UNCHANGED <<tree, chain, batch, closed, index>>

(* stat, readdir or fs.watch fails with something else than ENOENT (too    *)
(* many open files, too many watches): observePath drops the call without  *)
(* a word.  What readdir had found by then has been pushed.                *)
CallFails(t) ==
  /\ t \in tasks
  /\ t.at \in {"stat", "readdir"} \/ (t.at = "listed" /\ ~closed /\ Exists(t.path))
  /\ tasks' = tasks \ {t}
  /\ known' = known \cup t.found
  /\ Push(t.found)
  /\ noticed' = [f \in Files |-> noticed[f] /\ (f \in Under(t.path) => t.at = "listed")]
  /\ UNCHANGED <<tree, open, watchers, events, chain, batch, closed, index>>

(* A watcher reports an error: it is closed with what it was about to      *)
(* report, and the entry of its directory is deleted, whichever watcher it *)
(* holds.  Nothing opens another one until the directory is reported again.*)
WatcherFails(w) ==
  LET lost == {e \in events : e.by = w} IN
  /\ WatchesFail /\ w \in open /\ open' = open \ {w}
  /\ watchers' = [watchers EXCEPT ![w.dir] = Nothing]
  /\ events' = events \ lost
  /\ noticed' = [f \in Files |-> noticed[f] /\ \A e \in lost : f \notin Under(e.path)]
  /\ UNCHANGED <<tree, tasks, known, batcher, closed, index>>

(* flush: the pending changes become a batch at the end of the chain.      *)
Flush ==
  /\ timer' = FALSE /\ pending' = {}
  /\ chain' = IF pending = {} THEN chain ELSE Append(chain, pending)

TimerFires ==
  /\ timer /\ Flush
  /\ UNCHANGED <<tree, open, watchers, events, tasks, known, batch, closed, index, noticed>>

(* The chain hands one batch after the other to onBatch, which asks the    *)
(* service to index the paths.                                             *)
NextBatch ==
  /\ batch = {} /\ chain # <<>>
  /\ batch' = Head(chain) /\ chain' = Tail(chain)
  /\ UNCHANGED <<tree, open, watchers, events, tasks, known, pending, timer, closed, index, noticed>>

IndexFile(f) ==
  /\ f \in batch
  /\ index' = [index EXCEPT ![f] = disk[f]] /\ batch' = batch \ {f}
  /\ UNCHANGED <<tree, open, watchers, events, tasks, known, pending, timer, chain, closed, noticed>>

(* Mutant: a batch that failed goes to the end of the chain.               *)
MutantBatchFails ==
  /\ BatchesFail /\ batch # {}
  /\ batch' = {} /\ chain' = Append(chain, batch)
  /\ noticed' = [f \in Files |-> f \notin batch /\ noticed[f]]
  /\ UNCHANGED <<tree, open, watchers, events, tasks, known, pending, timer, closed, index>>

(* An error is written to stderr, and the batch is not repeated.           *)
BatchFails ==
  /\ BatchesFail /\ batch # {}
  /\ batch' = {}
  /\ noticed' = [f \in Files |-> f \notin batch /\ noticed[f]]
  /\ UNCHANGED <<tree, open, watchers, events, tasks, known, pending, timer, chain, closed, index>>

(* close() of the repository's watcher: every registered watcher is        *)
(* closed, then the batcher flushes what is pending.                       *)
Close ==
  /\ ~closed /\ closed' = TRUE
  /\ open' = open \ {watchers[d] : d \in Watched}
  /\ watchers' = [d \in Watched |-> Nothing]
  /\ events' = {e \in events : e.by \in open'}
  /\ Flush
  /\ UNCHANGED <<tree, tasks, known, batch, index, noticed>>

TreeStep ==
  \/ \E f \in Files : Write(f) \/ Unlink(f)
  \/ \E d \in Dirs : Mkdir(d) \/ MoveAway(d)

WatchStep ==
  \/ \E e \in events, n \in Tasks : Report(e, n)
  \/ \E t \in tasks : \/ Answer(t) \/ FoundFile(t) \/ FoundDirectory(t)
                      \/ Register(t) \/ FoundGone(t) \/ CallFails(t)
  \/ TimerFires

BatchStep == NextBatch \/ (\E f \in Files : IndexFile(f)) \/ BatchFails

Next == TreeStep \/ WatchStep \/ BatchStep \/ (\E w \in open : WatcherFails(w)) \/ Close

Spec == Init /\ [][Next]_vars /\ WF_vars(WatchStep) /\ WF_vars(BatchStep)

TypeOK ==
  /\ known \cup pending \cup batch \subseteq Files
  /\ \A i \in DOMAIN chain : chain[i] # {} /\ chain[i] \subseteq Files
  /\ \A t, u \in tasks : t.name = u.name => t = u
  /\ \A d \in Watched : watchers[d] # Nothing => watchers[d] \in open /\ watchers[d].dir = d
  /\ \A e \in events : e.by \in open
  /\ timer = (pending # {})

(* Nothing is left to do, for the watcher, the batcher or the indexer.     *)
Quiet == events = {} /\ tasks = {} /\ pending = {} /\ chain = <<>> /\ batch = {}

(* In whatever order the answers of stat come, and whatever changes while  *)
(* a batch waits or is indexed: once all is quiet the index has the last   *)
(* version of every file whose last change raised an event that reached    *)
(* observePath and its answer, and was not reported as failed.             *)
CaughtUp == Quiet /\ ~closed => \A f \in Files : noticed[f] => index[f] = disk[f]

(* close() accepts nothing more and leaves nothing behind: what had been   *)
(* pushed is in the chain, what comes later is dropped, no directory is    *)
(* registered again.                                                       *)
ClosedForGood == closed => pending = {} /\ ~timer /\ \A d \in Watched : watchers[d] = Nothing

(* When the repository stops changing, the watcher comes to rest: neither  *)
(* the timer that is set again by every push nor the chain of batches nor  *)
(* a failed batch keeps a change from being handed over.                   *)
ComesToRest == <>[]Quiet

(* ARCHITECTURE.md:128 has the application release its watchers: after     *)
(* close() none is open (watchAtlasRepository).  Not so of a directory     *)
(* that two stat calls registered at once.                                 *)
ClosedReleases == closed => open = {}

(* IMPLEMENTATION_SEQUENCE.md:100 ports watch behavior and freshness: the  *)
(* index of a quiet repository is that of its files.  Not so of a change   *)
(* between the readdir of a new directory and its watcher, nor of a batch  *)
(* that failed.                                                            *)
EverythingFresh ==
  Quiet /\ ~closed => \A f \in Files : index[f] = disk[f]
=============================================================================
