---------------------------- MODULE WatcherProofs ----------------------------
(***************************************************************************)
(* Whatever the repository, the number of calls under way and the number   *)
(* of changes: once all is quiet, what was noticed has been indexed, and a *)
(* watcher that was closed stays so.                                       *)
(*                                                                         *)
(* CaughtUp speaks of quiet states only.  What holds in all of them is     *)
(* that a noticed change the indexer has not seen is still on its way      *)
(* (Owed): handed over, to be looked at, or part of a directory that is    *)
(* gone and about to be looked at.                                         *)
(***************************************************************************)
EXTENDS Watcher, TLAPS

Task ==
  [name : Tasks, path : Files, at : {"stat", "there", "gone"}, found : SUBSET Files]
  \cup [name : Tasks, path : Dirs, at : {"stat", "there", "gone", "readdir", "listed", "failed"}, found : SUBSET Files]

(* A watcher only reports what is in its own directory.                    *)
EventsRight ==
  \A e \in events : \/ e.path \in Files /\ e.by.dir = Parent[e.path]
                    \/ e.path \in Dirs /\ e.by.dir = Root

WatchersRight ==
  /\ DOMAIN watchers = Watched
  /\ \A d \in Watched : watchers[d] # Nothing => watchers[d].dir = d

InvType ==
  /\ disk \in [Files -> Nat] /\ inode \in [Dirs -> Nat] /\ changes \in Nat
  /\ index \in [Files -> Nat] /\ noticed \in [Files -> BOOLEAN]
  /\ pending \in SUBSET Files /\ batch \in SUBSET Files /\ chain \in Seq(SUBSET Files)
  /\ known \in SUBSET Files /\ tasks \subseteq Task
  /\ closed \in BOOLEAN

(* The path has been pushed and not indexed since.                         *)
Handed(f) == f \in pending \/ f \in batch \/ \E i \in DOMAIN chain : f \in chain[i]

(* The path has been reported, or is about to be, and observePath has not  *)
(* come to the end of it.                                                  *)
Coming(f) == (\E e \in events : e.path = f) \/ (\E t \in tasks : t.path = f)

(* The file went with its directory, and the call that will find the       *)
(* directory gone has not.                                                 *)
GoneWith(f, d) ==
  /\ f \in known /\ f \in Inside(d) /\ inode[d] = 0
  /\ \/ \E e \in events : e.path = d
     \/ \E t \in tasks : t.path = d /\ t.at # "there"

Owed(f) == Handed(f) \/ Coming(f) \/ \E d \in Dirs : GoneWith(f, d)

NothingMissed == ~closed => \A f \in Files : noticed[f] /\ index[f] # disk[f] => Owed(f)

IInv == InvType /\ EventsRight /\ WatchersRight /\ NothingMissed

LEMMA InitHolds == Init => IInv
<1> SUFFICES ASSUME Init PROVE IInv
  OBVIOUS
<1>1. InvType
  <2>1. disk \in [Files -> Nat] /\ index \in [Files -> Nat] /\ inode \in [Dirs -> Nat]
    <3>1. {0, 1} \subseteq Nat
      OBVIOUS
    <3>2. disk \in [Files -> {0, 1}] /\ inode \in [Dirs -> {0, 1}] /\ index = disk
      BY DEF Init
    <3> QED
      BY <3>1, <3>2
  <2>2. known \in SUBSET Files /\ pending \in SUBSET Files /\ batch \in SUBSET Files /\ tasks \subseteq Task
    BY DEF Init
  <2>3. chain \in Seq(SUBSET Files) /\ changes \in Nat
    BY DEF Init
  <2>4. closed \in BOOLEAN /\ noticed \in [Files -> BOOLEAN]
    BY Zenon DEF Init
  <2> QED
    BY <2>1, <2>2, <2>3, <2>4 DEF InvType
<1>2. EventsRight
  BY DEF Init, EventsRight
<1>3. WatchersRight
  BY WatcherAssumption DEF Init, WatchersRight, Watched
<1>4. NothingMissed
  BY DEF Init, NothingMissed
<1> QED
  BY <1>1, <1>2, <1>3, <1>4 DEF IInv

-----------------------------------------------------------------------------
(* What is owed stays so as long as nothing is taken away from the batcher, *)
(* the events, the tasks and the known files, and the directories stay gone.*)
LEMMA StaysOwed ==
  ASSUME NEW f \in Files, Owed(f),
         Handed(f) => Handed(f)', events \subseteq events', tasks \subseteq tasks',
         known \subseteq known', \A d \in Dirs : f \in Inside(d) /\ f \in known /\ inode[d] = 0 => inode'[d] = 0
  PROVE  Owed(f)'
<1>1. CASE Handed(f)
  BY <1>1 DEF Owed
<1>2. CASE Coming(f)
  BY <1>2 DEF Owed, Coming
<1>3. ASSUME NEW d \in Dirs, GoneWith(f, d) PROVE Owed(f)'
  BY <1>3 DEF Owed, GoneWith, Inside
<1> QED
  BY <1>1, <1>2, <1>3 DEF Owed

(* While a directory is watched, a change in it is reported.               *)
LEMMA Reported ==
  ASSUME NEW dir, NEW path, Watching(dir) # {} PROVE \E e \in Raised(dir, path) : e.path = path
<1>1. PICK w : w \in Watching(dir)
  OBVIOUS
<1>2. [by |-> w, path |-> path] \in Raised(dir, path)
  BY <1>1 DEF Raised
<1> QED
  BY <1>2

(* Files and directories change.                                           *)
LEMMA ChangeHolds == ASSUME IInv, NEW f \in Files, Write(f) \/ Unlink(f) PROVE IInv'
<1> USE DEF IInv
<1>1. InvType'
  <2>1. disk' \in [Files -> Nat]
    <3>1. disk' = [disk EXCEPT ![f] = changes + 2] \/ disk' = [disk EXCEPT ![f] = 0]
      BY DEF Write, Unlink
    <3>2. disk \in [Files -> Nat] /\ changes + 2 \in Nat
      BY DEF InvType
    <3> QED
      BY <3>1, <3>2
  <2>2. Change(f)
    BY DEF Write, Unlink
  <2>3. noticed' \in [Files -> BOOLEAN]
    BY <2>2 DEF Change, InvType
  <2> QED
    BY <2>1, <2>2, <2>3 DEF InvType, Change, batcher
<1>2. EventsRight'
  BY DEF EventsRight, Write, Unlink, Change, Raised, Watching
<1>3. WatchersRight'
  BY DEF WatchersRight, Write, Unlink, Change
<1>4. NothingMissed'
  <2> SUFFICES ASSUME ~closed, NEW g \in Files, noticed'[g], index[g] # disk'[g] PROVE Owed(g)'
    BY DEF NothingMissed, Write, Unlink, Change
  <2>1. CASE g = f
    <3>1. Watching(Parent[f]) # {}
      BY <2>1 DEF InvType, Write, Unlink, Change
    <3>2. \E e \in events' : e.path = f
      BY <3>1, Reported DEF Write, Unlink, Change
    <3> QED
      BY <2>1, <3>2 DEF Owed, Coming
  <2>2. CASE g # f
    <3>1. noticed[g] /\ index[g] # disk[g]
      BY <2>2 DEF InvType, Write, Unlink, Change
    <3>2. Owed(g)
      BY <3>1 DEF NothingMissed
    <3>3. Handed(g) => Handed(g)'
      BY DEF Write, Unlink, Change, batcher, Handed
    <3> QED
      BY <3>2, <3>3, StaysOwed DEF Write, Unlink, Change
  <2> QED
    BY <2>1, <2>2
<1> QED
  BY <1>1, <1>2, <1>3, <1>4

LEMMA MkdirHolds == ASSUME IInv, NEW d \in Dirs, Mkdir(d) PROVE IInv'
<1> USE DEF IInv
<1>1. InvType'
  <2>1. inode' \in [Dirs -> Nat]
    BY DEF InvType, Mkdir, ChangeDirectory
  <2>2. noticed' \in [Files -> BOOLEAN]
    BY Zenon DEF InvType, Mkdir
  <2> QED
    BY <2>1, <2>2 DEF InvType, Mkdir, ChangeDirectory, batcher
<1>2. EventsRight'
  BY DEF EventsRight, Mkdir, ChangeDirectory, Raised, Watching
<1>3. WatchersRight'
  BY DEF WatchersRight, Mkdir, ChangeDirectory
<1>4. NothingMissed'
  <2> SUFFICES ASSUME ~closed, NEW g \in Files, noticed'[g], index[g] # disk[g] PROVE Owed(g)'
    BY DEF NothingMissed, Mkdir, ChangeDirectory
  <2>1. noticed[g] /\ (g \in Inside(d) => g \notin known)
    BY DEF InvType, Mkdir
  <2>2. Owed(g)
    BY <2>1 DEF NothingMissed
  <2>3. Handed(g) => Handed(g)'
    BY DEF Mkdir, ChangeDirectory, batcher, Handed
  <2>4. ASSUME NEW c \in Dirs, g \in Inside(c), g \in known, inode[c] = 0 PROVE inode'[c] = 0
    BY <2>1, <2>4 DEF InvType, Mkdir
  <2> QED
    BY <2>2, <2>3, <2>4, StaysOwed DEF Mkdir, ChangeDirectory
<1> QED
  BY <1>1, <1>2, <1>3, <1>4

LEMMA MoveAwayHolds == ASSUME IInv, NEW d \in Dirs, MoveAway(d) PROVE IInv'
<1> USE DEF IInv
<1>1. InvType'
  <2>1. inode' \in [Dirs -> Nat] /\ disk' \in [Files -> Nat]
    BY DEF InvType, MoveAway, ChangeDirectory
  <2>2. noticed' \in [Files -> BOOLEAN]
    BY Zenon DEF InvType, MoveAway
  <2> QED
    BY <2>1, <2>2 DEF InvType, MoveAway, ChangeDirectory, batcher
<1>2. EventsRight'
  BY DEF EventsRight, MoveAway, ChangeDirectory, Raised, Watching
<1>3. WatchersRight'
  BY DEF WatchersRight, MoveAway, ChangeDirectory
<1>4. NothingMissed'
  <2> SUFFICES ASSUME ~closed, NEW g \in Files, noticed'[g], index[g] # disk'[g] PROVE Owed(g)'
    BY DEF NothingMissed, MoveAway, ChangeDirectory
  <2>1. noticed[g] /\ (g \in Inside(d) /\ disk[g] # 0 => g \in known /\ Watching(Root) # {})
    BY DEF InvType, MoveAway
  <2>2. CASE g \in Inside(d) /\ disk[g] # 0
    <3>1. \E e \in events' : e.path = d
      BY <2>1, <2>2, Reported DEF MoveAway, ChangeDirectory
    <3>2. inode'[d] = 0 /\ g \in known'
      BY <2>1, <2>2 DEF InvType, MoveAway, ChangeDirectory
    <3> QED
      BY <2>2, <3>1, <3>2 DEF Owed, GoneWith, Inside
  <2>3. CASE ~(g \in Inside(d) /\ disk[g] # 0)
    <3>1. disk'[g] = disk[g]
      BY <2>3 DEF InvType, MoveAway
    <3>2. Owed(g)
      BY <2>1, <3>1 DEF NothingMissed
    <3>3. Handed(g) => Handed(g)'
      BY DEF MoveAway, ChangeDirectory, batcher, Handed
    <3>4. \A c \in Dirs : inode[c] = 0 => inode'[c] = 0
      BY DEF InvType, MoveAway
    <3> QED
      BY <3>2, <3>3, <3>4, StaysOwed DEF MoveAway, ChangeDirectory
  <2> QED
    BY <2>2, <2>3
<1> QED
  BY <1>1, <1>2, <1>3, <1>4

-----------------------------------------------------------------------------
(* Batches: what leaves the pending changes is in the chain, what leaves   *)
(* the chain is in the batch, and what leaves the batch is indexed or has  *)
(* been reported as failed.                                                *)
LEMMA FlushHands == ASSUME InvType, Flush, UNCHANGED batch, NEW f \in Files, Handed(f) PROVE Handed(f)'
<1>1. CASE pending = {}
  BY <1>1 DEF Flush, Handed
<1>2. CASE pending # {}
  <2>1. /\ chain' = Append(chain, pending) /\ Len(chain) \in Nat /\ DOMAIN chain = 1..Len(chain)
        /\ DOMAIN chain' = 1..Len(chain) + 1
        /\ chain'[Len(chain) + 1] = pending /\ \A i \in 1..Len(chain) : chain'[i] = chain[i]
    BY <1>2 DEF Flush, InvType
  <2> QED
    BY <2>1 DEF Handed
<1> QED
  BY <1>1, <1>2

LEMMA NextHands == ASSUME InvType, NextBatch, NEW f \in Files, Handed(f) PROVE Handed(f)'
<1>1. /\ batch = {} /\ batch' = chain[1] /\ pending' = pending
      /\ Len(chain) \in Nat \ {0} /\ DOMAIN chain = 1..Len(chain)
      /\ DOMAIN chain' = 1..Len(chain) - 1 /\ \A i \in 1..Len(chain) - 1 : chain'[i] = chain[i + 1]
  BY DEF NextBatch, InvType
<1>2. ASSUME NEW i \in DOMAIN chain, f \in chain[i], i # 1 PROVE Handed(f)'
  <2>1. i - 1 \in DOMAIN chain' /\ chain'[i - 1] = chain[i]
    BY <1>1, <1>2
  <2> QED
    BY <1>2, <2>1 DEF Handed
<1> QED
  BY <1>1, <1>2 DEF Handed

LEMMA BatchHolds == ASSUME IInv, BatchStep PROVE IInv'
<1> USE DEF IInv
<1>1. UNCHANGED <<tree, open, watchers, events, tasks, known, pending, timer, closed>>
  BY DEF BatchStep, NextBatch, IndexFile, BatchFails
<1>2. InvType'
  <2>1. CASE NextBatch
    <3>1. chain' \in Seq(SUBSET Files) /\ batch' \in SUBSET Files
      BY <2>1 DEF NextBatch, InvType
    <3> QED
      BY <1>1, <2>1, <3>1 DEF NextBatch, InvType, tree
  <2>2. ASSUME NEW f \in Files, IndexFile(f) PROVE InvType'
    <3>1. index' \in [Files -> Nat]
      BY <2>2 DEF IndexFile, InvType
    <3> QED
      BY <1>1, <2>2, <3>1 DEF IndexFile, InvType, tree
  <2>3. CASE BatchFails
    <3>1. noticed' \in [Files -> BOOLEAN]
      BY <2>3, Zenon DEF BatchFails, InvType
    <3> QED
      BY <1>1, <2>3, <3>1 DEF BatchFails, InvType, tree
  <2> QED
    BY <2>1, <2>2, <2>3 DEF BatchStep
<1>3. EventsRight' /\ WatchersRight'
  BY <1>1 DEF EventsRight, WatchersRight
<1>4. NothingMissed'
  <2> SUFFICES ASSUME ~closed, NEW g \in Files, noticed'[g], index'[g] # disk[g] PROVE Owed(g)'
    BY <1>1 DEF NothingMissed, tree
  <2>1. noticed[g] /\ index[g] # disk[g]
    BY DEF BatchStep, NextBatch, IndexFile, BatchFails, InvType
  <2>2. Owed(g)
    BY <2>1 DEF NothingMissed
  <2>3. Handed(g) => Handed(g)'
    <3>1. ASSUME NEW f \in Files, IndexFile(f) PROVE Handed(g) => Handed(g)'
      <4>1. g # f
        BY <3>1 DEF IndexFile, InvType
      <4> QED
        BY <3>1, <4>1 DEF IndexFile, Handed
    <3>2. CASE BatchFails
      BY <3>2 DEF BatchFails, Handed, InvType
    <3> QED
      BY <3>1, <3>2, NextHands DEF BatchStep
  <2> QED
    BY <1>1, <2>2, <2>3, StaysOwed DEF tree
<1> QED
  BY <1>2, <1>3, <1>4

LEMMA TimerHolds == ASSUME IInv, TimerFires PROVE IInv'
<1> USE DEF IInv
<1>1. UNCHANGED <<tree, open, watchers, events, tasks, known, batch, closed, index, noticed>> /\ Flush
  BY DEF TimerFires
<1>2. InvType'
  <2>1. chain' \in Seq(SUBSET Files)
    BY <1>1 DEF Flush, InvType
  <2> QED
    BY <1>1, <2>1 DEF Flush, InvType, tree
<1>3. EventsRight' /\ WatchersRight'
  BY <1>1 DEF EventsRight, WatchersRight
<1>4. NothingMissed'
  <2> SUFFICES ASSUME ~closed, NEW g \in Files, noticed[g], index[g] # disk[g] PROVE Owed(g)'
    BY <1>1 DEF NothingMissed, tree
  <2>1. Owed(g)
    BY DEF NothingMissed
  <2>2. Handed(g) => Handed(g)'
    BY <1>1, FlushHands
  <2> QED
    BY <1>1, <2>1, <2>2, StaysOwed DEF tree
<1> QED
  BY <1>2, <1>3, <1>4

LEMMA CloseHolds == ASSUME IInv, Close PROVE IInv'
<1> USE DEF IInv
<1>1. chain' \in Seq(SUBSET Files)
  BY DEF Close, Flush, InvType
<1>2. InvType'
  BY <1>1 DEF Close, Flush, InvType, tree
<1>3. EventsRight' /\ WatchersRight' /\ NothingMissed'
  BY DEF Close, EventsRight, WatchersRight, NothingMissed
<1> QED
  BY <1>2, <1>3

-----------------------------------------------------------------------------
(* Calls of observePath and registerDirectory.                             *)

(* What a push makes of the pending paths.                                 *)
LEMMA Pushed ==
  ASSUME InvType, ~closed, NEW paths \in SUBSET Files, Push(paths)
  PROVE  pending' = pending \cup paths
BY DEF Push, InvType

LEMMA PushTyped ==
  ASSUME InvType, NEW paths \in SUBSET Files, Push(paths)
  PROVE  pending' \in SUBSET Files
BY DEF Push, InvType

(* When a call ends, or goes on under another name, what was owed because  *)
(* of it has to be looked at and nothing else.                             *)
LEMMA TaskLeaves ==
  ASSUME NEW g \in Files, Owed(g), NEW t \in tasks, UNCHANGED inode,
         Handed(g) => Handed(g)', events \subseteq events', known \subseteq known', tasks \ {t} \subseteq tasks',
         t.path = g => Owed(g)',
         \A d \in Dirs : t.path = d /\ t.at # "there" /\ g \in Inside(d) /\ g \in known /\ inode[d] = 0 => Owed(g)'
  PROVE  Owed(g)'
<1>1. CASE Handed(g)
  BY <1>1 DEF Owed
<1>2. CASE Coming(g)
  BY <1>2 DEF Owed, Coming
<1>3. ASSUME NEW d \in Dirs, GoneWith(g, d) PROVE Owed(g)'
  <2>1. CASE \E e \in events : e.path = d
    BY <1>3, <2>1 DEF Owed, GoneWith, Inside
  <2>2. ASSUME NEW u \in tasks, u.path = d, u.at # "there" PROVE Owed(g)'
    <3>1. CASE u = t
      BY <1>3, <2>2, <3>1 DEF GoneWith
    <3>2. CASE u # t
      BY <1>3, <2>2, <3>2 DEF Owed, GoneWith, Inside
    <3> QED
      BY <3>1, <3>2
  <2> QED
    BY <1>3, <2>1, <2>2 DEF GoneWith
<1> QED
  BY <1>1, <1>2, <1>3 DEF Owed

LEMMA ReportHolds == ASSUME IInv, NEW e \in events, NEW n \in Tasks, Report(e, n) PROVE IInv'
<1> DEFINE u == [name |-> n, path |-> e.path, at |-> "stat", found |-> {}]
<1> USE DEF IInv
<1>1. UNCHANGED <<tree, open, watchers, known, batcher, closed, index, noticed>> /\ events' = events \ {e}
  BY DEF Report
<1>2. tasks' = IF closed THEN tasks ELSE tasks \cup {u}
  BY DEF Report
<1>3. u \in Task
  BY DEF EventsRight, Task
<1>4. InvType'
  BY <1>1, <1>2, <1>3 DEF InvType, tree, batcher
<1>5. EventsRight' /\ WatchersRight'
  BY <1>1 DEF EventsRight, WatchersRight
<1>6. NothingMissed'
  <2> SUFFICES ASSUME ~closed, NEW g \in Files, noticed[g], index[g] # disk[g] PROVE Owed(g)'
    BY <1>1 DEF NothingMissed, tree
  <2>1. Owed(g) /\ u \in tasks' /\ tasks \subseteq tasks' /\ u.path = e.path /\ u.at = "stat"
    BY <1>2 DEF NothingMissed
  <2>2. CASE Handed(g)
    BY <1>1, <2>2 DEF Owed, Handed, batcher
  <2>3. CASE Coming(g)
    BY <1>1, <2>1, <2>3 DEF Owed, Coming
  <2>4. ASSUME NEW d \in Dirs, GoneWith(g, d) PROVE Owed(g)'
    BY <1>1, <2>1, <2>4 DEF Owed, GoneWith, Inside, tree
  <2> QED
    BY <2>1, <2>2, <2>3, <2>4 DEF Owed
<1> QED
  BY <1>4, <1>5, <1>6

LEMMA AnswerHolds == ASSUME IInv, NEW t \in tasks, Answer(t) PROVE IInv'
<1> USE DEF IInv
<1>1. UNCHANGED <<tree, open, watchers, events, known, batcher, closed, index, noticed>>
  BY DEF Answer
<1>2. PICK u \in Task :
        /\ tasks' = (tasks \ {t}) \cup {u} /\ u.path = t.path
        /\ t.path \in Dirs /\ t.at # "there" /\ inode[t.path] = 0 => u.at # "there"
  <2>1. CASE t.at = "stat"
    <3>1. [t EXCEPT !.at = IF Exists(t.path) THEN "there" ELSE "gone"] \in Task
      BY <2>1, ZenonT(60) DEF InvType, Task
    <3> QED
      BY <2>1, <3>1 DEF Answer, Exists, InvType, Task
  <2>2. CASE t.at = "readdir"
    <3>1. [t EXCEPT !.at = IF Exists(t.path) THEN "listed" ELSE "failed",
                    !.found = {f \in Inside(t.path) : disk[f] # 0}] \in Task
      BY <2>2, ZenonT(60) DEF InvType, Task, Inside
    <3> QED
      BY <2>2, <3>1 DEF Answer, InvType, Task
  <2> QED
    BY <2>1, <2>2 DEF Answer
<1>3. InvType'
  BY <1>1, <1>2 DEF InvType, tree, batcher
<1>4. EventsRight' /\ WatchersRight'
  BY <1>1 DEF EventsRight, WatchersRight
<1>5. NothingMissed'
  <2> SUFFICES ASSUME ~closed, NEW g \in Files, noticed[g], index[g] # disk[g] PROVE Owed(g)'
    BY <1>1 DEF NothingMissed, tree
  <2>1. Owed(g)
    BY DEF NothingMissed
  <2>2. Handed(g) => Handed(g)'
    BY <1>1 DEF Handed, batcher
  <2>3. t.path = g => Owed(g)'
    BY <1>2 DEF Owed, Coming
  <2>4. ASSUME NEW d \in Dirs, t.path = d, t.at # "there", g \in Inside(d), g \in known, inode[d] = 0 PROVE Owed(g)'
    BY <1>1, <1>2, <2>4 DEF Owed, GoneWith, Inside, tree
  <2> QED
    BY <1>1, <1>2, <2>1, <2>2, <2>3, <2>4, TaskLeaves DEF tree
<1> QED
  BY <1>3, <1>4, <1>5

LEMMA FoundFileHolds == ASSUME IInv, NEW t \in tasks, FoundFile(t) PROVE IInv'
<1> USE DEF IInv
<1>1. /\ UNCHANGED <<tree, open, watchers, events, chain, batch, closed, index, noticed>>
      /\ tasks' = tasks \ {t} /\ known' = known \cup {t.path} /\ Push({t.path}) /\ t.path \in Files
  BY DEF FoundFile
<1>2. InvType'
  <2>1. pending' \in SUBSET Files
    BY <1>1, PushTyped
  <2> QED
    BY <1>1, <2>1 DEF InvType, tree
<1>3. EventsRight' /\ WatchersRight'
  BY <1>1 DEF EventsRight, WatchersRight
<1>4. NothingMissed'
  <2> SUFFICES ASSUME ~closed, NEW g \in Files, noticed[g], index[g] # disk[g] PROVE Owed(g)'
    BY <1>1 DEF NothingMissed, tree
  <2>1. Owed(g)
    BY DEF NothingMissed
  <2>2. pending' = pending \cup {t.path}
    BY <1>1, Pushed
  <2>3. (Handed(g) => Handed(g)') /\ (t.path = g => Owed(g)')
    BY <1>1, <2>2 DEF Handed, Owed
  <2>4. t.path \notin Dirs
    BY <1>1, WatcherAssumption DEF WatcherAssumption
  <2> QED
    BY <1>1, <2>1, <2>3, <2>4, TaskLeaves DEF tree
<1> QED
  BY <1>2, <1>3, <1>4

LEMMA FoundDirectoryHolds == ASSUME IInv, NEW t \in tasks, FoundDirectory(t) PROVE IInv'
<1> USE DEF IInv
<1>1. /\ UNCHANGED <<tree, open, watchers, events, known, batcher, closed, index, noticed>>
      /\ t.at = "there" /\ t.path \in Dirs /\ tasks \ {t} \subseteq tasks'
      /\ tasks' \subseteq tasks \cup {[t EXCEPT !.at = "readdir"]}
  BY DEF FoundDirectory
<1>2. InvType'
  <2>1. t \in Task /\ t.path \notin Files
    BY <1>1, WatcherAssumption DEF WatcherAssumption, InvType
  <2>2. t \in [name : Tasks, path : Dirs, at : {"stat", "there", "gone", "readdir", "listed", "failed"},
               found : SUBSET Files]
    BY <2>1 DEF Task
  <2>3. [t EXCEPT !.at = "readdir"] \in Task
    BY <2>2 DEF Task
  <2> QED
    BY <1>1, <2>3 DEF InvType, tree, batcher
<1>3. EventsRight' /\ WatchersRight'
  BY <1>1 DEF EventsRight, WatchersRight
<1>4. NothingMissed'
  <2> SUFFICES ASSUME ~closed, NEW g \in Files, noticed[g], index[g] # disk[g] PROVE Owed(g)'
    BY <1>1 DEF NothingMissed, tree
  <2>1. Owed(g)
    BY DEF NothingMissed
  <2>2. Handed(g) => Handed(g)'
    BY <1>1 DEF Handed, batcher
  <2>3. t.path # g
    BY <1>1, WatcherAssumption DEF WatcherAssumption
  <2> QED
    BY <1>1, <2>1, <2>2, <2>3, TaskLeaves DEF tree
<1> QED
  BY <1>2, <1>3, <1>4

LEMMA RegisterHolds == ASSUME IInv, NEW t \in tasks, Register(t) PROVE IInv'
<1> USE DEF IInv
<1>1. /\ UNCHANGED <<tree, events, chain, batch, closed, index, noticed>>
      /\ tasks' = tasks \ {t} /\ known' = known \cup t.found /\ Push(t.found) /\ t.at = "listed"
  BY DEF Register
<1>2. t.path \in Dirs /\ t.found \in SUBSET Files
  BY <1>1 DEF InvType, Task
<1>3. InvType'
  <2>1. pending' \in SUBSET Files
    BY <1>1, <1>2, PushTyped
  <2> QED
    BY <1>1, <1>2, <2>1 DEF InvType, tree
<1>4. EventsRight'
  BY <1>1 DEF EventsRight
<1>5. WatchersRight'
  <2>1. CASE closed
    BY <1>1, <2>1 DEF Register, WatchersRight
  <2>2. CASE ~closed
    BY <1>1, <1>2, <2>2 DEF Register, WatchersRight, Watched
  <2> QED
    BY <2>1, <2>2
<1>6. NothingMissed'
  <2> SUFFICES ASSUME ~closed, NEW g \in Files, noticed[g], index[g] # disk[g] PROVE Owed(g)'
    BY <1>1 DEF NothingMissed, tree
  <2>1. Owed(g)
    BY DEF NothingMissed
  <2>2. pending' = pending \cup t.found
    BY <1>1, <1>2, Pushed
  <2>3. Handed(g) => Handed(g)'
    BY <1>1, <2>2 DEF Handed
  <2>4. t.path # g /\ inode[t.path] # 0
    BY <1>2, WatcherAssumption DEF WatcherAssumption, Register, Exists
  <2> QED
    BY <1>1, <2>1, <2>3, <2>4, TaskLeaves DEF tree
<1> QED
  BY <1>3, <1>4, <1>5, <1>6

(* A path that is gone: all that is known of it is pushed, and the watcher *)
(* that is closed with it had nothing to report but of files in it.        *)
LEMMA FoundGoneHolds == ASSUME IInv, NEW t \in tasks, FoundGone(t) PROVE IInv'
<1> DEFINE old == IF t.path \in Dirs THEN {watchers[t.path]} \ {Nothing} ELSE {}
           D == Deleted(t.path)
<1> USE DEF IInv
<1>1. /\ UNCHANGED <<tree, chain, batch, closed, index>>
      /\ tasks' = tasks \ {t} /\ known' = known \ D /\ Push(D \cup t.found)
      /\ open' = open \ old /\ events' = {e \in events : e.by \notin old}
      /\ watchers' = [d \in Watched |-> IF watchers[d] \in old THEN Nothing ELSE watchers[d]]
      /\ noticed' = [f \in Files |-> noticed[f] /\ (f \in Under(t.path) /\ old # {} => f \in known /\ ~Exists(t.path))]
  BY DEF FoundGone
<1>2. t.path \in Files \cup Dirs /\ t.found \in SUBSET Files /\ D \in SUBSET Files
  BY DEF InvType, Task, Deleted, Under, Inside
<1>3. \A w \in old : t.path \in Dirs /\ w.dir = t.path
  BY DEF WatchersRight, Watched
<1>4. InvType'
  <2>1. pending' \in SUBSET Files
    BY <1>1, <1>2, PushTyped
  <2>2. noticed' \in [Files -> BOOLEAN]
    BY <1>1, Zenon DEF InvType
  <2> QED
    BY <1>1, <2>1, <2>2 DEF InvType, tree
<1>5. EventsRight'
  BY <1>1 DEF EventsRight
<1>6. WatchersRight'
  BY <1>1 DEF WatchersRight
<1>7. NothingMissed'
  <2> SUFFICES ASSUME ~closed, NEW g \in Files, noticed'[g], index[g] # disk[g] PROVE Owed(g)'
    BY <1>1 DEF NothingMissed, tree
  <2>1. noticed[g] /\ (g \in Under(t.path) /\ old # {} => g \in known)
    BY <1>1
  <2>2. Owed(g)
    BY <2>1 DEF NothingMissed
  <2>3. pending' = pending \cup D \cup t.found
    BY <1>1, <1>2, Pushed
  <2>4. CASE g \in D
    BY <2>3, <2>4 DEF Owed, Handed
  <2>5. CASE g \notin D
    <3>1. t.path # g /\ (t.path \in Dirs => g \notin known \cap Inside(t.path)) /\ (g \in known => g \in known')
      BY <1>1, <2>5, WatcherAssumption DEF WatcherAssumption, Deleted, Under
    <3>2. CASE Handed(g)
      BY <1>1, <2>3, <3>2 DEF Owed, Handed
    <3>3. ASSUME NEW e \in events, e.path = g PROVE Owed(g)'
      <4>1. e.by.dir = Parent[g]
        BY <3>3, WatcherAssumption DEF WatcherAssumption, EventsRight
      <4>2. e.by \notin old
        BY <1>3, <2>1, <3>1, <4>1 DEF Under, Inside
      <4> QED
        BY <1>1, <3>3, <4>2 DEF Owed, Coming
    <3>4. ASSUME NEW u \in tasks, u.path = g PROVE Owed(g)'
      BY <1>1, <3>1, <3>4 DEF Owed, Coming
    <3>5. ASSUME NEW d \in Dirs, GoneWith(g, d) PROVE Owed(g)'
      <4>1. d # t.path /\ g \in known' /\ inode'[d] = 0 /\ g \in Inside(d)
        BY <1>1, <3>1, <3>5 DEF GoneWith, tree
      <4>2. ASSUME NEW e \in events, e.path = d PROVE e \in events'
        <5>1. e.by.dir = Root
          BY <4>2, WatcherAssumption DEF WatcherAssumption, EventsRight
        <5> QED
          BY <1>1, <1>3, <5>1, WatcherAssumption DEF WatcherAssumption
      <4>3. \A u \in tasks : u.path = d => u \in tasks'
        BY <1>1, <4>1
      <4>4. GoneWith(g, d)'
        BY <3>5, <4>1, <4>2, <4>3 DEF GoneWith, Inside
      <4> QED
        BY <4>4 DEF Owed
    <3> QED
      BY <2>2, <3>2, <3>3, <3>4, <3>5 DEF Owed, Coming
  <2> QED
    BY <2>4, <2>5
<1> QED
  BY <1>4, <1>5, <1>6, <1>7

(* A call that fails takes what was noticed of its path with it.           *)
LEMMA CallFailsHolds == ASSUME IInv, NEW t \in tasks, CallFails(t) PROVE IInv'
<1> USE DEF IInv
<1>1. /\ UNCHANGED <<tree, open, watchers, events, chain, batch, closed, index>>
      /\ tasks' = tasks \ {t} /\ known' = known \cup t.found /\ Push(t.found)
      /\ noticed' = [f \in Files |-> noticed[f] /\ (f \in Under(t.path) => t.at = "listed")]
  BY DEF CallFails
<1>2. t.path \in Files \cup Dirs /\ t.found \in SUBSET Files
  BY DEF InvType, Task
<1>3. InvType'
  <2>1. pending' \in SUBSET Files
    BY <1>1, <1>2, PushTyped
  <2>2. noticed' \in [Files -> BOOLEAN]
    BY <1>1, Zenon DEF InvType
  <2> QED
    BY <1>1, <1>2, <2>1, <2>2 DEF InvType, tree
<1>4. EventsRight' /\ WatchersRight'
  BY <1>1 DEF EventsRight, WatchersRight
<1>5. NothingMissed'
  <2> SUFFICES ASSUME ~closed, NEW g \in Files, noticed'[g], index[g] # disk[g] PROVE Owed(g)'
    BY <1>1 DEF NothingMissed, tree
  <2>1. noticed[g] /\ (g \in Under(t.path) => t.at = "listed")
    BY <1>1
  <2>2. Owed(g)
    BY <2>1 DEF NothingMissed
  <2>3. pending' = pending \cup t.found
    BY <1>1, <1>2, Pushed
  <2>4. Handed(g) => Handed(g)'
    BY <1>1, <2>3 DEF Handed
  <2>5. t.at = "listed" => t.path \in Dirs /\ inode[t.path] # 0
    BY DEF CallFails, Exists, InvType, Task
  <2>6. t.path # g
    BY <1>2, <2>1, <2>5, WatcherAssumption DEF WatcherAssumption, Under
  <2>7. ASSUME NEW d \in Dirs, t.path = d, g \in Inside(d), inode[d] = 0 PROVE FALSE
    BY <2>1, <2>5, <2>7 DEF Under
  <2> QED
    BY <1>1, <2>2, <2>4, <2>6, <2>7, TaskLeaves DEF tree
<1> QED
  BY <1>3, <1>4, <1>5

LEMMA WatcherFailsHolds == ASSUME IInv, NEW w \in open, WatcherFails(w) PROVE IInv'
<1> DEFINE lost == {e \in events : e.by = w}
<1> USE DEF IInv
<1>1. /\ UNCHANGED <<tree, tasks, known, batcher, closed, index>>
      /\ events' = events \ lost /\ watchers' = [watchers EXCEPT ![w.dir] = Nothing]
      /\ noticed' = [f \in Files |-> noticed[f] /\ \A e \in lost : f \notin Under(e.path)]
  BY DEF WatcherFails
<1>2. InvType'
  <2>1. noticed' \in [Files -> BOOLEAN]
    BY <1>1, Zenon DEF InvType
  <2> QED
    BY <1>1, <2>1 DEF InvType, tree, batcher
<1>3. EventsRight' /\ WatchersRight'
  BY <1>1 DEF EventsRight, WatchersRight
<1>4. NothingMissed'
  <2> SUFFICES ASSUME ~closed, NEW g \in Files, noticed'[g], index[g] # disk[g] PROVE Owed(g)'
    BY <1>1 DEF NothingMissed, tree
  <2>1. noticed[g] /\ \A e \in lost : g \notin Under(e.path)
    BY <1>1
  <2>2. Owed(g)
    BY <2>1 DEF NothingMissed
  <2>3. CASE Handed(g)
    BY <1>1, <2>3 DEF Owed, Handed, batcher
  <2>4. ASSUME NEW e \in events, e.path = g PROVE Owed(g)'
    <3>1. g \in Under(e.path)
      BY <2>4, WatcherAssumption DEF WatcherAssumption, Under
    <3> QED
      BY <1>1, <2>1, <2>4, <3>1 DEF Owed, Coming
  <2>5. ASSUME NEW u \in tasks, u.path = g PROVE Owed(g)'
    BY <1>1, <2>5 DEF Owed, Coming
  <2>6. ASSUME NEW d \in Dirs, GoneWith(g, d) PROVE Owed(g)'
    <3>1. ASSUME NEW e \in events, e.path = d PROVE e \in events'
      BY <1>1, <2>1, <2>6, <3>1 DEF GoneWith, Under
    <3>2. GoneWith(g, d)'
      BY <1>1, <2>6, <3>1 DEF GoneWith, Inside, tree
    <3> QED
      BY <3>2 DEF Owed
  <2> QED
    BY <2>2, <2>3, <2>4, <2>5, <2>6 DEF Owed, Coming
<1> QED
  BY <1>2, <1>3, <1>4

LEMMA StepHolds == IInv /\ [Next]_vars => IInv'
<1> SUFFICES ASSUME IInv, [Next]_vars PROVE IInv'
  OBVIOUS
<1>1. CASE TreeStep
  BY <1>1, ChangeHolds, MkdirHolds, MoveAwayHolds DEF TreeStep
<1>2. CASE WatchStep
  BY <1>2, ReportHolds, AnswerHolds, FoundFileHolds, FoundDirectoryHolds, RegisterHolds, FoundGoneHolds, CallFailsHolds,
     TimerHolds DEF WatchStep
<1>3. CASE BatchStep
  BY <1>3, BatchHolds
<1>4. CASE (\E w \in open : WatcherFails(w)) \/ Close
  BY <1>4, WatcherFailsHolds, CloseHolds
<1>5. CASE UNCHANGED vars
  BY <1>5 DEF vars, tree, batcher, IInv, InvType, EventsRight, WatchersRight, NothingMissed, Owed, Handed, Coming, GoneWith
<1> QED
  BY <1>1, <1>2, <1>3, <1>4, <1>5 DEF Next

(* In whatever order stat and readdir answer, and however batches and      *)
(* changes overlap: once all is quiet the index has the last version of    *)
(* every file whose last change was noticed (observePath, runWatch).       *)
THEOREM EveryChangeIndexed == Spec => []CaughtUp
<1>1. IInv => CaughtUp
  BY DEF IInv, NothingMissed, Owed, Handed, Coming, GoneWith, CaughtUp, Quiet, InvType
<1> QED
  BY <1>1, InitHolds, StepHolds, PTL DEF Spec

-----------------------------------------------------------------------------
(* A close is for good: every callback looks at closed before it pushes or *)
(* registers (watchAtlasRepository, AtlasWatchBatcher.push).               *)
THEOREM ClosedStays == Spec => []ClosedForGood
<1>1. Init => ClosedForGood
  BY DEF Init, ClosedForGood
<1>2. ClosedForGood /\ [Next]_vars => ClosedForGood'
  <2> SUFFICES ASSUME ClosedForGood, [Next]_vars, closed' PROVE ClosedForGood'
    BY DEF ClosedForGood
  <2>1. CASE Close
    BY <2>1 DEF Close, Flush, ClosedForGood
  <2>2. CASE TreeStep
    BY <2>2 DEF TreeStep, Write, Unlink, Mkdir, MoveAway, Change, ChangeDirectory, batcher, ClosedForGood
  <2>3. CASE BatchStep
    BY <2>3 DEF BatchStep, NextBatch, IndexFile, BatchFails, ClosedForGood
  <2>4. CASE WatchStep
    <3>1. CASE TimerFires
      BY <3>1 DEF TimerFires, Flush, ClosedForGood
    <3>2. ASSUME NEW e \in events, NEW n \in Tasks, Report(e, n) PROVE ClosedForGood'
      BY <3>2 DEF Report, batcher, ClosedForGood
    <3>3. ASSUME NEW t \in tasks, Answer(t) \/ FoundFile(t) \/ FoundDirectory(t) \/ Register(t) PROVE ClosedForGood'
      BY <3>3 DEF Answer, FoundFile, FoundDirectory, Register, Push, batcher, ClosedForGood
    <3>4. ASSUME NEW t \in tasks, FoundGone(t) \/ CallFails(t) PROVE ClosedForGood'
      BY <3>4 DEF FoundGone, CallFails, Push, ClosedForGood
    <3> QED
      BY <2>4, <3>1, <3>2, <3>3, <3>4 DEF WatchStep
  <2>5. ASSUME NEW w \in open, WatcherFails(w) PROVE ClosedForGood'
    BY <2>5 DEF WatcherFails, batcher, ClosedForGood
  <2>6. CASE UNCHANGED vars
    BY <2>6 DEF vars, batcher, ClosedForGood
  <2> QED
    BY <2>1, <2>2, <2>3, <2>4, <2>5, <2>6 DEF Next
<1> QED
  BY <1>1, <1>2, PTL DEF Spec
=============================================================================
