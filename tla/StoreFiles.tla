----------------------------- MODULE StoreFiles -----------------------------
(* The files of a store: the database, its backups and what recovery sets  *)
(* aside.  The worker (persistence/sqliteWorker.ts) opens the database,    *)
(* applies the packaged migrations (db.ts), verifies what it has opened,   *)
(* recovers from a backup when that is corrupt, and creates backups.  Each *)
(* action is one file operation or one transaction; the process may die    *)
(* between any two.  The worker owns the writer lock throughout (StoreLock *)
(* is about that), so there is one worker.  SQLite keeps what is committed *)
(* in a log beside the database (journal_mode = WAL) until a checkpoint    *)
(* moves it into the database file.                                        *)
EXTENDS Integers, Sequences, FiniteSets

CONSTANTS
  Nothing,
  Packages,      \* what migrations/ may hold when a store is started: sequences of texts
  Legacies,      \* how many migrations a database may have that was made before
                 \* there was a table of them
  Retained,      \* how many backups the retention keeps, 5 in the code
  FileFaults,    \* whether a statement or a file operation may fail
  MaxStarts, MaxCommits, MaxBackups, MaxCorruptions

VARIABLES
  primary,       \* what a reader of the database sees, or Nothing
  file,          \* the same without the log: what the database file itself holds
  backups,       \* the files of backupDir
  quarantine,    \* the databases that recovery has renamed, in that order
  staged,        \* the copy that recovery is about to publish, or Nothing
  worker,        \* what start() or createBackup() is doing
  acked,         \* the backups whose creation has been answered
  served,        \* how many commits the last store that was ready held
  spent          \* how much of the bounds is used up

vars == <<primary, file, backups, quarantine, staged, worker, acked, served, spent>>

Texts == UNION {{p[m] : m \in 1..Len(p)} : p \in Packages}

(* data counts the commits a database holds and schema the migrations that *)
(* have had their effect; history are the rows of atlas_schema_migrations, *)
(* each with the text whose checksum it records, or Nothing; indexed and   *)
(* flag say whether the full-text index is complete, and is recorded to be.*)
Image ==
  [data : Nat, schema : Nat, history : Seq({Nothing} \cup Texts), indexed : BOOLEAN,
   flag : BOOLEAN, whole : BOOLEAN]

StoreFilesAssumption ==
  /\ Retained \in Nat \ {0}
  /\ FileFaults \in BOOLEAN
  /\ Packages \subseteq Seq(Texts) /\ Legacies \subseteq Nat
  /\ Nothing \notin Texts \cup Image
ASSUME StoreFilesAssumption

Legacy(schema) == [data |-> 0, schema |-> schema, history |-> <<>>, indexed |-> FALSE,
                   flag |-> FALSE, whole |-> TRUE]

Empty == Legacy(0)

(* A backup's number stands for the time stamp its name begins with;       *)
(* guarded for the marker _protected_ in its name.                         *)
Newer(b, c) == b.number > c.number

Newest(b, files) == \A c \in files \ {b} : Newer(b, c)

Rank(b, files) == Cardinality({c \in files : Newer(c, b)})

(* Mutant: protected backups expire like the others.                       *)
MutantUnguarded == {b \in backups : Rank(b, backups) >= Retained}

Expired == {b \in backups : ~b.guarded /\ Rank(b, {c \in backups : ~c.guarded}) >= Retained}

Down == [at |-> "down", package |-> <<>>, recovered |-> FALSE, untried |-> {}, backup |-> Nothing,
         moved |-> FALSE]

At(place) == worker.at = place

Goto(place) == worker' = [worker EXCEPT !.at = place]

Init ==
  /\ primary \in {Nothing} \cup {Legacy(schema) : schema \in Legacies} /\ file = primary
  /\ backups = {} /\ quarantine = <<>> /\ staged = Nothing
  /\ worker = Down /\ acked = {} /\ served = 0
  /\ spent = [starts |-> 0, commits |-> 0, backups |-> 0, corruptions |-> 0]

Start(package) ==
  /\ At("down") /\ spent.starts < MaxStarts
  /\ worker' = [Down EXCEPT !.at = "open", !.package = package]
  /\ spent' = [spent EXCEPT !.starts = @ + 1]
  /\ UNCHANGED <<primary, file, backups, quarantine, staged, acked, served>>

(* SQLite moves the log into the file when a commit has made it too long   *)
(* (what start() writes does not), and when the database is closed, unless *)
(* that fails.                                                             *)
Checkpoint ==
  /\ At("ready") /\ file # primary
  /\ file' = primary
  /\ UNCHANGED <<primary, backups, quarantine, staged, worker, acked, served, spent>>

Closing == file' \in {primary} \cup (IF FileFaults THEN {file} ELSE {})

(* start(): an error that looks like corruption leads to recovery, once;   *)
(* any other is answered with startup-error and the worker exits.          *)
FoundCorrupt ==
  /\ worker' = IF worker.recovered THEN Down
               ELSE [worker EXCEPT !.at = "recover", !.untried = backups]
  /\ UNCHANGED <<primary, backups, quarantine, staged, acked, served, spent>>

StartFails ==
  /\ FileFaults /\ worker.at \in {"open", "migrate", "verify", "recover", "sidecars"}
  /\ worker' = Down /\ staged' = Nothing
  /\ UNCHANGED <<primary, file, backups, quarantine, acked, served, spent>>

(* openAtlasDatabase: SQLite creates the file when there is none, and may  *)
(* or may not notice at once that one is damaged.                          *)
Open ==
  /\ At("open")
  /\ \/ /\ primary' = IF primary = Nothing THEN Empty ELSE primary
        /\ file' = IF primary = Nothing THEN Empty ELSE file
        /\ Goto("migrate")
        /\ UNCHANGED <<backups, quarantine, staged, acked, served, spent>>
     \/ /\ primary # Nothing /\ ~primary.whole
        /\ FoundCorrupt /\ UNCHANGED file

(* A migration whose effects are there already fails, and is rolled back;  *)
(* its row is stored all the same.                                         *)
Migrated(schema, m) == IF schema < m THEN m ELSE schema

(* A migration and its row are one transaction; the row has no checksum    *)
(* yet.  A file whose name is among the rows is passed over, whatever it   *)
(* says now.  What follows the last one, of the vector tables and of the   *)
(* symbols, is caught and logged whatever comes of it.                     *)
Migrate ==
  /\ At("migrate")
  /\ \/ LET m == Len(primary.history) + 1 IN
        /\ m <= Len(worker.package)
        /\ primary' = [primary EXCEPT !.history = Append(@, Nothing), !.schema = Migrated(@, m)]
        /\ UNCHANGED <<file, backups, quarantine, staged, worker, acked, served, spent>>
     \/ /\ Len(primary.history) >= Len(worker.package)
        /\ Goto(IF primary.flag THEN "verify" ELSE "clear")
        /\ UNCHANGED <<primary, file, backups, quarantine, staged, acked, served, spent>>
     \/ ~primary.whole /\ FoundCorrupt /\ UNCHANGED file

(* rebuildFts empties the full-text index and fills it again; the flag     *)
(* that this has been done is stored last.  An error is only logged.       *)
RebuildFts ==
  /\ \/ At("clear") /\ primary' = [primary EXCEPT !.indexed = FALSE] /\ Goto("fill")
     \/ At("fill") /\ primary' = [primary EXCEPT !.indexed = TRUE] /\ Goto("flag")
     \/ At("flag") /\ primary' = [primary EXCEPT !.flag = TRUE] /\ Goto("verify")
     \/ FileFaults /\ worker.at \in {"clear", "fill"} /\ Goto("verify") /\ UNCHANGED primary
  /\ UNCHANGED <<file, backups, quarantine, staged, acked, served, spent>>

(* Mutant: the checksums are not compared.                                 *)
MutantAgrees(history, package) == Len(history) = Len(package)

(* verifyAndRecordMigrations: no row that the package does not have, none  *)
(* with another checksum.                                                  *)
Agrees(history, package) ==
  /\ Len(history) = Len(package)
  /\ \A m \in 1..Len(history) : history[m] \in {Nothing, package[m]}

Recorded(history, package) ==
  [m \in 1..Len(history) |-> IF history[m] = Nothing THEN package[m] ELSE history[m]]

(* The database is closed before it is recovered or given up.              *)
Verify ==
  /\ At("verify")
  /\ IF ~primary.whole THEN FoundCorrupt /\ Closing
     ELSE /\ IF Agrees(primary.history, worker.package)
             THEN /\ primary' = [primary EXCEPT !.history = Recorded(@, worker.package)]
                  /\ Goto("ready") /\ UNCHANGED file
                  /\ served' = IF worker.recovered THEN primary.data ELSE served
             ELSE UNCHANGED <<primary, served>> /\ worker' = Down /\ Closing
          /\ UNCHANGED <<backups, quarantine, staged, acked, spent>>

Commit ==
  /\ At("ready") /\ primary.whole /\ spent.commits < MaxCommits
  /\ primary' = [primary EXCEPT !.data = @ + 1]
  /\ spent' = [spent EXCEPT !.commits = @ + 1] /\ served' = primary.data + 1
  /\ UNCHANGED <<file, backups, quarantine, staged, worker, acked>>

Close ==
  /\ At("ready")
  /\ worker' = Down /\ Closing
  /\ UNCHANGED <<primary, backups, quarantine, staged, acked, served, spent>>

(* createBackup: VACUUM INTO writes the file under its final name, so that *)
(* it is in the directory, incomplete, from the start.                     *)
CreateBackup(guarded) ==
  LET b == [number |-> spent.backups + 1, guarded |-> guarded,
            image |-> [primary EXCEPT !.whole = FALSE]] IN
  /\ At("ready") /\ spent.backups < MaxBackups
  /\ backups' = backups \cup {b}
  /\ worker' = [worker EXCEPT !.at = "vacuum", !.backup = b]
  /\ spent' = [spent EXCEPT !.backups = @ + 1]
  /\ UNCHANGED <<primary, file, quarantine, staged, acked, served>>

Vacuum ==
  LET b == [worker.backup EXCEPT !.image = primary] IN
  /\ At("vacuum")
  /\ backups' = (backups \ {worker.backup}) \cup {b}
  /\ worker' = [worker EXCEPT !.at = "check", !.backup = b]
  /\ UNCHANGED <<primary, file, quarantine, staged, acked, served, spent>>

(* VACUUM INTO throws: what it has written stays.                          *)
VacuumFails ==
  /\ FileFaults /\ At("vacuum")
  /\ worker' = [worker EXCEPT !.at = "ready", !.backup = Nothing]
  /\ UNCHANGED <<primary, file, backups, quarantine, staged, acked, served, spent>>

CheckBackup ==
  /\ At("check")
  /\ IF worker.backup.image.whole
     THEN Goto("prune") /\ UNCHANGED backups
     ELSE /\ backups' = backups \ {worker.backup}
          /\ worker' = [worker EXCEPT !.at = "ready", !.backup = Nothing]
  /\ UNCHANGED <<primary, file, quarantine, staged, acked, served, spent>>

(* The expired files are removed one after the other, then the backup is   *)
(* answered.                                                               *)
Prune ==
  /\ At("prune")
  /\ IF Expired # {}
     THEN /\ \E b \in Expired : Newest(b, Expired) /\ backups' = backups \ {b}
          /\ UNCHANGED <<worker, acked>>
     ELSE /\ acked' = acked \cup {worker.backup}
          /\ worker' = [worker EXCEPT !.at = "ready", !.backup = Nothing]
          /\ UNCHANGED backups
  /\ UNCHANGED <<primary, file, quarantine, staged, served, spent>>

(* Mutant: a backup that was no good is tried again.                       *)
MutantLeft(b) == worker.untried

(* recoverLatestBackup tries the backups from the newest on: one that does *)
(* not verify is passed over, one that does is copied beside the database. *)
Left(b) == worker.untried \ {b}

Try ==
  /\ At("recover")
  /\ \/ worker.untried = {} /\ worker' = Down /\ UNCHANGED staged
     \/ \E b \in worker.untried :
          /\ Newest(b, worker.untried)
          /\ IF b.image.whole
             THEN /\ worker' = [worker EXCEPT !.untried = Left(b), !.at = "copied"]
                  /\ \E whole \in {TRUE, ~FileFaults} : staged' = [b.image EXCEPT !.whole = whole]
             ELSE worker' = [worker EXCEPT !.untried = Left(b)] /\ UNCHANGED staged
  /\ UNCHANGED <<primary, file, backups, quarantine, acked, served, spent>>

CheckCopy ==
  /\ At("copied")
  /\ IF staged.whole THEN Goto("sidecars") /\ UNCHANGED staged
     ELSE Goto("recover") /\ staged' = Nothing
  /\ UNCHANGED <<primary, file, backups, quarantine, acked, served, spent>>

(* The log is removed, with what only it has.                              *)
RemoveSidecars ==
  /\ At("sidecars")
  /\ primary' = file
  /\ Goto("quarantine")
  /\ UNCHANGED <<file, backups, quarantine, staged, acked, served, spent>>

(* Mutant: the copy is renamed over the corrupt database.                  *)
MutantSetAside == quarantine

SetAside == Append(quarantine, file)

Quarantine ==
  /\ At("quarantine")
  /\ quarantine' = IF file = Nothing THEN quarantine ELSE SetAside
  /\ worker' = [worker EXCEPT !.at = "publish", !.moved = file # Nothing]
  /\ primary' = Nothing /\ file' = Nothing
  /\ UNCHANGED <<backups, staged, acked, served, spent>>

Publish ==
  /\ At("publish")
  /\ primary' = staged /\ file' = staged /\ staged' = Nothing
  /\ worker' = [worker EXCEPT !.at = "open", !.recovered = TRUE, !.untried = {}, !.moved = FALSE]
  /\ UNCHANGED <<backups, quarantine, acked, served, spent>>

(* A rename throws: the copy is removed and the database, if it has been   *)
(* moved, is moved back, without its log; that may fail, too.              *)
RenameFails ==
  /\ FileFaults /\ worker.at \in {"quarantine", "publish"}
  /\ \/ UNCHANGED <<primary, file, quarantine>>
     \/ /\ worker.moved
        /\ file' = quarantine[Len(quarantine)] /\ primary' = file'
        /\ quarantine' = SubSeq(quarantine, 1, Len(quarantine) - 1)
  /\ staged' = Nothing /\ worker' = Down
  /\ UNCHANGED <<backups, acked, served, spent>>

Crash ==
  /\ ~At("down")
  /\ worker' = Down /\ staged' = Nothing
  /\ UNCHANGED <<primary, file, backups, quarantine, acked, served, spent>>

(* The file is damaged, and so is what a reader finds in it.               *)
Corrupt ==
  /\ primary # Nothing /\ primary.whole /\ spent.corruptions < MaxCorruptions
  /\ primary' = [primary EXCEPT !.whole = FALSE] /\ file' = [file EXCEPT !.whole = FALSE]
  /\ spent' = [spent EXCEPT !.corruptions = @ + 1]
  /\ UNCHANGED <<backups, quarantine, staged, worker, acked, served>>

StartStep ==
  \/ Open \/ Migrate \/ RebuildFts \/ Verify \/ StartFails
  \/ Try \/ CheckCopy \/ RemoveSidecars \/ Quarantine \/ Publish \/ RenameFails

BackupStep == Vacuum \/ VacuumFails \/ CheckBackup \/ Prune

Next ==
  \/ \E package \in Packages : Start(package)
  \/ StartStep
  \/ Commit \/ Close \/ \E guarded \in BOOLEAN : CreateBackup(guarded)
  \/ BackupStep
  \/ Checkpoint \/ Crash \/ Corrupt

Spec == Init /\ [][Next]_vars /\ WF_vars(StartStep)

Serving == worker.at \in {"ready", "vacuum", "check", "prune"}

TypeOK ==
  /\ primary # Nothing => /\ primary.data \in 0..MaxCommits
                         /\ \A m \in 1..Len(primary.history) :
                              \E p \in Packages : m <= Len(p) /\ primary.history[m] \in {Nothing, p[m]}
  /\ (staged # Nothing) = (worker.at \in {"copied", "sidecars", "quarantine", "publish"})
  /\ \A b, c \in backups : b.number = c.number => b = c
  /\ worker.backup # Nothing => worker.backup \in backups /\ Serving

(* Whatever crashes, corruptions, packages and databases from before the   *)
(* history came before, a store that serves has the history of its package *)
(* with every checksum recorded and equal and every migration in effect,   *)
(* and a complete full-text index if the flag says so (openAndVerify).  Of *)
(* the vector tables nothing is promised: whoever cannot make them warns.  *)
ReadyPromises ==
  Serving => /\ primary # Nothing
             /\ primary.history = worker.package /\ primary.schema >= Len(worker.package)
             /\ primary.flag => primary.indexed

(* Failed and interrupted backups are files of the directory and count for *)
(* the retention: it must still never remove a protected backup that was   *)
(* answered, nor leave an answered one without a complete file that is at  *)
(* least as new (createBackup).                                            *)
AnsweredBackupsKept ==
  \A b \in acked : \/ b \in backups
                   \/ ~b.guarded /\ \E c \in backups : c.image.whole /\ Newer(c, b)

(* A database file leaves its path only for the quarantine, and one in the *)
(* quarantine only for its path (recoverLatestBackup).                     *)
FileKept ==
  /\ file # Nothing => \/ file' # Nothing /\ file'.data >= file.data
                       \/ \E i \in DOMAIN quarantine' : quarantine'[i] = file
  /\ \A i \in DOMAIN quarantine :
       \/ \E j \in DOMAIN quarantine' : quarantine'[j] = quarantine[i]
       \/ file' = quarantine[i]

(* The log is not kept: recovery removes it.  But a sound database loses   *)
(* no commit, and a damaged one only with a verified copy beside it.       *)
LogKept ==
  /\ primary # Nothing /\ primary.whole => primary' # Nothing /\ primary'.data >= primary.data
  /\ primary # Nothing => \/ primary' # Nothing /\ primary'.data >= primary.data
                          \/ staged # Nothing /\ staged.whole

Kept == FileKept /\ LogKept

NothingDiscarded == [][Kept]_vars

(* start() comes to an end, whatever it finds in the backup directory.     *)
StartupEnds == ~At("down") ~> (At("down") \/ Serving)

(* ARCHITECTURE.md:931 has the store own an "actionable recovery state     *)
(* after interruption": one that says ready, and not recovered, still has  *)
(* what the store before it had (start, recoverLatestBackup).  Not so when *)
(* the process died between the renames of a recovery.                     *)
LossReported == Serving /\ ~worker.recovered => primary # Nothing /\ primary.data >= served
=============================================================================
