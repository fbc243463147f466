-------------------------- MODULE StoreFilesProofs ---------------------------
(***************************************************************************)
(* Whatever the packages, the retention, the number of starts, backups and *)
(* corruptions and the places of the crashes: a store that serves is what  *)
(* its package says, recovery never throws a database file away, nor the   *)
(* log of a sound one, and the retention keeps what was answered.          *)
(*                                                                         *)
(* They rest on where the worker is (Phases): what the steps of start()    *)
(* have established so far, and which of the database and the quarantine   *)
(* holds the data while recovery renames; and that the file never has more *)
(* than a reader of it and its log sees (LogOf).                           *)
(***************************************************************************)
EXTENDS StoreFiles, FiniteSetTheorems, TLAPS

(* A database of which neither the flag nor the history says more than is  *)
(* so.                                                                     *)
Database == {d \in Image : (d.flag => d.indexed) /\ d.schema >= Len(d.history)}

Backup == [number : Nat, guarded : BOOLEAN, image : Database]

Served == {"ready", "vacuum", "check", "prune"}

Rebuilding == {"clear", "fill", "flag"}

Recovering == {"recover", "copied", "sidecars", "quarantine"}

Places == {"down", "open", "migrate", "verify", "publish"} \cup Recovering \cup Rebuilding \cup Served

Worker ==
  [at : Places, package : Seq(Texts), recovered : BOOLEAN,
   untried : SUBSET Backup, backup : {Nothing} \cup Backup, moved : BOOLEAN]

Spent == [starts : Nat, commits : Nat, backups : Nat, corruptions : Nat]

InvType ==
  /\ primary \in {Nothing} \cup Database /\ file \in {Nothing} \cup Database
  /\ staged \in {Nothing} \cup Database
  /\ backups \in SUBSET Backup /\ quarantine \in Seq(Database)
  /\ worker \in Worker /\ spent \in Spent

LogOf(seen, alone) ==
  \/ seen = Nothing /\ alone = Nothing
  \/ seen # Nothing /\ alone # Nothing /\ alone.data <= seen.data /\ alone.whole = seen.whole

Phases ==
  /\ worker.at \in {"migrate", "verify"} \cup Rebuilding \cup Served => primary # Nothing
  /\ worker.at \in Rebuilding => ~primary.flag
  /\ worker.at = "flag" => primary.indexed
  /\ worker.at \in Served => primary.history = worker.package
  /\ worker.at \in {"vacuum", "check", "prune"} => worker.backup \in Backup
  /\ worker.at \in Recovering => primary # Nothing /\ ~primary.whole
  /\ worker.at \in {"copied", "sidecars", "quarantine"} => staged # Nothing
  /\ worker.at \in {"sidecars", "quarantine"} => staged.whole
  /\ worker.at = "publish" => primary = Nothing
  /\ worker.moved => worker.at = "publish" /\ Len(quarantine) > 0

IInv == InvType /\ LogOf(primary, file) /\ Phases

LEMMA NotNothing == \A d \in Image : d # Nothing
BY StoreFilesAssumption DEF StoreFilesAssumption

LEMMA LegacyTyped ==
  /\ \A schema \in Legacies : Legacy(schema) \in Database
  /\ Empty \in Database /\ Empty # Nothing /\ Legacies \subseteq Nat
<1>1. \A schema \in Nat : Legacy(schema) \in Image
  BY DEF Legacy, Image
<1>2. \A schema \in Nat : Legacy(schema) \in Database
  <2> SUFFICES ASSUME NEW schema \in Nat PROVE Legacy(schema) \in Database
    OBVIOUS
  <2>1. Legacy(schema).history = <<>> /\ ~Legacy(schema).flag /\ Legacy(schema).schema = schema
    BY DEF Legacy
  <2>2. Len(Legacy(schema).history) = 0
    BY <2>1
  <2> QED
    BY <1>1, <2>1, <2>2 DEF Database
<1> QED
  BY <1>1, <1>2, NotNothing, StoreFilesAssumption DEF Empty, StoreFilesAssumption

LEMMA InitHolds == Init => IInv
<1> SUFFICES ASSUME Init PROVE IInv
  OBVIOUS
<1>0. primary \in {Nothing} \cup Database
  BY LegacyTyped DEF Init
<1>1. worker \in Worker
  BY DEF Init, Down, Worker, Places
<1>2. InvType
  BY <1>0, <1>1 DEF Init, InvType, Spent
<1>3. Phases
  BY DEF Init, Phases, Down, Rebuilding, Recovering, Served
<1>4. LogOf(primary, file)
  BY <1>0, NotNothing DEF Init, LogOf, Database, Image
<1> QED
  BY <1>2, <1>3, <1>4 DEF IInv

(* The worker that has ended is a worker.                                  *)
LEMMA DownTyped == Down \in Worker /\ Down.at = "down" /\ ~Down.moved
BY DEF Down, Worker, Places

LEMMA Gone ==
  ASSUME NEW at \in Places, worker \in Worker
  PROVE  /\ [worker EXCEPT !.at = at] \in Worker
         /\ [worker EXCEPT !.at = at].at = at
         /\ [worker EXCEPT !.at = at].package = worker.package
         /\ [worker EXCEPT !.at = at].moved = worker.moved
         /\ [worker EXCEPT !.at = at].backup = worker.backup
BY DEF Worker

(* A step that leaves the database and the quarantine alone, makes a       *)
(* database of the old one that holds no less, or moves the log into the   *)
(* file, discards nothing.                                                 *)
LEMMA NothingMoves == ASSUME InvType, UNCHANGED <<primary, file, quarantine>> PROVE Kept
BY DEF InvType, Database, Image, Kept, FileKept, LogKept

LEMMA LogMoves ==
  ASSUME InvType, LogOf(primary, file), UNCHANGED <<primary, quarantine>>, file' \in {primary, file}
  PROVE  LogOf(primary, file)' /\ file' \in {Nothing} \cup Database /\ Kept
<1>1. file' \in {Nothing} \cup Database
  BY DEF InvType
<1>2. primary # Nothing => primary.data \in Nat
  BY DEF InvType, Database, Image
<1>3. LogOf(primary, file)'
  BY <1>2 DEF LogOf
<1>4. FileKept
  BY <1>2 DEF FileKept, LogOf, InvType, Database, Image
<1>5. LogKept
  BY <1>2 DEF LogKept
<1> QED
  BY <1>1, <1>3, <1>4, <1>5 DEF Kept

LEMMA LogStays == ASSUME LogOf(primary, file), UNCHANGED <<primary, file>> PROVE LogOf(primary, file)'
BY DEF LogOf

(* What is written to a database is written to its log.                    *)
LEMMA LogGrows ==
  ASSUME InvType, LogOf(primary, file), primary # Nothing, primary' # Nothing, primary'.data \in Nat,
         primary'.data >= primary.data, primary'.whole = primary.whole, UNCHANGED file
  PROVE  LogOf(primary, file)'
BY DEF LogOf, InvType, Database, Image

LEMMA DataStays ==
  ASSUME InvType, LogOf(primary, file), primary # Nothing, primary' \in Database, primary'.data = primary.data,
         primary'.whole = primary.whole, UNCHANGED <<file, quarantine>>
  PROVE  LogOf(primary, file)' /\ Kept
<1>1. primary'.data \in Nat /\ primary' # Nothing
  BY NotNothing DEF Database, Image
<1>2. LogOf(primary, file)'
  BY <1>1, LogGrows
<1>3. Kept
  BY <1>1 DEF InvType, Database, Image, Kept, FileKept, LogKept
<1> QED
  BY <1>2, <1>3

-----------------------------------------------------------------------------
(* start(): opening, migrating and verifying.                              *)
LEMMA StartHolds == ASSUME IInv, NEW p \in Packages, Start(p) PROVE IInv' /\ Kept
<1> USE DEF IInv
<1>1. p \in Seq(Texts)
  BY StoreFilesAssumption DEF StoreFilesAssumption
<1>2. worker' = [Down EXCEPT !.at = "open", !.package = p]
  BY DEF Start
<1>3. worker' \in Worker /\ worker'.at = "open" /\ ~worker'.moved
  BY <1>1, <1>2 DEF Down, Worker, Places
<1>4. spent' \in Spent
  BY DEF Start, InvType, Spent
<1>5. InvType'
  BY <1>3, <1>4 DEF Start, InvType
<1>6. Phases'
  BY <1>3 DEF Phases, Rebuilding, Recovering, Served
<1> QED
  BY <1>5, <1>6, NothingMoves, LogStays DEF Start

(* What was found corrupt is there, and damaged.                           *)
LEMMA FoundCorruptHolds ==
  ASSUME IInv, FoundCorrupt, worker.at # "publish", primary # Nothing, ~primary.whole, file' \in {primary, file}
  PROVE  IInv' /\ Kept
<1> USE DEF IInv
<1>1. ~worker.moved
  BY DEF Phases
<1>2. worker' \in Worker /\ worker'.at \in {"down", "recover"} /\ ~worker'.moved
  <2>1. CASE worker.recovered
    BY <2>1, DownTyped DEF FoundCorrupt
  <2>2. CASE ~worker.recovered
    BY <1>1, <2>2 DEF FoundCorrupt, InvType, Worker, Places, Recovering
  <2> QED
    BY <2>1, <2>2
<1>3. LogOf(primary, file)' /\ file' \in {Nothing} \cup Database /\ Kept
  BY LogMoves DEF FoundCorrupt
<1>4. InvType'
  BY <1>2, <1>3 DEF FoundCorrupt, InvType
<1>5. Phases'
  BY <1>2 DEF FoundCorrupt, Phases, Rebuilding, Recovering, Served
<1> QED
  BY <1>3, <1>4, <1>5

(* The worker ends, whatever it was at.                                    *)
LEMMA EndHolds ==
  ASSUME IInv, worker' = Down, UNCHANGED <<primary, backups, quarantine, spent>>, file' \in {primary, file},
         staged' \in {Nothing, staged}
  PROVE  IInv' /\ Kept
<1> USE DEF IInv
<1>1. LogOf(primary, file)' /\ file' \in {Nothing} \cup Database /\ Kept
  BY LogMoves
<1>2. InvType'
  BY <1>1, DownTyped DEF InvType
<1>3. Phases'
  BY DownTyped DEF Phases, Rebuilding, Recovering, Served
<1> QED
  BY <1>1, <1>2, <1>3

LEMMA StopHolds == ASSUME IInv, StartFails \/ Close \/ Crash PROVE IInv' /\ Kept
<1>1. /\ worker' = Down /\ UNCHANGED <<primary, backups, quarantine, spent>>
      /\ file' \in {primary, file} /\ staged' \in {Nothing, staged}
  BY DEF StartFails, Close, Closing, Crash
<1> QED
  BY <1>1, EndHolds

LEMMA CheckpointHolds == ASSUME IInv, Checkpoint PROVE IInv' /\ Kept
<1> USE DEF IInv
<1>1. file' = primary /\ UNCHANGED <<primary, backups, quarantine, staged, worker, spent>>
  BY DEF Checkpoint
<1>2. LogOf(primary, file)' /\ file' \in {Nothing} \cup Database /\ Kept
  BY <1>1, LogMoves
<1>3. InvType'
  BY <1>1, <1>2 DEF InvType
<1>4. Phases'
  BY <1>1 DEF Phases
<1> QED
  BY <1>2, <1>3, <1>4

LEMMA OpenHolds == ASSUME IInv, Open PROVE IInv' /\ Kept
<1> USE DEF IInv
<1>1. CASE primary # Nothing /\ ~primary.whole /\ FoundCorrupt /\ UNCHANGED file
  BY <1>1, FoundCorruptHolds DEF Open, At
<1>2. CASE /\ primary' = IF primary = Nothing THEN Empty ELSE primary
           /\ file' = IF primary = Nothing THEN Empty ELSE file
           /\ Goto("migrate")
           /\ UNCHANGED <<backups, quarantine, staged, acked, served, spent>>
  <2>1. Empty \in Database /\ Empty # Nothing
    BY LegacyTyped
  <2>2. worker' \in Worker /\ worker'.at = "migrate" /\ worker'.moved = worker.moved
    BY <1>2, Gone DEF Goto, Places, InvType
  <2>3. InvType'
    BY <1>2, <2>1, <2>2 DEF InvType
  <2>4. Phases'
    BY <1>2, <2>1, <2>2 DEF Open, At, Phases, Rebuilding, Recovering, Served, InvType
  <2>5. LogOf(primary, file)'
    BY <1>2, <2>1 DEF LogOf, Database, Image
  <2>6. Kept
    <3>1. primary = Nothing => file = Nothing
      BY DEF LogOf
    <3> QED
      BY <1>2, <3>1 DEF Kept, FileKept, LogKept, InvType, Database, Image
  <2> QED
    BY <2>3, <2>4, <2>5, <2>6
<1> QED
  BY <1>1, <1>2 DEF Open

LEMMA IsImage == \A d \in Database : d \in Image /\ d # Nothing
BY NotNothing DEF Database

(* The database that a step leaves, when it changes some of its fields.    *)
LEMMA Changed ==
  ASSUME NEW d \in Database
  PROVE  /\ d \in Image /\ d # Nothing
         /\ ~d.flag => \A i \in BOOLEAN : [d EXCEPT !.indexed = i] \in Database
         /\ d.indexed => [d EXCEPT !.flag = TRUE] \in Database
         /\ [d EXCEPT !.data = @ + 1] \in Database
         /\ \A w \in BOOLEAN : [d EXCEPT !.whole = w] \in Database
<1>1. d \in Image /\ d # Nothing
  BY NotNothing DEF Database
<1>4. ~d.flag => \A i \in BOOLEAN : [d EXCEPT !.indexed = i] \in Database
  BY <1>1 DEF Database, Image
<1>5. d.indexed => [d EXCEPT !.flag = TRUE] \in Database
  BY <1>1 DEF Database, Image
<1>6. [d EXCEPT !.data = @ + 1] \in Database
  BY <1>1 DEF Database, Image
<1>7. \A w \in BOOLEAN : [d EXCEPT !.whole = w] \in Database
  BY <1>1 DEF Database, Image
<1> QED
  BY <1>1, <1>4, <1>5, <1>6, <1>7

(* A migration that is recorded is in effect, be it by this step or before.*)
LEMMA MigratedHolds ==
  ASSUME NEW d \in Database
  PROVE  [d EXCEPT !.history = Append(@, Nothing), !.schema = Migrated(@, Len(d.history) + 1)] \in Database
<1> DEFINE h == Append(d.history, Nothing)
           n == Migrated(d.schema, Len(d.history) + 1)
<1>1. d \in Image /\ d.history \in Seq({Nothing} \cup Texts) /\ d.schema \in Nat
  BY DEF Database, Image
<1>2. h \in Seq({Nothing} \cup Texts) /\ Len(h) = Len(d.history) + 1
  BY <1>1
<1>3. n \in Nat /\ n >= Len(h)
  BY <1>1, <1>2 DEF Migrated
<1> HIDE DEF h, n
<1>4. [d EXCEPT !.history = h, !.schema = n] \in Image
  BY <1>1, <1>2, <1>3 DEF Image
<1>5. [d EXCEPT !.history = h, !.schema = n] \in Database
  BY <1>1, <1>3, <1>4 DEF Database, Image
<1> QED
  BY <1>5 DEF h, n

LEMMA MigrateHolds == ASSUME IInv, Migrate PROVE IInv' /\ Kept
<1> USE DEF IInv
<1>2. primary \in Database /\ primary # Nothing
  BY DEF Migrate, At, Phases, InvType
<1>1. CASE ~primary.whole /\ FoundCorrupt /\ UNCHANGED file
  BY <1>1, <1>2, FoundCorruptHolds DEF Migrate, At
<1>3. CASE /\ primary' = [primary EXCEPT !.history = Append(@, Nothing),
                                          !.schema = Migrated(@, Len(primary.history) + 1)]
           /\ UNCHANGED <<file, backups, quarantine, staged, worker, acked, served, spent>>
  <2>1. primary' \in Database
    BY <1>2, <1>3, MigratedHolds
  <2>2. primary' # Nothing /\ primary'.data = primary.data /\ primary'.whole = primary.whole
    <3>1. primary \in Image /\ primary' # Nothing
      BY <1>2, <2>1, IsImage
    <3> QED
      BY <3>1, <1>3 DEF Image
  <2>3. InvType'
    BY <1>3, <2>1 DEF InvType
  <2>4. Phases'
    BY <1>3, <2>2 DEF Migrate, At, Phases, Rebuilding, Recovering, Served
  <2> QED
    BY <1>2, <1>3, <2>1, <2>2, <2>3, <2>4, DataStays
<1>4. CASE /\ Goto(IF primary.flag THEN "verify" ELSE "clear")
           /\ UNCHANGED <<primary, file, backups, quarantine, staged, acked, served, spent>>
  <2>1. /\ worker' \in Worker /\ worker'.at = IF primary.flag THEN "verify" ELSE "clear"
        /\ worker'.moved = worker.moved
    BY <1>4, Gone DEF Goto, Places, Rebuilding, InvType
  <2>2. InvType'
    BY <1>4, <2>1 DEF InvType
  <2>3. Phases'
    BY <1>2, <1>4, <2>1 DEF Migrate, At, Phases, Rebuilding, Recovering, Served
  <2> QED
    BY <1>4, <2>2, <2>3, NothingMoves, LogStays
<1> QED
  BY <1>1, <1>3, <1>4 DEF Migrate

LEMMA RebuildFtsHolds == ASSUME IInv, RebuildFts PROVE IInv' /\ Kept
<1> USE DEF IInv
<1>1. primary \in Database /\ primary # Nothing /\ worker \in Worker /\ ~primary.flag
  BY DEF RebuildFts, At, Phases, InvType, Rebuilding
<1>2. ASSUME NEW i \in BOOLEAN, primary' = [primary EXCEPT !.indexed = i]
      PROVE  /\ primary' \in Database /\ primary' # Nothing /\ primary'.data = primary.data
             /\ primary'.whole = primary.whole /\ primary'.flag = primary.flag /\ primary'.indexed = i
  <2>1. primary' \in Database
    BY <1>1, <1>2, Changed
  <2>2. primary \in Image /\ primary' # Nothing
    BY <1>1, <2>1, IsImage
  <2> QED
    BY <1>2, <2>1, <2>2 DEF Image
<1>3. CASE At("clear") /\ primary' = [primary EXCEPT !.indexed = FALSE] /\ Goto("fill")
  <2>1. worker' \in Worker /\ worker'.at = "fill" /\ worker'.moved = worker.moved
    BY <1>1, <1>3, Gone DEF Goto, Places, Rebuilding
  <2>2. InvType'
    BY <1>2, <1>3, <2>1 DEF RebuildFts, InvType
  <2>3. Phases'
    BY <1>1, <1>2, <1>3, <2>1 DEF At, Phases, Rebuilding, Recovering, Served
  <2> QED
    BY <1>1, <1>2, <1>3, <2>2, <2>3, DataStays DEF RebuildFts
<1>4. CASE At("fill") /\ primary' = [primary EXCEPT !.indexed = TRUE] /\ Goto("flag")
  <2>1. worker' \in Worker /\ worker'.at = "flag" /\ worker'.moved = worker.moved
    BY <1>1, <1>4, Gone DEF Goto, Places, Rebuilding
  <2>2. InvType'
    BY <1>2, <1>4, <2>1 DEF RebuildFts, InvType
  <2>3. Phases'
    BY <1>1, <1>2, <1>4, <2>1 DEF At, Phases, Rebuilding, Recovering, Served
  <2> QED
    BY <1>1, <1>2, <1>4, <2>2, <2>3, DataStays DEF RebuildFts
<1>5. CASE At("flag") /\ primary' = [primary EXCEPT !.flag = TRUE] /\ Goto("verify")
  <2>1. worker' \in Worker /\ worker'.at = "verify" /\ worker'.moved = worker.moved
    BY <1>1, <1>5, Gone DEF Goto, Places
  <2>2. primary.indexed
    BY <1>5 DEF At, Phases
  <2>3. primary' \in Database
    BY <1>1, <1>5, <2>2, Changed
  <2>4. primary' # Nothing /\ primary'.data = primary.data /\ primary'.whole = primary.whole
    <3>1. primary \in Image /\ primary' # Nothing
      BY <1>1, <2>3, IsImage
    <3> QED
      BY <1>5, <3>1 DEF Image
  <2>5. InvType'
    BY <2>1, <2>3 DEF RebuildFts, InvType
  <2>6. Phases'
    BY <1>5, <2>1, <2>4 DEF At, Phases, Rebuilding, Recovering, Served
  <2> QED
    BY <1>1, <2>3, <2>4, <2>5, <2>6, DataStays DEF RebuildFts
<1>6. CASE worker.at \in {"clear", "fill"} /\ Goto("verify") /\ UNCHANGED primary
  <2>1. worker' \in Worker /\ worker'.at = "verify" /\ worker'.moved = worker.moved
    BY <1>1, <1>6, Gone DEF Goto, Places
  <2>2. InvType'
    BY <1>6, <2>1 DEF RebuildFts, InvType
  <2>3. Phases'
    BY <1>1, <1>6, <2>1 DEF Phases, Rebuilding, Recovering, Served
  <2> QED
    BY <1>6, <2>2, <2>3, NothingMoves, LogStays DEF RebuildFts
<1> QED
  BY <1>3, <1>4, <1>5, <1>6 DEF RebuildFts

(* What verification records is the package, if it has not refused.        *)
LEMMA RecordedIsPackage ==
  ASSUME NEW history \in Seq({Nothing} \cup Texts), NEW package \in Seq(Texts), Agrees(history, package)
  PROVE  Recorded(history, package) = package
<1>1. Recorded(history, package) = [m \in 1..Len(package) |-> package[m]]
  <2>1. Recorded(history, package)
        = [m \in 1..Len(package) |-> IF history[m] = Nothing THEN package[m] ELSE history[m]]
    BY DEF Agrees, Recorded
  <2>2. ASSUME NEW m \in 1..Len(package)
        PROVE  (IF history[m] = Nothing THEN package[m] ELSE history[m]) = package[m]
    BY DEF Agrees
  <2> QED
    BY <2>1, <2>2
<1>2. package = [m \in 1..Len(package) |-> package[m]]
  OBVIOUS
<1> QED
  BY <1>1, <1>2

LEMMA VerifyHolds == ASSUME IInv, Verify PROVE IInv' /\ Kept
<1> USE DEF IInv
<1>2. primary \in Database /\ primary # Nothing /\ worker \in Worker
  BY DEF Verify, At, Phases, InvType
<1>3. primary \in Image /\ worker.package \in Seq(Texts)
  BY <1>2, IsImage DEF Worker
<1>1. CASE ~primary.whole /\ FoundCorrupt /\ Closing
  BY <1>1, <1>2, FoundCorruptHolds DEF Verify, At, Closing
<1>4. CASE /\ Agrees(primary.history, worker.package)
           /\ primary' = [primary EXCEPT !.history = Recorded(@, worker.package)]
           /\ Goto("ready") /\ UNCHANGED file
           /\ UNCHANGED <<backups, quarantine, staged, acked, spent>>
  <2>1. Recorded(primary.history, worker.package) = worker.package
    BY <1>3, <1>4, RecordedIsPackage DEF Image
  <2>2. primary' = [primary EXCEPT !.history = worker.package]
    BY <1>4, <2>1
  <2>3. worker.package \in Seq({Nothing} \cup Texts) /\ Len(worker.package) = Len(primary.history)
    BY <1>3, <1>4 DEF Agrees
  <2>4. primary' \in Database
    BY <1>2, <1>3, <2>2, <2>3 DEF Database, Image
  <2>5. /\ primary' # Nothing /\ primary'.data = primary.data /\ primary'.whole = primary.whole
        /\ primary'.history = worker.package
    BY <1>3, <2>2, <2>4, IsImage DEF Image
  <2>6. /\ worker' \in Worker /\ worker'.at = "ready" /\ worker'.moved = worker.moved
        /\ worker'.package = worker.package
    BY <1>2, <1>4, Gone DEF Goto, Places, Served
  <2>7. InvType'
    BY <1>4, <2>4, <2>6 DEF InvType
  <2>8. Phases'
    BY <1>4, <2>5, <2>6 DEF Verify, At, Phases, Rebuilding, Recovering, Served
  <2> QED
    BY <1>2, <1>4, <2>4, <2>5, <2>7, <2>8, DataStays
<1>5. CASE worker' = Down /\ Closing /\ UNCHANGED <<primary, backups, quarantine, staged, acked, spent>>
  BY <1>5, EndHolds DEF Closing
<1> QED
  BY <1>1, <1>4, <1>5 DEF Verify

-----------------------------------------------------------------------------
(* Recovery.  Of the steps that rename, each leaves the data at one of the *)
(* two places that Kept knows.                                             *)
LEMMA TryHolds == ASSUME IInv, Try PROVE IInv' /\ Kept
<1> USE DEF IInv
<1>1. worker \in Worker /\ worker.at = "recover" /\ ~worker.moved
  BY DEF Try, At, InvType, Phases
<1>2. /\ worker' \in Worker /\ worker'.at \in {"down", "recover", "copied"} /\ ~worker'.moved
      /\ staged' \in {Nothing} \cup Database /\ (worker'.at = "copied" => staged' # Nothing)
  <2>1. CASE worker' = Down /\ UNCHANGED staged
    BY <2>1, DownTyped DEF InvType
  <2>2. ASSUME NEW b \in worker.untried, b.image.whole,
               worker' = [worker EXCEPT !.untried = Left(b), !.at = "copied"],
               NEW whole \in {TRUE, ~FileFaults}, staged' = [b.image EXCEPT !.whole = whole]
        PROVE  <1>2
    <3>1. b.image \in Database
      BY <1>1 DEF Worker, Backup
    <3>2. whole \in BOOLEAN
      BY StoreFilesAssumption DEF StoreFilesAssumption
    <3>3. staged' \in Database
      BY <2>2, <3>1, <3>2, Changed
    <3>4. worker' \in Worker /\ worker'.at = "copied" /\ ~worker'.moved
      BY <1>1, <2>2 DEF Worker, Places, Recovering, Left
    <3> QED
      BY <3>3, <3>4, IsImage
  <2>3. ASSUME NEW b \in worker.untried, worker' = [worker EXCEPT !.untried = Left(b)], UNCHANGED staged
        PROVE  <1>2
    BY <1>1, <2>3 DEF Worker, Left, InvType
  <2> QED
    BY <2>1, <2>2, <2>3 DEF Try
<1>3. InvType'
  BY <1>2 DEF Try, InvType
<1>4. Phases'
  BY <1>1, <1>2 DEF Try, Phases, Rebuilding, Recovering, Served
<1> QED
  BY <1>3, <1>4, NothingMoves, LogStays DEF Try

LEMMA CheckCopyHolds == ASSUME IInv, CheckCopy PROVE IInv' /\ Kept
<1> USE DEF IInv
<1>1. /\ worker \in Worker /\ worker.at = "copied" /\ ~worker.moved
      /\ primary # Nothing /\ ~primary.whole /\ staged # Nothing
  BY DEF CheckCopy, At, InvType, Phases, Recovering
<1>2. /\ worker' \in Worker /\ worker'.at \in {"sidecars", "recover"} /\ ~worker'.moved
      /\ worker'.at = "sidecars" => staged' # Nothing /\ staged'.whole
  <2>1. CASE staged.whole
    <3>1. Goto("sidecars") /\ staged' = staged
      BY <2>1 DEF CheckCopy
    <3>2. worker' \in Worker /\ worker'.at = "sidecars" /\ ~worker'.moved
      BY <1>1, <3>1, Gone DEF Goto, Places, Recovering
    <3> QED
      BY <1>1, <2>1, <3>1, <3>2
  <2>2. CASE ~staged.whole
    <3>1. Goto("recover")
      BY <2>2 DEF CheckCopy
    <3>2. worker' \in Worker /\ worker'.at = "recover" /\ ~worker'.moved
      BY <1>1, <3>1, Gone DEF Goto, Places, Recovering
    <3> QED
      BY <3>2
  <2> QED
    BY <2>1, <2>2
<1>3. InvType'
  BY <1>2 DEF CheckCopy, InvType
<1>4. Phases'
  BY <1>1, <1>2 DEF CheckCopy, Phases, Rebuilding, Recovering, Served
<1> QED
  BY <1>3, <1>4, NothingMoves, LogStays DEF CheckCopy

(* The log goes while a verified copy of a backup is beside the database,  *)
(* which is damaged.                                                       *)
LEMMA RemoveSidecarsHolds == ASSUME IInv, RemoveSidecars PROVE IInv' /\ Kept
<1> USE DEF IInv
<1>1. /\ worker \in Worker /\ ~worker.moved /\ primary # Nothing /\ ~primary.whole
      /\ staged # Nothing /\ staged.whole
  BY DEF RemoveSidecars, At, InvType, Phases, Recovering
<1>2. file # Nothing /\ ~file.whole /\ file \in Database /\ file.data \in Nat
  BY <1>1 DEF LogOf, InvType, Database, Image
<1>3. worker' \in Worker /\ worker'.at = "quarantine" /\ ~worker'.moved
  BY <1>1, Gone DEF RemoveSidecars, Goto, Places, Recovering
<1>4. primary' = file /\ UNCHANGED <<file, backups, quarantine, staged, spent>>
  BY DEF RemoveSidecars
<1>5. InvType'
  BY <1>3, <1>4 DEF InvType
<1>6. Phases'
  BY <1>1, <1>2, <1>3, <1>4 DEF Phases, Rebuilding, Recovering, Served
<1>7. LogOf(primary, file)'
  BY <1>2, <1>4 DEF LogOf
<1>8. Kept
  BY <1>1, <1>2, <1>4 DEF Kept, FileKept, LogKept
<1> QED
  BY <1>5, <1>6, <1>7, <1>8

LEMMA QuarantineHolds == ASSUME IInv, Quarantine PROVE IInv' /\ Kept
<1> USE DEF IInv
<1>0. primary # Nothing /\ ~primary.whole /\ staged # Nothing /\ staged.whole
  BY DEF Quarantine, At, Phases, Recovering
<1>1. /\ worker \in Worker /\ worker.at = "quarantine" /\ quarantine \in Seq(Database)
      /\ file \in Database /\ file # Nothing
  BY <1>0 DEF Quarantine, At, InvType, LogOf
<1>2. worker' \in Worker /\ worker'.at = "publish" /\ worker'.moved
  BY <1>1 DEF Quarantine, Worker, Places
<1>3. quarantine' = Append(quarantine, file) /\ quarantine' \in Seq(Database) /\ Len(quarantine') > 0
  BY <1>1 DEF Quarantine, SetAside
<1>4. InvType'
  BY <1>2, <1>3 DEF Quarantine, InvType
<1>5. Phases'
  BY <1>2, <1>3 DEF Quarantine, Phases, Rebuilding, Recovering, Served
<1>6. FileKept
  <2>1. /\ Len(quarantine) + 1 \in DOMAIN quarantine'
        /\ quarantine'[Len(quarantine) + 1] = file
    BY <1>1, <1>3
  <2>2. \A i \in DOMAIN quarantine : i \in DOMAIN quarantine' /\ quarantine'[i] = quarantine[i]
    BY <1>1, <1>3
  <2> QED
    BY <2>1, <2>2 DEF FileKept
<1>7. LogKept
  BY <1>0 DEF LogKept
<1>8. LogOf(primary, file)'
  BY DEF Quarantine, LogOf
<1> QED
  BY <1>4, <1>5, <1>6, <1>7, <1>8 DEF Kept

LEMMA PublishHolds == ASSUME IInv, Publish PROVE IInv' /\ Kept
<1> USE DEF IInv
<1>1. worker \in Worker /\ primary = Nothing
  BY DEF Publish, At, InvType, Phases
<1>2. worker' \in Worker /\ worker'.at = "open" /\ ~worker'.moved
  BY <1>1 DEF Publish, Worker, Places
<1>3. InvType'
  BY <1>2 DEF Publish, InvType
<1>4. Phases'
  BY <1>2 DEF Phases, Rebuilding, Recovering, Served
<1>5. file = Nothing
  BY <1>1 DEF LogOf
<1>6. Kept
  BY <1>1, <1>5 DEF Publish, Kept, FileKept, LogKept
<1>7. LogOf(primary, file)'
  BY DEF Publish, LogOf, InvType, Database, Image
<1> QED
  BY <1>3, <1>4, <1>6, <1>7

LEMMA RenameFailsHolds == ASSUME IInv, RenameFails PROVE IInv' /\ Kept
<1> USE DEF IInv
<1>1. CASE UNCHANGED <<primary, file, quarantine>>
  BY <1>1, EndHolds DEF RenameFails
<1>2. CASE /\ worker.moved
           /\ file' = quarantine[Len(quarantine)] /\ primary' = file'
           /\ quarantine' = SubSeq(quarantine, 1, Len(quarantine) - 1)
  <2>1. primary = Nothing /\ file = Nothing /\ Len(quarantine) > 0 /\ quarantine \in Seq(Database)
    BY <1>2 DEF Phases, InvType, LogOf
  <2>2. file' \in Database /\ primary' \in Database /\ quarantine' \in Seq(Database)
    BY <1>2, <2>1
  <2>3. \A i \in DOMAIN quarantine :
          i = Len(quarantine) \/ (i \in DOMAIN quarantine' /\ quarantine'[i] = quarantine[i])
    BY <1>2, <2>1
  <2>4. InvType'
    BY <2>2, DownTyped DEF RenameFails, InvType
  <2>5. Phases'
    BY DownTyped DEF RenameFails, Phases, Rebuilding, Recovering, Served
  <2>6. Kept
    BY <1>2, <2>1, <2>3 DEF Kept, FileKept, LogKept
  <2>7. LogOf(primary, file)'
    BY <1>2, <2>2, IsImage DEF LogOf, Image
  <2> QED
    BY <2>4, <2>5, <2>6, <2>7
<1> QED
  BY <1>1, <1>2 DEF RenameFails

-----------------------------------------------------------------------------
(* The store that serves.                                                  *)
LEMMA CommitHolds == ASSUME IInv, Commit PROVE IInv' /\ Kept
<1> USE DEF IInv
<1>1. primary \in Database /\ primary # Nothing /\ primary \in Image
  BY IsImage DEF Commit, At, Phases, Served, InvType
<1>2. primary' = [primary EXCEPT !.data = @ + 1] /\ UNCHANGED <<worker, file>>
  BY DEF Commit
<1>3. primary' \in Database
  BY <1>1, <1>2, Changed
<1>4. /\ primary' # Nothing /\ primary'.data = primary.data + 1 /\ primary.data \in Nat
      /\ primary'.history = primary.history /\ primary'.whole = primary.whole
  BY <1>1, <1>2, <1>3, IsImage DEF Image
<1>5. spent' \in Spent
  BY DEF Commit, InvType, Spent
<1>6. InvType'
  BY <1>2, <1>3, <1>5 DEF Commit, InvType
<1>7. Phases'
  BY <1>2, <1>4 DEF Commit, At, Phases, Rebuilding, Recovering, Served
<1>8. Kept
  BY <1>1, <1>4 DEF Commit, Kept, FileKept, LogKept, InvType, Database, Image
<1>9. LogOf(primary, file)'
  BY <1>1, <1>2, <1>4, LogGrows
<1> QED
  BY <1>6, <1>7, <1>8, <1>9

LEMMA CorruptHolds == ASSUME IInv, Corrupt PROVE IInv' /\ Kept
<1> USE DEF IInv
<1>1. /\ primary \in Database /\ primary # Nothing /\ primary \in Image /\ primary.whole
      /\ file \in Database /\ file # Nothing /\ file \in Image /\ file.data <= primary.data
  BY IsImage DEF Corrupt, InvType, LogOf
<1>2. /\ primary' = [primary EXCEPT !.whole = FALSE] /\ file' = [file EXCEPT !.whole = FALSE]
      /\ UNCHANGED <<worker, staged, backups, quarantine>>
  BY DEF Corrupt
<1>3. primary' \in Database /\ file' \in Database
  BY <1>1, <1>2, Changed
<1>4. /\ primary' # Nothing /\ primary'.data = primary.data /\ primary'.history = primary.history
      /\ primary'.flag = primary.flag /\ primary'.indexed = primary.indexed /\ primary'.whole = FALSE
      /\ file' # Nothing /\ file'.data = file.data /\ file'.whole = FALSE
  BY <1>1, <1>2, <1>3, IsImage DEF Image
<1>5. spent' \in Spent
  BY DEF Corrupt, InvType, Spent
<1>6. InvType'
  BY <1>2, <1>3, <1>5 DEF InvType
<1>7. Phases'
  BY <1>1, <1>2, <1>4 DEF Phases, Recovering
<1>8. LogOf(primary, file)'
  BY <1>1, <1>4 DEF LogOf
<1>9. Kept
  BY <1>1, <1>2, <1>4 DEF Kept, FileKept, LogKept, Image
<1> QED
  BY <1>6, <1>7, <1>8, <1>9

LEMMA CreateBackupHolds == ASSUME IInv, NEW guarded \in BOOLEAN, CreateBackup(guarded) PROVE IInv' /\ Kept
<1> USE DEF IInv
<1> DEFINE b == [number |-> spent.backups + 1, guarded |-> guarded,
                 image |-> [primary EXCEPT !.whole = FALSE]]
<1>1. primary \in Database /\ primary # Nothing /\ worker \in Worker /\ worker.at = "ready"
  BY DEF CreateBackup, At, Phases, Served, InvType
<1>2. [primary EXCEPT !.whole = FALSE] \in Database
  BY <1>1, Changed
<1>3. b \in Backup
  BY <1>2 DEF InvType, Spent, Backup
<1>4. backups' = backups \cup {b} /\ worker' = [worker EXCEPT !.at = "vacuum", !.backup = b]
  BY DEF CreateBackup
<1>5. /\ worker' \in Worker /\ worker'.at = "vacuum" /\ worker'.moved = worker.moved /\ worker'.backup \in Backup
      /\ worker'.package = worker.package
  <2> HIDE DEF b
  <2> QED
    BY <1>1, <1>3, <1>4 DEF Worker, Places, Served
<1>6. spent' \in Spent
  BY DEF CreateBackup, InvType, Spent
<1>7. InvType'
  <2> HIDE DEF b
  <2> QED
    BY <1>3, <1>4, <1>5, <1>6 DEF CreateBackup, InvType
<1>8. Phases'
  BY <1>1, <1>5 DEF CreateBackup, Phases, Rebuilding, Recovering, Served
<1> QED
  BY <1>7, <1>8, NothingMoves, LogStays DEF CreateBackup

LEMMA VacuumHolds == ASSUME IInv, Vacuum PROVE IInv' /\ Kept
<1> USE DEF IInv
<1> DEFINE b == [worker.backup EXCEPT !.image = primary]
<1>1. /\ primary \in Database /\ primary # Nothing /\ worker \in Worker /\ worker.at = "vacuum"
      /\ worker.backup \in Backup
  BY DEF Vacuum, At, Phases, Served, InvType
<1>2. b \in Backup
  BY <1>1 DEF Backup
<1>3. backups' = (backups \ {worker.backup}) \cup {b} /\ worker' = [worker EXCEPT !.at = "check", !.backup = b]
  BY DEF Vacuum
<1>4. /\ worker' \in Worker /\ worker'.at = "check" /\ worker'.moved = worker.moved /\ worker'.backup \in Backup
      /\ worker'.package = worker.package
  <2> HIDE DEF b
  <2> QED
    BY <1>1, <1>2, <1>3 DEF Worker, Places, Served
<1>5. InvType'
  <2> HIDE DEF b
  <2> QED
    BY <1>2, <1>3, <1>4 DEF Vacuum, InvType
<1>6. Phases'
  BY <1>1, <1>4 DEF Vacuum, Phases, Rebuilding, Recovering, Served
<1> QED
  BY <1>5, <1>6, NothingMoves, LogStays DEF Vacuum

(* VacuumFails, CheckBackup and Prune take files away or none, and go on   *)
(* or back to serving.                                                     *)
LEMMA BackupEnds == ASSUME IInv, VacuumFails \/ CheckBackup \/ Prune PROVE IInv' /\ Kept
<1> USE DEF IInv
<1>1. worker \in Worker /\ worker.at \in {"vacuum", "check", "prune"}
  BY DEF VacuumFails, CheckBackup, Prune, At, InvType
<1>2. backups' \in SUBSET Backup /\ UNCHANGED <<primary, file, quarantine, staged, spent>>
  BY DEF VacuumFails, CheckBackup, Prune, InvType
<1>3. \/ worker' = [worker EXCEPT !.at = "ready", !.backup = Nothing]
      \/ worker' = [worker EXCEPT !.at = "prune"]
      \/ worker' = worker
  BY DEF VacuumFails, CheckBackup, Prune, Goto
<1>4. /\ worker' \in Worker /\ worker'.moved = worker.moved
      /\ worker'.at \in Served
      /\ worker'.at \in {"vacuum", "check", "prune"} => worker'.backup = worker.backup
      /\ worker'.package = worker.package
  BY <1>1, <1>3 DEF Worker, Places, Served
<1>5. InvType'
  BY <1>2, <1>4 DEF InvType
<1>6. Phases'
  BY <1>1, <1>2, <1>4 DEF Phases, Rebuilding, Recovering, Served
<1> QED
  BY <1>2, <1>5, <1>6, NothingMoves, LogStays

-----------------------------------------------------------------------------
(* The backups.  The one that is being made is the newest, and is complete *)
(* before any other is removed for its sake.                               *)
Making == {"vacuum", "check", "prune"}

Numbered ==
  /\ \A b \in acked : b.number \in Nat /\ b.number <= spent.backups
  /\ \A b \in backups : b.number <= spent.backups
  /\ \A b, c \in backups : b.number = c.number => b = c

InHand ==
  worker.at \in Making =>
    /\ worker.backup \in backups /\ worker.backup.number = spent.backups
    /\ \A b \in acked : b.number < spent.backups
    /\ worker.at = "vacuum" => ~worker.backup.image.whole
    /\ worker.at = "prune" => worker.backup.image.whole

BackupInv == Numbered /\ InHand /\ AnsweredBackupsKept

LEMMA BackupsStay ==
  ASSUME BackupInv, UNCHANGED <<backups, acked, spent.backups>>,
         worker'.at \notin Making \/ UNCHANGED worker
  PROVE  BackupInv'
<1>1. Numbered'
  BY DEF BackupInv, Numbered
<1>2. InHand'
  BY DEF BackupInv, InHand
<1>3. AnsweredBackupsKept'
  BY DEF BackupInv, AnsweredBackupsKept
<1> QED
  BY <1>1, <1>2, <1>3 DEF BackupInv

(* No step of start() or recovery makes or takes a backup.                 *)
LEMMA OthersLeaveBackups ==
  ASSUME IInv, BackupInv,
         \/ \E p \in Packages : Start(p)
         \/ StartStep \/ Commit \/ Close \/ Checkpoint \/ Crash \/ Corrupt
  PROVE  BackupInv'
<1>1. worker \in Worker /\ spent \in Spent
  BY DEF IInv, InvType
<1>2. UNCHANGED <<backups, acked, spent.backups>>
  BY <1>1 DEF Start, StartStep, Open, FoundCorrupt, Migrate, RebuildFts, Verify, Try, CheckCopy, StartFails,
              RemoveSidecars, Quarantine, Publish, RenameFails, Commit, Close, Checkpoint, Crash, Corrupt, Spent
<1>3. CASE UNCHANGED worker
  BY <1>2, <1>3, BackupsStay
<1>4. CASE worker'.at \notin Making
  BY <1>2, <1>4, BackupsStay
<1>5. CASE \E p \in Packages : Start(p)
  BY <1>4, <1>5 DEF Start, Down, Making
<1>6. ASSUME FoundCorrupt PROVE worker'.at \notin Making
  BY <1>1, <1>6 DEF FoundCorrupt, Down, Worker, Making
<1>7. CASE Open
  BY <1>1, <1>4, <1>6, <1>7, Gone DEF Open, Goto, Worker, Making
<1>8. CASE Migrate
  BY <1>1, <1>3, <1>4, <1>6, <1>8, Gone DEF Migrate, Goto, Worker, Making
<1>10. CASE RebuildFts
  BY <1>1, <1>4, <1>10 DEF RebuildFts, Goto, Worker, Making
<1>11. CASE Verify
  BY <1>1, <1>4, <1>6, <1>11 DEF Verify, Goto, Down, Worker, Making
<1>12. CASE Try
  <2>1. worker.at = "recover"
    BY <1>12 DEF Try, At
  <2>2. \/ worker' = Down
        \/ \E b \in worker.untried : worker' = [worker EXCEPT !.untried = Left(b), !.at = "copied"]
        \/ \E b \in worker.untried : worker' = [worker EXCEPT !.untried = Left(b)]
    BY <1>12 DEF Try
  <2>3. worker'.at \in {"down", "copied", "recover"}
    <3>1. CASE worker' = Down
      BY <3>1 DEF Down
    <3>2. ASSUME NEW b \in worker.untried, worker' = [worker EXCEPT !.untried = Left(b), !.at = "copied"]
          PROVE  worker'.at = "copied"
      BY <1>1, <3>2 DEF Worker
    <3>3. ASSUME NEW b \in worker.untried, worker' = [worker EXCEPT !.untried = Left(b)]
          PROVE  worker'.at = "recover"
      BY <1>1, <2>1, <3>3 DEF Worker
    <3> QED
      BY <2>2, <3>1, <3>2, <3>3
  <2> QED
    BY <1>4, <2>3 DEF Making
<1>13. CASE CheckCopy \/ RemoveSidecars \/ Quarantine \/ Publish
  BY <1>1, <1>4, <1>13 DEF CheckCopy, RemoveSidecars, Quarantine, Publish, Goto, Worker, Making
<1>14. CASE StartFails \/ RenameFails \/ Close \/ Crash
  BY <1>4, <1>14 DEF StartFails, RenameFails, Close, Crash, Down, Making
<1>15. CASE Commit \/ Checkpoint \/ Corrupt
  BY <1>3, <1>15 DEF Commit, Checkpoint, Corrupt
<1> QED
  BY <1>5, <1>7, <1>8, <1>10, <1>11, <1>12, <1>13, <1>14, <1>15 DEF StartStep

LEMMA CreateKeeps == ASSUME IInv, BackupInv, NEW guarded \in BOOLEAN, CreateBackup(guarded) PROVE BackupInv'
<1> DEFINE b == [number |-> spent.backups + 1, guarded |-> guarded,
                 image |-> [primary EXCEPT !.whole = FALSE]]
<1>1. worker \in Worker /\ spent \in Spent /\ spent.backups \in Nat /\ backups \in SUBSET Backup
  BY DEF IInv, InvType, Spent
<1>2. primary \in Image
  BY IsImage DEF IInv, InvType, Phases, CreateBackup, At, Served
<1>3. b.number = spent.backups + 1 /\ ~b.image.whole
  BY <1>2 DEF Image
<1>4. /\ backups' = backups \cup {b} /\ worker'.at = "vacuum" /\ worker'.backup = b
      /\ spent'.backups = spent.backups + 1 /\ UNCHANGED acked
  <2> HIDE DEF b
  <2>1. worker' = [worker EXCEPT !.at = "vacuum", !.backup = b]
    BY DEF CreateBackup, b
  <2>2. backups' = backups \cup {b}
    BY DEF CreateBackup, b
  <2> QED
    BY <1>1, <2>1, <2>2 DEF CreateBackup, Worker, Spent
<1> HIDE DEF b
<1>5. Numbered'
  BY <1>1, <1>3, <1>4 DEF BackupInv, Numbered, Backup
<1>6. InHand'
  BY <1>1, <1>3, <1>4 DEF BackupInv, Numbered, InHand
<1>7. AnsweredBackupsKept'
  BY <1>4 DEF BackupInv, AnsweredBackupsKept
<1> QED
  BY <1>5, <1>6, <1>7 DEF BackupInv

(* The file that is complete takes the place of the one that was not.      *)
LEMMA VacuumKeeps == ASSUME IInv, BackupInv, Vacuum PROVE BackupInv'
<1> DEFINE b == [worker.backup EXCEPT !.image = primary]
<1>1. /\ worker \in Worker /\ worker.at = "vacuum" /\ spent.backups \in Nat
      /\ backups \in SUBSET Backup /\ worker.backup \in Backup
  BY DEF IInv, InvType, Spent, Vacuum, At, Phases
<1>2. b.number = worker.backup.number /\ b.number = spent.backups
  BY <1>1 DEF BackupInv, InHand, Making, Backup
<1>3. /\ backups' = (backups \ {worker.backup}) \cup {b} /\ worker'.at = "check" /\ worker'.backup = b
      /\ UNCHANGED <<acked, spent>>
  <2> HIDE DEF b
  <2>1. worker' = [worker EXCEPT !.at = "check", !.backup = b]
    BY DEF Vacuum, b
  <2>2. backups' = (backups \ {worker.backup}) \cup {b}
    BY DEF Vacuum, b
  <2> QED
    BY <1>1, <2>1, <2>2 DEF Vacuum, Worker
<1> HIDE DEF b
<1>4. /\ worker.backup \in backups /\ ~worker.backup.image.whole
      /\ \A a \in acked : a.number < spent.backups
  BY <1>1 DEF BackupInv, InHand, Making
<1>5. Numbered'
  <2>1. \A c \in backups' : c.number <= spent.backups
    BY <1>1, <1>2, <1>3 DEF BackupInv, Numbered
  <2>2. \A c \in backups \ {worker.backup} : c.number # b.number
    BY <1>2, <1>4 DEF BackupInv, Numbered
  <2>3. \A c, d \in backups' : c.number = d.number => c = d
    BY <1>3, <2>2 DEF BackupInv, Numbered
  <2> QED
    BY <1>3, <2>1, <2>3 DEF BackupInv, Numbered
<1>6. InHand'
  BY <1>2, <1>3, <1>4 DEF InHand
<1>7. AnsweredBackupsKept'
  <2>1. \A a \in acked : a # worker.backup
    <3> SUFFICES ASSUME NEW a \in acked, a = worker.backup PROVE FALSE
      OBVIOUS
    <3>1. a.number = spent.backups
      BY <1>2
    <3> QED
      BY <1>1, <1>4, <3>1
  <2> QED
    BY <1>3, <1>4, <2>1 DEF BackupInv, AnsweredBackupsKept
<1> QED
  BY <1>5, <1>6, <1>7 DEF BackupInv

LEMMA CheckKeeps == ASSUME IInv, BackupInv, CheckBackup PROVE BackupInv'
<1>1. worker \in Worker /\ worker.at = "check" /\ spent.backups \in Nat
  BY DEF IInv, InvType, Spent, CheckBackup, At
<1>2. /\ worker.backup \in backups /\ worker.backup.number = spent.backups
      /\ \A a \in acked : a.number < spent.backups
  BY <1>1 DEF BackupInv, InHand, Making
<1>3. CASE worker.backup.image.whole
  <2>1. worker'.at = "prune" /\ worker'.backup = worker.backup /\ UNCHANGED <<backups, acked, spent>>
    BY <1>1, <1>3 DEF CheckBackup, Goto, Worker
  <2>2. Numbered' /\ AnsweredBackupsKept'
    BY <2>1 DEF BackupInv, Numbered, AnsweredBackupsKept
  <2>3. InHand'
    BY <1>2, <1>3, <2>1 DEF InHand
  <2> QED
    BY <2>2, <2>3 DEF BackupInv
<1>4. CASE ~worker.backup.image.whole
  <2>1. worker'.at = "ready" /\ backups' = backups \ {worker.backup} /\ UNCHANGED <<acked, spent>>
    BY <1>1, <1>4 DEF CheckBackup, Worker
  <2>2. Numbered'
    BY <2>1 DEF BackupInv, Numbered
  <2>3. InHand'
    BY <2>1 DEF InHand, Making
  <2>4. AnsweredBackupsKept'
    <3>1. \A a \in acked : a # worker.backup
      BY <1>1, <1>2 DEF BackupInv, Numbered
    <3> QED
      BY <1>4, <2>1, <3>1 DEF BackupInv, AnsweredBackupsKept
  <2> QED
    BY <2>2, <2>3, <2>4 DEF BackupInv
<1> QED
  BY <1>3, <1>4

(* An expired file is not protected and has a newer one: it is not the one *)
(* that is being made, which vouches for whatever is removed.              *)
LEMMA ExpiredOlder ==
  ASSUME IInv, BackupInv, worker.at = "prune", NEW e \in Expired
  PROVE  e \in backups /\ ~e.guarded /\ Newer(worker.backup, e)
<1> DEFINE free == {c \in backups : ~c.guarded}
           newer == {c \in free : Newer(c, e)}
<1>1. e \in backups /\ ~e.guarded /\ Cardinality(newer) >= Retained
  BY DEF Expired, Rank
<1>2. Retained \in Nat /\ Retained > 0
  BY StoreFilesAssumption DEF StoreFilesAssumption
<1>3. newer # {}
  <2>1. Cardinality({}) = 0
    BY FS_EmptySet
  <2> QED
    BY <1>1, <1>2, <2>1
<1>4. PICK c \in backups : Newer(c, e)
  BY <1>3
<1>5. /\ worker.backup.number = spent.backups /\ c.number <= spent.backups
      /\ e.number \in Nat /\ c.number \in Nat /\ spent.backups \in Nat
  BY <1>1, <1>4 DEF IInv, InvType, Backup, Spent, BackupInv, Numbered, InHand, Making
<1> QED
  BY <1>1, <1>4, <1>5 DEF Newer

LEMMA PruneKeeps == ASSUME IInv, BackupInv, Prune PROVE BackupInv'
<1>1. worker \in Worker /\ worker.at = "prune" /\ spent.backups \in Nat /\ backups \in SUBSET Backup
  BY DEF IInv, InvType, Spent, Prune, At
<1>2. /\ worker.backup \in backups /\ worker.backup.number = spent.backups /\ worker.backup.image.whole
      /\ \A a \in acked : a.number < spent.backups
  BY <1>1 DEF BackupInv, InHand, Making
<1>3. ASSUME NEW e \in Expired, backups' = backups \ {e}, UNCHANGED <<worker, acked, spent>>
      PROVE  BackupInv'
  <2>1. e \in backups /\ ~e.guarded /\ Newer(worker.backup, e)
    BY <1>1, ExpiredOlder
  <2>2. worker.backup \in backups'
    BY <1>1, <1>2, <1>3, <2>1 DEF Newer, Backup
  <2>3. Numbered'
    BY <1>3 DEF BackupInv, Numbered
  <2>4. InHand'
    BY <1>1, <1>2, <1>3, <2>2 DEF InHand
  <2>5. AnsweredBackupsKept'
    <3> SUFFICES ASSUME NEW a \in acked
                 PROVE  \/ a \in backups'
                        \/ ~a.guarded /\ \E c \in backups' : c.image.whole /\ Newer(c, a)
      BY <1>3 DEF AnsweredBackupsKept
    <3>1. a.number < worker.backup.number
      BY <1>2
    <3>2. a \in backups \/ ~a.guarded
      BY DEF BackupInv, AnsweredBackupsKept
    <3>3. Newer(worker.backup, a)
      BY <1>1, <1>2, <3>1 DEF Newer, BackupInv, Numbered
    <3> QED
      BY <1>2, <1>3, <2>1, <2>2, <3>2, <3>3
  <2> QED
    BY <2>3, <2>4, <2>5 DEF BackupInv
<1>4. CASE /\ acked' = acked \cup {worker.backup}
           /\ worker' = [worker EXCEPT !.at = "ready", !.backup = Nothing]
           /\ UNCHANGED <<backups, spent>>
  <2>1. Numbered'
    BY <1>1, <1>2, <1>4 DEF BackupInv, Numbered
  <2>2. InHand'
    <3>1. worker'.at = "ready"
      BY <1>1, <1>4 DEF Worker
    <3> QED
      BY <3>1 DEF InHand, Making
  <2>3. AnsweredBackupsKept'
    BY <1>2, <1>4 DEF BackupInv, AnsweredBackupsKept
  <2> QED
    BY <2>1, <2>2, <2>3 DEF BackupInv
<1> QED
  BY <1>3, <1>4 DEF Prune

LEMMA BackupsKept == ASSUME IInv, BackupInv, [Next]_vars PROVE BackupInv'
<1>1. CASE \E guarded \in BOOLEAN : CreateBackup(guarded)
  BY <1>1, CreateKeeps
<1>2. CASE Vacuum \/ CheckBackup \/ Prune
  BY <1>2, VacuumKeeps, CheckKeeps, PruneKeeps
<1>3. CASE VacuumFails
  <2>1. worker'.at \notin Making /\ UNCHANGED <<backups, acked, spent>>
    BY <1>3 DEF IInv, InvType, VacuumFails, Worker, Making
  <2> QED
    BY <2>1, BackupsStay
<1>4. CASE UNCHANGED vars
  BY <1>4, BackupsStay DEF vars
<1>5. CASE \/ \E p \in Packages : Start(p)
           \/ StartStep \/ Commit \/ Close \/ Checkpoint \/ Crash \/ Corrupt
  BY <1>5, OthersLeaveBackups
<1> QED
  BY <1>1, <1>2, <1>3, <1>4, <1>5 DEF Next, BackupStep

-----------------------------------------------------------------------------
LEMMA StepHolds == ASSUME IInv, [Next]_vars PROVE IInv' /\ Kept
<1>1. CASE \E p \in Packages : Start(p)
  BY <1>1, StartHolds
<1>2. CASE Open \/ Migrate \/ RebuildFts \/ Verify
  BY <1>2, OpenHolds, MigrateHolds, RebuildFtsHolds, VerifyHolds
<1>3. CASE Try \/ CheckCopy \/ RemoveSidecars \/ Quarantine \/ Publish \/ RenameFails
  BY <1>3, TryHolds, CheckCopyHolds, RemoveSidecarsHolds, QuarantineHolds, PublishHolds, RenameFailsHolds
<1>4. CASE Commit \/ Close \/ StartFails \/ Checkpoint \/ Crash \/ Corrupt
  BY <1>4, CommitHolds, StopHolds, CheckpointHolds, CorruptHolds
<1>5. CASE \E guarded \in BOOLEAN : CreateBackup(guarded)
  BY <1>5, CreateBackupHolds
<1>6. CASE BackupStep
  BY <1>6, VacuumHolds, BackupEnds DEF BackupStep
<1>7. CASE UNCHANGED vars
  <2>1. UNCHANGED <<primary, file, backups, quarantine, staged, worker, spent>>
    BY <1>7 DEF vars
  <2>2. InvType'
    BY <2>1 DEF IInv, InvType
  <2>3. Phases'
    BY <2>1 DEF IInv, Phases
  <2> QED
    BY <2>1, <2>2, <2>3, NothingMoves, LogStays DEF IInv
<1> QED
  BY <1>1, <1>2, <1>3, <1>4, <1>5, <1>6, <1>7 DEF Next, StartStep

LEMMA PromisesHold == IInv => ReadyPromises
BY DEF IInv, InvType, Phases, Served, Database, ReadyPromises, Serving

(* After any number of crashes, corruptions, failed renames and changes of *)
(* the package, and whatever database from before the history there was, a *)
(* store that serves has exactly the history of the package it was started *)
(* with and all of its migrations in effect, and a complete full-text      *)
(* index if it is flagged (openAndVerify, start).                          *)
THEOREM ServesWhatItPromises == Spec => []ReadyPromises
<1>1. IInv /\ [Next]_vars => IInv'
  BY StepHolds
<1> QED
  BY InitHolds, PromisesHold, <1>1, PTL DEF Spec

(* Recovery, complete, failed or cut off by a crash at any of its steps,   *)
(* never throws a database file away: it is at its path or in the          *)
(* quarantine, and one that was set aside leaves only to go back.  What    *)
(* only the log has is lost with it, but never of a sound database, and    *)
(* never without a verified copy of a backup (recoverLatestBackup).        *)
THEOREM NothingThrownAway == Spec => NothingDiscarded
<1>1. IInv /\ [Next]_vars => IInv'
  BY StepHolds
<1>2. IInv /\ [Next]_vars => [Kept]_vars
  BY StepHolds
<1> QED
  BY InitHolds, <1>1, <1>2, PTL DEF Spec, NothingDiscarded

(* For any retention, whatever backups failed or were cut off by a crash:  *)
(* a backup that was answered stays if it is protected, and otherwise as   *)
(* long as no complete one is newer (createBackup).                        *)
THEOREM RetentionIsSafe == Spec => []AnsweredBackupsKept
<1>1. Init => BackupInv
  BY DEF Init, Down, BackupInv, Numbered, InHand, Making, AnsweredBackupsKept
<1>2. IInv /\ BackupInv /\ [Next]_vars => IInv' /\ BackupInv'
  BY StepHolds, BackupsKept
<1>3. BackupInv => AnsweredBackupsKept
  BY DEF BackupInv
<1> QED
  BY InitHolds, <1>1, <1>2, <1>3, PTL DEF Spec
=============================================================================
