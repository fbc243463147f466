---------------------------- MODULE StoreLockProofs ----------------------------
(***************************************************************************)
(* The lock is exclusive for any number of stores and processes, with      *)
(* crashes, kills and startup timeouts anywhere, as long as no two workers *)
(* are inside acquireLock() at once.                                       *)
(***************************************************************************)
EXTENDS StoreLock, FiniteSetTheorems, TLAPS

Inside(s) == Runs(s) /\ pc[s] \in Acquiring

\* The worker has the lock and has not given it back.
Holding == {"opening", "serving", "releasing", "unlinking"}

\* Workers acquire one at a time.
OneInside == \A s, t \in Stores : Inside(s) /\ Inside(t) => s = t

\* Whoever counts on the lock being its own is right.
HoldersRight == \A s \in Stores : Runs(s) =>
  /\ pc[s] \in Holding => lockFile = s /\ s \in written
  /\ pc[s] = "writing" => lockFile = s
  /\ endpoint[s] = "unlinking" => lockFile = s

\* A worker about to reclaim a lock has seen one that nobody alive has written,
\* and no other has appeared since.
ReclaimRight == \A s \in Stores : Runs(s) =>
  /\ pc[s] \in {"probing", "removing"} => lockFile \in {NoFile, seen[s]}
  /\ pc[s] = "removing" => ~Runs(seen[s]) \/ seen[s] \notin written

\* Only a worker that wrote its lock ever says "ready", and the endpoint
\* cleans up behind a worker that has exited.
ReadyRight == \A s \in Stores :
  /\ message[s] = "ready" \/ ownsLock[s] => s \in written
  /\ endpoint[s] \in {"cleaning", "unlinking"} => ownsLock[s]
  /\ endpoint[s] \in {"cleaning", "unlinking", "done"} => pc[s] = "exited"

LockInv == TypeOK /\ OneInside /\ HoldersRight /\ ReclaimRight /\ ReadyRight

-------------------------------------------------------------------------------
\* Before any store is opened the invariant holds.
LEMMA InitLock == Init => LockInv
BY LockAssumption
   DEF Init, LockInv, TypeOK, OneInside, HoldersRight, ReclaimRight, ReadyRight, Inside,
       Holding, Acquiring, WorkerStates, EndpointStates

\* Every system call and event preserves the types.
LEMMA NextTypeOK == TypeOK /\ [Next]_vars => TypeOK'
<1> SUFFICES ASSUME TypeOK, [Next]_vars PROVE TypeOK'
  OBVIOUS
<1> USE LockAssumption DEF TypeOK, Goto, Expect, WorkerStates, EndpointStates, Acquiring
<1>1. ASSUME NEW s \in Stores, Open(s) PROVE TypeOK'
  BY <1>1 DEF Open
<1>2. ASSUME NEW s \in Stores, Create(s) PROVE TypeOK'
  BY <1>2 DEF Create, Refuse
<1>3. ASSUME NEW s \in Stores, Write(s) PROVE TypeOK'
  BY <1>3 DEF Write
<1>4. ASSUME NEW s \in Stores, Read(s) PROVE TypeOK'
  BY <1>4 DEF Read, Refuse
<1>5. ASSUME NEW s \in Stores, Probe(s) PROVE TypeOK'
  BY <1>5 DEF Probe, Refuse
<1>6. ASSUME NEW s \in Stores, Remove(s) PROVE TypeOK'
  BY <1>6 DEF Remove
<1>7. ASSUME NEW s \in Stores, Started(s) PROVE TypeOK'
  BY <1>7 DEF Started
<1>8. ASSUME NEW s \in Stores, Shutdown(s) PROVE TypeOK'
  BY <1>8 DEF Shutdown
<1>9. ASSUME NEW s \in Stores, ReleaseRead(s) PROVE TypeOK'
  BY <1>9 DEF ReleaseRead, Exit, Refuse
<1>10. ASSUME NEW s \in Stores, ReleaseUnlink(s) PROVE TypeOK'
  BY <1>10 DEF ReleaseUnlink, Exit, Refuse
<1>11. ASSUME NEW s \in Stores, HandleMessage(s) PROVE TypeOK'
  BY <1>11 DEF HandleMessage
<1>12. ASSUME NEW s \in Stores, StartupTimeout(s) PROVE TypeOK'
  BY <1>12 DEF StartupTimeout, Cut
<1>13. ASSUME NEW s \in Stores, Crash(s) PROVE TypeOK'
  BY <1>13 DEF Crash, Cut
<1>14. ASSUME NEW s \in Stores, Close(s) PROVE TypeOK'
  BY <1>14 DEF Close
<1>15. ASSUME NEW s \in Stores, Terminate(s) PROVE TypeOK'
  BY <1>15 DEF Terminate, Cut
<1>16. ASSUME NEW s \in Stores, HandleExit(s) PROVE TypeOK'
  BY <1>16 DEF HandleExit
<1>17. ASSUME NEW s \in Stores, CleanupRead(s) PROVE TypeOK'
  BY <1>17 DEF CleanupRead
<1>18. ASSUME NEW s \in Stores, CleanupUnlink(s) PROVE TypeOK'
  BY <1>18 DEF CleanupUnlink
<1>19. ASSUME NEW p \in Processes, Kill(p) PROVE TypeOK'
  BY <1>19 DEF Kill
<1>20. CASE UNCHANGED vars
  BY <1>20 DEF vars
<1> QED BY <1>1, <1>2, <1>3, <1>4, <1>5, <1>6, <1>7, <1>8, <1>9, <1>10, <1>11, <1>12, <1>13, <1>14, <1>15, <1>16, <1>17, <1>18, <1>19, <1>20 DEF Next, WorkerStep, EndpointStep

Parts == OneInside /\ HoldersRight /\ ReclaimRight /\ ReadyRight

\* One acquireLock() at a time, every system call and event preserves the invariant.
LEMMA NextLock == MaxAcquiring = 1 /\ LockInv /\ [Next]_vars => LockInv'
<1> SUFFICES ASSUME MaxAcquiring = 1, LockInv, [Next]_vars PROVE LockInv'
  OBVIOUS
<1>0. TypeOK /\ TypeOK' /\ Parts
  BY NextTypeOK DEF LockInv, Parts
<1> USE LockAssumption DEF Goto, Expect, Holding, Acquiring, Inside, Runs
<1>1. ASSUME NEW s \in Stores, Open(s) PROVE Parts'
  <2>1. OneInside'
    <3> DEFINE S == {t \in Stores : Runs(t) /\ pc[t] \in Acquiring}
    <3>1. IsFiniteSet(S)
      BY FS_Subset
    <3>2. Cardinality(S) \in Nat /\ Cardinality(S) < 1
      BY <1>1, <3>1, FS_CardinalityType DEF Open
    <3>3. S = {}
      <4>1. Cardinality(S) = 0
        BY <3>2
      <4> HIDE DEF S
      <4> QED BY <3>1, <4>1, FS_EmptySet
    <3> QED BY <1>0, <1>1, <3>3 DEF Open, OneInside, TypeOK
  <2>2. HoldersRight'
    BY <1>0, <1>1 DEF Open, Parts, HoldersRight, OneInside, ReclaimRight, ReadyRight, TypeOK
  <2>3. ReclaimRight'
    BY <1>0, <1>1 DEF Open, Parts, ReclaimRight, OneInside, HoldersRight, TypeOK
  <2>4. ReadyRight'
    BY <1>0, <1>1 DEF Open, Parts, ReadyRight, HoldersRight, TypeOK
  <2> QED BY <2>1, <2>2, <2>3, <2>4 DEF Parts
<1>2. ASSUME NEW s \in Stores, Create(s) PROVE Parts'
  <2>1. OneInside'
    BY <1>0, <1>2 DEF Create, Refuse, Parts, OneInside, TypeOK
  <2>2. HoldersRight'
    BY <1>0, <1>2 DEF Create, Refuse, Parts, HoldersRight, OneInside, ReclaimRight, ReadyRight, TypeOK
  <2>3. ReclaimRight'
    BY <1>0, <1>2 DEF Create, Refuse, Parts, ReclaimRight, OneInside, HoldersRight, TypeOK
  <2>4. ReadyRight'
    BY <1>0, <1>2 DEF Create, Refuse, Parts, ReadyRight, HoldersRight, TypeOK
  <2> QED BY <2>1, <2>2, <2>3, <2>4 DEF Parts
<1>3. ASSUME NEW s \in Stores, Write(s) PROVE Parts'
  <2>1. OneInside'
    BY <1>0, <1>3 DEF Write, Parts, OneInside, TypeOK
  <2>2. HoldersRight'
    BY <1>0, <1>3 DEF Write, Parts, HoldersRight, OneInside, ReclaimRight, ReadyRight, TypeOK
  <2>3. ReclaimRight'
    BY <1>0, <1>3 DEF Write, Parts, ReclaimRight, OneInside, HoldersRight, TypeOK
  <2>4. ReadyRight'
    BY <1>0, <1>3 DEF Write, Parts, ReadyRight, HoldersRight, TypeOK
  <2> QED BY <2>1, <2>2, <2>3, <2>4 DEF Parts
<1>4. ASSUME NEW s \in Stores, Read(s) PROVE Parts'
  <2>1. OneInside'
    BY <1>0, <1>4 DEF Read, Refuse, Parts, OneInside, TypeOK
  <2>2. HoldersRight'
    BY <1>0, <1>4 DEF Read, Refuse, Parts, HoldersRight, OneInside, ReclaimRight, ReadyRight, TypeOK
  <2>3. ReclaimRight'
    BY <1>0, <1>4 DEF Read, Refuse, Parts, ReclaimRight, OneInside, HoldersRight, TypeOK
  <2>4. ReadyRight'
    BY <1>0, <1>4 DEF Read, Refuse, Parts, ReadyRight, HoldersRight, TypeOK
  <2> QED BY <2>1, <2>2, <2>3, <2>4 DEF Parts
<1>5. ASSUME NEW s \in Stores, Probe(s) PROVE Parts'
  <2>1. OneInside'
    BY <1>0, <1>5 DEF Probe, Refuse, Parts, OneInside, TypeOK
  <2>2. HoldersRight'
    BY <1>0, <1>5 DEF Probe, Refuse, Parts, HoldersRight, OneInside, ReclaimRight, ReadyRight, TypeOK
  <2>3. ReclaimRight'
    BY <1>0, <1>5 DEF Probe, Refuse, Parts, ReclaimRight, OneInside, HoldersRight, TypeOK
  <2>4. ReadyRight'
    BY <1>0, <1>5 DEF Probe, Refuse, Parts, ReadyRight, HoldersRight, TypeOK
  <2> QED BY <2>1, <2>2, <2>3, <2>4 DEF Parts
<1>6. ASSUME NEW s \in Stores, Remove(s) PROVE Parts'
  <2>1. OneInside'
    BY <1>0, <1>6 DEF Remove, Parts, OneInside, TypeOK
  <2>2. HoldersRight'
    BY <1>0, <1>6 DEF Remove, Parts, HoldersRight, OneInside, ReclaimRight, ReadyRight, TypeOK
  <2>3. ReclaimRight'
    BY <1>0, <1>6 DEF Remove, Parts, ReclaimRight, OneInside, HoldersRight, TypeOK
  <2>4. ReadyRight'
    BY <1>0, <1>6 DEF Remove, Parts, ReadyRight, HoldersRight, TypeOK
  <2> QED BY <2>1, <2>2, <2>3, <2>4 DEF Parts
<1>7. ASSUME NEW s \in Stores, Started(s) PROVE Parts'
  <2>1. OneInside'
    BY <1>0, <1>7 DEF Started, Parts, OneInside, TypeOK
  <2>2. HoldersRight'
    BY <1>0, <1>7 DEF Started, Parts, HoldersRight, OneInside, ReclaimRight, ReadyRight, TypeOK
  <2>3. ReclaimRight'
    BY <1>0, <1>7 DEF Started, Parts, ReclaimRight, OneInside, HoldersRight, TypeOK
  <2>4. ReadyRight'
    BY <1>0, <1>7 DEF Started, Parts, ReadyRight, HoldersRight, TypeOK
  <2> QED BY <2>1, <2>2, <2>3, <2>4 DEF Parts
<1>8. ASSUME NEW s \in Stores, Shutdown(s) PROVE Parts'
  <2>1. OneInside'
    BY <1>0, <1>8 DEF Shutdown, Parts, OneInside, TypeOK
  <2>2. HoldersRight'
    BY <1>0, <1>8 DEF Shutdown, Parts, HoldersRight, OneInside, ReclaimRight, ReadyRight, TypeOK
  <2>3. ReclaimRight'
    BY <1>0, <1>8 DEF Shutdown, Parts, ReclaimRight, OneInside, HoldersRight, TypeOK
  <2>4. ReadyRight'
    BY <1>0, <1>8 DEF Shutdown, Parts, ReadyRight, HoldersRight, TypeOK
  <2> QED BY <2>1, <2>2, <2>3, <2>4 DEF Parts
<1>9. ASSUME NEW s \in Stores, ReleaseRead(s) PROVE Parts'
  <2>1. OneInside'
    BY <1>0, <1>9 DEF ReleaseRead, Exit, Refuse, Parts, OneInside, TypeOK
  <2>2. HoldersRight'
    BY <1>0, <1>9 DEF ReleaseRead, Exit, Refuse, Parts, HoldersRight, OneInside, ReclaimRight, ReadyRight, TypeOK
  <2>3. ReclaimRight'
    BY <1>0, <1>9 DEF ReleaseRead, Exit, Refuse, Parts, ReclaimRight, OneInside, HoldersRight, TypeOK
  <2>4. ReadyRight'
    BY <1>0, <1>9 DEF ReleaseRead, Exit, Refuse, Parts, ReadyRight, HoldersRight, TypeOK
  <2> QED BY <2>1, <2>2, <2>3, <2>4 DEF Parts
<1>10. ASSUME NEW s \in Stores, ReleaseUnlink(s) PROVE Parts'
  <2>1. OneInside'
    BY <1>0, <1>10 DEF ReleaseUnlink, Exit, Refuse, Parts, OneInside, TypeOK
  <2>2. HoldersRight'
    BY <1>0, <1>10 DEF ReleaseUnlink, Exit, Refuse, Parts, HoldersRight, OneInside, ReclaimRight, ReadyRight, TypeOK
  <2>3. ReclaimRight'
    BY <1>0, <1>10 DEF ReleaseUnlink, Exit, Refuse, Parts, ReclaimRight, OneInside, HoldersRight, TypeOK
  <2>4. ReadyRight'
    BY <1>0, <1>10 DEF ReleaseUnlink, Exit, Refuse, Parts, ReadyRight, HoldersRight, TypeOK
  <2> QED BY <2>1, <2>2, <2>3, <2>4 DEF Parts
<1>11. ASSUME NEW s \in Stores, HandleMessage(s) PROVE Parts'
  <2>1. OneInside'
    BY <1>0, <1>11 DEF HandleMessage, Parts, OneInside, TypeOK
  <2>2. HoldersRight'
    BY <1>0, <1>11 DEF HandleMessage, Parts, HoldersRight, OneInside, ReclaimRight, ReadyRight, TypeOK
  <2>3. ReclaimRight'
    BY <1>0, <1>11 DEF HandleMessage, Parts, ReclaimRight, OneInside, HoldersRight, TypeOK
  <2>4. ReadyRight'
    BY <1>0, <1>11 DEF HandleMessage, Parts, ReadyRight, HoldersRight, TypeOK
  <2> QED BY <2>1, <2>2, <2>3, <2>4 DEF Parts
<1>12. ASSUME NEW s \in Stores, StartupTimeout(s) PROVE Parts'
  <2>1. OneInside'
    BY <1>0, <1>12 DEF StartupTimeout, Cut, Parts, OneInside, TypeOK
  <2>2. HoldersRight'
    BY <1>0, <1>12 DEF StartupTimeout, Cut, Parts, HoldersRight, OneInside, ReclaimRight, ReadyRight, TypeOK
  <2>3. ReclaimRight'
    BY <1>0, <1>12 DEF StartupTimeout, Cut, Parts, ReclaimRight, OneInside, HoldersRight, TypeOK
  <2>4. ReadyRight'
    BY <1>0, <1>12 DEF StartupTimeout, Cut, Parts, ReadyRight, HoldersRight, TypeOK
  <2> QED BY <2>1, <2>2, <2>3, <2>4 DEF Parts
<1>13. ASSUME NEW s \in Stores, Crash(s) PROVE Parts'
  <2>1. OneInside'
    BY <1>0, <1>13 DEF Crash, Cut, Parts, OneInside, TypeOK
  <2>2. HoldersRight'
    BY <1>0, <1>13 DEF Crash, Cut, Parts, HoldersRight, OneInside, ReclaimRight, ReadyRight, TypeOK
  <2>3. ReclaimRight'
    BY <1>0, <1>13 DEF Crash, Cut, Parts, ReclaimRight, OneInside, HoldersRight, TypeOK
  <2>4. ReadyRight'
    BY <1>0, <1>13 DEF Crash, Cut, Parts, ReadyRight, HoldersRight, TypeOK
  <2> QED BY <2>1, <2>2, <2>3, <2>4 DEF Parts
<1>14. ASSUME NEW s \in Stores, Close(s) PROVE Parts'
  <2>1. OneInside'
    BY <1>0, <1>14 DEF Close, Parts, OneInside, TypeOK
  <2>2. HoldersRight'
    BY <1>0, <1>14 DEF Close, Parts, HoldersRight, OneInside, ReclaimRight, ReadyRight, TypeOK
  <2>3. ReclaimRight'
    BY <1>0, <1>14 DEF Close, Parts, ReclaimRight, OneInside, HoldersRight, TypeOK
  <2>4. ReadyRight'
    BY <1>0, <1>14 DEF Close, Parts, ReadyRight, HoldersRight, TypeOK
  <2> QED BY <2>1, <2>2, <2>3, <2>4 DEF Parts
<1>15. ASSUME NEW s \in Stores, Terminate(s) PROVE Parts'
  <2>1. OneInside'
    BY <1>0, <1>15 DEF Terminate, Cut, Parts, OneInside, TypeOK
  <2>2. HoldersRight'
    BY <1>0, <1>15 DEF Terminate, Cut, Parts, HoldersRight, OneInside, ReclaimRight, ReadyRight, TypeOK
  <2>3. ReclaimRight'
    BY <1>0, <1>15 DEF Terminate, Cut, Parts, ReclaimRight, OneInside, HoldersRight, TypeOK
  <2>4. ReadyRight'
    BY <1>0, <1>15 DEF Terminate, Cut, Parts, ReadyRight, HoldersRight, TypeOK
  <2> QED BY <2>1, <2>2, <2>3, <2>4 DEF Parts
<1>16. ASSUME NEW s \in Stores, HandleExit(s) PROVE Parts'
  <2>1. OneInside'
    BY <1>0, <1>16 DEF HandleExit, Parts, OneInside, TypeOK
  <2>2. HoldersRight'
    BY <1>0, <1>16 DEF HandleExit, Parts, HoldersRight, OneInside, ReclaimRight, ReadyRight, TypeOK
  <2>3. ReclaimRight'
    BY <1>0, <1>16 DEF HandleExit, Parts, ReclaimRight, OneInside, HoldersRight, TypeOK
  <2>4. ReadyRight'
    BY <1>0, <1>16 DEF HandleExit, Parts, ReadyRight, HoldersRight, TypeOK
  <2> QED BY <2>1, <2>2, <2>3, <2>4 DEF Parts
<1>17. ASSUME NEW s \in Stores, CleanupRead(s) PROVE Parts'
  <2>1. OneInside'
    BY <1>0, <1>17 DEF CleanupRead, Parts, OneInside, TypeOK
  <2>2. HoldersRight'
    BY <1>0, <1>17 DEF CleanupRead, Parts, HoldersRight, OneInside, ReclaimRight, ReadyRight, TypeOK
  <2>3. ReclaimRight'
    BY <1>0, <1>17 DEF CleanupRead, Parts, ReclaimRight, OneInside, HoldersRight, TypeOK
  <2>4. ReadyRight'
    BY <1>0, <1>17 DEF CleanupRead, Parts, ReadyRight, HoldersRight, TypeOK
  <2> QED BY <2>1, <2>2, <2>3, <2>4 DEF Parts
<1>18. ASSUME NEW s \in Stores, CleanupUnlink(s) PROVE Parts'
  <2>1. OneInside'
    BY <1>0, <1>18 DEF CleanupUnlink, Parts, OneInside, TypeOK
  <2>2. HoldersRight'
    BY <1>0, <1>18 DEF CleanupUnlink, Parts, HoldersRight, OneInside, ReclaimRight, ReadyRight, TypeOK
  <2>3. ReclaimRight'
    BY <1>0, <1>18 DEF CleanupUnlink, Parts, ReclaimRight, OneInside, HoldersRight, TypeOK
  <2>4. ReadyRight'
    BY <1>0, <1>18 DEF CleanupUnlink, Parts, ReadyRight, HoldersRight, TypeOK
  <2> QED BY <2>1, <2>2, <2>3, <2>4 DEF Parts
<1>19. ASSUME NEW p \in Processes, Kill(p) PROVE Parts'
  BY <1>0, <1>19 DEF Kill, Parts, OneInside, HoldersRight, ReclaimRight, ReadyRight, TypeOK
<1>20. ASSUME UNCHANGED vars PROVE Parts'
  BY <1>0, <1>20 DEF vars, Parts, OneInside, HoldersRight, ReclaimRight, ReadyRight
<1>21. Parts'
  BY <1>1, <1>2, <1>3, <1>4, <1>5, <1>6, <1>7, <1>8, <1>9, <1>10, <1>11, <1>12, <1>13,
     <1>14, <1>15, <1>16, <1>17, <1>18, <1>19, <1>20 DEF Next, WorkerStep, EndpointStep
<1> QED BY <1>0, <1>21 DEF LockInv, Parts

\* While a store has the database open the lock file is its own, for any number of
\* stores and processes, if acquireLock() calls do not overlap: the token that
\* releaseLock and cleanupOwnedLock compare, and the pid that acquireLock probes,
\* protect it from every crash, kill and restart of the others.
THEOREM LockIsHeld == MaxAcquiring = 1 => (Spec => []LockHeld)
<1>1. LockInv => LockHeld
  BY DEF LockInv, HoldersRight, LockHeld, Owns, Holding
<1>2. SUFFICES ASSUME MaxAcquiring = 1 PROVE Spec => []LockHeld
  OBVIOUS
<1>3. LockInv /\ [Next]_vars => LockInv'
  BY <1>2, NextLock
<1> QED BY <1>1, <1>3, InitLock, PTL DEF Spec

\* At most one store has the database open, if acquireLock() calls do not overlap
\* (the run that lets two overlap violates this).
THEOREM OneWriter == MaxAcquiring = 1 => (Spec => []OneOwner)
<1>1. LockHeld => OneOwner
  BY DEF LockHeld, OneOwner
<1>2. SUFFICES ASSUME MaxAcquiring = 1 PROVE Spec => []OneOwner
  OBVIOUS
<1>3. Spec => []LockHeld
  BY <1>2, LockIsHeld
<1> QED BY <1>1, <1>3, PTL

-------------------------------------------------------------------------------
\* A worker that has not created its file has none, and one that has refused to
\* start has exited.
NotYet == {"idle", "creating", "reading", "probing", "removing", "recreating"}

FilesRight == \A s \in Stores :
  /\ pc[s] \in NotYet => lockFile # s
  /\ message[s] = "startup-error" => pc[s] = "exited"
  /\ endpoint[s] \in {"cleaning", "unlinking", "done"} => pc[s] = "exited"

\* An endpoint that waits for the exit of a worker that may have left its file
\* has been told that the worker was ready, or is about to be.
TidyRight == \A s \in Stores :
  /\ endpoint[s] = "open" => ownsLock[s]
  /\ s \notin Abrupt /\ endpoint[s] = "closing" => ownsLock[s] \/ pc[s] = "exited"
  /\ s \notin Abrupt /\ pc[s] = "exited" /\ lockFile = s => ownsLock[s] \/ message[s] = "ready"
  /\ s \notin Abrupt /\ endpoint[s] = "done" => lockFile # s

ReleaseParts == FilesRight /\ TidyRight

ReleaseInv == TypeOK /\ ReleaseParts

\* Every system call and event preserves it, however many workers acquire at once:
\* a file is created by its own store only, and once.
LEMMA NextRelease == ReleaseInv /\ [Next]_vars => ReleaseInv'
<1> SUFFICES ASSUME ReleaseInv, [Next]_vars PROVE ReleaseInv'
  OBVIOUS
<1>0. TypeOK /\ TypeOK' /\ FilesRight /\ TidyRight
  BY NextTypeOK DEF ReleaseInv, ReleaseParts
<1> USE LockAssumption DEF Goto, Expect, NotYet
<1>1. ASSUME NEW s \in Stores, Open(s) PROVE ReleaseParts'
  <2>1. FilesRight'
    BY <1>0, <1>1 DEF Open, FilesRight, TypeOK
  <2>2. TidyRight'
    BY <1>0, <1>1 DEF Open, FilesRight, TidyRight, TypeOK
  <2> QED BY <2>1, <2>2 DEF ReleaseParts
<1>2. ASSUME NEW s \in Stores, Create(s) PROVE ReleaseParts'
  <2>1. FilesRight'
    BY <1>0, <1>2 DEF Create, Refuse, FilesRight, TypeOK
  <2>2. TidyRight'
    BY <1>0, <1>2 DEF Create, Refuse, FilesRight, TidyRight, TypeOK
  <2> QED BY <2>1, <2>2 DEF ReleaseParts
<1>3. ASSUME NEW s \in Stores, Write(s) PROVE ReleaseParts'
  <2>1. FilesRight'
    BY <1>0, <1>3 DEF Write, FilesRight, TypeOK
  <2>2. TidyRight'
    BY <1>0, <1>3 DEF Write, FilesRight, TidyRight, TypeOK
  <2> QED BY <2>1, <2>2 DEF ReleaseParts
<1>4. ASSUME NEW s \in Stores, Read(s) PROVE ReleaseParts'
  <2>1. FilesRight'
    BY <1>0, <1>4 DEF Read, Refuse, FilesRight, TypeOK
  <2>2. TidyRight'
    BY <1>0, <1>4 DEF Read, Refuse, FilesRight, TidyRight, TypeOK
  <2> QED BY <2>1, <2>2 DEF ReleaseParts
<1>5. ASSUME NEW s \in Stores, Probe(s) PROVE ReleaseParts'
  <2>1. FilesRight'
    BY <1>0, <1>5 DEF Probe, Refuse, FilesRight, TypeOK
  <2>2. TidyRight'
    BY <1>0, <1>5 DEF Probe, Refuse, FilesRight, TidyRight, TypeOK
  <2> QED BY <2>1, <2>2 DEF ReleaseParts
<1>6. ASSUME NEW s \in Stores, Remove(s) PROVE ReleaseParts'
  <2>1. FilesRight'
    BY <1>0, <1>6 DEF Remove, FilesRight, TypeOK
  <2>2. TidyRight'
    BY <1>0, <1>6 DEF Remove, FilesRight, TidyRight, TypeOK
  <2> QED BY <2>1, <2>2 DEF ReleaseParts
<1>7. ASSUME NEW s \in Stores, Started(s) PROVE ReleaseParts'
  <2>1. FilesRight'
    BY <1>0, <1>7 DEF Started, FilesRight, TypeOK
  <2>2. TidyRight'
    BY <1>0, <1>7 DEF Started, FilesRight, TidyRight, TypeOK
  <2> QED BY <2>1, <2>2 DEF ReleaseParts
<1>8. ASSUME NEW s \in Stores, Shutdown(s) PROVE ReleaseParts'
  <2>1. FilesRight'
    BY <1>0, <1>8 DEF Shutdown, FilesRight, TypeOK
  <2>2. TidyRight'
    BY <1>0, <1>8 DEF Shutdown, FilesRight, TidyRight, TypeOK
  <2> QED BY <2>1, <2>2 DEF ReleaseParts
<1>9. ASSUME NEW s \in Stores, ReleaseRead(s) PROVE ReleaseParts'
  <2>1. FilesRight'
    BY <1>0, <1>9 DEF ReleaseRead, Exit, Refuse, FilesRight, TypeOK
  <2>2. TidyRight'
    BY <1>0, <1>9 DEF ReleaseRead, Exit, Refuse, FilesRight, TidyRight, TypeOK
  <2> QED BY <2>1, <2>2 DEF ReleaseParts
<1>10. ASSUME NEW s \in Stores, ReleaseUnlink(s) PROVE ReleaseParts'
  <2>1. FilesRight'
    BY <1>0, <1>10 DEF ReleaseUnlink, Exit, Refuse, FilesRight, TypeOK
  <2>2. TidyRight'
    BY <1>0, <1>10 DEF ReleaseUnlink, Exit, Refuse, FilesRight, TidyRight, TypeOK
  <2> QED BY <2>1, <2>2 DEF ReleaseParts
<1>11. ASSUME NEW s \in Stores, HandleMessage(s) PROVE ReleaseParts'
  <2>1. FilesRight'
    BY <1>0, <1>11 DEF HandleMessage, FilesRight, TypeOK
  <2>2. /\ UNCHANGED <<lockFile, pc>>
        /\ ownsLock'[s] = (ownsLock[s] \/ message[s] = "ready") /\ message'[s] = "none"
        /\ \A t \in Stores \ {s} :
             endpoint'[t] = endpoint[t] /\ ownsLock'[t] = ownsLock[t] /\ message'[t] = message[t]
    BY <1>0, <1>11 DEF HandleMessage, TypeOK
  <2>3. \/ endpoint'[s] = endpoint[s]
        \/ endpoint'[s] = "open" /\ message[s] = "ready"
        \/ endpoint'[s] = "closing" /\ message[s] = "startup-error"
    BY <1>0, <1>11 DEF HandleMessage, TypeOK
  <2>4. TidyRight'
    BY <1>0, <2>2, <2>3 DEF FilesRight, TidyRight
  <2> QED BY <2>1, <2>4 DEF ReleaseParts
<1>12. ASSUME NEW s \in Stores, StartupTimeout(s) PROVE ReleaseParts'
  <2>1. FilesRight'
    BY <1>0, <1>12 DEF StartupTimeout, Cut, FilesRight, TypeOK
  <2>2. TidyRight'
    BY <1>0, <1>12 DEF StartupTimeout, Cut, FilesRight, TidyRight, TypeOK
  <2> QED BY <2>1, <2>2 DEF ReleaseParts
<1>13. ASSUME NEW s \in Stores, Crash(s) PROVE ReleaseParts'
  <2>1. FilesRight'
    BY <1>0, <1>13 DEF Crash, Cut, FilesRight, TypeOK
  <2>2. TidyRight'
    BY <1>0, <1>13 DEF Crash, Cut, FilesRight, TidyRight, TypeOK
  <2> QED BY <2>1, <2>2 DEF ReleaseParts
<1>14. ASSUME NEW s \in Stores, Close(s) PROVE ReleaseParts'
  <2>1. FilesRight'
    BY <1>0, <1>14 DEF Close, FilesRight, TypeOK
  <2>2. TidyRight'
    BY <1>0, <1>14 DEF Close, FilesRight, TidyRight, TypeOK
  <2> QED BY <2>1, <2>2 DEF ReleaseParts
<1>15. ASSUME NEW s \in Stores, Terminate(s) PROVE ReleaseParts'
  <2>1. FilesRight'
    BY <1>0, <1>15 DEF Terminate, Cut, FilesRight, TypeOK
  <2>2. TidyRight'
    BY <1>0, <1>15 DEF Terminate, Cut, FilesRight, TidyRight, TypeOK
  <2> QED BY <2>1, <2>2 DEF ReleaseParts
<1>16. ASSUME NEW s \in Stores, HandleExit(s) PROVE ReleaseParts'
  <2>1. FilesRight'
    BY <1>0, <1>16 DEF HandleExit, FilesRight, TypeOK
  <2>2. TidyRight'
    BY <1>0, <1>16 DEF HandleExit, FilesRight, TidyRight, TypeOK
  <2> QED BY <2>1, <2>2 DEF ReleaseParts
<1>17. ASSUME NEW s \in Stores, CleanupRead(s) PROVE ReleaseParts'
  <2>1. FilesRight'
    BY <1>0, <1>17 DEF CleanupRead, FilesRight, TypeOK
  <2>2. TidyRight'
    BY <1>0, <1>17 DEF CleanupRead, FilesRight, TidyRight, TypeOK
  <2> QED BY <2>1, <2>2 DEF ReleaseParts
<1>18. ASSUME NEW s \in Stores, CleanupUnlink(s) PROVE ReleaseParts'
  <2>1. FilesRight'
    BY <1>0, <1>18 DEF CleanupUnlink, FilesRight, TypeOK
  <2>2. TidyRight'
    BY <1>0, <1>18 DEF CleanupUnlink, FilesRight, TidyRight, TypeOK
  <2> QED BY <2>1, <2>2 DEF ReleaseParts
<1>19. ASSUME NEW p \in Processes, Kill(p) PROVE ReleaseParts'
  BY <1>0, <1>19 DEF Kill, ReleaseParts, FilesRight, TidyRight
<1>20. ASSUME UNCHANGED vars PROVE ReleaseParts'
  BY <1>0, <1>20 DEF vars, ReleaseParts, FilesRight, TidyRight
<1>21. ReleaseParts'
  BY <1>1, <1>2, <1>3, <1>4, <1>5, <1>6, <1>7, <1>8, <1>9, <1>10, <1>11, <1>12, <1>13, <1>14, <1>15, <1>16, <1>17, <1>18, <1>19, <1>20
     DEF Next, WorkerStep, EndpointStep
<1> QED BY <1>0, <1>21 DEF ReleaseInv

\* The lock of a store whose worker got as far as "ready" goes with the store, for
\* any number of stores and processes and however their calls of acquireLock()
\* overlap: whether it closes, crashes or is terminated, the worker removes it or
\* else the endpoint does (releaseLock, cleanupOwnedLock).
THEOREM LockGoesToo == Spec => []ServedLockReleased
<1>1. Init => ReleaseInv
  <2>1. Init => TypeOK
    BY InitLock DEF LockInv
  <2> QED
    BY <2>1, LockAssumption DEF Init, ReleaseInv, ReleaseParts, FilesRight, TidyRight
<1>2. ReleaseInv => ServedLockReleased
  BY DEF ReleaseInv, ReleaseParts, TidyRight, ServedLockReleased
<1> QED BY <1>1, <1>2, NextRelease, PTL DEF Spec
===============================================================================
