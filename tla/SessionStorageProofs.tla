------------------------ MODULE SessionStorageProofs ------------------------
(***************************************************************************)
(* Whatever the number of processes, of sessions and of faults: on POSIX   *)
(* no recovery touches the session of a live process.  The locks are held  *)
(* from before the marker is written until the directory is gone, and what *)
(* has no marker is not a recovery's business.                             *)
(*                                                                         *)
(* And whatever the size of the disc, the request and the failures, what a *)
(* preservation leaves, reports and claims is so, and a cancellation that  *)
(* was in time is honoured: the last part of the module.                   *)
(***************************************************************************)
EXTENDS MCSessionStorage, Integers, FiniteSetTheorems, SequenceTheorems, TLAPS

\* The places at which a process has a target, and those at which its storage
\* names a session whatever the step.
Targeting == {"marked", "opened", "unlocking", "removing"}
Owning    == {"undoing", "active", "cleaning", "retained"}

\* What a process names is what its place in the code says it names.
PlaceTellsNames ==
  \A p \in Procs :
    /\ pc[p] \in Targeting => target[p] \in Names
    /\ pc[p] \notin Targeting => target[p] = NoName
    /\ pc[p] \in Owning => name[p] \in Names
    /\ pc[p] = "creating" => (name[p] = NoName <=> step[p] = 1)
    /\ pc[p] \notin Owning \cup {"creating"} => name[p] = NoName

\* A session name is given once, to one process; everything is of a name given.
NamesAreOwn ==
  /\ \A p, q \in Procs : name[p] = name[q] /\ name[p] # NoName => p = q
  /\ \A p \in Procs : name[p] # NoName => name[p] \in used
  /\ \A p \in Procs : target[p] # NoName => target[p] \in used
  /\ \A n \in Names : "marker" \in files[n] => n \in used
  /\ present \subseteq used /\ wrote \subseteq used

\* The lock is held from its step of the creation to the end of the cleanup,
\* and by a recovery while it removes.
OwnerHolds(p) ==
  (pc[p] = "creating" /\ step[p] >= 4) \/ pc[p] \in {"active", "cleaning", "retained"}
    => holder[name[p]] = p
RemoverHolds(p) == pc[p] # "unlocking" /\ (pc[p] = "removing" => holder[target[p]] = p)

\* A session that is being made has no marker yet, nobody looks at it, and
\* its files are there as far as the creation has come.
UnfinishedIsUnmarked(p) ==
  pc[p] \in {"creating", "undoing"} /\ name[p] # NoName =>
    /\ "marker" \notin files[name[p]] /\ name[p] \notin wrote
    /\ \A q \in Procs : target[q] # name[p]
CreationProceeds(p) ==
  pc[p] = "creating" =>
    /\ step[p] >= 2 => name[p] \in present
    /\ step[p] >= 3 => "lock" \in files[name[p]]
    /\ step[p] >= 5 => "partial" \in files[name[p]]

PosixInv == \A p \in Procs : /\ OwnerHolds(p) /\ RemoverHolds(p)
                             /\ UnfinishedIsUnmarked(p) /\ CreationProceeds(p)
                             /\ SessionKept(p)

\* A recovery that has the lock of n takes it apart, or is about to.
BeingRemoved(n) == \E q \in Procs : pc[q] \in {"unlocking", "removing"} /\ target[q] = n

\* What is on disk can be told for what it is, is being removed, or is torn.
Recoverable(n) ==
  n \in present \ torn => {"marker", "lock"} \subseteq files[n] \/ BeingRemoved(n)

\* Data is where it can be recovered; the emulator writes nothing before the
\* session is made or after its cleanup took the data away.
DataIsRecoverable ==
  /\ \A n \in Names : "data" \in files[n] => n \in used /\ Recoverable(n)
  /\ \A p \in Procs :
       /\ pc[p] \in {"creating", "undoing"} /\ name[p] # NoName => "data" \notin files[name[p]]
       /\ pc[p] = "cleaning" /\ step[p] >= 2 => "data" \notin files[name[p]]
       /\ pc[p] = "active" => Recoverable(name[p])

\* On Windows a recovery may be at work already on a session that is still
\* being made, from the step that writes its marker on.
WindowsCreates(p) ==
  LET n == name[p] IN
  pc[p] = "creating" /\ n # NoName =>
    /\ step[p] <= 3 => "marker" \notin files[n] /\ \A q \in Procs : target[q] # n
    /\ step[p] = 3 => "partial" \in files[n]
    /\ step[p] = 4 => (n \in present \ torn => "marker" \in files[n] \/ BeingRemoved(n))
    /\ step[p] = 5 => Recoverable(n)

\* A lock is held by the process whose session it is, until its undoing or
\* the unlocking step of its cleanup, or by a recovery that took it.
HolderTends ==
  \A n \in Names, q \in Procs :
    holder[n] = q =>
      \/ name[q] = n /\ pc[q] # "undoing" /\ ~(pc[q] = "cleaning" /\ PastUnlock(q))
      \/ target[q] = n /\ pc[q] \in {"unlocking", "removing"}

\* What a scan found abandoned is nobody's session, is recoverable still, and
\* once the scan is past it, torn or in the hands of another recovery.
ScanIsSound(p) ==
  /\ pc[p] \in {"scan", "recovered"} \cup Targeting =>
       \A n \in stale[p] :
         /\ n \in used /\ \A q \in Procs : name[q] # n
         /\ Recoverable(n)
         /\ n \in seen[p] \/ pc[p] = "recovered"
              => n \notin present \/ n \in torn \/ BeingRemoved(n)
  /\ pc[p] \in {"scan"} \cup Targeting => stale[p] \subseteq begun[p]
  /\ pc[p] \notin {"scan"} \cup Targeting => seen[p] = {}

\* What a recovery can rely on.
RInv ==
  /\ DataIsRecoverable /\ HolderTends
  /\ \A p \in Procs : ScanIsSound(p)
  /\ platform = "windows" => \A p \in Procs : WindowsCreates(p)

\* The protocol of the locks, with the types and names it rests on.
IInv == TypeOK /\ PlaceTellsNames /\ NamesAreOwn /\ (platform = "posix" => PosixInv)

-----------------------------------------------------------------------------
\* Every step keeps the types.
LEMMA TypesAreKept ==
  ASSUME TypeOK, PlaceTellsNames, [Next]_vars
  PROVE  TypeOK'
  <1> USE SessionAssumption DEF disk, ghosts, local, TypeOK, PlaceTellsNames,
         Targeting, Owning, PcStates, Files
  <1>1. ASSUME NEW p \in Procs, RecoverBegin(p) PROVE TypeOK'
    BY <1>1 DEF RecoverBegin, Goto
  <1>2. ASSUME NEW p \in Procs, NEW n \in Names, InspectMarker(p, n) PROVE TypeOK'
    BY <1>2 DEF InspectMarker, Goto, Passed
  <1>3. ASSUME NEW p \in Procs, OpenLock(p) PROVE TypeOK'
    BY <1>3 DEF OpenLock, Goto, Passed
  <1>4. ASSUME NEW p \in Procs, TryLock(p) PROVE TypeOK'
    BY <1>4 DEF TryLock, Goto, Passed
  <1>5. ASSUME NEW p \in Procs, WindowsUnlock(p) PROVE TypeOK'
    BY <1>5 DEF WindowsUnlock, Goto, Released
  <1>6. ASSUME NEW p \in Procs, NEW f \in Files, RemoveEntry(p, f) PROVE TypeOK'
    BY <1>6 DEF RemoveEntry
  <1>7. ASSUME NEW p \in Procs, RecoveredOne(p) PROVE TypeOK'
    BY <1>7 DEF RecoveredOne, Goto, Passed, Released
  <1>8. ASSUME NEW p \in Procs, RecoverFails(p) PROVE TypeOK'
    BY <1>8 DEF RecoverFails, Goto, Released, Forget, Fault
  <1>9. ASSUME NEW p \in Procs, RecoverEnd(p) PROVE TypeOK'
    BY <1>9 DEF RecoverEnd, Goto
  <1>10. ASSUME NEW p \in Procs, CreateBegin(p) PROVE TypeOK'
    BY <1>10 DEF CreateBegin, Goto, Forget
  <1>11. ASSUME NEW p \in Procs, NEW n \in Names, CreateDirectory(p, n) PROVE TypeOK'
    BY <1>11 DEF CreateDirectory, Stepped, Goto, Creation, PosixCreation,
           WindowsCreation
  <1>12. ASSUME NEW p \in Procs, CreateFile(p) PROVE TypeOK'
    BY <1>12 DEF CreateFile, Stepped, Goto, Creation, PosixCreation, WindowsCreation
  <1>13. ASSUME NEW p \in Procs, WriteMarker(p) PROVE TypeOK'
    BY <1>13 DEF WriteMarker, Stepped, Goto, Creation, PosixCreation, WindowsCreation
  <1>14. ASSUME NEW p \in Procs, CreateLock(p) PROVE TypeOK'
    BY <1>14 DEF CreateLock, Stepped, Goto, Creation, PosixCreation, WindowsCreation
  <1>15. ASSUME NEW p \in Procs, CreateFails(p) PROVE TypeOK'
    BY <1>15 DEF CreateFails, Goto, Released, Fault, Obstructed, Creation,
           PosixCreation, WindowsCreation
  <1>16. ASSUME NEW p \in Procs, Undone(p) PROVE TypeOK'
    BY <1>16 DEF Undone, Goto, Fault
  <1>17. ASSUME NEW p \in Procs, WriteData(p) PROVE TypeOK'
    BY <1>17 DEF WriteData
  <1>18. ASSUME NEW p \in Procs, CleanupBegin(p) PROVE TypeOK'
    BY <1>18 DEF CleanupBegin, Goto, OwnershipVerified
  <1>19. ASSUME NEW p \in Procs, CleanupStep(p) PROVE TypeOK'
    <2>1. files' \in [Names -> SUBSET Files] /\ holder' \in [Names -> Procs \cup {NoProc}]
          /\ present' \subseteq Names
      BY <1>19 DEF CleanupStep, Dismantle, Released, TypeOK, Files
    <2>2. pc' \in [Procs -> PcStates] /\ step' \in [Procs -> 1 .. 5]
          /\ name' \in [Procs -> Names \cup {NoName}]
      BY <1>19 DEF CleanupStep, Goto, Cleanup, PosixCleanup, WindowsCleanup, TypeOK,
             PcStates
    <2>3. parent' \in BOOLEAN
      BY <1>19 DEF CleanupStep, TypeOK
    <2> QED BY <1>19, <2>1, <2>2, <2>3 DEF CleanupStep, TypeOK, ghosts
  <1>20. ASSUME NEW p \in Procs, CleanupFails(p) PROVE TypeOK'
    BY <1>20 DEF CleanupFails, Goto, Fault, PastUnlock
  <1>21. ASSUME NEW p \in Procs, Crash(p) PROVE TypeOK'
    BY <1>21 DEF Crash, Goto, Fault, Forget
  <1>22. CASE UNCHANGED vars
    BY <1>22 DEF vars
  <1> QED BY <1>1, <1>2, <1>3, <1>4, <1>5, <1>6, <1>7, <1>8, <1>9, <1>10, <1>11,
         <1>12, <1>13, <1>14, <1>15, <1>16, <1>17, <1>18, <1>19, <1>20, <1>21, <1>22
         DEF Next

\* Every step keeps names and places in agreement.
LEMMA PlacesAreKept ==
  ASSUME TypeOK, PlaceTellsNames, [Next]_vars
  PROVE  PlaceTellsNames'
  <1> USE SessionAssumption DEF disk, ghosts, local, TypeOK, PlaceTellsNames,
         Targeting, Owning, PcStates
  <1>1. ASSUME NEW p \in Procs, RecoverBegin(p) PROVE PlaceTellsNames'
    BY <1>1 DEF RecoverBegin, Goto
  <1>2. ASSUME NEW p \in Procs, NEW n \in Names, InspectMarker(p, n) PROVE PlaceTellsNames'
    BY <1>2 DEF InspectMarker, Goto, Passed
  <1>3. ASSUME NEW p \in Procs, OpenLock(p) PROVE PlaceTellsNames'
    BY <1>3 DEF OpenLock, Goto, Passed
  <1>4. ASSUME NEW p \in Procs, TryLock(p) PROVE PlaceTellsNames'
    BY <1>4 DEF TryLock, Goto, Passed
  <1>5. ASSUME NEW p \in Procs, WindowsUnlock(p) PROVE PlaceTellsNames'
    BY <1>5 DEF WindowsUnlock, Goto, Released
  <1>6. ASSUME NEW p \in Procs, NEW f \in Files, RemoveEntry(p, f) PROVE PlaceTellsNames'
    BY <1>6 DEF RemoveEntry
  <1>7. ASSUME NEW p \in Procs, RecoveredOne(p) PROVE PlaceTellsNames'
    BY <1>7 DEF RecoveredOne, Goto, Passed, Released
  <1>8. ASSUME NEW p \in Procs, RecoverFails(p) PROVE PlaceTellsNames'
    BY <1>8 DEF RecoverFails, Goto, Released, Forget, Fault
  <1>9. ASSUME NEW p \in Procs, RecoverEnd(p) PROVE PlaceTellsNames'
    BY <1>9 DEF RecoverEnd, Goto
  <1>10. ASSUME NEW p \in Procs, CreateBegin(p) PROVE PlaceTellsNames'
    BY <1>10 DEF CreateBegin, Goto, Forget
  <1>11. ASSUME NEW p \in Procs, NEW n \in Names, CreateDirectory(p, n) PROVE PlaceTellsNames'
    BY <1>11 DEF CreateDirectory, Stepped, Goto, Creation, PosixCreation,
           WindowsCreation
  <1>12. ASSUME NEW p \in Procs, CreateFile(p) PROVE PlaceTellsNames'
    BY <1>12 DEF CreateFile, Stepped, Goto, Creation, PosixCreation, WindowsCreation
  <1>13. ASSUME NEW p \in Procs, WriteMarker(p) PROVE PlaceTellsNames'
    BY <1>13 DEF WriteMarker, Stepped, Goto, Creation, PosixCreation, WindowsCreation
  <1>14. ASSUME NEW p \in Procs, CreateLock(p) PROVE PlaceTellsNames'
    BY <1>14 DEF CreateLock, Stepped, Goto, Creation, PosixCreation, WindowsCreation
  <1>15. ASSUME NEW p \in Procs, CreateFails(p) PROVE PlaceTellsNames'
    BY <1>15 DEF CreateFails, Goto, Released, Fault, Obstructed, Creation,
           PosixCreation, WindowsCreation
  <1>16. ASSUME NEW p \in Procs, Undone(p) PROVE PlaceTellsNames'
    BY <1>16 DEF Undone, Goto, Fault
  <1>17. ASSUME NEW p \in Procs, WriteData(p) PROVE PlaceTellsNames'
    BY <1>17 DEF WriteData
  <1>18. ASSUME NEW p \in Procs, CleanupBegin(p) PROVE PlaceTellsNames'
    BY <1>18 DEF CleanupBegin, Goto, OwnershipVerified
  <1>19. ASSUME NEW p \in Procs, CleanupStep(p) PROVE PlaceTellsNames'
    BY <1>19 DEF CleanupStep, Goto, Dismantle, CanDismantle, Cleanup, PosixCleanup,
           WindowsCleanup, Released
  <1>20. ASSUME NEW p \in Procs, CleanupFails(p) PROVE PlaceTellsNames'
    BY <1>20 DEF CleanupFails, Goto, Fault, PastUnlock
  <1>21. ASSUME NEW p \in Procs, Crash(p) PROVE PlaceTellsNames'
    BY <1>21 DEF Crash, Goto, Fault, Forget
  <1>22. CASE UNCHANGED vars
    BY <1>22 DEF vars
  <1> QED BY <1>1, <1>2, <1>3, <1>4, <1>5, <1>6, <1>7, <1>8, <1>9, <1>10, <1>11,
         <1>12, <1>13, <1>14, <1>15, <1>16, <1>17, <1>18, <1>19, <1>20, <1>21, <1>22
         DEF Next

\* A step gives a name to one process only, and only once.
LEMMA NamesStayOwn ==
  ASSUME TypeOK, PlaceTellsNames, NamesAreOwn, [Next]_vars
  PROVE  NamesAreOwn'
  <1> USE SessionAssumption DEF disk, ghosts, local, TypeOK, PlaceTellsNames,
         NamesAreOwn, Targeting, Owning, PcStates
  <1>1. ASSUME NEW p \in Procs, RecoverBegin(p) PROVE NamesAreOwn'
    BY <1>1 DEF RecoverBegin, Goto
  <1>2. ASSUME NEW p \in Procs, NEW n \in Names, InspectMarker(p, n) PROVE NamesAreOwn'
    BY <1>2 DEF InspectMarker, Goto, Passed
  <1>3. ASSUME NEW p \in Procs, OpenLock(p) PROVE NamesAreOwn'
    BY <1>3 DEF OpenLock, Goto, Passed
  <1>4. ASSUME NEW p \in Procs, TryLock(p) PROVE NamesAreOwn'
    BY <1>4 DEF TryLock, Goto, Passed
  <1>5. ASSUME NEW p \in Procs, WindowsUnlock(p) PROVE NamesAreOwn'
    BY <1>5 DEF WindowsUnlock, Goto, Released
  <1>6. ASSUME NEW p \in Procs, NEW f \in Files, RemoveEntry(p, f) PROVE NamesAreOwn'
    BY <1>6 DEF RemoveEntry
  <1>7. ASSUME NEW p \in Procs, RecoveredOne(p) PROVE NamesAreOwn'
    BY <1>7 DEF RecoveredOne, Goto, Passed, Released
  <1>8. ASSUME NEW p \in Procs, RecoverFails(p) PROVE NamesAreOwn'
    BY <1>8 DEF RecoverFails, Goto, Released, Forget, Fault
  <1>9. ASSUME NEW p \in Procs, RecoverEnd(p) PROVE NamesAreOwn'
    BY <1>9 DEF RecoverEnd, Goto
  <1>10. ASSUME NEW p \in Procs, CreateBegin(p) PROVE NamesAreOwn'
    BY <1>10 DEF CreateBegin, Goto, Forget
  <1>11. ASSUME NEW p \in Procs, NEW n \in Names, CreateDirectory(p, n) PROVE NamesAreOwn'
    BY <1>11 DEF CreateDirectory, Stepped, Goto, Creation, PosixCreation,
           WindowsCreation
  <1>12. ASSUME NEW p \in Procs, CreateFile(p) PROVE NamesAreOwn'
    BY <1>12 DEF CreateFile, Stepped, Goto, Creation, PosixCreation, WindowsCreation
  <1>13. ASSUME NEW p \in Procs, WriteMarker(p) PROVE NamesAreOwn'
    BY <1>13 DEF WriteMarker, Stepped, Goto, Creation, PosixCreation, WindowsCreation
  <1>14. ASSUME NEW p \in Procs, CreateLock(p) PROVE NamesAreOwn'
    BY <1>14 DEF CreateLock, Stepped, Goto, Creation, PosixCreation, WindowsCreation
  <1>15. ASSUME NEW p \in Procs, CreateFails(p) PROVE NamesAreOwn'
    BY <1>15 DEF CreateFails, Goto, Released, Fault, Obstructed, Creation,
           PosixCreation, WindowsCreation
  <1>16. ASSUME NEW p \in Procs, Undone(p) PROVE NamesAreOwn'
    BY <1>16 DEF Undone, Goto, Fault
  <1>17. ASSUME NEW p \in Procs, WriteData(p) PROVE NamesAreOwn'
    BY <1>17 DEF WriteData
  <1>18. ASSUME NEW p \in Procs, CleanupBegin(p) PROVE NamesAreOwn'
    BY <1>18 DEF CleanupBegin, Goto, OwnershipVerified
  <1>19. ASSUME NEW p \in Procs, CleanupStep(p) PROVE NamesAreOwn'
    BY <1>19 DEF CleanupStep, Goto, Dismantle, CanDismantle, Cleanup, PosixCleanup,
           WindowsCleanup, Released
  <1>20. ASSUME NEW p \in Procs, CleanupFails(p) PROVE NamesAreOwn'
    BY <1>20 DEF CleanupFails, Goto, Fault, PastUnlock
  <1>21. ASSUME NEW p \in Procs, Crash(p) PROVE NamesAreOwn'
    BY <1>21 DEF Crash, Goto, Fault, Forget
  <1>22. CASE UNCHANGED vars
    BY <1>22 DEF vars
  <1> QED BY <1>1, <1>2, <1>3, <1>4, <1>5, <1>6, <1>7, <1>8, <1>9, <1>10, <1>11,
         <1>12, <1>13, <1>14, <1>15, <1>16, <1>17, <1>18, <1>19, <1>20, <1>21, <1>22
         DEF Next

\* On POSIX every step keeps the locks where the protocol has them: a recovery
\* that looks at an active session finds its lock held and passes it.
LEMMA PosixStays ==
  ASSUME TypeOK, PlaceTellsNames, NamesAreOwn, PosixInv, platform = "posix", [Next]_vars
  PROVE  PosixInv'
  <1> USE SessionAssumption DEF disk, ghosts, local, TypeOK, PlaceTellsNames,
         NamesAreOwn, PosixInv, Targeting, Owning, PcStates, OwnerHolds,
         RemoverHolds, UnfinishedIsUnmarked, CreationProceeds, SessionKept
  <1>1. ASSUME NEW p \in Procs, RecoverBegin(p) PROVE PosixInv'
    BY <1>1 DEF RecoverBegin, Goto
  <1>2. ASSUME NEW p \in Procs, NEW n \in Names, InspectMarker(p, n) PROVE PosixInv'
    BY <1>2 DEF InspectMarker, Goto, Passed
  <1>3. ASSUME NEW p \in Procs, OpenLock(p) PROVE PosixInv'
    BY <1>3 DEF OpenLock, Goto, Passed
  <1>4. ASSUME NEW p \in Procs, TryLock(p) PROVE PosixInv'
    BY <1>4 DEF TryLock, Goto, Passed
  <1>5. ASSUME NEW p \in Procs, WindowsUnlock(p) PROVE PosixInv'
    BY <1>5 DEF WindowsUnlock, Goto, Released
  <1>6. ASSUME NEW p \in Procs, NEW f \in Files, RemoveEntry(p, f) PROVE PosixInv'
    BY <1>6 DEF RemoveEntry
  <1>7. ASSUME NEW p \in Procs, RecoveredOne(p) PROVE PosixInv'
    BY <1>7 DEF RecoveredOne, Goto, Passed, Released
  <1>8. ASSUME NEW p \in Procs, RecoverFails(p) PROVE PosixInv'
    BY <1>8 DEF RecoverFails, Goto, Released, Forget, Fault
  <1>9. ASSUME NEW p \in Procs, RecoverEnd(p) PROVE PosixInv'
    BY <1>9 DEF RecoverEnd, Goto
  <1>10. ASSUME NEW p \in Procs, CreateBegin(p) PROVE PosixInv'
    BY <1>10 DEF CreateBegin, Goto, Forget
  <1>11. ASSUME NEW p \in Procs, NEW n \in Names, CreateDirectory(p, n) PROVE PosixInv'
    BY <1>11 DEF CreateDirectory, Stepped, Goto, Creation, PosixCreation,
           WindowsCreation
  <1>12. ASSUME NEW p \in Procs, CreateFile(p) PROVE PosixInv'
    BY <1>12 DEF CreateFile, Stepped, Goto, Creation, PosixCreation, WindowsCreation
  <1>13. ASSUME NEW p \in Procs, WriteMarker(p) PROVE PosixInv'
    BY <1>13 DEF WriteMarker, Stepped, Goto, Creation, PosixCreation, WindowsCreation
  <1>14. ASSUME NEW p \in Procs, CreateLock(p) PROVE PosixInv'
    BY <1>14 DEF CreateLock, Stepped, Goto, Creation, PosixCreation, WindowsCreation
  <1>15. ASSUME NEW p \in Procs, CreateFails(p) PROVE PosixInv'
    BY <1>15 DEF CreateFails, Goto, Released, Fault, Obstructed, Creation,
           PosixCreation, WindowsCreation
  <1>16. ASSUME NEW p \in Procs, Undone(p) PROVE PosixInv'
    BY <1>16 DEF Undone, Goto, Fault
  <1>17. ASSUME NEW p \in Procs, WriteData(p) PROVE PosixInv'
    BY <1>17 DEF WriteData
  <1>18. ASSUME NEW p \in Procs, CleanupBegin(p) PROVE PosixInv'
    BY <1>18 DEF CleanupBegin, Goto, OwnershipVerified
  <1>19. ASSUME NEW p \in Procs, CleanupStep(p) PROVE PosixInv'
    BY <1>19 DEF CleanupStep, Goto, Dismantle, CanDismantle, Cleanup, PosixCleanup,
           WindowsCleanup, Released
  <1>20. ASSUME NEW p \in Procs, CleanupFails(p) PROVE PosixInv'
    BY <1>20 DEF CleanupFails, Goto, Fault, PastUnlock
  <1>21. ASSUME NEW p \in Procs, Crash(p) PROVE PosixInv'
    BY <1>21 DEF Crash, Goto, Fault, Forget
  <1>22. CASE UNCHANGED vars
    BY <1>22 DEF vars
  <1> QED BY <1>1, <1>2, <1>3, <1>4, <1>5, <1>6, <1>7, <1>8, <1>9, <1>10, <1>11,
         <1>12, <1>13, <1>14, <1>15, <1>16, <1>17, <1>18, <1>19, <1>20, <1>21, <1>22,
         SessionAssumption DEF Next

\* A lock has a process that tends it after every step.
LEMMA LocksStayTended ==
  ASSUME IInv, HolderTends, [Next]_vars
  PROVE  HolderTends'
  <1> USE SessionAssumption DEF disk, ghosts, local, HolderTends, PastUnlock, IInv,
         TypeOK, PlaceTellsNames, NamesAreOwn, Targeting, Owning, PcStates
  <1>1. ASSUME NEW p \in Procs, RecoverBegin(p) PROVE HolderTends'
    BY <1>1 DEF RecoverBegin, Goto
  <1>2. ASSUME NEW p \in Procs, NEW n \in Names, InspectMarker(p, n) PROVE HolderTends'
    BY <1>2 DEF InspectMarker, Goto, Passed
  <1>3. ASSUME NEW p \in Procs, OpenLock(p) PROVE HolderTends'
    BY <1>3 DEF OpenLock, Goto, Passed
  <1>4. ASSUME NEW p \in Procs, TryLock(p) PROVE HolderTends'
    BY <1>4 DEF TryLock, Goto, Passed
  <1>5. ASSUME NEW p \in Procs, WindowsUnlock(p) PROVE HolderTends'
    BY <1>5 DEF WindowsUnlock, Goto, Released
  <1>6. ASSUME NEW p \in Procs, NEW f \in Files, RemoveEntry(p, f) PROVE HolderTends'
    BY <1>6 DEF RemoveEntry
  <1>7. ASSUME NEW p \in Procs, RecoveredOne(p) PROVE HolderTends'
    BY <1>7 DEF RecoveredOne, Goto, Passed, Released
  <1>8. ASSUME NEW p \in Procs, RecoverFails(p) PROVE HolderTends'
    BY <1>8 DEF RecoverFails, Goto, Released, Forget, Fault
  <1>9. ASSUME NEW p \in Procs, RecoverEnd(p) PROVE HolderTends'
    BY <1>9 DEF RecoverEnd, Goto
  <1>10. ASSUME NEW p \in Procs, CreateBegin(p) PROVE HolderTends'
    BY <1>10 DEF CreateBegin, Goto, Forget
  <1>11. ASSUME NEW p \in Procs, NEW n \in Names, CreateDirectory(p, n) PROVE HolderTends'
    BY <1>11 DEF CreateDirectory, Stepped, Goto, Creation, PosixCreation,
           WindowsCreation
  <1>12. ASSUME NEW p \in Procs, CreateFile(p) PROVE HolderTends'
    BY <1>12 DEF CreateFile, Stepped, Goto, Creation, PosixCreation, WindowsCreation
  <1>13. ASSUME NEW p \in Procs, WriteMarker(p) PROVE HolderTends'
    BY <1>13 DEF WriteMarker, Stepped, Goto, Creation, PosixCreation, WindowsCreation
  <1>14. ASSUME NEW p \in Procs, CreateLock(p) PROVE HolderTends'
    BY <1>14 DEF CreateLock, Stepped, Goto, Creation, PosixCreation, WindowsCreation
  <1>15. ASSUME NEW p \in Procs, CreateFails(p) PROVE HolderTends'
    BY <1>15 DEF CreateFails, Goto, Released, Fault, Obstructed, Creation,
           PosixCreation, WindowsCreation
  <1>16. ASSUME NEW p \in Procs, Undone(p) PROVE HolderTends'
    BY <1>16 DEF Undone, Goto, Fault
  <1>17. ASSUME NEW p \in Procs, WriteData(p) PROVE HolderTends'
    BY <1>17 DEF WriteData
  <1>18. ASSUME NEW p \in Procs, CleanupBegin(p) PROVE HolderTends'
    BY <1>18 DEF CleanupBegin, Goto, OwnershipVerified
  <1>19. ASSUME NEW p \in Procs, CleanupStep(p) PROVE HolderTends'
    <2>1. ASSUME NEW n \in Names, NEW q \in Procs, holder'[n] = q
          PROVE  holder[n] = q
      BY <1>19, <2>1, SessionAssumption DEF CleanupStep, Dismantle, Released, IInv,
             TypeOK
    <2>2. ASSUME NEW n \in Names, NEW q \in Procs, q # p
          PROVE  /\ name'[q] = name[q] /\ pc'[q] = pc[q] /\ target'[q] = target[q]
                 /\ step'[q] = step[q]
      BY <1>19, <2>2 DEF CleanupStep, Goto, IInv, TypeOK
    <2>3. ASSUME NEW n \in Names, holder'[n] = p, name[p] = n
          PROVE  name'[p] = n /\ pc'[p] = "cleaning" /\ ~PastUnlock(p)'
      <3>1. CASE platform = "posix"
        BY <1>19, <2>3, <3>1, SessionAssumption
           DEF CleanupStep, Dismantle, Goto, Released, Cleanup, PosixCleanup,
                  PastUnlock, IInv, TypeOK
      <3>2. CASE platform = "windows"
        <4>1. step[p] # 3
          BY <1>19, <2>3, <3>2, SessionAssumption
             DEF CleanupStep, Dismantle, Released, Cleanup, WindowsCleanup, IInv, TypeOK
        <4>2. step[p] <= 3
          BY <1>19, <2>1, <2>3, <3>2, SessionAssumption
             DEF CleanupStep, HolderTends, PastUnlock, IInv, TypeOK, PlaceTellsNames,
                    Targeting, Owning
        <4> QED BY <1>19, <2>3, <3>2, <4>1, <4>2
                DEF CleanupStep, Goto, Cleanup, WindowsCleanup, PastUnlock, IInv, TypeOK
      <3> QED BY <3>1, <3>2 DEF IInv, TypeOK, Platforms
    <2>4. /\ target' = target /\ pc[p] = "cleaning" /\ target[p] = NoName
          /\ platform' = platform
      BY <1>19 DEF CleanupStep, IInv, PlaceTellsNames, Targeting
    <2> QED BY <2>1, <2>2, <2>3, <2>4, SessionAssumption DEF HolderTends, PastUnlock
  <1>20. ASSUME NEW p \in Procs, CleanupFails(p) PROVE HolderTends'
    BY <1>20 DEF CleanupFails, Goto, Fault
  <1>21. ASSUME NEW p \in Procs, Crash(p) PROVE HolderTends'
    BY <1>21 DEF Crash, Goto, Fault, Forget
  <1>22. CASE UNCHANGED vars
    BY <1>22 DEF vars
  <1> QED BY <1>1, <1>2, <1>3, <1>4, <1>5, <1>6, <1>7, <1>8, <1>9, <1>10, <1>11,
         <1>12, <1>13, <1>14, <1>15, <1>16, <1>17, <1>18, <1>19, <1>20, <1>21, <1>22,
         SessionAssumption DEF Next

\* A step that writes, removes or gives up leaves the data recoverable.
LEMMA DataStaysRecoverable ==
  ASSUME IInv, DataIsRecoverable, [Next]_vars,
         platform = "windows" => \A p \in Procs : WindowsCreates(p)
  PROVE  DataIsRecoverable'
  <1> USE SessionAssumption DEF disk, ghosts, local, IInv, DataIsRecoverable,
         WindowsCreates, Recoverable, BeingRemoved, OwnershipVerified, Platforms,
         TypeOK, PlaceTellsNames, NamesAreOwn, Targeting, Owning, PcStates, PosixInv,
         OwnerHolds, RemoverHolds, UnfinishedIsUnmarked, CreationProceeds,
         SessionKept
  <1>1. ASSUME NEW p \in Procs, RecoverBegin(p) PROVE DataIsRecoverable'
    BY <1>1 DEF RecoverBegin, Goto
  <1>2. ASSUME NEW p \in Procs, NEW n \in Names, InspectMarker(p, n) PROVE DataIsRecoverable'
    BY <1>2 DEF InspectMarker, Goto, Passed
  <1>3. ASSUME NEW p \in Procs, OpenLock(p) PROVE DataIsRecoverable'
    BY <1>3 DEF OpenLock, Goto, Passed
  <1>4. ASSUME NEW p \in Procs, TryLock(p) PROVE DataIsRecoverable'
    BY <1>4 DEF TryLock, Goto, Passed
  <1>5. ASSUME NEW p \in Procs, WindowsUnlock(p) PROVE DataIsRecoverable'
    BY <1>5 DEF WindowsUnlock, Goto, Released
  <1>6. ASSUME NEW p \in Procs, NEW f \in Files, RemoveEntry(p, f) PROVE DataIsRecoverable'
    <2>1. CASE pc[p] = "removing"
      <3>1. BeingRemoved(target[p]) /\ files' = [files EXCEPT ![target[p]] = @ \ {f}]
        BY <1>6, <2>1 DEF RemoveEntry, BeingRemoved
      <3>2. \A n \in Names : BeingRemoved(n)' = BeingRemoved(n)
        BY <1>6 DEF RemoveEntry, BeingRemoved, local
      <3>3. \A n \in Names : Recoverable(n) => Recoverable(n)'
        BY <1>6, <3>1, <3>2 DEF RemoveEntry, Recoverable, ghosts, IInv, TypeOK
      <3> QED BY <1>6, <2>1, <3>1, <3>3, SessionAssumption
              DEF RemoveEntry, DataIsRecoverable, local, IInv, TypeOK,
                     PlaceTellsNames, Owning
    <2>2. CASE pc[p] = "undoing"
      <3>1. files' = [files EXCEPT ![name[p]] = @ \ {f}] /\ name[p] \in Names
            /\ "data" \notin files[name[p]]
        BY <1>6, <2>2, SessionAssumption
           DEF RemoveEntry, DataIsRecoverable, IInv, PlaceTellsNames, Owning
      <3>2. \A n \in Names : n # name[p] => Recoverable(n)' = Recoverable(n)
        BY <1>6, <3>1 DEF RemoveEntry, Recoverable, BeingRemoved, local, ghosts,
               IInv, TypeOK
      <3>3. \A q \in Procs : pc[q] = "active" => name[q] \in Names /\ name[q] # name[p]
        BY <2>2, <3>1, SessionAssumption DEF IInv, NamesAreOwn, PlaceTellsNames, Owning
      <3> QED BY <1>6, <3>1, <3>2, <3>3, SessionAssumption
              DEF RemoveEntry, DataIsRecoverable, local, IInv, TypeOK,
                     PlaceTellsNames, Owning
    <2> QED BY <1>6, <2>1, <2>2 DEF RemoveEntry
  <1>7. ASSUME NEW p \in Procs, RecoveredOne(p) PROVE DataIsRecoverable'
    BY <1>7 DEF RecoveredOne, Goto, Passed, Released
  <1>8. ASSUME NEW p \in Procs, RecoverFails(p) PROVE DataIsRecoverable'
    BY <1>8 DEF RecoverFails, Goto, Released, Forget, Fault
  <1>9. ASSUME NEW p \in Procs, RecoverEnd(p) PROVE DataIsRecoverable'
    BY <1>9 DEF RecoverEnd, Goto
  <1>10. ASSUME NEW p \in Procs, CreateBegin(p) PROVE DataIsRecoverable'
    BY <1>10 DEF CreateBegin, Goto, Forget
  <1>11. ASSUME NEW p \in Procs, NEW n \in Names, CreateDirectory(p, n) PROVE DataIsRecoverable'
    BY <1>11 DEF CreateDirectory, Stepped, Goto, Creation, PosixCreation,
           WindowsCreation
  <1>12. ASSUME NEW p \in Procs, CreateFile(p) PROVE DataIsRecoverable'
    BY <1>12 DEF CreateFile, Stepped, Goto, Creation, PosixCreation, WindowsCreation
  <1>13. ASSUME NEW p \in Procs, WriteMarker(p) PROVE DataIsRecoverable'
    BY <1>13 DEF WriteMarker, Stepped, Goto, Creation, PosixCreation, WindowsCreation
  <1>14. ASSUME NEW p \in Procs, CreateLock(p) PROVE DataIsRecoverable'
    BY <1>14 DEF CreateLock, Stepped, Goto, Creation, PosixCreation, WindowsCreation
  <1>15. ASSUME NEW p \in Procs, CreateFails(p) PROVE DataIsRecoverable'
    BY <1>15 DEF CreateFails, Goto, Released, Fault, Obstructed, Creation,
           PosixCreation, WindowsCreation
  <1>16. ASSUME NEW p \in Procs, Undone(p) PROVE DataIsRecoverable'
    BY <1>16 DEF Undone, Goto, Fault
  <1>17. ASSUME NEW p \in Procs, WriteData(p) PROVE DataIsRecoverable'
    BY <1>17 DEF WriteData
  <1>18. ASSUME NEW p \in Procs, CleanupBegin(p) PROVE DataIsRecoverable'
    BY <1>18 DEF CleanupBegin, Goto
  <1>19. ASSUME NEW p \in Procs, CleanupStep(p) PROVE DataIsRecoverable'
    BY <1>19 DEF CleanupStep, Goto, Dismantle, CanDismantle, Cleanup, PosixCleanup,
           WindowsCleanup, Released
  <1>20. ASSUME NEW p \in Procs, CleanupFails(p) PROVE DataIsRecoverable'
    BY <1>20 DEF CleanupFails, Goto, Fault, PastUnlock
  <1>21. ASSUME NEW p \in Procs, Crash(p) PROVE DataIsRecoverable'
    BY <1>21 DEF Crash, Goto, Fault, Forget
  <1>22. CASE UNCHANGED vars
    BY <1>22 DEF vars
  <1> QED BY <1>1, <1>2, <1>3, <1>4, <1>5, <1>6, <1>7, <1>8, <1>9, <1>10, <1>11,
         <1>12, <1>13, <1>14, <1>15, <1>16, <1>17, <1>18, <1>19, <1>20, <1>21, <1>22,
         SessionAssumption DEF Next

\* On Windows the making of a session goes on beside a recovery at work on it.
LEMMA WindowsCreationStays ==
  ASSUME IInv, platform = "windows", \A p \in Procs : WindowsCreates(p), [Next]_vars
  PROVE  (\A q \in Procs : WindowsCreates(q))'
  <1> USE SessionAssumption DEF disk, ghosts, local, IInv, WindowsCreates,
         Recoverable, BeingRemoved, TypeOK, PlaceTellsNames, NamesAreOwn, Targeting,
         Owning, PcStates
  <1>1. ASSUME NEW p \in Procs, RecoverBegin(p) PROVE (\A q \in Procs :
         WindowsCreates(q))'
    BY <1>1 DEF RecoverBegin, Goto
  <1>2. ASSUME NEW p \in Procs, NEW n \in Names, InspectMarker(p, n) PROVE (\A q \in
         Procs : WindowsCreates(q))'
    BY <1>2 DEF InspectMarker, Goto, Passed
  <1>3. ASSUME NEW p \in Procs, OpenLock(p) PROVE (\A q \in Procs : WindowsCreates(q))'
    BY <1>3 DEF OpenLock, Goto, Passed
  <1>4. ASSUME NEW p \in Procs, TryLock(p) PROVE (\A q \in Procs : WindowsCreates(q))'
    BY <1>4 DEF TryLock, Goto, Passed
  <1>5. ASSUME NEW p \in Procs, WindowsUnlock(p) PROVE (\A q \in Procs :
         WindowsCreates(q))'
    BY <1>5 DEF WindowsUnlock, Goto, Released
  <1>6. ASSUME NEW p \in Procs, NEW f \in Files, RemoveEntry(p, f) PROVE (\A q \in
         Procs : WindowsCreates(q))'
    BY <1>6 DEF RemoveEntry
  <1>7. ASSUME NEW p \in Procs, RecoveredOne(p) PROVE (\A q \in Procs :
         WindowsCreates(q))'
    BY <1>7 DEF RecoveredOne, Goto, Passed, Released
  <1>8. ASSUME NEW p \in Procs, RecoverFails(p) PROVE (\A q \in Procs :
         WindowsCreates(q))'
    BY <1>8 DEF RecoverFails, Goto, Released, Forget, Fault
  <1>9. ASSUME NEW p \in Procs, RecoverEnd(p) PROVE (\A q \in Procs :
         WindowsCreates(q))'
    BY <1>9 DEF RecoverEnd, Goto
  <1>10. ASSUME NEW p \in Procs, CreateBegin(p) PROVE (\A q \in Procs :
         WindowsCreates(q))'
    BY <1>10 DEF CreateBegin, Goto, Forget
  <1>11. ASSUME NEW p \in Procs, NEW n \in Names, CreateDirectory(p, n) PROVE (\A q
         \in Procs : WindowsCreates(q))'
    BY <1>11 DEF CreateDirectory, Stepped, Goto, Creation, PosixCreation,
           WindowsCreation
  <1>12. ASSUME NEW p \in Procs, CreateFile(p) PROVE (\A q \in Procs :
         WindowsCreates(q))'
    BY <1>12 DEF CreateFile, Stepped, Goto, Creation, PosixCreation, WindowsCreation
  <1>13. ASSUME NEW p \in Procs, WriteMarker(p) PROVE (\A q \in Procs :
         WindowsCreates(q))'
    BY <1>13 DEF WriteMarker, Stepped, Goto, Creation, PosixCreation, WindowsCreation
  <1>14. ASSUME NEW p \in Procs, CreateLock(p) PROVE (\A q \in Procs :
         WindowsCreates(q))'
    BY <1>14 DEF CreateLock, Stepped, Goto, Creation, PosixCreation, WindowsCreation
  <1>15. ASSUME NEW p \in Procs, CreateFails(p) PROVE (\A q \in Procs :
         WindowsCreates(q))'
    BY <1>15 DEF CreateFails, Goto, Released, Fault, Obstructed, Creation,
           PosixCreation, WindowsCreation
  <1>16. ASSUME NEW p \in Procs, Undone(p) PROVE (\A q \in Procs : WindowsCreates(q))'
    BY <1>16 DEF Undone, Goto, Fault
  <1>17. ASSUME NEW p \in Procs, WriteData(p) PROVE (\A q \in Procs :
         WindowsCreates(q))'
    BY <1>17 DEF WriteData
  <1>18. ASSUME NEW p \in Procs, CleanupBegin(p) PROVE (\A q \in Procs :
         WindowsCreates(q))'
    BY <1>18 DEF CleanupBegin, Goto, OwnershipVerified
  <1>19. ASSUME NEW p \in Procs, CleanupStep(p) PROVE (\A q \in Procs :
         WindowsCreates(q))'
    BY <1>19 DEF CleanupStep, Goto, Dismantle, CanDismantle, Cleanup, PosixCleanup,
           WindowsCleanup, Released
  <1>20. ASSUME NEW p \in Procs, CleanupFails(p) PROVE (\A q \in Procs :
         WindowsCreates(q))'
    BY <1>20 DEF CleanupFails, Goto, Fault, PastUnlock
  <1>21. ASSUME NEW p \in Procs, Crash(p) PROVE (\A q \in Procs : WindowsCreates(q))'
    BY <1>21 DEF Crash, Goto, Fault, Forget
  <1>22. CASE UNCHANGED vars
    BY <1>22 DEF vars
  <1> QED BY <1>1, <1>2, <1>3, <1>4, <1>5, <1>6, <1>7, <1>8, <1>9, <1>10, <1>11,
         <1>12, <1>13, <1>14, <1>15, <1>16, <1>17, <1>18, <1>19, <1>20, <1>21, <1>22,
         SessionAssumption DEF Next

\* A scan finds, at every step, that what it is past is gone, torn or tended.
LEMMA ScansStaySound ==
  ASSUME IInv, HolderTends, \A p \in Procs : ScanIsSound(p), [Next]_vars
  PROVE  (\A q \in Procs : ScanIsSound(q))'
  <1> USE SessionAssumption DEF disk, ghosts, local, IInv, HolderTends, ScanIsSound,
         Recoverable, BeingRemoved, PastUnlock, Abandoned, Tended, TypeOK,
         PlaceTellsNames, NamesAreOwn, Targeting, Owning, PcStates
  <1>1. ASSUME NEW p \in Procs, RecoverBegin(p) PROVE (\A q \in Procs : ScanIsSound(q))'
    BY <1>1 DEF RecoverBegin, Goto
  <1>2. ASSUME NEW p \in Procs, NEW n \in Names, InspectMarker(p, n) PROVE (\A q \in
         Procs : ScanIsSound(q))'
    BY <1>2 DEF InspectMarker, Goto, Passed
  <1>3. ASSUME NEW p \in Procs, OpenLock(p) PROVE (\A q \in Procs : ScanIsSound(q))'
    BY <1>3 DEF OpenLock, Goto, Passed
  <1>4. ASSUME NEW p \in Procs, TryLock(p) PROVE (\A q \in Procs : ScanIsSound(q))'
    BY <1>4 DEF TryLock, Goto, Passed
  <1>5. ASSUME NEW p \in Procs, WindowsUnlock(p) PROVE (\A q \in Procs :
         ScanIsSound(q))'
    BY <1>5 DEF WindowsUnlock, Goto, Released
  <1>6. ASSUME NEW p \in Procs, NEW f \in Files, RemoveEntry(p, f) PROVE (\A q \in
         Procs : ScanIsSound(q))'
    BY <1>6 DEF RemoveEntry
  <1>7. ASSUME NEW p \in Procs, RecoveredOne(p) PROVE (\A q \in Procs : ScanIsSound(q))'
    BY <1>7 DEF RecoveredOne, Goto, Passed, Released
  <1>8. ASSUME NEW p \in Procs, RecoverFails(p) PROVE (\A q \in Procs : ScanIsSound(q))'
    BY <1>8 DEF RecoverFails, Goto, Released, Forget, Fault
  <1>9. ASSUME NEW p \in Procs, RecoverEnd(p) PROVE (\A q \in Procs : ScanIsSound(q))'
    BY <1>9 DEF RecoverEnd, Goto
  <1>10. ASSUME NEW p \in Procs, CreateBegin(p) PROVE (\A q \in Procs : ScanIsSound(q))'
    BY <1>10 DEF CreateBegin, Goto, Forget
  <1>11. ASSUME NEW p \in Procs, NEW n \in Names, CreateDirectory(p, n) PROVE (\A q
         \in Procs : ScanIsSound(q))'
    BY <1>11 DEF CreateDirectory, Stepped, Goto, Creation, PosixCreation,
           WindowsCreation
  <1>12. ASSUME NEW p \in Procs, CreateFile(p) PROVE (\A q \in Procs : ScanIsSound(q))'
    BY <1>12 DEF CreateFile, Stepped, Goto, Creation, PosixCreation, WindowsCreation
  <1>13. ASSUME NEW p \in Procs, WriteMarker(p) PROVE (\A q \in Procs : ScanIsSound(q))'
    BY <1>13 DEF WriteMarker, Stepped, Goto, Creation, PosixCreation, WindowsCreation
  <1>14. ASSUME NEW p \in Procs, CreateLock(p) PROVE (\A q \in Procs : ScanIsSound(q))'
    BY <1>14 DEF CreateLock, Stepped, Goto, Creation, PosixCreation, WindowsCreation
  <1>15. ASSUME NEW p \in Procs, CreateFails(p) PROVE (\A q \in Procs : ScanIsSound(q))'
    BY <1>15 DEF CreateFails, Goto, Released, Fault, Obstructed, Creation,
           PosixCreation, WindowsCreation
  <1>16. ASSUME NEW p \in Procs, Undone(p) PROVE (\A q \in Procs : ScanIsSound(q))'
    BY <1>16 DEF Undone, Goto, Fault
  <1>17. ASSUME NEW p \in Procs, WriteData(p) PROVE (\A q \in Procs : ScanIsSound(q))'
    BY <1>17 DEF WriteData
  <1>18. ASSUME NEW p \in Procs, CleanupBegin(p) PROVE (\A q \in Procs :
         ScanIsSound(q))'
    BY <1>18 DEF CleanupBegin, Goto, OwnershipVerified
  <1>19. ASSUME NEW p \in Procs, CleanupStep(p) PROVE (\A q \in Procs : ScanIsSound(q))'
    BY <1>19 DEF CleanupStep, Goto, Dismantle, CanDismantle, Cleanup, PosixCleanup,
           WindowsCleanup, Released
  <1>20. ASSUME NEW p \in Procs, CleanupFails(p) PROVE (\A q \in Procs :
         ScanIsSound(q))'
    BY <1>20 DEF CleanupFails, Goto, Fault
  <1>21. ASSUME NEW p \in Procs, Crash(p) PROVE (\A q \in Procs : ScanIsSound(q))'
    BY <1>21 DEF Crash, Goto, Fault, Forget
  <1>22. CASE UNCHANGED vars
    BY <1>22 DEF vars
  <1> QED BY <1>1, <1>2, <1>3, <1>4, <1>5, <1>6, <1>7, <1>8, <1>9, <1>10, <1>11,
         <1>12, <1>13, <1>14, <1>15, <1>16, <1>17, <1>18, <1>19, <1>20, <1>21, <1>22,
         SessionAssumption DEF Next

-----------------------------------------------------------------------------
\* The strengthened invariant holds before anything is made.
LEMMA StartsSound ==
  ASSUME Init
  PROVE  IInv /\ RInv
  <1> USE SessionAssumption DEF Init
  <1>1. TypeOK
    <2>1. files \in [Names -> SUBSET Files] /\ holder \in [Names -> Procs \cup {NoProc}]
      OBVIOUS
    <2>2. /\ pc \in [Procs -> PcStates] /\ step \in [Procs -> 1 .. 5]
          /\ name \in [Procs -> Names \cup {NoName}]
          /\ target \in [Procs -> Names \cup {NoName}]
      BY DEF PcStates
    <2>3. /\ seen \in [Procs -> SUBSET Names] /\ begun \in [Procs -> SUBSET Names]
          /\ stale \in [Procs -> SUBSET Names]
      OBVIOUS
    <2>4. faults \in 0 .. MaxFaults
      OBVIOUS
    <2> QED BY <2>1, <2>2, <2>3, <2>4 DEF TypeOK
  <1>2. PlaceTellsNames /\ NamesAreOwn
    BY DEF PlaceTellsNames, NamesAreOwn, Targeting, Owning
  <1>3. PosixInv
    BY DEF PosixInv, OwnerHolds, RemoverHolds, UnfinishedIsUnmarked, CreationProceeds, SessionKept
  <1>4. DataIsRecoverable /\ HolderTends
    BY DEF DataIsRecoverable, HolderTends
  <1>5. \A p \in Procs : ScanIsSound(p) /\ WindowsCreates(p)
    BY DEF ScanIsSound, WindowsCreates, Targeting
  <1> QED BY <1>1, <1>2, <1>3, <1>4, <1>5 DEF IInv, RInv

\* Every step keeps it, and the platform is never another.
LEMMA StepsKeepIt ==
  ASSUME IInv, RInv, [Next]_vars
  PROVE  IInv' /\ RInv'
  <1>1. platform' = platform
    BY DEF Next, vars, RecoverBegin, InspectMarker, OpenLock, TryLock, WindowsUnlock,
           RemoveEntry, RecoveredOne, RecoverFails, RecoverEnd, CreateBegin, CreateDirectory,
           CreateFile, WriteMarker, CreateLock, CreateFails, Undone, WriteData, CleanupBegin,
           CleanupStep, CleanupFails, Crash
  <1>2. TypeOK' /\ PlaceTellsNames' /\ NamesAreOwn'
    BY TypesAreKept, PlacesAreKept, NamesStayOwn DEF IInv
  <1>3. (platform = "posix" => PosixInv)'
    BY <1>1, PosixStays DEF IInv
  <1>4. DataIsRecoverable' /\ HolderTends' /\ (\A p \in Procs : ScanIsSound(p))'
    BY DataStaysRecoverable, LocksStayTended, ScansStaySound DEF RInv
  <1>5. (platform = "windows" => \A p \in Procs : WindowsCreates(p))'
    BY <1>1, WindowsCreationStays DEF RInv
  <1> QED BY <1>2, <1>3, <1>4, <1>5 DEF IInv, RInv

\* ActiveSessionIsKept: on POSIX the session of a live process stays whole, for
\* any number of processes that recover beside it, crashes and failures.
THEOREM SessionsAreKept == Spec => []ActiveSessionIsKept
  <1>1. IInv => ActiveSessionIsKept
    BY DEF IInv, PosixInv, ActiveSessionIsKept
  <1> QED BY <1>1, StartsSound, StepsKeepIt, PTL DEF Spec

\* LeftoverDataIsRecoverable: on both platforms, data that nobody tends has its
\* marker and its lock file, unless its removal was cut short.
THEOREM DataIsLeftRecoverable == Spec => []LeftoverDataIsRecoverable
  <1>1. IInv /\ RInv => LeftoverDataIsRecoverable
    BY DEF IInv, TypeOK, RInv, DataIsRecoverable, Recoverable, BeingRemoved,
           LeftoverDataIsRecoverable, Tended
  <1> QED BY <1>1, StartsSound, StepsKeepIt, PTL DEF Spec

\* RecoveryIsComplete: a recovery that succeeds left nothing that was abandoned
\* when it began, but to another recovery or torn.
THEOREM RecoveriesAreComplete == Spec => []RecoveryIsComplete
  <1>1. IInv /\ RInv => RecoveryIsComplete
    BY DEF RInv, ScanIsSound, BeingRemoved, RecoveryIsComplete
  <1> QED BY <1>1, StartsSound, StepsKeepIt, PTL DEF Spec

-----------------------------------------------------------------------------
(* Preservation: its invariant.                                            *)

\* Before the image has its final name, and afterwards.
Writing == {"create", "write", "sync", "verify", "commit", "unlink"}
Underway == {"inspect", "validate", "bundle", "cleanup"} \cup Writing

ImageIsWhole == whole /\ synced /\ Len(image) = Sectors

\* What the places of the writer know of the files.
FilesFit ==
  /\ place \in Writing \ {"create"} => partial = "ours"
  /\ place \in {"sync", "verify", "commit"} => whole /\ Len(image) = Sectors
  /\ place \in {"verify", "commit"} => synced
  /\ place \in Writing => sidecars = 0
  /\ place \in Writing \ {"unlink"} => final # "ours"
  /\ place \in {"unlink", "bundle"} \/ sidecars > 0 \/ result.success => final = "ours"
  /\ final = "ours" => ImageIsWhole
  /\ "final" \in intruders => final = "foreign"

Results == [unreadable : SUBSET Copy!Disc, verified : BOOLEAN,
            status : {"none", "playable-xiso", "candidate", "evidence-complete"},
            map : {"none", "error", "authenticated", "user", "catalog"}, success : BOOLEAN]

\* What they know of the result, which nobody finishes before the bundle.
ResultFits ==
  /\ result \in Results
  /\ place \in Underway => ~result.success
  /\ place \in {"inspect", "validate", "create", "write", "sync", "verify"} => ~result.verified
  /\ place \in {"inspect", "validate", "create"} => result.unreadable = {}
  /\ place = "verify" => job.verify
  /\ place \in Writing \cup {"bundle"} \/ result.success => result.map = Copy!ResolveMap(job)
  /\ place \in {"commit", "unlink", "bundle"} \/ result.success => result.verified = job.verify
  /\ place \in {"unlink", "bundle"} \/ result.success => result.status = Copy!Classified
  /\ result.success => sidecars = Len(Copy!Bundle(job, result.map))

\* So far, zeros were written for the unreadable and the normalised sectors.
WrittenSoFar ==
  \A s \in 0 .. Len(image) - 1 :
    /\ image[s + 1] = "zero" <=> s \in result.unreadable \cup Copy!Normalized
    /\ disc[s] = "bad" => s \in result.unreadable \cup Copy!Normalized

WrittenIsTrue ==
  place \in (Writing \cup {"bundle"}) \ {"create"} \/ result.success =>
    WrittenSoFar /\ result.unreadable \subseteq 0 .. Len(image) - 1

ManifestFits ==
  manifest # Copy!NoManifest =>
    /\ sidecars > 0
    /\ manifest.readback = job.verify
    /\ manifest.authenticated => job.ss = "authentic"
    /\ \A s \in Copy!Disc \ SecurityRanges :
         image[s + 1] = "zero" <=> s \in manifest.unreadable

\* A cancellation in time stands, and is looked at again.
CancelFits ==
  /\ place \in Underway \cup {"finish"} => preserving
  /\ warned /\ place \in {"inspect", "validate", "create", "write", "sync", "verify"} =>
       cancelled /\ Copy!LooksAgain
  /\ CancelIsHonoured

CopyInv == Copy!TypeOK /\ FilesFit /\ ResultFits /\ WrittenIsTrue /\ ManifestFits /\ CancelFits

\* The copies of the standard module count alike.
LEMMA SameCount == \A S : Copy!Cardinality(S) = Cardinality(S)
  BY DEF Copy!Cardinality, Cardinality

\* The next block is as long as the disc and the buffer allow.
LEMMA BlockIsInterval ==
  ASSUME Copy!TypeOK
  PROVE  \E n \in Nat : /\ n = Cardinality(Copy!Block) /\ n <= Sectors - Len(image)
                        /\ Copy!Block = Len(image) .. Len(image) + n - 1
                        /\ Copy!Block = {} => Len(image) = Sectors
  <1>1. PICK l \in Nat : l = Len(image) /\ l <= Sectors
    BY LenProperties DEF Copy!TypeOK
  <1>2. Sectors \in Nat \ {0} /\ BlockSectors \in Nat \ {0}
    BY CopyIsBounded DEF Copy!PreservationAssumption
  <1>3. PICK n \in Nat : n = IF l + BlockSectors <= Sectors THEN BlockSectors ELSE Sectors - l
    BY <1>1, <1>2
  <1>4. n <= Sectors - l
    BY <1>1, <1>2, <1>3
  <1>5. Copy!Block = l .. l + n - 1
    <2>1. Copy!Block = {s \in 0 .. Sectors - 1 : l <= s /\ s < l + BlockSectors}
      BY <1>1 DEF Copy!Block, Copy!Disc
    <2> QED BY <1>1, <1>2, <1>3, <2>1
  <1>6. Cardinality(l .. l + n - 1) = n
    <2>1. l \in Int /\ l + n - 1 \in Int
      OBVIOUS
    <2>2. Cardinality(l .. l + n - 1) = IF l > l + n - 1 THEN 0 ELSE (l + n - 1) - l + 1
      BY <2>1, FS_Interval
    <2> QED BY <2>2
  <1>7. Copy!Block = {} => l = Sectors
    <2>1. ASSUME l # Sectors
          PROVE  l \in l .. l + n - 1
      BY <1>1, <1>2, <1>3, <2>1
    <2> QED BY <1>5, <2>1
  <1> QED BY <1>1, <1>4, <1>5, <1>6, <1>7

\* What a block appends.
LEMMA AppendedIs ==
  ASSUME Copy!TypeOK, NEW lost
  PROVE  /\ Copy!Appended(lost) \in Seq({"data", "zero"})
         /\ Len(Copy!Appended(lost)) = Len(image) + Cardinality(Copy!Block)
         /\ Len(image) \in Nat /\ Cardinality(Copy!Block) \in Nat
         /\ \A s \in 0 .. Len(image) - 1 : Copy!Appended(lost)[s + 1] = image[s + 1]
         /\ \A s \in Copy!Block :
              Copy!Appended(lost)[s + 1] = "zero" <=> s \in lost \cup Copy!Normalized
  <1>1. PICK l \in Nat : l = Len(image)
    BY LenProperties DEF Copy!TypeOK
  <1>2. PICK n \in Nat : n = Cardinality(Copy!Block) /\ Copy!Block = l .. l + n - 1
    BY <1>1, BlockIsInterval
  <1> DEFINE block == [i \in 1 .. n |-> IF l + i - 1 \in lost \cup Copy!Normalized
                                          THEN "zero" ELSE "data"]
  <1>3. block \in Seq({"data", "zero"}) /\ Len(block) = n
    OBVIOUS
  <1>4. Copy!Appended(lost) = image \o block
    BY <1>1, <1>2, SameCount DEF Copy!Appended
  <1>5. \A i \in 1 .. n : block[i] = "zero" <=> l + i - 1 \in lost \cup Copy!Normalized
    OBVIOUS
  <1>6. image \in Seq({"data", "zero"})
    BY DEF Copy!TypeOK
  <1> HIDE DEF block
  <1>7. /\ image \o block \in Seq({"data", "zero"}) /\ Len(image \o block) = l + n
        /\ \A i \in 1 .. l + n :
             (image \o block)[i] = IF i <= l THEN image[i] ELSE block[i - l]
    BY <1>1, <1>3, <1>6, ConcatProperties
  <1>8. ASSUME NEW s \in 0 .. l - 1
        PROVE  (image \o block)[s + 1] = image[s + 1]
    <2>1. s + 1 \in 1 .. l + n /\ s + 1 <= l
      OBVIOUS
    <2> QED BY <1>7, <2>1
  <1>9. ASSUME NEW s \in l .. l + n - 1
        PROVE  (image \o block)[s + 1] = "zero" <=> s \in lost \cup Copy!Normalized
    <2>1. PICK i \in 1 .. n : i = s + 1 - l /\ l + i - 1 = s
      OBVIOUS
    <2>2. s + 1 \in 1 .. l + n /\ ~(s + 1 <= l)
      OBVIOUS
    <2>3. (image \o block)[s + 1] = block[i]
      BY <1>7, <2>1, <2>2
    <2> QED BY <1>5, <2>1, <2>3
  <1> QED BY <1>1, <1>2, <1>4, <1>7, <1>8, <1>9

-----------------------------------------------------------------------------
(* Preservation: the types.                                                *)

\* A sequence that names each element of a set once.
Lists(seq, S) ==
  seq \in Seq(S) /\ Len(seq) \in Nat /\ IsFiniteSet(S) /\ Cardinality(S) = Len(seq)

\* A sequence of members of a set is one of a wider set.
LEMMA SeqInWider ==
  ASSUME NEW S, NEW T, S \subseteq T, NEW seq \in Seq(S)
  PROVE  seq \in Seq(T)
  BY ElementOfSeq

\* One name more, and perhaps one more.
LEMMA OneMore ==
  ASSUME NEW S, NEW seq, Lists(seq, S), NEW x, x \notin S
  PROVE  Lists(seq \o <<x>>, S \cup {x}) /\ Len(seq \o <<x>>) = Len(seq) + 1
  <1> DEFINE T == S \cup {x}
  <1>1. IsFiniteSet(T) /\ Cardinality(T) = Len(seq) + 1
    BY FS_AddElement DEF Lists
  <1>2. seq \in Seq(T) /\ <<x>> \in Seq(T) /\ Len(<<x>>) = 1
    <2>1. \A i \in 1 .. Len(seq) : seq[i] \in S
      BY ElementOfSeq DEF Lists
    <2> QED BY <2>1 DEF Lists
  <1> HIDE DEF T
  <1>3. seq \o <<x>> \in Seq(T) /\ Len(seq \o <<x>>) = Len(seq) + 1
    BY <1>2, ConcatProperties
  <1> QED BY <1>1, <1>3 DEF Lists, T

\* Two names more.
LEMMA TwoMore ==
  ASSUME NEW S, NEW seq, Lists(seq, S), NEW x, x \notin S, NEW y, y \notin S, x # y
  PROVE  Lists(seq \o <<x, y>>, S \cup {x, y}) /\ Len(seq \o <<x, y>>) = Len(seq) + 2
  <1> DEFINE T == S \cup {x, y}
  <1>1. IsFiniteSet(S \cup {x}) /\ Cardinality(S \cup {x}) = Len(seq) + 1
    BY FS_AddElement DEF Lists
  <1>2. /\ IsFiniteSet((S \cup {x}) \cup {y})
        /\ Cardinality((S \cup {x}) \cup {y}) = Len(seq) + 1 + 1
    BY <1>1, FS_AddElement
  <1>3. (S \cup {x}) \cup {y} = T
    OBVIOUS
  <1>4. seq \in Seq(T) /\ <<x, y>> \in Seq(T) /\ Len(<<x, y>>) = 2
    BY SeqInWider DEF Lists
  <1> HIDE DEF T
  <1>5. seq \o <<x, y>> \in Seq(T) /\ Len(seq \o <<x, y>>) = Len(seq) + 2
    BY <1>4, ConcatProperties
  <1>6. \A n \in Nat : n + 1 + 1 = n + 2 /\ n + 2 \in Nat
    OBVIOUS
  <1>7. Len(seq) + 1 + 1 = Len(seq) + 2 /\ Len(seq) + 2 \in Nat
    BY <1>6, Zenon DEF Lists
  <1>8. Cardinality(T) = Len(seq) + 2 /\ IsFiniteSet(T)
    BY <1>2, <1>3, <1>7, Zenon
  <1> QED BY <1>5, <1>7, <1>8, Zenon DEF Lists, T

\* A name more, if it is wanted.
LEMMA PerhapsOneMore ==
  ASSUME NEW S, NEW seq, Lists(seq, S), NEW x, x \notin S, NEW c
  PROVE  /\ Lists(seq \o (IF c THEN <<x>> ELSE <<>>), S \cup (IF c THEN {x} ELSE {}))
         /\ \/ Len(seq \o (IF c THEN <<x>> ELSE <<>>)) = Len(seq)
            \/ Len(seq \o (IF c THEN <<x>> ELSE <<>>)) = Len(seq) + 1
  <1>1. CASE c
    BY <1>1, OneMore
  <1>2. CASE ~c
    <2>1. seq \o <<>> = seq /\ S \cup {} = S
      BY ConcatEmptySeq DEF Lists
    <2> QED BY <1>2, <2>1
  <1> QED BY <1>1, <1>2

\* The bundle writes each sidecar that was looked for, once.
LEMMA BundleIsListed ==
  ASSUME NEW j, NEW m
  PROVE  /\ Lists(Copy!Bundle(j, m), Copy!SidecarsNeeded(j, m))
         /\ Len(Copy!Bundle(j, m)) \in 1 .. 12
  <1> DEFINE p == j.pfi
             d == j.dmi
             e == j.ss # "none"
             k == m # "none"
             r == j.format = "redump"
             b1 == <<".gdox.json", ".crc32", ".md5", ".sha1", ".sha256">>
             b2 == b1 \o (IF p THEN <<".pfi.bin">> ELSE <<>>)
             b3 == b2 \o (IF d THEN <<".dmi.bin">> ELSE <<>>)
             b4 == b3 \o (IF e THEN <<".ss.bin">> ELSE <<>>)
             b5 == b4 \o (IF k THEN <<".security-map.json">> ELSE <<>>)
             b6 == b5 \o (IF r THEN <<".dvd", ".sectors.txt">> ELSE <<>>)
             b7 == b6 \o <<".log">>
             S1 == {".gdox.json", ".crc32", ".md5", ".sha1", ".sha256"}
             S2 == S1 \cup (IF p THEN {".pfi.bin"} ELSE {})
             S3 == S2 \cup (IF d THEN {".dmi.bin"} ELSE {})
             S4 == S3 \cup (IF e THEN {".ss.bin"} ELSE {})
             S5 == S4 \cup (IF k THEN {".security-map.json"} ELSE {})
             S6 == S5 \cup (IF r THEN {".dvd", ".sectors.txt"} ELSE {})
             S7 == S6 \cup {".log"}
  <1>1. Lists(b1, S1) /\ Len(b1) = 5
    <2> DEFINE T1 == {} \cup {".gdox.json"}
               T2 == T1 \cup {".crc32"}
               T3 == T2 \cup {".md5"}
               T4 == T3 \cup {".sha1"}
               T5 == T4 \cup {".sha256"}
    <2>1. /\ ".crc32" \notin T1 /\ ".md5" \notin T2 /\ ".sha1" \notin T3 /\ ".sha256" \notin T4
          /\ T5 = S1
      OBVIOUS
    <2>2. IsFiniteSet(T1) /\ Cardinality(T1) = 0 + 1
      <3>1. ".gdox.json" \notin {} /\ IsFiniteSet({}) /\ Cardinality({}) = 0
        BY FS_EmptySet
      <3> QED BY <3>1, FS_AddElement, Zenon
    <2> HIDE DEF T1
    <2>3. IsFiniteSet(T2) /\ Cardinality(T2) = Cardinality(T1) + 1
      BY <2>1, <2>2, FS_AddElement, Zenon
    <2> HIDE DEF T2
    <2>4. IsFiniteSet(T3) /\ Cardinality(T3) = Cardinality(T2) + 1
      BY <2>1, <2>3, FS_AddElement, Zenon
    <2> HIDE DEF T3
    <2>5. IsFiniteSet(T4) /\ Cardinality(T4) = Cardinality(T3) + 1
      BY <2>1, <2>4, FS_AddElement, Zenon
    <2> HIDE DEF T4
    <2>6. IsFiniteSet(T5) /\ Cardinality(T5) = Cardinality(T4) + 1
      BY <2>1, <2>5, FS_AddElement, Zenon
    <2>7. b1 \in Seq(S1) /\ Len(b1) = 5
      OBVIOUS
    <2> HIDE DEF T5, b1, S1
    <2>8. Cardinality(S1) = 5
      BY <2>1, <2>2, <2>3, <2>4, <2>5, <2>6
    <2> QED BY <2>1, <2>6, <2>7, <2>8 DEF Lists
  <1>2. /\ Copy!Bundle(j, m) = b7
        /\ Copy!SidecarsNeeded(j, m) = S7
    BY DEF Copy!Bundle, Copy!SidecarsNeeded
  <1>3. /\ ".pfi.bin" \notin S1 /\ ".dmi.bin" \notin S2 /\ ".ss.bin" \notin S3
        /\ ".security-map.json" \notin S4
        /\ ".dvd" \notin S5 /\ ".sectors.txt" \notin S5 /\ ".log" \notin S6
    OBVIOUS
  <1> HIDE DEF p, d, e, k, r, b1, S1
  <1>4. Lists(b2, S2) /\ Len(b2) \in 5 .. 6
    <2>1. Lists(b2, S2) /\ (Len(b2) = Len(b1) \/ Len(b2) = Len(b1) + 1)
      BY <1>3, <1>1, PerhapsOneMore, Zenon
    <2> HIDE DEF b2, S2
    <2> QED BY <1>1, <2>1
  <1> HIDE DEF b2, S2
  <1>5. Lists(b3, S3) /\ Len(b3) \in 5 .. 7
    <2>1. Lists(b3, S3) /\ (Len(b3) = Len(b2) \/ Len(b3) = Len(b2) + 1)
      BY <1>3, <1>4, PerhapsOneMore, Zenon
    <2> HIDE DEF b3, S3
    <2>2. PICK n \in 5 .. 6 : n = Len(b2)
      BY <1>4, Zenon
    <2>3. \A i \in 5 .. 6 : i \in 5 .. 7 /\ i + 1 \in 5 .. 7
      OBVIOUS
    <2> QED BY <2>1, <2>2, <2>3, Zenon
  <1> HIDE DEF b3, S3
  <1>6. Lists(b4, S4) /\ Len(b4) \in 5 .. 8
    <2>1. Lists(b4, S4) /\ (Len(b4) = Len(b3) \/ Len(b4) = Len(b3) + 1)
      BY <1>3, <1>5, PerhapsOneMore, Zenon
    <2> HIDE DEF b4, S4
    <2>2. PICK n \in 5 .. 7 : n = Len(b3)
      BY <1>5, Zenon
    <2>3. \A i \in 5 .. 7 : i \in 5 .. 8 /\ i + 1 \in 5 .. 8
      OBVIOUS
    <2> QED BY <2>1, <2>2, <2>3, Zenon
  <1> HIDE DEF b4, S4
  <1>7. Lists(b5, S5) /\ Len(b5) \in 5 .. 9
    <2>1. Lists(b5, S5) /\ (Len(b5) = Len(b4) \/ Len(b5) = Len(b4) + 1)
      BY <1>3, <1>6, PerhapsOneMore, Zenon
    <2> HIDE DEF b5, S5
    <2>2. PICK n \in 5 .. 8 : n = Len(b4)
      BY <1>6, Zenon
    <2>3. \A i \in 5 .. 8 : i \in 5 .. 9 /\ i + 1 \in 5 .. 9
      OBVIOUS
    <2> QED BY <2>1, <2>2, <2>3, Zenon
  <1> HIDE DEF b5, S5
  <1>8. Lists(b6, S6) /\ Len(b6) \in 5 .. 11
    <2>1. CASE r
      <3>5. Lists(b6, S6) /\ Len(b6) = Len(b5) + 2
        <4>1. /\ Lists(b5 \o <<".dvd", ".sectors.txt">>, S5 \cup {".dvd", ".sectors.txt"})
              /\ Len(b5 \o <<".dvd", ".sectors.txt">>) = Len(b5) + 2
          <5>1. ".dvd" # ".sectors.txt" /\ ".dvd" \notin S5 /\ ".sectors.txt" \notin S5
            BY <1>3
          <5> QED BY <1>7, <5>1, TwoMore, Zenon
        <4>2. b6 = b5 \o <<".dvd", ".sectors.txt">> /\ S6 = S5 \cup {".dvd", ".sectors.txt"}
          BY <2>1
        <4> QED BY <4>1, <4>2, Zenon
      <3>6. PICK n \in 5 .. 9 : n = Len(b5)
        BY <1>7, Zenon
      <3>7. \A i \in 5 .. 9 : i + 2 \in 5 .. 11
        OBVIOUS
      <3> HIDE DEF b6, S6
      <3> QED BY <3>5, <3>6, <3>7, Zenon
    <2>2. CASE ~r
      <3>1. b5 \o <<>> = b5 /\ S5 \cup {} = S5
        BY <1>7, ConcatEmptySeq DEF Lists
      <3>2. b6 = b5 /\ S6 = S5
        BY <2>2, <3>1
      <3>3. PICK n \in 5 .. 9 : n = Len(b5)
        BY <1>7, Zenon
      <3>4. \A i \in 5 .. 9 : i \in 5 .. 11
        OBVIOUS
      <3> HIDE DEF b6, S6
      <3> QED BY <1>7, <3>2, <3>3, <3>4, Zenon
    <2> QED BY <2>1, <2>2
  <1> HIDE DEF b6, S6
  <1>9. Lists(b7, S7) /\ Len(b7) = Len(b6) + 1
    BY <1>3, <1>8, OneMore, Zenon
  <1> HIDE DEF b7, S7
  <1>10. PICK n \in 5 .. 11 : n = Len(b6)
    BY <1>8, Zenon
  <1>11. \A i \in 5 .. 11 : i + 1 \in 1 .. 12
    OBVIOUS
  <1> QED BY <1>2, <1>9, <1>10, <1>11, Zenon

\* The files stay as the writer's place says they are.
LEMMA FilesFitKeeps ==
  ASSUME CopyInv, Copy!Next
  PROVE  FilesFit'
  <1>27. CASE Copy!VerifyImage
    <2>1. place = "verify" /\ place' \in {"commit", "cleanup"} /\ UNCHANGED Copy!files
      BY <1>27 DEF Copy!VerifyImage, Copy!Goto
    <2>2. result'.success = result.success
      BY <1>27 DEF Copy!VerifyImage, CopyInv, ResultFits, Results
    <2> QED BY <2>1, <2>2 DEF CopyInv, FilesFit, Copy!files, Writing, ImageIsWhole
  <1> USE DEF Copy!given, Copy!ui, Copy!files, Copy!Goto, Copy!Fault, CopyInv, FilesFit,
     ResultFits, Writing, Underway, ImageIsWhole, Copy!NoResult, Copy!Taken, Copy!PcStates,
     Copy!TypeOK
  <1>10. CASE Copy!BeginPreservation
    BY <1>10 DEF Copy!BeginPreservation
  <1>11. CASE Copy!CancelPreservation
    BY <1>11 DEF Copy!CancelPreservation
  <1>12. CASE Copy!PowerLoss
    BY <1>12 DEF Copy!PowerLoss
  <1>13. CASE Copy!StartAgain
    BY <1>13 DEF Copy!StartAgain
  <1>14. CASE \E n \in {"part", "final"} : Copy!Intrude(n)
    BY <1>14 DEF Copy!Intrude
  <1>15. CASE Copy!Publish
    BY <1>15 DEF Copy!Publish
  <1>16. CASE Copy!TakeRequest
    BY <1>16 DEF Copy!TakeRequest
  <1>17. CASE Copy!StartRun
    BY <1>17 DEF Copy!StartRun
  <1>18. CASE Copy!CloseRetained
    BY <1>18 DEF Copy!CloseRetained
  <1>19. CASE Copy!InspectSource
    BY <1>19 DEF Copy!InspectSource
  <1>20. CASE Copy!ValidateRequest
    BY <1>20 DEF Copy!ValidateRequest
  <1>21. CASE Copy!CreatePart
    BY <1>21 DEF Copy!CreatePart
  <1>22. CASE Copy!WriteCancelled
    BY <1>22 DEF Copy!WriteCancelled
  <1>23. CASE Copy!ReadBlock
    BY <1>23 DEF Copy!ReadBlock
  <1>24. CASE Copy!ReadEnds
    BY <1>24 DEF Copy!ReadEnds
  <1>25. CASE Copy!WriteDone
    BY <1>25, BlockIsInterval DEF Copy!WriteDone
  <1>26. CASE Copy!SyncClose
    BY <1>26 DEF Copy!SyncClose
  <1>28. CASE Copy!CommitFails
    BY <1>28 DEF Copy!CommitFails
  <1>29. CASE Copy!LinkImage
    BY <1>29 DEF Copy!LinkImage
  <1>30. CASE Copy!MoveImage
    BY <1>30 DEF Copy!MoveImage
  <1>31. CASE Copy!UnlinkPart
    BY <1>31 DEF Copy!UnlinkPart
  <1>32. CASE Copy!WriteSidecar
    BY <1>32 DEF Copy!WriteSidecar
  <1>33. CASE Copy!SidecarFails
    BY <1>33 DEF Copy!SidecarFails
  <1>34. CASE Copy!BundleDone
    BY <1>34 DEF Copy!BundleDone
  <1>35. CASE Copy!CleanupPart
    BY <1>35 DEF Copy!CleanupPart
  <1>36. CASE Copy!FinishRun
    BY <1>36 DEF Copy!FinishRun
  <1> HIDE DEF Copy!given, Copy!ui, Copy!files, Copy!Goto, Copy!Fault, CopyInv, FilesFit,
     ResultFits, Writing, Underway, ImageIsWhole, Copy!NoResult, Copy!Taken, Copy!PcStates,
     Copy!TypeOK
  <1> QED BY <1>10, <1>11, <1>12, <1>13, <1>14, <1>15, <1>16, <1>17, <1>18, <1>19, <1>20,
     <1>21, <1>22, <1>23, <1>24, <1>25, <1>26, <1>27, <1>28, <1>29, <1>30, <1>31, <1>32,
     <1>33, <1>34, <1>35, <1>36
       DEF Copy!Next, Copy!Interface, Copy!Environment, Copy!Run

\* A cancellation in time stays one.
LEMMA CancelFitsKeeps ==
  ASSUME CopyInv, Copy!Next
  PROVE  CancelFits'
  <1>21. CASE Copy!CreatePart
    <2>1. 0 \in Copy!Block' \/ place' = "finish"
      <3>1. CASE partial = "none"
        <4>1. Len(image') = 0
          BY <1>21, <3>1 DEF Copy!CreatePart
        <4>2. 0 \in Copy!Disc /\ 0 < 0 + BlockSectors
          BY CopyIsBounded DEF Copy!PreservationAssumption, Copy!Disc
        <4> QED BY <4>1, <4>2 DEF Copy!Block
      <3> QED BY <1>21, <3>1 DEF Copy!CreatePart, Copy!Goto
    <2>2. /\ place = "create" /\ place' \in {"write", "finish"}
          /\ UNCHANGED <<preserving, cancelled, warned, result, job>>
      BY <1>21 DEF Copy!CreatePart, Copy!Goto, Copy!ui, Copy!given
    <2> QED BY <2>1, <2>2 DEF CopyInv, CancelFits, ResultFits, Underway, Writing, Copy!LooksAgain,
            CancelIsHonoured, Copy!CancelIsHonoured
  <1> USE DEF Copy!given, Copy!ui, Copy!files, Copy!Goto, Copy!Fault, CopyInv, CancelFits,
     ResultFits, Writing, Underway, Copy!NoResult, Copy!LooksAgain, CancelIsHonoured,
     Copy!CancelIsHonoured, Copy!TypeOK, Copy!Block
  <1>10. CASE Copy!BeginPreservation
    BY <1>10 DEF Copy!BeginPreservation
  <1>11. CASE Copy!CancelPreservation
    BY <1>11 DEF Copy!CancelPreservation
  <1>12. CASE Copy!PowerLoss
    BY <1>12 DEF Copy!PowerLoss
  <1>13. CASE Copy!StartAgain
    BY <1>13 DEF Copy!StartAgain
  <1>14. CASE \E n \in {"part", "final"} : Copy!Intrude(n)
    BY <1>14 DEF Copy!Intrude
  <1>15. CASE Copy!Publish
    BY <1>15 DEF Copy!Publish
  <1>16. CASE Copy!TakeRequest
    BY <1>16 DEF Copy!TakeRequest
  <1>17. CASE Copy!StartRun
    BY <1>17 DEF Copy!StartRun
  <1>18. CASE Copy!CloseRetained
    BY <1>18 DEF Copy!CloseRetained
  <1>19. CASE Copy!InspectSource
    BY <1>19 DEF Copy!InspectSource
  <1>20. CASE Copy!ValidateRequest
    BY <1>20 DEF Copy!ValidateRequest
  <1>22. CASE Copy!WriteCancelled
    BY <1>22 DEF Copy!WriteCancelled
  <1>23. CASE Copy!ReadBlock
    BY <1>23 DEF Copy!ReadBlock
  <1>24. CASE Copy!ReadEnds
    BY <1>24 DEF Copy!ReadEnds
  <1>25. CASE Copy!WriteDone
    BY <1>25 DEF Copy!WriteDone
  <1>26. CASE Copy!SyncClose
    BY <1>26 DEF Copy!SyncClose
  <1>27. CASE Copy!VerifyImage
    BY <1>27 DEF Copy!VerifyImage
  <1>28. CASE Copy!CommitFails
    BY <1>28 DEF Copy!CommitFails
  <1>29. CASE Copy!LinkImage
    BY <1>29 DEF Copy!LinkImage
  <1>30. CASE Copy!MoveImage
    BY <1>30 DEF Copy!MoveImage
  <1>31. CASE Copy!UnlinkPart
    BY <1>31 DEF Copy!UnlinkPart
  <1>32. CASE Copy!WriteSidecar
    BY <1>32 DEF Copy!WriteSidecar
  <1>33. CASE Copy!SidecarFails
    BY <1>33 DEF Copy!SidecarFails
  <1>34. CASE Copy!BundleDone
    BY <1>34 DEF Copy!BundleDone
  <1>35. CASE Copy!CleanupPart
    BY <1>35 DEF Copy!CleanupPart
  <1>36. CASE Copy!FinishRun
    BY <1>36 DEF Copy!FinishRun
  <1> HIDE DEF Copy!given, Copy!ui, Copy!files, Copy!Goto, Copy!Fault, CopyInv, CancelFits,
     ResultFits, Writing, Underway, Copy!NoResult, Copy!LooksAgain, CancelIsHonoured,
     Copy!CancelIsHonoured, Copy!TypeOK, Copy!Block
  <1> QED BY <1>10, <1>11, <1>12, <1>13, <1>14, <1>15, <1>16, <1>17, <1>18, <1>19, <1>20,
     <1>21, <1>22, <1>23, <1>24, <1>25, <1>26, <1>27, <1>28, <1>29, <1>30, <1>31, <1>32,
     <1>33, <1>34, <1>35, <1>36
       DEF Copy!Next, Copy!Interface, Copy!Environment, Copy!Run

\* No more fails than may.
LEMMA FailuresAreCounted ==
  ASSUME Copy!TypeOK, Copy!Next
  PROVE  failures' \in 0 .. MaxFaults
  <1>1. failures' = failures \/ Copy!Fault
    BY Zenon DEF Copy!Next, Copy!Interface, Copy!Environment, Copy!Run,
       Copy!BeginPreservation, Copy!CancelPreservation, Copy!PowerLoss, Copy!StartAgain,
          Copy!Intrude, Copy!Publish, Copy!TakeRequest, Copy!StartRun, Copy!CloseRetained,
          Copy!InspectSource, Copy!ValidateRequest, Copy!CreatePart, Copy!WriteCancelled,
          Copy!ReadBlock, Copy!ReadEnds, Copy!WriteDone, Copy!SyncClose, Copy!VerifyImage,
          Copy!CommitFails, Copy!LinkImage, Copy!MoveImage, Copy!UnlinkPart,
          Copy!WriteSidecar, Copy!SidecarFails, Copy!BundleDone, Copy!CleanupPart,
          Copy!FinishRun
  <1>2. failures \in 0 .. MaxFaults /\ MaxFaults \in Nat
    BY CopyIsBounded DEF Copy!TypeOK, Copy!PreservationAssumption
  <1> QED BY <1>1, <1>2 DEF Copy!Fault

\* Every step keeps the types.
LEMMA CopyTypeKeeps ==
  ASSUME CopyInv, Copy!Next
  PROVE  Copy!TypeOK'
  <1>1. failures' \in 0 .. MaxFaults
    BY FailuresAreCounted DEF CopyInv
  <1>2. Len(Copy!Bundle(job, result.map)) \in 1 .. 12
    BY BundleIsListed
  <1>10. CASE Copy!BeginPreservation
    <2>1. /\ requests' = requests + 1 /\ queued' = queued + 1 /\ requests < MaxRequests
          /\ cancelled' = FALSE /\ canPreserve' = FALSE
          /\ UNCHANGED <<disc, job, preserving, place, owned, result, image, whole, synced, partial,
                        final, sidecars, warned, failures>>
      BY <1>10 DEF Copy!BeginPreservation, Copy!given, Copy!files
    <2>2. requests \in 0 .. MaxRequests /\ queued \in 0 .. requests /\ MaxRequests \in Nat
      BY CopyIsBounded DEF CopyInv, Copy!TypeOK, Copy!PreservationAssumption
    <2>3. requests' \in 0 .. MaxRequests /\ queued' \in 0 .. requests'
      BY <2>1, <2>2
    <2> QED BY <2>1, <2>3 DEF CopyInv, Copy!TypeOK
  <1>12. CASE Copy!PowerLoss
    <2>1. /\ place' = "off" /\ owned' = "none" /\ result' = Copy!NoResult /\ queued' = 0
          /\ canPreserve' = FALSE /\ preserving' = FALSE /\ cancelled' = FALSE /\ warned' = FALSE
          /\ UNCHANGED <<disc, job, requests, image, synced, partial, final, sidecars>>
      BY <1>12 DEF Copy!PowerLoss, Copy!Goto, Copy!given
    <2>2. whole' \in BOOLEAN
      BY <1>12 DEF Copy!PowerLoss, CopyInv, Copy!TypeOK
    <2>3. queued' \in 0 .. requests' /\ result'.unreadable = {}
      BY <2>1 DEF CopyInv, Copy!TypeOK, Copy!NoResult
    <2> QED BY <1>1, <2>1, <2>2, <2>3 DEF CopyInv, Copy!TypeOK, Copy!PcStates
  <1>21. CASE Copy!CreatePart
    <2>1. Sectors \in Nat
      BY CopyIsBounded DEF Copy!PreservationAssumption
    <2>2. /\ place' \in {"write", "finish"} /\ partial' \in {"ours", partial}
          /\ whole' \in BOOLEAN /\ synced' \in BOOLEAN /\ image' \in {<<>>, image}
          /\ UNCHANGED <<disc, job, canPreserve, preserving, cancelled, queued, requests, owned,
                        result, final, sidecars, warned>>
      BY <1>21 DEF Copy!CreatePart, Copy!Goto, Copy!given, Copy!ui, CopyInv, Copy!TypeOK
    <2>3. image' \in Seq({"data", "zero"}) /\ Len(image') <= Sectors
      <3>1. <<>> \in Seq({"data", "zero"}) /\ Len(<<>>) = 0 /\ 0 <= Sectors
        BY <2>1
      <3> QED BY <2>2, <3>1, Zenon DEF CopyInv, Copy!TypeOK
    <2> QED BY <1>1, <2>2, <2>3 DEF CopyInv, Copy!TypeOK, Copy!PcStates
  <1>23. CASE Copy!ReadBlock
    <2>1. PICK failing \in SUBSET Copy!Block :
            /\ result' = [result EXCEPT !.unreadable = @ \cup failing]
            /\ image' = Copy!Appended(failing)
      BY <1>23 DEF Copy!ReadBlock
    <2>2. result'.unreadable \subseteq Copy!Disc
      BY <2>1 DEF CopyInv, Copy!TypeOK, ResultFits, Results, Copy!Block
    <2>3. image' \in Seq({"data", "zero"}) /\ Len(image') <= Sectors
      <3>1. PICK n \in Nat : n = Cardinality(Copy!Block) /\ n <= Sectors - Len(image)
        BY BlockIsInterval DEF CopyInv
      <3>2. /\ Copy!Appended(failing) \in Seq({"data", "zero"})
            /\ Len(Copy!Appended(failing)) = Len(image) + n /\ Len(image) \in Nat
        BY <3>1, AppendedIs DEF CopyInv
      <3>3. Sectors \in Nat
        BY CopyIsBounded DEF Copy!PreservationAssumption
      <3> QED BY <2>1, <3>1, <3>2, <3>3
    <2>4. UNCHANGED <<disc, job, canPreserve, preserving, cancelled, queued, requests, place, owned,
                      whole, synced, partial, final, sidecars, warned>>
      BY <1>23, Zenon DEF Copy!ReadBlock, Copy!given, Copy!ui
    <2> QED BY <1>1, <2>2, <2>3, <2>4 DEF CopyInv, Copy!TypeOK
  <1>26. CASE Copy!SyncClose
    <2>1. /\ place' \in {"verify", "commit", "cleanup"} /\ synced' \in BOOLEAN
          /\ UNCHANGED <<disc, job, canPreserve, preserving, cancelled, queued, requests, owned,
                        result, image, whole, partial, final, sidecars, warned>>
      BY <1>26 DEF Copy!SyncClose, Copy!Goto, Copy!given, Copy!ui, CopyInv, Copy!TypeOK
    <2> QED BY <1>1, <2>1 DEF CopyInv, Copy!TypeOK, Copy!PcStates
  <1>32. CASE Copy!WriteSidecar
    <2>1. sidecars' = sidecars + 1 /\ sidecars < Len(Copy!Bundle(job, result.map))
      BY <1>32 DEF Copy!WriteSidecar
    <2>2. sidecars' \in 0 .. 14
      <3>1. \A b \in 1 .. 12, k \in 0 .. 14 : k < b => k \in 0 .. 14 /\ k + 1 \in 0 .. 14
        OBVIOUS
      <3>2. sidecars \in 0 .. 14
        BY DEF CopyInv, Copy!TypeOK
      <3> QED BY <1>2, <2>1, <3>1, <3>2, Zenon
    <2> QED BY <1>1, <1>32, <2>2 DEF Copy!WriteSidecar, Copy!given, Copy!ui, CopyInv, Copy!TypeOK
  <1>33. CASE Copy!SidecarFails
    <2>1. sidecars' \in {sidecars, sidecars + 1} /\ sidecars < Len(Copy!Bundle(job, result.map))
      BY <1>33 DEF Copy!SidecarFails
    <2>2. sidecars' \in 0 .. 14
      <3>1. \A b \in 1 .. 12, k \in 0 .. 14 : k < b => k \in 0 .. 14 /\ k + 1 \in 0 .. 14
        OBVIOUS
      <3>2. sidecars \in 0 .. 14
        BY DEF CopyInv, Copy!TypeOK
      <3> QED BY <1>2, <2>1, <3>1, <3>2, Zenon
    <2> QED BY <1>1, <1>33, <2>2 DEF Copy!SidecarFails, Copy!Goto, Copy!PcStates, Copy!given,
            Copy!ui, CopyInv, Copy!TypeOK
  <1>36. CASE Copy!FinishRun
    <2>1. /\ place' = "idle" /\ preserving' = FALSE /\ owned' \in {"none", "retained"}
          /\ canPreserve' \in {result.success, FALSE} /\ result' \in {result, Copy!NoResult}
          /\ UNCHANGED <<disc, job, cancelled, queued, requests, image, whole, synced, partial, final,
                        sidecars, warned>>
      BY <1>36 DEF Copy!FinishRun, Copy!Goto, Copy!given, Copy!files
    <2>2. result.success \in BOOLEAN /\ result'.unreadable \subseteq Copy!Disc
      BY <2>1 DEF CopyInv, ResultFits, Results, Copy!NoResult
    <2> QED BY <1>1, <2>1, <2>2 DEF CopyInv, Copy!TypeOK, Copy!PcStates
  <1> USE DEF Copy!given, Copy!ui, Copy!files, Copy!Goto, CopyInv, Copy!TypeOK,
     Copy!PcStates, Copy!NoResult, ResultFits, Results
  <1>11. CASE Copy!CancelPreservation
    BY <1>11, <1>1 DEF Copy!CancelPreservation
  <1>13. CASE Copy!StartAgain
    BY <1>13, <1>1 DEF Copy!StartAgain
  <1>14. CASE \E n \in {"part", "final"} : Copy!Intrude(n)
    BY <1>14, <1>1 DEF Copy!Intrude
  <1>15. CASE Copy!Publish
    BY <1>15, <1>1 DEF Copy!Publish
  <1>16. CASE Copy!TakeRequest
    BY <1>16, <1>1 DEF Copy!TakeRequest
  <1>17. CASE Copy!StartRun
    BY <1>17, <1>1 DEF Copy!StartRun
  <1>18. CASE Copy!CloseRetained
    BY <1>18, <1>1 DEF Copy!CloseRetained
  <1>19. CASE Copy!InspectSource
    BY <1>19, <1>1 DEF Copy!InspectSource
  <1>20. CASE Copy!ValidateRequest
    BY <1>20, <1>1 DEF Copy!ValidateRequest
  <1>22. CASE Copy!WriteCancelled
    BY <1>22, <1>1 DEF Copy!WriteCancelled
  <1>24. CASE Copy!ReadEnds
    BY <1>24, <1>1 DEF Copy!ReadEnds
  <1>25. CASE Copy!WriteDone
    BY <1>25, <1>1 DEF Copy!WriteDone
  <1>27. CASE Copy!VerifyImage
    BY <1>27, <1>1 DEF Copy!VerifyImage
  <1>28. CASE Copy!CommitFails
    BY <1>28, <1>1 DEF Copy!CommitFails
  <1>29. CASE Copy!LinkImage
    BY <1>29, <1>1 DEF Copy!LinkImage
  <1>30. CASE Copy!MoveImage
    BY <1>30, <1>1 DEF Copy!MoveImage
  <1>31. CASE Copy!UnlinkPart
    BY <1>31, <1>1 DEF Copy!UnlinkPart
  <1>34. CASE Copy!BundleDone
    BY <1>34, <1>1 DEF Copy!BundleDone
  <1>35. CASE Copy!CleanupPart
    BY <1>35, <1>1 DEF Copy!CleanupPart
  <1> HIDE DEF Copy!given, Copy!ui, Copy!files, Copy!Goto, CopyInv, Copy!TypeOK,
     Copy!PcStates, Copy!NoResult, ResultFits, Results
  <1> QED BY <1>10, <1>11, <1>12, <1>13, <1>14, <1>15, <1>16, <1>17, <1>18, <1>19, <1>20,
     <1>21, <1>22, <1>23, <1>24, <1>25, <1>26, <1>27, <1>28, <1>29, <1>30, <1>31, <1>32,
     <1>33, <1>34, <1>35, <1>36
       DEF Copy!Next, Copy!Interface, Copy!Environment, Copy!Run

\* The result stays as the writer's place says it is.
LEMMA ResultFitsKeeps ==
  ASSUME CopyInv, Copy!Next
  PROVE  ResultFits'
  <1>1. job.verify \in BOOLEAN
    BY JobsAreKnown DEF CopyInv, Copy!TypeOK, Copy!JobsAssumption, Copy!JobRecords
  <1>23. CASE Copy!ReadBlock
    <2>1. PICK failing \in SUBSET Copy!Block :
            result' = [result EXCEPT !.unreadable = @ \cup failing]
      BY <1>23 DEF Copy!ReadBlock
    <2>2. /\ result' \in Results /\ result'.success = result.success /\ result'.map = result.map
          /\ result'.verified = result.verified
      BY <2>1 DEF CopyInv, ResultFits, Results, Copy!Block
    <2>3. place = "write" /\ UNCHANGED <<place, job, sidecars>>
      BY <1>23, Zenon DEF Copy!ReadBlock, Copy!given
    <2> QED BY <2>2, <2>3 DEF CopyInv, ResultFits, Writing, Underway, Copy!ResolveMap
  <1>36. CASE Copy!FinishRun
    <2>1. /\ place' = "idle" /\ result' \in {result, Copy!NoResult} /\ UNCHANGED <<job, sidecars>>
      BY <1>36 DEF Copy!FinishRun, Copy!Goto, Copy!given, Copy!files
    <2>2. CASE result' = result
      BY <2>1, <2>2 DEF CopyInv, ResultFits, Writing, Underway, Copy!ResolveMap, Copy!Classified,
         Copy!EvidenceComplete
    <2>3. CASE result' = Copy!NoResult
      <3>1. Copy!NoResult \in Results /\ ~result'.success
        BY <2>3 DEF Results, Copy!NoResult
      <3> QED BY <2>1, <2>3, <3>1 DEF ResultFits, Writing, Underway
    <2> QED BY <2>1, <2>2, <2>3
  <1> USE DEF Copy!given, Copy!ui, Copy!files, Copy!Goto, CopyInv, ResultFits, Results,
     Writing, Underway, Copy!NoResult, Copy!PcStates, Copy!Classified,
     Copy!EvidenceComplete, Copy!ResolveMap, Copy!TypeOK
  <1>10. CASE Copy!BeginPreservation
    BY <1>10 DEF Copy!BeginPreservation
  <1>11. CASE Copy!CancelPreservation
    BY <1>11 DEF Copy!CancelPreservation
  <1>12. CASE Copy!PowerLoss
    BY <1>12 DEF Copy!PowerLoss
  <1>13. CASE Copy!StartAgain
    BY <1>13 DEF Copy!StartAgain
  <1>14. CASE \E n \in {"part", "final"} : Copy!Intrude(n)
    BY <1>14 DEF Copy!Intrude
  <1>15. CASE Copy!Publish
    BY <1>15 DEF Copy!Publish
  <1>16. CASE Copy!TakeRequest
    BY <1>16 DEF Copy!TakeRequest
  <1>17. CASE Copy!StartRun
    BY <1>17 DEF Copy!StartRun
  <1>18. CASE Copy!CloseRetained
    BY <1>18 DEF Copy!CloseRetained
  <1>19. CASE Copy!InspectSource
    BY <1>19 DEF Copy!InspectSource
  <1>20. CASE Copy!ValidateRequest
    BY <1>20 DEF Copy!ValidateRequest
  <1>21. CASE Copy!CreatePart
    BY <1>21 DEF Copy!CreatePart
  <1>22. CASE Copy!WriteCancelled
    BY <1>22 DEF Copy!WriteCancelled
  <1>24. CASE Copy!ReadEnds
    BY <1>24 DEF Copy!ReadEnds
  <1>25. CASE Copy!WriteDone
    BY <1>25 DEF Copy!WriteDone
  <1>26. CASE Copy!SyncClose
    BY <1>26, <1>1 DEF Copy!SyncClose
  <1>27. CASE Copy!VerifyImage
    BY <1>27, <1>1 DEF Copy!VerifyImage
  <1>28. CASE Copy!CommitFails
    BY <1>28 DEF Copy!CommitFails
  <1>29. CASE Copy!LinkImage
    BY <1>29 DEF Copy!LinkImage
  <1>30. CASE Copy!MoveImage
    BY <1>30 DEF Copy!MoveImage
  <1>31. CASE Copy!UnlinkPart
    BY <1>31 DEF Copy!UnlinkPart
  <1>32. CASE Copy!WriteSidecar
    BY <1>32 DEF Copy!WriteSidecar
  <1>33. CASE Copy!SidecarFails
    BY <1>33 DEF Copy!SidecarFails
  <1>34. CASE Copy!BundleDone
    BY <1>34 DEF Copy!BundleDone
  <1>35. CASE Copy!CleanupPart
    BY <1>35 DEF Copy!CleanupPart
  <1> HIDE DEF Copy!given, Copy!ui, Copy!files, Copy!Goto, CopyInv, ResultFits, Results,
     Writing, Underway, Copy!NoResult, Copy!PcStates, Copy!Classified,
     Copy!EvidenceComplete, Copy!ResolveMap, Copy!TypeOK
  <1> QED BY <1>10, <1>11, <1>12, <1>13, <1>14, <1>15, <1>16, <1>17, <1>18, <1>19, <1>20,
     <1>21, <1>22, <1>23, <1>24, <1>25, <1>26, <1>27, <1>28, <1>29, <1>30, <1>31, <1>32,
     <1>33, <1>34, <1>35, <1>36
       DEF Copy!Next, Copy!Interface, Copy!Environment, Copy!Run

\* What has been written stays what was read.
LEMMA WrittenKeeps ==
  ASSUME CopyInv, Copy!Next
  PROVE  WrittenIsTrue'
  <1>23. CASE Copy!ReadBlock
    <2>1. PICK failing \in SUBSET Copy!Block :
            /\ {s \in Copy!Block \ Copy!Normalized : disc[s] = "bad"} \subseteq failing
            /\ result' = [result EXCEPT !.unreadable = @ \cup failing]
            /\ image' = Copy!Appended(failing)
      BY <1>23 DEF Copy!ReadBlock
    <2>2. /\ result'.map = result.map /\ result'.unreadable = result.unreadable \cup failing
          /\ result' \in Results
      BY <2>1 DEF CopyInv, ResultFits, Results, Copy!Block
    <2>3. /\ place = "write" /\ UNCHANGED <<place, job, disc>>
      BY <1>23, Zenon DEF Copy!ReadBlock, Copy!given
    <2>4. Copy!Normalized' = Copy!Normalized
      BY <2>2 DEF Copy!Normalized
    <2>5. PICK n \in Nat, l \in Nat :
            /\ l = Len(image) /\ Copy!Block = l .. l + n - 1 /\ Len(image') = l + n
            /\ \A s \in 0 .. l - 1 : image'[s + 1] = image[s + 1]
            /\ \A s \in l .. l + n - 1 :
                 image'[s + 1] = "zero" <=> s \in failing \cup Copy!Normalized
      <3>1. PICK n \in Nat : /\ n = Cardinality(Copy!Block)
                             /\ Copy!Block = Len(image) .. Len(image) + n - 1
        BY BlockIsInterval DEF CopyInv
      <3>2. /\ Len(Copy!Appended(failing)) = Len(image) + n /\ Len(image) \in Nat
            /\ \A s \in 0 .. Len(image) - 1 : Copy!Appended(failing)[s + 1] = image[s + 1]
            /\ \A s \in Copy!Block :
                 Copy!Appended(failing)[s + 1] = "zero" <=> s \in failing \cup Copy!Normalized
        BY <3>1, AppendedIs DEF CopyInv
      <3> QED BY <2>1, <3>1, <3>2, Zenon
    <2>6. /\ result.unreadable \subseteq 0 .. l - 1
          /\ \A s \in 0 .. l - 1 :
               /\ image[s + 1] = "zero" <=> s \in result.unreadable \cup Copy!Normalized
               /\ disc[s] = "bad" => s \in result.unreadable \cup Copy!Normalized
      BY <2>3, <2>5 DEF CopyInv, WrittenIsTrue, WrittenSoFar, Writing
    <2>7. ASSUME NEW s \in 0 .. l + n - 1
          PROVE  /\ image'[s + 1] = "zero" <=> s \in result'.unreadable \cup Copy!Normalized
                 /\ disc[s] = "bad" => s \in result'.unreadable \cup Copy!Normalized
      <3>1. CASE s \in 0 .. l - 1
        <4>1. s \notin failing
          BY <2>5, <3>1
        <4> QED BY <2>2, <2>5, <2>6, <3>1, <4>1
      <3>2. CASE s \in l .. l + n - 1
        <4>1. s \notin result.unreadable
          BY <2>6, <3>2
        <4>2. s \in Copy!Block
          BY <2>5, <3>2
        <4> QED BY <2>1, <2>2, <2>5, <3>2, <4>1, <4>2
      <3> QED BY <3>1, <3>2
    <2>8. result'.unreadable \subseteq 0 .. l + n - 1
      <3>1. 0 .. l - 1 \subseteq 0 .. l + n - 1 /\ l .. l + n - 1 \subseteq 0 .. l + n - 1
        OBVIOUS
      <3>2. failing \subseteq l .. l + n - 1
        BY <2>5
      <3> QED BY <2>2, <2>6, <3>1, <3>2, Zenon
    <2> QED BY <2>3, <2>4, <2>5, <2>7, <2>8 DEF WrittenIsTrue, WrittenSoFar
  <1>36. CASE Copy!FinishRun
    <2>1. /\ place' = "idle" /\ result' \in {result, Copy!NoResult} /\ UNCHANGED <<disc, job, image>>
      BY <1>36 DEF Copy!FinishRun, Copy!Goto, Copy!given, Copy!files
    <2>2. ~Copy!NoResult.success
      BY DEF Copy!NoResult
    <2> QED BY <2>1, <2>2 DEF CopyInv, WrittenIsTrue, WrittenSoFar, Writing, Copy!Normalized
  <1> USE DEF Copy!given, Copy!ui, Copy!files, Copy!Goto, CopyInv, WrittenIsTrue,
     WrittenSoFar, ResultFits, Results, Writing, Underway, Copy!NoResult, Copy!Normalized
  <1>10. CASE Copy!BeginPreservation
    BY <1>10 DEF Copy!BeginPreservation
  <1>11. CASE Copy!CancelPreservation
    BY <1>11 DEF Copy!CancelPreservation
  <1>12. CASE Copy!PowerLoss
    BY <1>12 DEF Copy!PowerLoss
  <1>13. CASE Copy!StartAgain
    BY <1>13 DEF Copy!StartAgain
  <1>14. CASE \E n \in {"part", "final"} : Copy!Intrude(n)
    BY <1>14 DEF Copy!Intrude
  <1>15. CASE Copy!Publish
    BY <1>15 DEF Copy!Publish
  <1>16. CASE Copy!TakeRequest
    BY <1>16 DEF Copy!TakeRequest
  <1>17. CASE Copy!StartRun
    BY <1>17 DEF Copy!StartRun
  <1>18. CASE Copy!CloseRetained
    BY <1>18 DEF Copy!CloseRetained
  <1>19. CASE Copy!InspectSource
    BY <1>19 DEF Copy!InspectSource
  <1>20. CASE Copy!ValidateRequest
    BY <1>20 DEF Copy!ValidateRequest
  <1>21. CASE Copy!CreatePart
    BY <1>21 DEF Copy!CreatePart
  <1>22. CASE Copy!WriteCancelled
    BY <1>22 DEF Copy!WriteCancelled
  <1>24. CASE Copy!ReadEnds
    BY <1>24 DEF Copy!ReadEnds
  <1>25. CASE Copy!WriteDone
    BY <1>25 DEF Copy!WriteDone
  <1>26. CASE Copy!SyncClose
    BY <1>26 DEF Copy!SyncClose
  <1>27. CASE Copy!VerifyImage
    BY <1>27 DEF Copy!VerifyImage
  <1>28. CASE Copy!CommitFails
    BY <1>28 DEF Copy!CommitFails
  <1>29. CASE Copy!LinkImage
    BY <1>29 DEF Copy!LinkImage
  <1>30. CASE Copy!MoveImage
    BY <1>30 DEF Copy!MoveImage
  <1>31. CASE Copy!UnlinkPart
    BY <1>31 DEF Copy!UnlinkPart
  <1>32. CASE Copy!WriteSidecar
    BY <1>32 DEF Copy!WriteSidecar
  <1>33. CASE Copy!SidecarFails
    BY <1>33 DEF Copy!SidecarFails
  <1>34. CASE Copy!BundleDone
    BY <1>34 DEF Copy!BundleDone
  <1>35. CASE Copy!CleanupPart
    BY <1>35 DEF Copy!CleanupPart
  <1> HIDE DEF Copy!given, Copy!ui, Copy!files, Copy!Goto, CopyInv, WrittenIsTrue,
     WrittenSoFar, ResultFits, Results, Writing, Underway, Copy!NoResult, Copy!Normalized
  <1> QED BY <1>10, <1>11, <1>12, <1>13, <1>14, <1>15, <1>16, <1>17, <1>18, <1>19, <1>20,
     <1>21, <1>22, <1>23, <1>24, <1>25, <1>26, <1>27, <1>28, <1>29, <1>30, <1>31, <1>32,
     <1>33, <1>34, <1>35, <1>36
       DEF Copy!Next, Copy!Interface, Copy!Environment, Copy!Run

\* The manifest stays true of the image.
LEMMA ManifestFitsKeeps ==
  ASSUME CopyInv, Copy!Next
  PROVE  ManifestFits'
  <1>1. sidecars \in 0 .. 14
    BY DEF CopyInv, Copy!TypeOK
  <1>32. CASE Copy!WriteSidecar
    <2>1. /\ place = "bundle" /\ sidecars' = sidecars + 1 /\ UNCHANGED <<job, image, disc>>
          /\ manifest' = IF sidecars = 0 THEN Copy!BuildManifest ELSE manifest
      BY <1>32 DEF Copy!WriteSidecar, Copy!given
    <2>2. sidecars' > 0
      BY <1>1, <2>1
    <2>3. CASE sidecars = 0
      <3>1. /\ manifest'.readback = result.verified /\ manifest'.unreadable = result.unreadable
            /\ manifest'.authenticated = (result.map = "authenticated")
        BY <2>1, <2>3 DEF Copy!BuildManifest
      <3>2. /\ result.verified = job.verify /\ result.map = Copy!ResolveMap(job)
        BY <2>1 DEF CopyInv, ResultFits
      <3>3. result.map = "authenticated" => job.ss = "authentic"
        BY <3>2 DEF Copy!ResolveMap
      <3>4. /\ Copy!Normalized \subseteq SecurityRanges /\ Len(image) = Sectors
            /\ \A s \in 0 .. Len(image) - 1 :
                 image[s + 1] = "zero" <=> s \in result.unreadable \cup Copy!Normalized
        BY <2>1 DEF CopyInv, FilesFit, ImageIsWhole, WrittenIsTrue, WrittenSoFar, Copy!Normalized
      <3>5. \A s \in Copy!Disc \ SecurityRanges : image[s + 1] = "zero" <=> s \in result.unreadable
        BY <3>4 DEF Copy!Disc
      <3> QED BY <2>1, <2>2, <3>1, <3>2, <3>3, <3>5 DEF ManifestFits, Copy!Disc
    <2>4. CASE sidecars # 0
      BY <2>1, <2>2, <2>4 DEF CopyInv, ManifestFits, Copy!Disc
    <2> QED BY <2>3, <2>4
  <1> USE DEF Copy!given, Copy!ui, Copy!files, Copy!Goto, CopyInv, FilesFit, ManifestFits,
     Writing, Underway
  <1>10. CASE Copy!BeginPreservation
    BY <1>10 DEF Copy!BeginPreservation
  <1>11. CASE Copy!CancelPreservation
    BY <1>11 DEF Copy!CancelPreservation
  <1>12. CASE Copy!PowerLoss
    BY <1>12 DEF Copy!PowerLoss
  <1>13. CASE Copy!StartAgain
    BY <1>13 DEF Copy!StartAgain
  <1>14. CASE \E n \in {"part", "final"} : Copy!Intrude(n)
    BY <1>14 DEF Copy!Intrude
  <1>15. CASE Copy!Publish
    BY <1>15 DEF Copy!Publish
  <1>16. CASE Copy!TakeRequest
    BY <1>16 DEF Copy!TakeRequest
  <1>17. CASE Copy!StartRun
    BY <1>17 DEF Copy!StartRun
  <1>18. CASE Copy!CloseRetained
    BY <1>18 DEF Copy!CloseRetained
  <1>19. CASE Copy!InspectSource
    BY <1>19 DEF Copy!InspectSource
  <1>20. CASE Copy!ValidateRequest
    BY <1>20 DEF Copy!ValidateRequest
  <1>21. CASE Copy!CreatePart
    BY <1>21 DEF Copy!CreatePart
  <1>22. CASE Copy!WriteCancelled
    BY <1>22 DEF Copy!WriteCancelled
  <1>23. CASE Copy!ReadBlock
    BY <1>23 DEF Copy!ReadBlock
  <1>24. CASE Copy!ReadEnds
    BY <1>24 DEF Copy!ReadEnds
  <1>25. CASE Copy!WriteDone
    BY <1>25 DEF Copy!WriteDone
  <1>26. CASE Copy!SyncClose
    BY <1>26 DEF Copy!SyncClose
  <1>27. CASE Copy!VerifyImage
    BY <1>27 DEF Copy!VerifyImage
  <1>28. CASE Copy!CommitFails
    BY <1>28 DEF Copy!CommitFails
  <1>29. CASE Copy!LinkImage
    BY <1>29 DEF Copy!LinkImage
  <1>30. CASE Copy!MoveImage
    BY <1>30 DEF Copy!MoveImage
  <1>31. CASE Copy!UnlinkPart
    BY <1>31 DEF Copy!UnlinkPart
  <1>33. CASE Copy!SidecarFails
    BY <1>33, <1>1 DEF Copy!SidecarFails
  <1>34. CASE Copy!BundleDone
    BY <1>34 DEF Copy!BundleDone
  <1>35. CASE Copy!CleanupPart
    BY <1>35 DEF Copy!CleanupPart
  <1>36. CASE Copy!FinishRun
    BY <1>36 DEF Copy!FinishRun
  <1> HIDE DEF Copy!given, Copy!ui, Copy!files, Copy!Goto, CopyInv, FilesFit, ManifestFits,
     Writing, Underway
  <1> QED BY <1>10, <1>11, <1>12, <1>13, <1>14, <1>15, <1>16, <1>17, <1>18, <1>19, <1>20,
     <1>21, <1>22, <1>23, <1>24, <1>25, <1>26, <1>27, <1>28, <1>29, <1>30, <1>31, <1>32,
     <1>33, <1>34, <1>35, <1>36
       DEF Copy!Next, Copy!Interface, Copy!Environment, Copy!Run

\* It holds before anything has been asked for.
LEMMA CopyInitFits ==
  ASSUME Copy!Init
  PROVE  CopyInv
  <1>1. /\ MaxRequests \in Nat /\ MaxFaults \in Nat /\ Sectors \in Nat
    BY CopyIsBounded DEF Copy!PreservationAssumption
  <1>2. Copy!TypeOK
    <2>1. image \in Seq({"data", "zero"}) /\ Len(image) = 0
      BY DEF Copy!Init
    <2>2. /\ Len(image) <= Sectors /\ requests \in 0 .. MaxRequests /\ queued \in 0 .. requests
          /\ sidecars \in 0 .. 14 /\ failures \in 0 .. MaxFaults
      BY <1>1, <2>1 DEF Copy!Init
    <2>3. result.unreadable \subseteq Copy!Disc
      BY DEF Copy!Init, Copy!NoResult
    <2> QED BY <2>1, <2>2, <2>3 DEF Copy!Init, Copy!TypeOK, Copy!PcStates
  <1>3. FilesFit /\ WrittenIsTrue /\ ManifestFits /\ CancelFits
    BY DEF Copy!Init, FilesFit, WrittenIsTrue, ManifestFits, CancelFits, CancelIsHonoured,
           Copy!CancelIsHonoured, Copy!NoResult, Writing, Underway
  <1>4. ResultFits
    BY DEF Copy!Init, ResultFits, Results, Copy!NoResult, Writing, Underway
  <1> QED BY <1>2, <1>3, <1>4 DEF CopyInv

\* The invariant is about the preservation's variables alone.
LEMMA CopyAtRestKeeps ==
  ASSUME CopyInv, UNCHANGED copyVars
  PROVE  CopyInv'
  <1>1. Copy!TypeOK' /\ FilesFit'
    BY DEF copyVars, CopyInv, FilesFit, ImageIsWhole, Copy!TypeOK, Copy!Disc
  <1>2. ResultFits' /\ WrittenIsTrue' /\ ManifestFits'
    BY DEF copyVars, CopyInv, ResultFits, Copy!Classified, Copy!EvidenceComplete,
           WrittenIsTrue, WrittenSoFar, ManifestFits, Copy!Normalized
  <1>3. CancelFits'
    BY DEF copyVars, CopyInv, CancelFits, CancelIsHonoured, Copy!CancelIsHonoured,
           Copy!LooksAgain, Copy!Block
  <1> QED BY <1>1, <1>2, <1>3 DEF CopyInv

\* Every step keeps the invariant, whoever takes it.
LEMMA CopyInvKeeps ==
  ASSUME CopyInv, [FilesNext]_<<part, vars, copyVars>>
  PROVE  CopyInv'
  <1>1. CASE Copy!Next
    BY <1>1, CopyTypeKeeps, FilesFitKeeps, ResultFitsKeeps, WrittenKeeps, ManifestFitsKeeps,
       CancelFitsKeeps DEF CopyInv
  <1>2. CASE UNCHANGED copyVars
    BY <1>2, CopyAtRestKeeps
  <1> QED BY <1>1, <1>2 DEF FilesNext

\* So it holds throughout.
LEMMA CopyInvAlways == FilesSpec => []CopyInv
  <1>1. FilesInit => CopyInv
    BY CopyInitFits DEF FilesInit, CopyAtRest
  <1>2. CopyInv /\ [FilesNext]_<<part, vars, copyVars>> => CopyInv'
    BY CopyInvKeeps
  <1> QED BY <1>1, <1>2, PTL DEF FilesSpec

\* The final name leads to a whole image or to somebody else's file, and a
\* bundle has exactly the sidecars that were looked for.  (core/preserve.c:
\* write_and_verify_preservation, gdox_preservation_path_commit.)
THEOREM CommittedImagesAreWhole == FilesSpec => []CommittedIsWhole
  <1>1. ASSUME CopyInv
        PROVE  Copy!CommittedIsWhole
    <2>1. Copy!TypeOK /\ FilesFit /\ ResultFits
      BY <1>1 DEF CopyInv
    <2>2. /\ final = "ours" => whole /\ Len(image) = Sectors
          /\ "final" \in intruders => final = "foreign"
          /\ sidecars > 0 => final # "none"
      BY <2>1 DEF FilesFit, ImageIsWhole
    <2>3. ASSUME result.success
          PROVE  /\ sidecars = Copy!Cardinality(Copy!SidecarsNeeded(job, result.map))
                 /\ \A i \in 1 .. sidecars :
                      Copy!Bundle(job, result.map)[i] \in Copy!SidecarsNeeded(job, result.map)
      <3>1. Lists(Copy!Bundle(job, result.map), Copy!SidecarsNeeded(job, result.map))
        BY BundleIsListed
      <3>2. sidecars = Len(Copy!Bundle(job, result.map))
        BY <2>1, <2>3 DEF ResultFits
      <3> QED BY <3>1, <3>2, SameCount, ElementOfSeq DEF Lists
    <2> QED BY <2>1, <2>2, <2>3 DEF Copy!CommittedIsWhole
  <1>2. CopyInv => CommittedIsWhole
    BY <1>1 DEF CommittedIsWhole
  <1> QED BY <1>2, CopyInvAlways, PTL

\* What is reported, and what the manifest claims, is what was read and
\* written.  (core/preserve.c: recover_block and classify_preservation;
\* core/preservation_manifest.c: build_manifest.)
THEOREM ResultsAreHonest == FilesSpec => []ResultIsHonest
  <1>1. ASSUME CopyInv
        PROVE  Copy!ResultIsHonest
    <2>1. FilesFit /\ ResultFits /\ WrittenIsTrue /\ ManifestFits
      BY <1>1 DEF CopyInv
    <2>2. ASSUME result.success
          PROVE  \A s \in Copy!Disc :
                   /\ image[s + 1] = "zero" <=> s \in result.unreadable \cup Copy!Normalized
                   /\ disc[s] = "bad" => s \in result.unreadable \cup Copy!Normalized
      BY <2>1, <2>2 DEF FilesFit, ImageIsWhole, WrittenIsTrue, WrittenSoFar, Copy!Disc
    <2>3. ASSUME result.success
          PROVE  /\ result.verified = job.verify
                 /\ result.status = "evidence-complete" =>
                      job.verify /\ job.ss = "authentic" /\ result.unreadable = {}
      <3>1. /\ result.verified = job.verify /\ result.status = Copy!Classified
            /\ result.map = Copy!ResolveMap(job)
        BY <2>1, <2>3 DEF ResultFits
      <3>2. result.map = "authenticated" => job.ss = "authentic"
        BY <3>1 DEF Copy!ResolveMap
      <3> QED BY <3>1, <3>2 DEF Copy!Classified, Copy!EvidenceComplete
    <2>4. ASSUME manifest # Copy!NoManifest
          PROVE  /\ whole /\ Len(image) = Sectors
                 /\ manifest.readback = job.verify
                 /\ manifest.authenticated => job.ss = "authentic"
                 /\ \A s \in Copy!Disc \ SecurityRanges :
                      image[s + 1] = "zero" <=> s \in manifest.unreadable
      BY <2>1, <2>4 DEF ManifestFits, FilesFit, ImageIsWhole
    <2> QED BY <2>2, <2>3, <2>4 DEF Copy!ResultIsHonest
  <1>2. CopyInv => ResultIsHonest
    BY <1>1 DEF ResultIsHonest
  <1> QED BY <1>2, CopyInvAlways, PTL

\* A run that was cancelled in time commits nothing.  (app/runtime_controls.c:
\* gdox_runtime_begin_preservation; core/preserve.c: is_cancelled.)
THEOREM CancellationsAreHonoured == FilesSpec => []CancelIsHonoured
  <1>1. CopyInv => CancelIsHonoured
    BY DEF CopyInv, CancelFits
  <1> QED BY <1>1, CopyInvAlways, PTL
=============================================================================
