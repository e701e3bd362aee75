--------------------------- MODULE SessionStorage ---------------------------
(***************************************************************************)
(* Cleanup-owned session directories (src/src/platform/session_storage_    *)
(* posix.c and session_storage_windows.c): several GDOX processes share    *)
(* one parent directory.  Each first recovers what dead processes left,    *)
(* then creates a directory of its own, in which the emulator writes, and  *)
(* at the end cleans it up.  A process may die between any two file        *)
(* operations; its file locks die with it, its files do not.               *)
(*                                                                         *)
(* The two platforms run the same protocol with different orders, and      *)
(* "platform" is chosen once, in Init.  A session name is used once        *)
(* (mkdtemp, 128 random bits), so one lock file belongs to one name.       *)
(***************************************************************************)
EXTENDS Naturals, Sequences

CONSTANTS Procs,        \* GDOX processes, each restarted after a crash
          Names,        \* session directory names, never used twice
          NoName,       \* no session
          NoProc,       \* a lock file that nobody has locked
          MaxFaults     \* bound: crashes and failing file operations

ASSUME SessionAssumption ==
    /\ NoName \notin Names
    /\ NoProc \notin Procs
    /\ MaxFaults \in Nat

Platforms == {"posix", "windows"}

\* The files of a session directory: the owner marker while it is being
\* written, the whole marker, the lock file, and what the emulator wrote.
Files == {"partial", "marker", "lock", "data"}

VARIABLES
    platform,   \* the platform of this installation
    parent,     \* does the directory that holds the sessions exist
    present,    \* names of the session directories on disk
    files,      \* [Names -> SUBSET Files]
    holder,     \* [Names -> process that locked the name's lock file]
    used,       \* names ever given to a directory
    wrote,      \* names in which the emulator wrote
    torn,       \* names whose removal by a recovery was cut short
    faults,     \* faults so far
    pc,         \* [Procs -> what the process is doing]
    step,       \* [Procs -> next step of its creation or cleanup]
    name,       \* [Procs -> the session its gdox_session_storage names]
    target,     \* [Procs -> the directory it inspects or removes]
    seen,       \* [Procs -> names its scan has dealt with]
    begun,      \* [Procs -> names on disk when its scan began]
    stale       \* [Procs -> those among them that a dead process left]

disk == <<parent, present, files, holder, used>>
ghosts == <<wrote, torn>>
local == <<pc, step, name, target, seen, begun, stale>>
vars == <<platform, disk, ghosts, faults, local>>

PcStates == {"idle", "scan", "marked", "opened", "unlocking", "removing",
             "recovered", "creating", "undoing", "active", "cleaning",
             "retained"}

TypeOK ==
    /\ platform \in Platforms
    /\ parent \in BOOLEAN
    /\ present \subseteq Names /\ used \subseteq Names
    /\ wrote \subseteq Names /\ torn \subseteq Names
    /\ files \in [Names -> SUBSET Files]
    /\ holder \in [Names -> Procs \cup {NoProc}]
    /\ faults \in 0 .. MaxFaults
    /\ pc \in [Procs -> PcStates]
    /\ step \in [Procs -> 1 .. 5]
    /\ name \in [Procs -> Names \cup {NoName}]
    /\ target \in [Procs -> Names \cup {NoName}]
    /\ seen \in [Procs -> SUBSET Names]
    /\ begun \in [Procs -> SUBSET Names]
    /\ stale \in [Procs -> SUBSET Names]

Init ==
    /\ platform \in Platforms
    /\ parent = FALSE
    /\ present = {} /\ used = {} /\ wrote = {} /\ torn = {}
    /\ files = [n \in Names |-> {}]
    /\ holder = [n \in Names |-> NoProc]
    /\ faults = 0
    /\ pc = [p \in Procs |-> "idle"]
    /\ step = [p \in Procs |-> 1]
    /\ name = [p \in Procs |-> NoName]
    /\ target = [p \in Procs |-> NoName]
    /\ seen = [p \in Procs |-> {}]
    /\ begun = [p \in Procs |-> {}]
    /\ stale = [p \in Procs |-> {}]

-----------------------------------------------------------------------------
(* Pieces shared by the actions.                                           *)

Fault == faults < MaxFaults /\ faults' = faults + 1

Goto(p, s) == pc' = [pc EXCEPT ![p] = s]

\* gdox_session_recovery_decide's STALE, as a fact about the disk: a whole
\* marker, a lock file, and nobody holding it.
Abandoned(n) ==
    /\ n \in present
    /\ {"marker", "lock"} \subseteq files[n]
    /\ holder[n] = NoProc

\* Is a live process at work in directory n.
Tended(n) == \E p \in Procs : name[p] = n \/ target[p] = n

\* Closing p's handle of n's lock file releases the lock p has on it.
Released(p, n) == IF holder[n] = p THEN [holder EXCEPT ![n] = NoProc] ELSE holder

\* The scan's own variables end with it.
Forget(p) ==
    /\ seen' = [seen EXCEPT ![p] = {}]
    /\ begun' = [begun EXCEPT ![p] = {}]
    /\ stale' = [stale EXCEPT ![p] = {}]

\* A slip: the marker is written before the lock is taken.
MarkerBeforeLock == <<"directory", "lockfile", "partial", "marker", "lock">>

\* The order in which create_session makes a session trustworthy.
PosixCreation == <<"directory", "lockfile", "lock", "partial", "marker">>

\* The order of gdox_session_storage_create on Windows: the marker first.
WindowsCreation == <<"directory", "partial", "marker", "lockfile", "lock">>

Creation == IF platform = "posix" THEN PosixCreation ELSE WindowsCreation

\* A slip: the ownership files go before what the emulator wrote.
OwnershipFirst == <<"marker", "lock", "data", "directory", "unlock">>

\* The order in which gdox_session_storage_cleanup takes a session apart.
PosixCleanup == <<"data", "marker", "lock", "directory", "unlock">>

\* On Windows the lock is given up before its file is deleted.
WindowsCleanup == <<"data", "marker", "unlock", "lock", "directory">>

Cleanup == IF platform = "posix" THEN PosixCleanup ELSE WindowsCleanup

-----------------------------------------------------------------------------
(* Recovery: gdox_session_storage_recover.                                 *)

\* recover_named_parent opens the parent and recover_sessions starts to read it.
RecoverBegin(p) ==
    /\ pc[p] = "idle"
    /\ Goto(p, "scan")
    /\ begun' = [begun EXCEPT ![p] = present]
    /\ stale' = [stale EXCEPT ![p] = {n \in Names : Abandoned(n) /\ ~Tended(n)}]
    /\ UNCHANGED <<platform, disk, ghosts, faults, step, name, target, seen>>

\* A slip: a name that is skipped ends the scan.
PassedAll(p, n) ==
    /\ Goto(p, "scan")
    /\ seen' = [seen EXCEPT ![p] = Names]
    /\ target' = [target EXCEPT ![p] = NoName]

\* The name was decided on: PRESERVE, ACTIVE, or removed.
Passed(p, n) ==
    /\ Goto(p, "scan")
    /\ seen' = [seen EXCEPT ![p] = @ \cup {n}]
    /\ target' = [target EXCEPT ![p] = NoName]

\* inspect_session_lock reads the owner marker of an entry.
InspectMarker(p, n) ==
    /\ pc[p] = "scan"
    /\ n \in present \ seen[p]
    /\ IF "marker" \in files[n]
       THEN /\ Goto(p, "marked")
            /\ target' = [target EXCEPT ![p] = n]
            /\ UNCHANGED seen
       ELSE Passed(p, n)
    /\ UNCHANGED <<platform, disk, ghosts, faults, step, name, begun, stale>>

\* inspect_session_lock opens the lock file; without one it preserves the entry.
OpenLock(p) ==
    /\ pc[p] = "marked"
    /\ IF "lock" \in files[target[p]]
       THEN Goto(p, "opened") /\ UNCHANGED <<seen, target>>
       ELSE Passed(p, target[p])
    /\ UNCHANGED <<platform, disk, ghosts, faults, step, name, begun, stale>>

\* flock or LockFileEx without waiting: the lock is taken (STALE) or the owner
\* holds it (ACTIVE).  The file may have been unlinked since it was opened.
TryLock(p) ==
    LET n == target[p] IN
    /\ pc[p] = "opened"
    /\ IF holder[n] = NoProc
       THEN /\ holder' = [holder EXCEPT ![n] = p]
            /\ Goto(p, IF platform = "posix" THEN "removing" ELSE "unlocking")
            /\ UNCHANGED <<seen, target>>
       ELSE Passed(p, n) /\ UNCHANGED holder
    /\ UNCHANGED <<platform, parent, present, files, used, ghosts, faults, step,
                   name, begun, stale>>

\* Windows: recover_named_parent unlocks and closes the lock file of a stale
\* session before it removes the tree.
WindowsUnlock(p) ==
    /\ pc[p] = "unlocking"
    /\ holder' = Released(p, target[p])
    /\ Goto(p, "removing")
    /\ UNCHANGED <<platform, parent, present, files, used, ghosts, faults, step,
                   name, target, seen, begun, stale>>

\* remove_directory_contents unlinks the entries in the order readdir returns
\* them, which is any order.
RemoveEntry(p, f) ==
    LET n == IF pc[p] = "removing" THEN target[p] ELSE name[p] IN
    /\ pc[p] \in {"removing", "undoing"}
    /\ n \in present /\ f \in files[n]
    /\ files' = [files EXCEPT ![n] = @ \ {f}]
    /\ UNCHANGED <<platform, parent, present, holder, used, ghosts, faults, local>>

\* The directory is empty, or another process removed it: remove_entry_at
\* succeeds and the recovery closes the lock it holds.
RecoveredOne(p) ==
    LET n == target[p] IN
    /\ pc[p] = "removing"
    /\ files[n] = {}
    /\ present' = present \ {n}
    /\ holder' = Released(p, n)
    /\ Passed(p, n)
    /\ UNCHANGED <<platform, parent, files, used, ghosts, faults, step, name, begun, stale>>

\* A lock that cannot be verified, or an entry that cannot be removed, ends the
\* recovery; what is left of the directory stays.
RecoverFails(p) ==
    LET n == target[p] IN
    /\ pc[p] \in {"opened", "removing"}
    /\ Fault
    /\ torn' = IF pc[p] = "removing" /\ n \in present THEN torn \cup {n} ELSE torn
    /\ holder' = Released(p, n)
    /\ target' = [target EXCEPT ![p] = NoName]
    /\ Forget(p)
    /\ Goto(p, "idle")
    /\ UNCHANGED <<platform, parent, present, files, used, wrote, step, name>>

\* Every entry was dealt with.  Windows removes the parent when it is empty.
RecoverEnd(p) ==
    /\ pc[p] = "scan"
    /\ begun[p] \cap present \subseteq seen[p]
    /\ Goto(p, "recovered")
    /\ parent' = (parent /\ (platform = "posix" \/ present # {}))
    /\ seen' = [seen EXCEPT ![p] = {}]
    /\ begun' = [begun EXCEPT ![p] = {}]
    /\ UNCHANGED <<platform, present, files, holder, used, ghosts, faults, step, name,
                   target, stale>>

-----------------------------------------------------------------------------
(* Creation: create_session and its Windows twin.                          *)

\* The parent is made (ensure_session_parent_at, session_parent).
CreateBegin(p) ==
    /\ pc[p] = "recovered"
    /\ parent' = TRUE
    /\ Goto(p, "creating")
    /\ step' = [step EXCEPT ![p] = 1]
    /\ Forget(p)
    /\ UNCHANGED <<platform, present, files, holder, used, ghosts, faults, name, target>>

\* The step is done; after the last one the storage is active.
Stepped(p) ==
    IF step[p] = Len(Creation)
    THEN Goto(p, "active") /\ step' = [step EXCEPT ![p] = 1]
    ELSE step' = [step EXCEPT ![p] = @ + 1] /\ UNCHANGED pc

\* mkdtemp (or 16 random bytes) gives the session a name of its own.
CreateDirectory(p, n) ==
    /\ pc[p] = "creating" /\ Creation[step[p]] = "directory"
    /\ parent /\ n \notin used
    /\ present' = present \cup {n}
    /\ used' = used \cup {n}
    /\ name' = [name EXCEPT ![p] = n]
    /\ Stepped(p)
    /\ UNCHANGED <<platform, parent, files, holder, ghosts, faults, target, seen,
                   begun, stale>>

\* The lock file and the marker are created exclusively inside the directory.
CreateFile(p) ==
    LET n == name[p]
        f == IF Creation[step[p]] = "lockfile" THEN "lock" ELSE "partial" IN
    /\ pc[p] = "creating" /\ Creation[step[p]] \in {"lockfile", "partial"}
    /\ n \in present
    /\ files' = [files EXCEPT ![n] = @ \cup {f}]
    /\ Stepped(p)
    /\ UNCHANGED <<platform, parent, present, holder, used, ghosts, faults, name,
                   target, seen, begun, stale>>

\* The marker is written whole and flushed (to an unlinked file, if it was
\* removed meanwhile).
WriteMarker(p) ==
    LET n == name[p] IN
    /\ pc[p] = "creating" /\ Creation[step[p]] = "marker"
    /\ files' = [files EXCEPT ![n] =
                    IF "partial" \in @ THEN (@ \ {"partial"}) \cup {"marker"} ELSE @]
    /\ Stepped(p)
    /\ UNCHANGED <<platform, parent, present, holder, used, ghosts, faults, name,
                   target, seen, begun, stale>>

\* The new lock file is locked without waiting.
CreateLock(p) ==
    LET n == name[p] IN
    /\ pc[p] = "creating" /\ Creation[step[p]] = "lock"
    /\ holder[n] = NoProc
    /\ holder' = [holder EXCEPT ![n] = p]
    /\ Stepped(p)
    /\ UNCHANGED <<platform, parent, present, files, used, ghosts, faults, name,
                   target, seen, begun, stale>>

\* The step cannot be done: another process took the lock or the directory.
Obstructed(p) ==
    \/ Creation[step[p]] = "directory" /\ ~parent
    \/ Creation[step[p]] \in {"lockfile", "partial"} /\ name[p] \notin present
    \/ Creation[step[p]] = "lock" /\ holder[name[p]] # NoProc

\* A failing step gives up the lock and removes what was made.
CreateFails(p) ==
    /\ pc[p] = "creating"
    /\ \/ Obstructed(p) /\ UNCHANGED faults
       \/ ~Obstructed(p) /\ Fault
    /\ IF name[p] = NoName
       THEN Goto(p, "idle") /\ UNCHANGED holder
       ELSE Goto(p, "undoing") /\ holder' = Released(p, name[p])
    /\ UNCHANGED <<platform, parent, present, files, used, ghosts, step, name,
                   target, seen, begun, stale>>

\* gdox_session_storage_remove_relative on the way out; its error is ignored.
Undone(p) ==
    /\ pc[p] = "undoing"
    /\ \/ files[name[p]] = {} /\ present' = present \ {name[p]} /\ UNCHANGED faults
       \/ Fault /\ UNCHANGED present
    /\ parent' = (parent /\ (platform = "posix" \/ present' # {}))
    /\ Goto(p, "idle")
    /\ name' = [name EXCEPT ![p] = NoName]
    /\ UNCHANGED <<platform, files, holder, used, ghosts, step, target, seen, begun, stale>>

-----------------------------------------------------------------------------
(* Use and cleanup.                                                        *)

\* The emulator writes derived data below the session root.
WriteData(p) ==
    /\ pc[p] = "active"
    /\ name[p] \in present
    /\ files' = [files EXCEPT ![name[p]] = @ \cup {"data"}]
    /\ wrote' = wrote \cup {name[p]}
    /\ UNCHANGED <<platform, parent, present, holder, used, torn, faults, local>>

\* The directory carries the marker of its name, and its path still leads to
\* the lock file this process holds.
OwnershipVerified(p) ==
    /\ name[p] \in present
    /\ {"marker", "lock"} \subseteq files[name[p]]

\* gdox_session_storage_cleanup refuses without that, and the storage stays active.
CleanupBegin(p) ==
    /\ pc[p] \in {"active", "retained"}
    /\ OwnershipVerified(p)
    /\ Goto(p, "cleaning")
    /\ step' = [step EXCEPT ![p] = 1]
    /\ UNCHANGED <<platform, disk, ghosts, faults, name, target, seen, begun, stale>>

\* The next step of the cleanup finds what it needs.  Windows takes a file or
\* directory that is already gone for a failure, POSIX does not.
CanDismantle(p) ==
    LET n == name[p]
        what == Cleanup[step[p]] IN
    /\ platform = "windows" /\ what \in {"marker", "lock"} => what \in files[n]
    /\ what = "directory" =>
        files[n] = {} /\ (platform = "windows" => n \in present)

\* What a step of the cleanup does to the disk.
Dismantle(p) ==
    LET n == name[p]
        what == Cleanup[step[p]] IN
    /\ files' = [files EXCEPT ![n] = @ \ {what}]
    /\ holder' = IF what = "unlock" THEN Released(p, n) ELSE holder
    /\ present' = IF what = "directory" THEN present \ {n} ELSE present

CleanupStep(p) ==
    /\ pc[p] = "cleaning"
    /\ CanDismantle(p)
    /\ Dismantle(p)
    /\ IF step[p] = Len(Cleanup)
       THEN /\ Goto(p, "idle")
            /\ step' = [step EXCEPT ![p] = 1]
            /\ name' = [name EXCEPT ![p] = NoName]
            /\ parent' = (parent /\ (platform = "posix" \/ present' # {}))
       ELSE /\ step' = [step EXCEPT ![p] = @ + 1]
            /\ UNCHANGED <<pc, name, parent>>
    /\ UNCHANGED <<platform, used, ghosts, faults, target, seen, begun, stale>>

\* Has the Windows cleanup given its lock up: from there on it forgets the
\* storage even when it fails.
PastUnlock(p) == platform = "windows" /\ step[p] > 3

\* A step fails: the storage stays active for another attempt, or is forgotten.
CleanupFails(p) ==
    /\ pc[p] = "cleaning"
    /\ \/ ~CanDismantle(p) /\ UNCHANGED faults
       \/ CanDismantle(p) /\ Fault
    /\ Goto(p, IF PastUnlock(p) THEN "idle" ELSE "retained")
    /\ name' = [name EXCEPT ![p] = IF PastUnlock(p) THEN NoName ELSE @]
    /\ step' = [step EXCEPT ![p] = 1]
    /\ UNCHANGED <<platform, disk, ghosts, target, seen, begun, stale>>

\* The process dies: its locks are released, its files stay.
Crash(p) ==
    /\ pc[p] # "idle"
    /\ Fault
    /\ torn' = IF pc[p] \in {"unlocking", "removing"} /\ target[p] \in present
               THEN torn \cup {target[p]} ELSE torn
    /\ holder' = [n \in Names |-> IF holder[n] = p THEN NoProc ELSE holder[n]]
    /\ Goto(p, "idle")
    /\ name' = [name EXCEPT ![p] = NoName]
    /\ target' = [target EXCEPT ![p] = NoName]
    /\ step' = [step EXCEPT ![p] = 1]
    /\ Forget(p)
    /\ UNCHANGED <<platform, parent, present, files, used, wrote>>

Next ==
    \E p \in Procs :
        \/ RecoverBegin(p)
        \/ \E n \in Names : InspectMarker(p, n)
        \/ OpenLock(p)
        \/ TryLock(p)
        \/ WindowsUnlock(p)
        \/ \E f \in Files : RemoveEntry(p, f)
        \/ RecoveredOne(p)
        \/ RecoverFails(p)
        \/ RecoverEnd(p)
        \/ CreateBegin(p)
        \/ \E n \in Names : CreateDirectory(p, n)
        \/ CreateFile(p)
        \/ WriteMarker(p)
        \/ CreateLock(p)
        \/ CreateFails(p)
        \/ Undone(p)
        \/ WriteData(p)
        \/ CleanupBegin(p)
        \/ CleanupStep(p)
        \/ CleanupFails(p)
        \/ Crash(p)

Spec == Init /\ [][Next]_vars

-----------------------------------------------------------------------------
(* Properties.                                                             *)

\* The session of a live process that has not begun to clean it up is whole:
\* directory, marker, its lock, and everything the emulator wrote there.
SessionKept(p) ==
    LET n == name[p] IN
    pc[p] = "active" =>
        /\ n \in present
        /\ {"marker", "lock"} \subseteq files[n]
        /\ holder[n] = p
        /\ n \in wrote => "data" \in files[n]

\* On POSIX no recovery ever touches an active session, in whatever order the
\* processes' file operations interleave, crashes included.
ActiveSessionIsKept ==
    TypeOK /\ (platform = "posix" => \A p \in Procs : SessionKept(p))

\* The same for every platform, as session_storage.h words it: recovery removes
\* abandoned directories.
OnlyAbandonedIsRemoved == \A p \in Procs : SessionKept(p)

\* Data that no live process tends still has a whole marker and a lock file, so
\* the next recovery takes it for what it is, unless a recovery was itself cut
\* short while removing it: a cleanup that dies or fails leaves no data behind.
LeftoverDataIsRecoverable ==
    \A n \in present \ torn :
        "data" \in files[n] /\ ~Tended(n) => {"marker", "lock"} \subseteq files[n]

\* A recovery that reports success left none of the sessions that were
\* abandoned when it began, except to another recovery at work on it or cut
\* short.
RecoveryIsComplete ==
    \A p \in Procs :
        pc[p] = "recovered" =>
            \A n \in stale[p] \cap present :
                n \in torn \/ \E q \in Procs : target[q] = n
=============================================================================
