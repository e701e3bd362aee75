-------------------------- MODULE Mt1887Transaction --------------------------
(***************************************************************************)
(* The volatile memory of an MT1887 drive during a session                 *)
(* (src/platform/mt1887_source.c, mt1887_media_profile.c,                  *)
(* optical_restore.h).  Opening a game disc overwrites the capacity and    *)
(* the geometry the drive derived from it, byte by byte; closing must put  *)
(* the stock bytes back.  Every command can fail, with or without effect;  *)
(* a reset or another disc can put the drive's own bytes back; the disc    *)
(* can be taken out between any two commands and the program killed.       *)
(*                                                                         *)
(* A read of the memory is two steps, so that a change of disc can tear    *)
(* it.  What the media tracker makes of a change is not modelled here: a   *)
(* recovery may notice it or not.                                          *)
(***************************************************************************)
EXTENDS Naturals, Sequences, FiniteSets

CONSTANTS
  Hardwares,        \* the drives: [media, auxiliary, geometryFirst]
  Profiles,         \* the media profiles
  Stock, Live,      \* their triplets: [Profiles -> [capacity, geometry]]
  Canonical,        \* the auxiliary triplet of a drive that has one
  Foreign,          \* the memory of a disc that is of no profile
  RestoreAttempts,  \* guarded restorations of one close
  ReadAttempts,     \* READ commands of one request: read_retries + 1
  MaxChanges,       \* BOUND: how often the disc is taken out or put in
  None              \* no disc, no profile

Bytes == 0 .. 255
Triplets == [1 .. 3 -> Bytes]
Memories == [capacity : Triplets, geometry : Triplets, auxiliary : Triplets]
Volatile == {"capacity", "geometry"}

ASSUME ProfileAssumption ==
  /\ Stock \in [Profiles -> [Volatile -> Triplets]]
  /\ Live \in [Profiles -> [Volatile -> Triplets]]
  /\ \A p \in Profiles : Stock[p].capacity # Live[p].capacity
  /\ Canonical \in Triplets /\ Foreign \in Memories
  /\ None \notin Profiles /\ "foreign" \notin Profiles /\ None # "foreign"
ASSUME HardwareAssumption ==
  Hardwares \subseteq [media : SUBSET Profiles,
                       auxiliary : {"absent", "repaired", "guard"},
                       geometryFirst : BOOLEAN]
ASSUME LimitAssumption == /\ RestoreAttempts \in Nat \ {0}
                          /\ ReadAttempts \in Nat \ {0}
                          /\ MaxChanges \in Nat

VARIABLES
  hardware,   \* context->profile, chosen once
  drive,      \* what is in the drive, its volatile memory, whether the next
              \* command fails with a unit attention, and how often it changed
  pc,         \* the place in the source's code
  source,     \* the context and the locals of the call that is under way
  history     \* auxiliary

vars == <<hardware, drive, pc, source, history>>

Discs == Profiles \cup {"foreign"}
Drives == [disc : Discs \cup {None}, memory : Memories, attention : BOOLEAN,
           changes : 0 .. MaxChanges]

Places == {"closed", "identify", "snapshot", "rest", "geometry", "write", "descriptor",
           "live", "reading", "recover", "reset", "release", "held"}

\* purpose: what a snapshot is for, or what is verified after the writes;
\* seen: the capacity bytes of a snapshot under way; noMedium: the drive was
\* empty at its end; tries: the attempt.
Purposes == {"normalize", "guard", "ensure", "repair", "restored", "applied"}
Writes == [field : {"capacity", "geometry", "auxiliary"}, index : 1 .. 3, value : Bytes]
Sources == [task : {"open", "read", "close"}, purpose : Purposes, seen : Triplets,
            writes : Seq(Writes), failed : BOOLEAN,
            tries : 0 .. RestoreAttempts + ReadAttempts,
            noMedium : BOOLEAN, media : Profiles \cup {None}, required : BOOLEAN]
NoSource == [task |-> "close", purpose |-> "guard", seen |-> Canonical, writes |-> <<>>,
             failed |-> FALSE, tries |-> 0, noMedium |-> FALSE, media |-> None,
             required |-> FALSE]

\* moved: the disc was changed since the source was opened; stale: it was, or
\* a reset made the drive read it again, since the last snapshot was begun.  dirty: a write landed since the memory was last
\* found to be stock; wrote: since the source was opened.  retarget: the bytes
\* of another profile are being replaced.  delivered: the memory under which
\* a READ succeeded.
Histories == [moved : BOOLEAN, stale : BOOLEAN, dirty : BOOLEAN, wrote : BOOLEAN,
              retarget : BOOLEAN, delivered : {"nothing", "live", "other"}]
NoHistory == [moved |-> FALSE, stale |-> FALSE, dirty |-> FALSE, wrote |-> FALSE,
              retarget |-> FALSE, delivered |-> "nothing"]

TypeOK ==
  /\ hardware \in Hardwares
  /\ drive \in Drives
  /\ pc \in Places
  /\ source \in Sources
  /\ history \in Histories

-----------------------------------------------------------------------------
(* The profiles (mt1887_media_profile.c). *)

StockMemory(p) == [capacity |-> Stock[p].capacity, geometry |-> Stock[p].geometry,
                   auxiliary |-> Canonical]
LiveMemory(p) == [capacity |-> Live[p].capacity, geometry |-> Live[p].geometry,
                  auxiliary |-> Canonical]

\* What the drive itself makes of a disc.
Natural(d) == IF d = "foreign" THEN Foreign ELSE StockMemory(d)

TripletIsTransitionAsAWhole(p, f, found) == found \in {Stock[p][f], Live[p][f]}
TripletIsTransition(p, f, found) ==
  \A i \in 1 .. 3 : found[i] \in {Stock[p][f][i], Live[p][f][i]}

AuxiliaryIsTransition(p, found) ==
  CASE hardware.auxiliary = "absent"   -> TRUE
    [] hardware.auxiliary = "guard"    -> found = Canonical
    [] hardware.auxiliary = "repaired" ->
         \A i \in 1 .. 3 : found[i] \in {Canonical[i], Stock[p].capacity[i], Live[p].capacity[i]}

IsTransition(p, found) == /\ \A f \in Volatile : TripletIsTransition(p, f, found[f])
                          /\ AuxiliaryIsTransition(p, found.auxiliary)

\* extent: what READ CAPACITY reports, as the capacity bytes it comes from.
Classify(p, found, extent) ==
  CASE p \notin hardware.media -> "unknown"
    [] found = StockMemory(p) /\ extent = Stock[p].capacity -> "stock"
    [] found = LiveMemory(p) /\ extent = Live[p].capacity -> "live"
    [] OTHER -> IF IsTransition(p, found) THEN "transition" ELSE "unknown"

Class(p, found) == Classify(p, found, found.capacity)

\* gdox_mt1887_media_profile_select_known: exactly one profile knows it.
KnownTo(found, extent) == {p \in Profiles : Classify(p, found, extent) # "unknown"}
BelongsToAnother(found, extent) == Cardinality(KnownTo(found, extent)) = 1

-----------------------------------------------------------------------------
(* The volatile writes. *)

Triplet(field, values) == [i \in 1 .. 3 |-> [field |-> field, index |-> i, value |-> values[i]]]

RestorePlan(p) ==
  LET capacity == Triplet("capacity", Stock[p].capacity)
      geometry == Triplet("geometry", Stock[p].geometry)
  IN  (IF hardware.geometryFirst THEN capacity \o geometry ELSE geometry \o capacity)
        \o (IF hardware.auxiliary = "repaired" THEN Triplet("auxiliary", Canonical) ELSE <<>>)

ApplyPlan(p) ==
  LET capacity == Triplet("capacity", Live[p].capacity)
      geometry == Triplet("geometry", Live[p].geometry)
  IN  IF hardware.geometryFirst THEN geometry \o capacity ELSE capacity \o geometry

-----------------------------------------------------------------------------
(* Init: an earlier session may have been killed at any point of its       *)
(* activation, another program may have left anything, and a drive may     *)
(* have kept the memory of the disc before.                                *)

Leftovers ==
  {Foreign} \cup {LiveMemory(p) : p \in Profiles} \cup {StockMemory(p) : p \in Profiles}
  \cup {[StockMemory(p) EXCEPT !.capacity[1] = Live[p].capacity[1]] : p \in Profiles}
  \cup {[StockMemory(p) EXCEPT !.auxiliary = Stock[p].capacity] : p \in Profiles}

Init ==
  /\ hardware \in Hardwares
  /\ drive \in [disc : hardware.media, attention : {FALSE}, changes : {0},
                memory : {m \in Leftovers : hardware.auxiliary = "absent"
                                              => m.auxiliary = Canonical}]
  /\ pc = "closed"
  /\ source = NoSource
  /\ history = NoHistory

-----------------------------------------------------------------------------
(* How the code goes on. *)

Then(place, s) == pc' = place /\ source' = s

TakeSnapshot(s, what) == Then("snapshot", [s EXCEPT !.purpose = what])
StartWrites(s, what, plan) ==
  Then("write", [s EXCEPT !.purpose = what, !.writes = plan, !.failed = FALSE])
StartRestore(s) == StartWrites(s, "restored", RestorePlan(s.media))
StartApply(s) == StartWrites(s, "applied", ApplyPlan(s.media))

\* mt_prepare_close, and cleanup_failed_open, which does the same.
BeginClose(s) ==
  IF s.required THEN TakeSnapshot([s EXCEPT !.task = "close", !.tries = 1], "guard")
                ELSE Then("release", [s EXCEPT !.task = "close"])

\* Whatever fails during the recovery of a read, the next READ follows,
\* unless the failure is a missing disc or a cancellation.
NextRead(s) == \/ Then("reading", [s EXCEPT !.tries = @ + 1])
               \/ Then("live", s)

RestoreFailsForEver(s) ==
  CASE s.task = "open"  -> BeginClose(s)
    [] s.task = "read"  -> NextRead(s)
    [] s.task = "close" -> Then("reset", s)

RestoreFails(s) ==
  CASE s.task = "open"  -> BeginClose(s)
    [] s.task = "read"  -> NextRead(s)
    [] s.task = "close" -> IF s.tries < RestoreAttempts THEN Then("reset", s)
                                                        ELSE Then("held", s)

\* activate_live_state arms the restoration before the first live byte.
ActivateUnarmed(s) == StartApply(s)
Activate(s) == StartApply([s EXCEPT !.required = TRUE])

RestoreSucceeds(s) ==
  CASE s.task = "open"  -> Activate(s)
    [] s.task = "read"  -> StartApply(s)
    [] s.task = "close" -> Then("release", [s EXCEPT !.required = FALSE])

ApplyFails(s) == IF s.task = "open" THEN BeginClose(s) ELSE NextRead(s)
ApplySucceeds(s) == IF s.task = "open" THEN Then("descriptor", s)
                                       ELSE Then("reading", [s EXCEPT !.tries = @ + 1])

-----------------------------------------------------------------------------
(* Commands. *)

\* A command that is sent once is refused with a unit attention; one that is
\* retried may get through.
Answers(retried) == IF drive.attention /\ ~retried THEN {FALSE} ELSE BOOLEAN
Answered == [drive EXCEPT !.attention = FALSE]

\* A bus reset may make the drive read its disc again.
AfterReset == {Answered} \cup {[Answered EXCEPT !.memory = Natural(d)] : d \in {drive.disc} \ {None}}

Open ==
  /\ pc = "closed"
  /\ Then("identify", [NoSource EXCEPT !.task = "open"])
  /\ history' = NoHistory
  /\ UNCHANGED <<hardware, drive>>

\* wait_for_ready and read_and_validate_physical_media.
Identify ==
  /\ pc = "identify"
  /\ drive' = Answered
  /\ \/ BeginClose(source)
     \/ /\ drive.disc \in hardware.media
        /\ TakeSnapshot([source EXCEPT !.media = drive.disc], "normalize")
  /\ UNCHANGED <<hardware, history>>

\* read_memory_state as far as the capacity bytes.  But for the snapshots of
\* a restoration, a byte that cannot be read is tried again after a reset.
IsRetried == source.purpose \notin {"guard", "restored"}
AfterBytes == IF IsRetried THEN AfterReset ELSE {Answered}

SnapshotFails(s) ==
  CASE s.purpose = "normalize"                          -> BeginClose(s)
    [] s.purpose = "ensure"                             -> \/ TakeSnapshot(s, "repair")
                                                           \/ Then("live", s)
    [] s.purpose = "repair"                             -> NextRead(s)
    [] s.purpose \in {"guard", "restored"}              -> RestoreFails(s)
    [] s.purpose = "applied"                            -> ApplyFails(s)

ReadCapacityBytes ==
  /\ pc = "snapshot"
  /\ drive' \in AfterBytes
  /\ \E ok \in Answers(IsRetried), from \in {drive, drive'} :
       IF ok THEN Then("rest", [source EXCEPT !.seen = from.memory.capacity])
             ELSE SnapshotFails(source)
  /\ history' = [history EXCEPT !.stale = drive'.memory # drive.memory]
  /\ UNCHANGED hardware

\* What a snapshot decides.
NormalizeTrusting(s, class, others) ==
  IF class = "unknown" THEN BeginClose(s) ELSE Activate(s)
Normalize(s, class, others) ==
  CASE class = "stock" -> Activate(s)
    [] class \in {"live", "transition"} -> StartRestore([s EXCEPT !.required = TRUE])
    [] class = "unknown" -> IF others THEN StartRestore([s EXCEPT !.required = TRUE])
                                      ELSE BeginClose(s)

GuardTrusting(s, class) ==
  IF class = "unknown" THEN RestoreFails(s) ELSE RestoreSucceeds(s)
Guard(s, class) ==
  CASE class = "stock"   -> RestoreSucceeds(s)
    [] class = "unknown" -> RestoreFails(s)
    [] class \in {"live", "transition"} -> Then("geometry", s)

Repair(s, class) ==
  CASE class = "stock"   -> StartApply(s)
    [] class = "unknown" -> NextRead(s)
    [] class \in {"live", "transition"} -> StartRestore(s)

Decide(s, class, others) ==
  CASE s.purpose = "normalize" -> Normalize(s, class, others)
    [] s.purpose = "guard"     -> Guard(s, class)
    [] s.purpose = "repair"    -> Repair(s, class)
    [] s.purpose = "ensure"    -> IF class = "live" THEN ApplySucceeds(s)
                                                    ELSE TakeSnapshot(s, "repair")
    [] s.purpose = "restored"  -> IF class = "stock" THEN RestoreSucceeds(s) ELSE RestoreFails(s)
    [] s.purpose = "applied"   -> IF class = "live" THEN ApplySucceeds(s) ELSE ApplyFails(s)

\* The other bytes, then READ CAPACITY.  An empty drive has no capacity: a
\* restoration then goes by the memory alone.
Extent == IF drive'.disc = None THEN Stock[source.media].capacity ELSE drive'.memory.capacity

ReadRest ==
  /\ pc = "rest"
  /\ drive' \in AfterBytes
  /\ \E ok \in Answers(IsRetried), from \in {drive, drive'} :
       LET found == [from.memory EXCEPT !.capacity = source.seen]
           class == Classify(source.media, found, Extent)
       IN  IF ok /\ (drive.disc # None \/ ~IsRetried)
             THEN /\ Decide([source EXCEPT !.noMedium = (drive.disc = None)], class,
                            BelongsToAnother(found, Extent))
                  /\ history' = [history EXCEPT
                       !.stale = @ \/ drive'.memory # drive.memory,
                       !.dirty = @ /\ class # "stock",
                       !.retarget = class # "stock"
                                      /\ (@ \/ (source.purpose = "normalize" /\ class = "unknown"))]
             ELSE SnapshotFails(source) /\ UNCHANGED history
  /\ UNCHANGED hardware

\* gdox_optical_restore_check_geometry: the disc is still the one it was.
CheckGeometry ==
  /\ pc = "geometry"
  /\ IF source.noMedium
       THEN StartRestore(source) /\ UNCHANGED drive
       ELSE /\ drive' = Answered
            /\ \E ok \in Answers(FALSE) :
                 IF ok /\ drive.disc = source.media THEN StartRestore(source)
                                                    ELSE RestoreFails(source)
  /\ UNCHANGED <<hardware, history>>

\* write_xdata.  A restoration sends every byte whatever fails, an
\* activation stops at the first failure.
SendWrite ==
  /\ pc = "write" /\ source.writes # <<>>
  /\ LET write == Head(source.writes)
     IN  \E ok \in Answers(FALSE), lands \in BOOLEAN :
           /\ ok => lands
           /\ drive.attention => ~lands
           /\ drive' = IF lands THEN [Answered EXCEPT !.memory[write.field][write.index] = write.value]
                                ELSE Answered
           /\ Then("write", [source EXCEPT
                  !.writes = IF ok \/ source.purpose = "restored" THEN Tail(@) ELSE <<>>,
                  !.failed = @ \/ ~ok])
           /\ history' = [history EXCEPT !.dirty = @ \/ lands, !.wrote = @ \/ lands]
  /\ UNCHANGED hardware

FinishWrites ==
  /\ pc = "write" /\ source.writes = <<>>
  /\ CASE ~source.failed                   -> TakeSnapshot(source, source.purpose)
       [] source.failed /\ source.purpose = "restored" -> RestoreFails(source)
       [] source.failed /\ source.purpose = "applied"  -> ApplyFails(source)
  /\ UNCHANGED <<hardware, drive, history>>

ValidateDescriptor ==
  /\ pc = "descriptor"
  /\ drive' = Answered
  /\ \E ok \in Answers(FALSE) :
       IF ok /\ drive.disc = source.media /\ Class(source.media, drive.memory) = "live"
         THEN Then("live", source) ELSE BeginClose(source)
  /\ UNCHANGED <<hardware, history>>

-----------------------------------------------------------------------------
(* Reads. *)

StartRead ==
  /\ pc = "live"
  /\ Then("reading", [source EXCEPT !.task = "read", !.tries = 1])
  /\ UNCHANGED <<hardware, drive, history>>

\* The sectors of the game lie beyond the capacity of the stock state.
IsAddressable == drive.disc # None /\ drive.memory.capacity # Stock[source.media].capacity

ReadSectors ==
  /\ pc = "reading"
  /\ drive' = Answered
  /\ \E ok \in Answers(FALSE) :
       IF ok /\ IsAddressable
         THEN /\ Then("live", source)
              /\ history' = [history EXCEPT !.delivered =
                   IF Class(source.media, drive.memory) = "live" THEN "live" ELSE "other"]
         ELSE /\ \/ Then("live", source)
                 \/ source.tries < ReadAttempts /\ Then("recover", source)
              /\ UNCHANGED history
  /\ UNCHANGED hardware

\* recover_optical, which resets the drive; then ensure_xgd begins.
Recover ==
  /\ pc = "recover"
  /\ drive' \in AfterReset
  /\ \/ drive.disc # None /\ TakeSnapshot(source, "ensure")
     \/ NextRead(source)
  /\ UNCHANGED <<hardware, history>>

-----------------------------------------------------------------------------
(* Closing. *)

Close ==
  /\ pc \in {"live", "held"}
  /\ BeginClose(source)
  /\ UNCHANGED <<hardware, drive, history>>

\* restore_stock_after_streaming resets the drive between its attempts.
ResetDrive ==
  /\ pc = "reset"
  /\ drive' \in AfterReset
  /\ TakeSnapshot([source EXCEPT !.tries = @ + 1], "guard")
  /\ UNCHANGED <<hardware, history>>

Release ==
  /\ pc = "release"
  /\ Then("closed", NoSource) \/ Then("held", source)
  /\ UNCHANGED <<hardware, drive, history>>

-----------------------------------------------------------------------------
(* The world. *)

Kill ==
  /\ pc # "closed"
  /\ Then("closed", NoSource)
  /\ UNCHANGED <<hardware, drive, history>>

ChangeDisc ==
  /\ drive.changes < MaxChanges
  /\ \/ /\ drive.disc # None
        /\ drive' = [drive EXCEPT !.disc = None, !.changes = @ + 1]
     \/ /\ drive.disc = None
        /\ \E d \in hardware.media \cup {"foreign"} :
             \E m \in {drive.memory, Natural(d)} :
               drive' = [disc |-> d, memory |-> m, attention |-> TRUE,
                         changes |-> drive.changes + 1]
  /\ history' = [history EXCEPT !.moved = TRUE, !.stale = TRUE]
  /\ UNCHANGED <<hardware, pc, source>>

Program ==
  \/ Open \/ Identify \/ ReadCapacityBytes \/ ReadRest \/ CheckGeometry
  \/ SendWrite \/ FinishWrites \/ ValidateDescriptor
  \/ StartRead \/ ReadSectors \/ Recover
  \/ Close \/ ResetDrive \/ Release

Next == Program \/ Kill \/ ChangeDisc

Spec == Init /\ [][Next]_vars

-----------------------------------------------------------------------------
(* Properties. *)

\* Live bytes are written only over memory that was found to be the stock
\* state of the disc, and stock bytes only over a state that belongs to a
\* validated profile, unless the disc was changed, or read again, since the memory was read.
\* (recover_known_state, normalize_detected_media, guarded_restore_stock)
WritesOnlyKnownState ==
  [][pc # "write" /\ pc' = "write" /\ ~history'.stale =>
       IF source'.purpose = "applied"
         THEN Class(source.media, drive.memory)' = "stock"
         ELSE KnownTo(drive'.memory, drive'.memory.capacity) # {}]_vars

\* From the first volatile write that lands until the memory was found to be
\* stock again, the source owes a restoration, through every failure of its
\* opening, its reads and its closing. (context->restoration_required)
RestorationIsArmed == pc # "closed" /\ history.dirty => source.required

\* What this program writes never leaves the states it knows, so it never
\* refuses its own restoration: unless the disc was changed, or the bytes of
\* another profile were being replaced. (guarded_restore_stock)
OwnStateIsKnown ==
  source.required /\ ~history.moved /\ ~history.retarget =>
    Class(source.media, drive.memory) # "unknown"

\* What has been written can be taken back: the restoration is owed, and the
\* memory is in a state that it accepts.
RestorationIsSure == TypeOK /\ RestorationIsArmed /\ OwnStateIsKnown

\* A drive that was written to and then given up holds only what the drive
\* itself made of a disc. (mt_prepare_close, cleanup_failed_open)
ReleasedIsStock ==
  [][pc = "release" /\ pc' = "closed" /\ history.wrote =>
       drive.memory \in {Natural(d) : d \in Discs}]_vars

\* Memory is written only in a known state and let go only in the drive's own.
MemoryIsTakenBack == WritesOnlyKnownState /\ ReleasedIsStock

\* A read recovery leaves live state: sectors are delivered only under the
\* capacity and geometry of the game disc. (read_range_with_recovery)
DeliversUnderLiveState == ~history.moved => history.delivered # "other"

=============================================================================
