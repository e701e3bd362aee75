------------------------------ MODULE AsusNr09 ------------------------------
(***************************************************************************)
(* The source of the ASUS NR09 drive (src/platform/asus_nr09_source.c):    *)
(* two media profiles, recognized by what is in the memory; what an        *)
(* earlier session left is put back before the disc is opened; a drive     *)
(* that has lost its power is owed nothing.                                *)
(***************************************************************************)
EXTENDS FieldMemory

AsusAt(place) == family = "asus" /\ pc = place
AsusSame == UNCHANGED <<family, drive, history>>

\* What a profile makes of a state of the memory and the size of the disc.
AsusClass(p, found, size) ==
  CASE found = Stock(p) /\ size = Stock(p)[Capacity] -> "stock"
    [] found = Live(p) /\ size = Live(p)[Capacity] -> "live"
    [] OTHER -> IF \A f \in Fields : found[f].of = p /\ size.of = p THEN "partial" ELSE "unknown"

AsusKnown(found, size) == {p \in Profiles : AsusClass(p, found, size) # "unknown"}

\* cleanup_failed_open, as far as the restoration.
AsusCleanup(s) == IF s.active THEN BeginRestore(s, "cleanup")
                              ELSE Then("release", [s EXCEPT !.goal = "cleanup"])

\* prepare_close; before and after its attempts it asks whether the drive is
\* still there.
AsusPrepareClose(s) ==
  IF s.active /\ drive.attached THEN BeginRestore([s EXCEPT !.task = "close"], "close")
  ELSE Then("release", [s EXCEPT !.active = FALSE, !.task = "close", !.goal = "close"])
AsusNotRestored(s) ==
  IF drive.attached THEN Then("held", s) ELSE Then("release", [s EXCEPT !.active = FALSE])

\* What follows a restoration, by what it was for.
AsusRestored(s) ==
  LET done == [s EXCEPT !.active = FALSE]
  IN  CASE s.goal = "normalize" -> Then("evidence", done)
        [] s.goal = "rollback"  -> AsusCleanup(done)
        [] s.goal = "ensure"    -> StartWrites(s, "applied")
        [] s.goal \in {"cleanup", "close"} -> Then("release", done)
AsusGivesUp(s) ==
  CASE s.goal \in {"normalize", "rollback"} -> AsusCleanup(s)
    [] s.goal = "cleanup" -> Then("held", s)
    [] s.goal = "close"   -> AsusNotRestored(s)
    [] s.goal = "ensure"  -> NextRead(s)

\* restore_stock_after_streaming: once, and after each of two resets.
AsusRestoreFails(s) ==
  IF s.goal # "ensure" /\ s.tries < RestoreAttempts THEN Then("reset", s) ELSE AsusGivesUp(s)

\* guarded_restore_stock.
AsusGuard(s, class) ==
  CASE class = "stock"   -> AsusRestored(s)
    [] class = "unknown" -> AsusRestoreFails(s)
    [] class \in {"live", "partial"} -> StartWrites(s, "restored")

\* apply_live_with_rollback: armed before the first write.
AsusApplyUnarmed(s) == StartWrites(s, "applied")
AsusApply(s) == StartWrites([s EXCEPT !.active = TRUE], "applied")
AsusApplyFails(s) == IF s.task = "open" THEN BeginRestore(s, "rollback") ELSE NextRead(s)
AsusApplied(s) == IF s.task = "open" THEN Then("descriptor", s)
                  ELSE Then("reading", [s EXCEPT !.tries = @ + 1])

\* select_and_normalize_profile: exactly one profile knows the memory.
AsusSelect(s, found, size) ==
  \/ AsusCleanup(s)
  \/ \E p \in Profiles :
       /\ AsusKnown(found, size) = {p}
       /\ IF AsusClass(p, found, size) = "stock" THEN Then("evidence", [s EXCEPT !.media = p])
          ELSE BeginRestore([s EXCEPT !.media = p, !.active = TRUE], "normalize")

\* ensure_live.
AsusEnsureTrusting(s, class) ==
  CASE class \in {"live", "partial"} -> AsusApplied(s)
    [] class = "unknown" -> NextRead(s)
    [] class = "stock"   -> StartWrites(s, "applied")
AsusEnsure(s, class) ==
  CASE class = "live"    -> AsusApplied(s)
    [] class = "unknown" -> NextRead(s)
    [] class = "stock"   -> StartWrites(s, "applied")
    [] class = "partial" -> StartWrites([s EXCEPT !.goal = "ensure"], "restored")

AsusDecide(s, found, size) ==
  LET class == IF s.media = None THEN "none" ELSE AsusClass(s.media, found, size)
  IN  CASE s.purpose = "select"   -> AsusSelect(s, found, size)
        [] s.purpose = "guard"    -> AsusGuard(s, class)
        [] s.purpose = "ensure"   -> AsusEnsure(s, class)
        [] s.purpose = "restored" -> IF class = "stock" THEN AsusRestored(s) ELSE AsusRestoreFails(s)
        [] s.purpose = "applied"  -> IF class = "live" THEN AsusApplied(s) ELSE AsusApplyFails(s)
AsusFailed(s) ==
  CASE s.purpose = "select" -> AsusCleanup(s)
    [] s.purpose = "ensure" -> NextRead(s)
    [] s.purpose = "applied" -> AsusApplyFails(s)
    [] s.purpose \in {"guard", "restored"} -> AsusRestoreFails(s)

-----------------------------------------------------------------------------
\* source_open_profile as far as the transport: INQUIRY is tried twice, and a
\* transport that cannot be closed again is retained.
AsusOpen ==
  /\ AsusAt("closed") /\ drive.attached
  /\ \E place \in {"ready", "held"} : Then(place, [NoSource EXCEPT !.task = "open"])
  /\ Handle /\ UNCHANGED family

AsusReady ==
  /\ AsusAt("ready")
  /\ \E ok \in Reply : IF ok THEN TakeSnapshot(source, "select") ELSE AsusCleanup(source)
  /\ AsusSame

\* read_memory_state, read_state and read_restore_state.
AsusSnapshot ==
  /\ family = "asus" /\ Snapshot(AsusFailed, AsusDecide)
  /\ UNCHANGED family

\* collect_disc_evidence: the disc is of the profile.
AsusEvidence ==
  /\ AsusAt("evidence")
  /\ \E ok \in Reply :
       IF ok /\ drive.disc = source.media THEN AsusApply(source) ELSE AsusCleanup(source)
  /\ AsusSame

\* memory_write.  A restoration sends everything whatever fails, an
\* activation stops at the first failure.
AsusWrite ==
  /\ AsusAt("write") /\ source.todo > 0
  /\ \E ok \in Reply, lands \in BOOLEAN :
       /\ Landing(ok, lands)
       /\ Then("write", [source EXCEPT
            !.todo = IF ok \/ source.purpose = "restored" THEN @ - 1 ELSE 0,
            !.failed = @ \/ ~ok])
  /\ UNCHANGED family

\* apply_live and restore_stock after their writes: the latter reads the
\* memory even when a write failed.
AsusVerify ==
  /\ AsusAt("write") /\ source.todo = 0
  /\ IF source.failed /\ source.purpose = "applied" THEN AsusApplyFails(source)
     ELSE TakeSnapshot(source, source.purpose)
  /\ AsusSame

AsusDescriptor ==
  /\ AsusAt("descriptor")
  /\ \E ok \in Reply :
       IF ok /\ drive.disc = source.media /\ drive.memory = Live(source.media)
       THEN Then("live", source) ELSE BeginRestore(source, "rollback")
  /\ AsusSame

AsusResetDrive ==
  /\ AsusAt("reset") /\ Resets
  /\ TakeSnapshot([source EXCEPT !.tries = @ + 1], "guard")
  /\ UNCHANGED family

\* asus_read, read_chunk: any number of ranges.
AsusRead ==
  /\ AsusAt("live")
  /\ Then("reading", [source EXCEPT !.task = "read", !.tries = 1])
  /\ AsusSame

\* read_range_with_recovery.
AsusReadRange ==
  /\ AsusAt("reading")
  /\ \E ok \in Reply :
       IF ok /\ ReadableState THEN Then("live", source) /\ Deliver
       ELSE /\ \/ Then("live", source)
               \/ source.tries < ReadAttempts /\ Then("recover", source)
            /\ UNCHANGED history
  /\ UNCHANGED <<family, drive>>

\* recover_optical.  What the tracker makes of its senses is left open: it
\* ends the read or not.
AsusRecover ==
  /\ AsusAt("recover") /\ Resets
  /\ \/ NextRead(source)
     \/ drive.attached /\ drive.disc # None /\ TakeSnapshot(source, "ensure")
  /\ UNCHANGED family

AsusClose ==
  /\ pc \in {"live", "held"} /\ family = "asus"
  /\ AsusPrepareClose(source)
  /\ AsusSame

\* Closing the transport.
AsusRelease ==
  /\ AsusAt("release")
  /\ \/ Then("closed", NoSource) /\ history' = NoHistory
     \/ Then("held", source) /\ UNCHANGED history
  /\ UNCHANGED <<family, drive>>

AsusNext ==
  \/ AsusOpen \/ AsusReady \/ AsusSnapshot \/ AsusEvidence \/ AsusWrite \/ AsusVerify
  \/ AsusDescriptor \/ AsusResetDrive \/ AsusRead \/ AsusReadRange \/ AsusRecover
  \/ AsusClose \/ AsusRelease
=============================================================================
