-------------------------------- MODULE Gp08 --------------------------------
(***************************************************************************)
(* The source of the GP08 drive (src/platform/gp08_source.c): one kind of  *)
(* disc, told by its structures before the memory is looked at; the memory *)
(* must then be exactly stock, so what an earlier session left is refused  *)
(* and never written; nothing but a verified restoration ends the debt.    *)
(***************************************************************************)
EXTENDS FieldMemory

Gp08At(place) == family = "gp08" /\ pc = place
Gp08Same == UNCHANGED <<family, drive, history>>
Xgd1 == CHOOSE p \in Profiles : TRUE

\* state_is_stock, state_is_live, state_is_known_partial.
Gp08IsStock(found, size) == found = Stock(Xgd1) /\ size = Stock(Xgd1)[Capacity]
Gp08IsLive(found, size) == found = Live(Xgd1) /\ size = Live(Xgd1)[Capacity]
Gp08IsKnown(found, size) == size.of = Xgd1 /\ \A f \in Fields : found[f].of = Xgd1

\* cleanup_failed_open.
Gp08Cleanup(s) == IF s.active THEN BeginRestore(s, "cleanup")
                              ELSE Then("release", [s EXCEPT !.goal = "cleanup"])
Gp08PrepareClose(s) ==
  IF s.active THEN BeginRestore([s EXCEPT !.task = "close"], "close")
              ELSE Then("release", [s EXCEPT !.task = "close", !.goal = "close"])

\* apply_live, with rollback when the disc is being opened.
Gp08Apply(s) == StartWrites([s EXCEPT !.active = TRUE], "applied")
Gp08ApplyFails(s) == IF s.task = "open" THEN BeginRestore(s, "rollback") ELSE NextRead(s)
Gp08Applied(s) == IF s.task = "open" THEN Then("descriptor", s)
                  ELSE Then("reading", [s EXCEPT !.tries = @ + 1])

\* What follows a restoration that verified, or did not.
Gp08Restored(s) ==
  CASE s.goal = "rollback" -> Gp08Cleanup([s EXCEPT !.active = FALSE])
    [] s.goal = "ensure"   -> StartWrites(s, "applied")
    [] OTHER               -> Then("release", [s EXCEPT !.active = FALSE])
Gp08NotRestored(s) ==
  CASE s.goal = "ensure"  -> NextRead(s)
    [] s.tries < RestoreAttempts /\ s.goal # "ensure" -> Then("reset", s)
    [] s.goal = "rollback" /\ s.tries >= RestoreAttempts -> Gp08Cleanup(s)
    [] OTHER -> Then("held", s)

\* guarded_restore_stock.
Gp08GuardBlind(s, found, size) ==
  IF Gp08IsStock(found, size) THEN Gp08Restored(s) ELSE StartWrites(s, "restored")
Gp08Guard(s, found, size) ==
  IF Gp08IsKnown(found, size) THEN Gp08GuardBlind(s, found, size) ELSE Gp08NotRestored(s)

Gp08EnsureLive(s, found, size) ==
  CASE Gp08IsLive(found, size)   -> Gp08Applied(s)
    [] ~Gp08IsKnown(found, size) -> NextRead(s)
    [] Gp08IsStock(found, size)  -> StartWrites(s, "applied")
    [] OTHER                     -> StartWrites([s EXCEPT !.goal = "ensure"], "restored")

Gp08Decide(s, found, size) ==
  CASE s.purpose = "select" ->
         IF Gp08IsStock(found, size) THEN Gp08Apply([s EXCEPT !.media = Xgd1]) ELSE Gp08Cleanup(s)
    [] s.purpose = "guard"    -> Gp08Guard(s, found, size)
    [] s.purpose = "ensure"   -> Gp08EnsureLive(s, found, size)
    [] s.purpose = "restored" -> IF Gp08IsStock(found, size) THEN Gp08Restored(s) ELSE Gp08NotRestored(s)
    [] s.purpose = "applied"  -> IF Gp08IsLive(found, size) THEN Gp08Applied(s) ELSE Gp08ApplyFails(s)
Gp08Failed(s) ==
  CASE s.purpose = "select"  -> Gp08Cleanup(s)
    [] s.purpose = "ensure"  -> NextRead(s)
    [] s.purpose = "applied" -> Gp08ApplyFails(s)
    [] s.purpose \in {"guard", "restored"} -> Gp08NotRestored(s)

-----------------------------------------------------------------------------
\* open_validated_transport; a transport that will not close is retained.
Gp08Open ==
  /\ Gp08At("closed") /\ drive.attached
  /\ \E place \in {"ready", "held"} : Then(place, [NoSource EXCEPT !.task = "open"])
  /\ Handle /\ UNCHANGED family

\* wait_for_ready and collect_disc_evidence.
Gp08Evidence ==
  /\ Gp08At("ready")
  /\ \E ok \in Reply : IF ok /\ drive.disc = Xgd1 THEN TakeSnapshot(source, "select")
                                                  ELSE Gp08Cleanup(source)
  /\ Gp08Same

\* read_memory_state, read_state and read_restore_state.
Gp08Snapshot ==
  /\ family = "gp08" /\ Snapshot(Gp08Failed, Gp08Decide)
  /\ UNCHANGED family

\* write_buffer: restore_stock sends every field whatever fails, apply_live
\* stops at the first failure.
Gp08Write ==
  /\ Gp08At("write") /\ source.todo > 0
  /\ \E ok \in Reply, lands \in BOOLEAN :
       /\ Landing(ok, lands)
       /\ Then("write", [source EXCEPT
            !.todo = IF ok \/ source.purpose = "restored" THEN @ - 1 ELSE 0,
            !.failed = @ \/ ~ok])
  /\ UNCHANGED family

Gp08Verify ==
  /\ Gp08At("write") /\ source.todo = 0
  /\ IF source.failed /\ source.purpose = "applied" THEN Gp08ApplyFails(source)
     ELSE TakeSnapshot(source, source.purpose)
  /\ Gp08Same

\* validate_live_descriptor.
Gp08Descriptor ==
  /\ Gp08At("descriptor")
  /\ \E ok \in Reply :
       IF ok /\ drive.disc = Xgd1 /\ drive.memory = Live(Xgd1)
       THEN Then("live", source) ELSE BeginRestore(source, "rollback")
  /\ Gp08Same

\* The resets of restore_stock_after_streaming.
Gp08ResetDrive ==
  /\ Gp08At("reset") /\ Resets
  /\ TakeSnapshot([source EXCEPT !.tries = @ + 1], "guard")
  /\ UNCHANGED family

\* gp08_read, read_chunk: any number of ranges.
Gp08Read ==
  /\ Gp08At("live")
  /\ Then("reading", [source EXCEPT !.task = "read", !.tries = 1])
  /\ Gp08Same

\* read_range_with_recovery.
Gp08ReadRange ==
  /\ Gp08At("reading")
  /\ \E ok \in Reply :
       IF ok /\ ReadableState THEN Then("live", source) /\ Deliver
       ELSE /\ \/ Then("live", source)
               \/ source.tries < ReadAttempts /\ Then("recover", source)
            /\ UNCHANGED history
  /\ UNCHANGED <<family, drive>>

\* recover_optical: reset, load, wait; a media transition ends the read.
Gp08Recover ==
  /\ Gp08At("recover") /\ Resets
  /\ \/ NextRead(source)
     \/ drive.attached /\ drive.disc # None /\ TakeSnapshot(source, "ensure")
  /\ UNCHANGED family

Gp08Close ==
  /\ family = "gp08" /\ pc \in {"live", "held"}
  /\ Gp08PrepareClose(source)
  /\ Gp08Same

Gp08Release ==
  /\ Gp08At("release")
  /\ \/ Then("closed", NoSource) /\ history' = NoHistory
     \/ Then("held", source) /\ UNCHANGED history
  /\ UNCHANGED <<family, drive>>

\* gdox_gp08_source_eject, between sessions.
Gp08Eject ==
  /\ Gp08At("closed") /\ drive.attached /\ drive.disc # None /\ drive.changes < MaxChanges
  /\ drive' = [drive EXCEPT !.disc = None, !.changes = @ + 1]
  /\ UNCHANGED <<family, pc, source, history>>

Gp08Next ==
  \/ Gp08Open \/ Gp08Evidence \/ Gp08Snapshot \/ Gp08Write \/ Gp08Verify \/ Gp08Descriptor
  \/ Gp08ResetDrive \/ Gp08Read \/ Gp08ReadRange \/ Gp08Recover \/ Gp08Close \/ Gp08Release \/ Gp08Eject
=============================================================================
