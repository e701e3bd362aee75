------------------------------ MODULE Ad7701h ------------------------------
(***************************************************************************)
(* The source of the AD-7701H drive (src/platform/ad7701h_source.c): two   *)
(* bytes of disc geometry, each write read back before the next; a failed  *)
(* read ends the session, because no reset of this drive is validated; a   *)
(* failed open is closed like any source and retained when that fails.     *)
(***************************************************************************)
EXTENDS FieldMemory

AdAt(place) == family = "ad7701h" /\ pc = place
AdSame == UNCHANGED <<family, drive, history>>
AdDisc == CHOOSE p \in Profiles : TRUE
AdKnown(found) == \A f \in Fields : found[f].of = AdDisc

\* context->faulted and context->prepared are source.failed and the place
\* "release".  gdox_source_close of a failed open, and prepare_close: restore
\* only what is dirty.
AdPrepareClose(s) ==
  LET closing == [s EXCEPT !.task = "close", !.failed = TRUE]
  IN  IF s.active THEN TakeSnapshot(closing, "guard") ELSE Then("release", closing)

\* restore: the bytes that differ, last one first.
AdNextByte(s, found) ==
  LET differ == {i \in 1 .. s.todo : found[Order[i]] # Stock(AdDisc)[Order[i]]}
  IN  IF found = Stock(AdDisc) THEN Then("rest", [s EXCEPT !.purpose = "restored", !.todo = 0])
      ELSE IF differ = {} THEN Then("held", s)
      ELSE Then("write", [s EXCEPT !.purpose = "restored",
                                   !.todo = CHOOSE i \in differ : \A j \in differ : j <= i])

-----------------------------------------------------------------------------
\* gdox_ad7701h_source_open and initialize, as far as the geometry.
AdOpen ==
  /\ AdAt("closed") /\ drive.attached
  /\ Then("ready", [NoSource EXCEPT !.task = "open"])
  /\ Handle /\ UNCHANGED family

\* read_ram finds stock geometry, baseline and the structures are those of
\* the disc; a command that fails closes the source.
AdInitialize ==
  /\ AdAt("ready")
  /\ \E ok \in Reply :
       IF ok /\ drive.disc = AdDisc /\ drive.memory = Stock(AdDisc)
       THEN TakeSnapshot([source EXCEPT !.media = AdDisc], "applied") ELSE AdPrepareClose(source)
  /\ AdSame

\* activate reads the geometry once more and marks the drive dirty before the
\* first write.
AdActivate ==
  /\ AdAt("snapshot") /\ source.purpose = "applied"
  /\ \E ok \in Reply :
       IF ok /\ drive.memory = Stock(AdDisc)
       THEN Then("write", [source EXCEPT !.active = TRUE, !.todo = Len(Order)])
       ELSE AdPrepareClose(source)
  /\ history' = [history EXCEPT !.stale = FALSE]
  /\ UNCHANGED <<family, drive>>

\* What the geometry has to be after each write of an activation.
AdExpected(todo) ==
  [f \in Fields |-> IF \E i \in DOMAIN Order : Order[i] = f /\ i > Len(Order) - todo
                    THEN Stock(AdDisc)[f] ELSE Live(AdDisc)[f]]

\* write_geometry_byte and the read_ram after it.
AdWrite ==
  /\ AdAt("write") /\ source.todo > 0
  /\ \E ok \in Reply, lands \in BOOLEAN :
       /\ Landing(ok, lands)
       /\ \E read \in BOOLEAN :
            LET verified == /\ ok /\ read /\ AdKnown(drive'.memory)
                            /\ drive'.memory[NextField] = NextValue
            IN  CASE source.purpose = "applied" ->
                       IF ok /\ read /\ drive'.memory = AdExpected(source.todo - 1)
                       THEN IF source.todo = 1 THEN Then("descriptor", [source EXCEPT !.todo = 0])
                            ELSE Then("write", [source EXCEPT !.todo = @ - 1])
                       ELSE AdPrepareClose(source)
                  [] source.purpose = "restored" /\ verified -> AdNextByte(source, drive'.memory)
                  [] OTHER -> Then("held", source)
  /\ UNCHANGED family

\* The last step of initialize: read_game finds the descriptor of the game.
AdDescriptor ==
  /\ AdAt("descriptor")
  /\ \E ok \in Reply :
       IF ok /\ drive.disc = AdDisc /\ drive.memory = Live(AdDisc)
       THEN Then("live", source) ELSE AdPrepareClose(source)
  /\ AdSame

\* read_sectors: the geometry is looked at before the first sector.
AdRead ==
  /\ AdAt("live")
  /\ \E ok \in Reply :
       IF ok /\ ~source.failed /\ drive.memory = Live(AdDisc)
       THEN Then("reading", [source EXCEPT !.task = "read"])
       ELSE Then("live", [source EXCEPT !.failed = TRUE])
  /\ AdSame

\* read_game, any number of times.
AdReadGame ==
  /\ AdAt("reading")
  /\ \E ok \in Reply, more \in BOOLEAN :
       IF ok /\ ReadableState
       THEN Deliver /\ Then(IF more THEN "reading" ELSE "live", source)
       ELSE Then("live", [source EXCEPT !.failed = TRUE]) /\ UNCHANGED history
  /\ UNCHANGED <<family, drive>>

AdClose ==
  /\ family = "ad7701h" /\ pc \in {"live", "held"}
  /\ AdPrepareClose(source)
  /\ AdSame

\* restore reads the geometry.
AdRestore ==
  /\ AdAt("snapshot") /\ source.purpose = "guard"
  /\ \E ok \in Reply :
       IF ok /\ AdKnown(drive.memory)
       THEN AdNextByte([source EXCEPT !.todo = Len(Order)], drive.memory)
       ELSE Then("held", source)
  /\ history' = [history EXCEPT !.stale = FALSE]
  /\ UNCHANGED <<family, drive>>

\* The end of restore: baseline, and the video sector is the one of the open.
AdRestored ==
  /\ AdAt("rest")
  /\ \E ok \in Reply :
       IF ok /\ drive.disc = source.media /\ drive.memory[Capacity] = Stock(AdDisc)[Capacity]
       THEN Then("release", [source EXCEPT !.active = FALSE]) ELSE Then("held", source)
  /\ AdSame

AdRelease ==
  /\ AdAt("release")
  /\ \/ Then("closed", NoSource) /\ history' = NoHistory
     \/ Then("held", source) /\ UNCHANGED history
  /\ UNCHANGED <<family, drive>>

AdNext ==
  \/ AdOpen \/ AdInitialize \/ AdActivate \/ AdWrite \/ AdDescriptor \/ AdRead \/ AdReadGame
  \/ AdClose \/ AdRestore \/ AdRestored \/ AdRelease
=============================================================================
