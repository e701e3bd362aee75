--------------------------- MODULE OpticalDrives ---------------------------
(***************************************************************************)
(* The sources of the other drives behind the registry                     *)
(* (src/platform/optical.c, src/platform/optical_devices.c): whichever     *)
(* drive was selected, its source keeps the promise of VolatileLease.      *)
(* Initially a drive is chosen; the state of the others never changes.     *)
(***************************************************************************)
EXTENDS AsusNr09, Gp08, Ad7701h, NintendoSource

vars == <<family, fieldVars, ninVars>>

FieldIdle ==
  /\ drive = [disc |-> None, memory |-> Stock("foreign"), attached |-> FALSE, answers |-> FALSE, changes |-> 0]
  /\ pc = "closed" /\ source = NoSource /\ history = NoHistory

\* open_selected_media by the drive of the device that was selected.
Init ==
  \/ family \in {"asus", "gp08", "ad7701h"} /\ FieldInit /\ NinIdle
  \/ family = "gp63" /\ NinInit /\ FieldIdle
Next ==
  \/ /\ \/ AsusNext \/ Gp08Next \/ AdNext
        \/ family # "gp63" /\ FieldWorld /\ UNCHANGED family
     /\ UNCHANGED ninVars
  \/ /\ family = "gp63" /\ NinNext
     /\ UNCHANGED <<family, fieldVars>>
Spec == Init /\ [][Next]_vars

-----------------------------------------------------------------------------
TypeOK == FieldTypeOK /\ NinTypeOK

Life == IF family = "gp63"
        THEN CASE ghost.killed -> "killed" [] owner = "closed" /\ ~ghost.killed -> "idle"
               [] OTHER -> "open"
        ELSE CASE history.killed -> "killed" [] pc = "closed" /\ ~history.killed -> "idle"
               [] OTHER -> "open"
Changed == IF family = "gp63" THEN ghost.set
           ELSE {f \in history.wrote : drive.memory[f].state = "live"}
Owed == IF family = "gp63" THEN context.pending ELSE IF source.active THEN Fields ELSE {}

Lease == INSTANCE VolatileLease WITH changed <- Changed, owed <- Owed, life <- Life

\* Whatever command fails or lies about what it did, whenever the disc is
\* exchanged, the drive unplugged or the process killed: each of the four
\* sources owes what it wrote until it has verified the restoration or the
\* drive has lost its memory.
PromiseKept == Lease!Spec

\* A source writes the drive's memory only while every field of it is known
\* to be of the disc it opened, unless the memory changed by itself after it
\* was looked at; and admission bytes are set only when all were clear.
OnlyKnownIsWritten ==
  [][/\ drive'.memory # drive.memory /\ pc = "write" /\ ~history.stale =>
          \A f \in Fields : drive.memory[f].of = source.media
     /\ mechanism'.admission # mechanism.admission /\ work.step = "admit" =>
          \A a \in Bytes : mechanism.admission[a] => a \in ghost.set]_vars

\* A READ succeeds only while the whole memory is live (not with the capacity
\* raised over the zones of another layout), until a recovery has failed, after
\* which the code goes on reading from whatever memory that left.
LiveReads == TypeOK /\ (history.delivered = "other" => history.gaveup)

\* Speculation starts no acquisition while a reader waits for the drive, the
\* reader that acquired a block finds it in the buffer, and closing never waits
\* for a worker that sleeps.
ReadersComeFirst ==
  [][/\ work.by = "free" /\ work'.by = "worker" => \A r \in Readers : ~At63(r, "lock")
     /\ ~ghost'.lost
     /\ owner' = "joining" => worker'.place # "asleep"]_vars
=============================================================================
