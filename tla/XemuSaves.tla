----------------------------- MODULE XemuSaves -----------------------------
(***************************************************************************)
(* The saved games of xemu before it is started                           *)
(* (gdox_runtime_xemu_prepare_launch): a hard disk an older GDOX managed  *)
(* is handed to xemu's own helper, which copies its saves to the vault    *)
(* and may remove it.  The helper is not this program's; what it reports   *)
(* is checked against a second helper that only validates the vault and   *)
(* against the files themselves.  Sizes stand for the files.              *)
(***************************************************************************)
CONSTANTS Sizes, Generations   \* of a hard disk; complete vaults

SavesAssumption == {"none", "torn"} \cap Generations = {} /\ "none" \notin Sizes

VARIABLES disk, mig, rejected   \* rejected: xemu_save_migration.retained_due_to_rejected_migration

saveVars == <<disk, mig, rejected>>

\* legacy: xemu/xbox_hdd.qcow2; pending: the quarantine of a removal.  kept is
\* auxiliary: the disk a refused migration found in its place, "none" once the
\* user has changed it.
Disks == [legacy : Sizes \cup {"none"}, pending : Sizes \cup {"none"},
          vault : Generations \cup {"none", "torn"}, kept : Sizes \cup {"none"}]

Reports == [hashed : BOOLEAN, complete : BOOLEAN, reused : BOOLEAN, safe : BOOLEAN,
            removed : BOOLEAN, unclassified : BOOLEAN]
NoReport == [f \in {"hashed", "complete", "reused", "safe", "removed", "unclassified"} |-> FALSE]

Verdicts == {"none", "nothing", "sticky", "rejected", "checked"}
Migrations == [at : {"idle", "look", "helper", "rejected", "validate", "remains", "granted"},
               bytes : Sizes \cup {"none"}, exported : BOOLEAN,
               child : {"none", "runs", "ended", "reaped"}, open : BOOLEAN,   \* the helper, its pipes
               report : Reports, proof : Generations \cup {"none"}, verdict : Verdicts]
NoMigration == [at |-> "idle", bytes |-> "none", exported |-> FALSE,
                child |-> "none", open |-> FALSE, report |-> NoReport,
                proof |-> "none", verdict |-> "none"]

Grant(v)  == mig' = [mig EXCEPT !.at = "granted", !.verdict = v]
Refuse    == mig' = NoMigration
Go(place) == mig' = [mig EXCEPT !.at = place]

\* migration_state_is_consistent.
Consistent(r) ==
  CASE r.reused -> r.unclassified /\ ~r.hashed /\ ~r.complete /\ ~r.safe /\ ~r.removed
    [] ~r.reused /\ r.safe  -> r.hashed /\ r.complete /\ ~r.unclassified /\ r.removed
    [] ~r.reused /\ ~r.safe -> r.hashed /\ ~r.removed /\ (r.unclassified \/ ~r.complete)

\* gdox_runtime_xemu_prepare_launch and read_launch_state.
Prepare ==
  /\ mig.at = "idle"
  /\ IF rejected THEN Grant("sticky") ELSE Go("look")
  /\ UNCHANGED <<disk, rejected>>

\* The helper's command line names the size it must find.
Ask(b) == mig' = [mig EXCEPT !.at = "helper", !.bytes = b]

\* The start of gdox_xemu_migrate_legacy_managed_hdd_with_outcome.
Look ==
  /\ mig.at = "look"
  /\ \/ Refuse
     \/ disk.legacy = "none" /\ disk.pending = "none" /\ Grant("nothing")
     \/ \E b \in Sizes :
          /\ b = IF disk.legacy # "none" THEN disk.legacy ELSE disk.pending
          /\ Ask(b)
  /\ UNCHANGED <<disk, rejected>>

-----------------------------------------------------------------------------
(* The helper, in a process group or job of its own. *)

HelperRestores == /\ disk.legacy = "none" /\ disk.pending # "none"
                  /\ disk' = [disk EXCEPT !.legacy = disk.pending, !.pending = "none"]
                  /\ UNCHANGED mig
HelperExports  == /\ disk.legacy # "none"
                  /\ \E g \in Generations : disk' = [disk EXCEPT !.vault = g]
                  /\ mig' = [mig EXCEPT !.exported = TRUE]
HelperTears    == disk' = [disk EXCEPT !.vault = "torn"] /\ UNCHANGED mig
HelperRenames  == /\ mig.exported /\ disk.legacy = mig.bytes /\ disk.pending = "none"
                  /\ disk' = [disk EXCEPT !.legacy = "none", !.pending = disk.legacy]
                  /\ UNCHANGED mig
HelperRemoves  == mig.exported /\ disk' = [disk EXCEPT !.pending = "none"] /\ UNCHANGED mig
\* It ends; a process it started may hold its output open for longer.
HelperExits == \E held \in BOOLEAN : mig' = [mig EXCEPT !.child = "ended", !.open = held] /\ UNCHANGED disk
HeirEnds   == /\ mig.child \in {"ended", "reaped"} /\ mig.open
              /\ mig' = [mig EXCEPT !.open = FALSE] /\ UNCHANGED <<disk, rejected>>
Helper == /\ mig.child = "runs"
          /\ \/ HelperRestores \/ HelperExports \/ HelperTears \/ HelperRenames \/ HelperRemoves
             \/ HelperExits
          /\ UNCHANGED rejected

-----------------------------------------------------------------------------
(* gdox_xemu_helper_run and what reads its result. *)

\* The session directory, the pipes or the helper cannot be made, or the
\* helper runs with the only writing ends.
HelperSpawned ==
  /\ mig.at = "helper" /\ mig.child = "none"
  /\ \/ Refuse
     \/ mig' = [mig EXCEPT !.child = "runs", !.open = TRUE]
  /\ UNCHANGED <<disk, rejected>>

\* A round of the loop finds that the helper ended; its pipes are read on.
HelperReaped ==
  /\ mig.child = "ended"
  /\ mig' = [mig EXCEPT !.child = "reaped"]
  /\ UNCHANGED <<disk, rejected>>

\* A pipe cannot be read, the helper not be waited for, or the deadline
\* passes before it was reaped and its output closed: its group is killed.
HelperKilled ==
  /\ mig.child \in {"runs", "ended"} \/ (mig.child = "reaped" /\ mig.open)
  /\ Refuse /\ UNCHANGED <<disk, rejected>>

\* The loop ends.  The directory cannot be removed, or there is no result
\* that can be read; a result that says no; or a report of some generation.
HelperReports ==
  /\ mig.child = "reaped" /\ ~mig.open
  /\ \/ Refuse
     \/ mig' = [mig EXCEPT !.at = "rejected", !.child = "none"]
     \/ \E r \in {q \in Reports : Consistent(q)}, g \in Generations :
          mig' = [mig EXCEPT !.at = "validate", !.child = "none", !.report = r, !.proof = g]
  /\ UNCHANGED <<disk, rejected>>

\* rejected_migration_source_remains.
SourceRemains ==
  \/ disk.legacy = mig.bytes
  \/ disk.legacy = "none" /\ disk.pending = mig.bytes

\* gdox_emulator_validate_save_vault, whose helper answers for what is there.
Validated == disk.vault \in Generations

\* From here on this process hands no disk to the helper.
Settle == /\ Grant("rejected") /\ rejected' = TRUE
          /\ disk' = [disk EXCEPT !.kept = mig.bytes]

\* A slip: the vault is not validated when the helper said no.
RejectedUnproved ==
  /\ mig.at = "rejected"
  /\ \/ Refuse /\ UNCHANGED <<disk, rejected>>
     \/ SourceRemains /\ Settle

Rejected ==
  /\ mig.at = "rejected"
  /\ \/ Refuse /\ UNCHANGED <<disk, rejected>>
     \/ SourceRemains /\ (disk.vault = "none" \/ Validated) /\ Settle

\* gdox_xemu_save_vault_proof_equal.
Validate ==
  /\ mig.at = "validate"
  /\ \/ Refuse
     \/ Validated /\ disk.vault = mig.proof /\ Go("remains")
  /\ UNCHANGED <<disk, rejected>>

\* A slip: the quarantine is not looked for after a removal.
AgreesBlind(r) == r.removed = (disk.legacy = "none")

\* What is left of the source: the disk, or its quarantine.
Agrees(r) == /\ ~(r.removed /\ disk.pending # "none")
             /\ r.removed = (disk.legacy = "none")

Remains ==
  /\ mig.at = "remains"
  /\ \/ Refuse
     \/ Agrees(mig.report) /\ Grant("checked")
  /\ UNCHANGED <<disk, rejected>>

-----------------------------------------------------------------------------
(* What happens to the files meanwhile, and between two launches. *)

\* The user replaces or removes the old disk; not between the last look at it
\* and the start, which no property speaks of.
DiskChanges ==
  /\ mig.at # "granted"
  /\ \E b \in Sizes \cup {"none"} :
       b # disk.legacy /\ disk' = [disk EXCEPT !.legacy = b, !.kept = "none"]
  /\ UNCHANGED <<mig, rejected>>

\* Power is lost during a migration.
PowerLost ==
  /\ mig.at # "idle"
  /\ mig' = NoMigration /\ rejected' = FALSE /\ disk' = [disk EXCEPT !.kept = "none"]

\* xemu writes its saves when it ends; the vault keeps a whole generation.
Checkpoint ==
  /\ \E g \in Generations : disk' = [disk EXCEPT !.vault = g]
  /\ UNCHANGED <<mig, rejected>>

Saves == \/ Prepare \/ Look \/ Helper \/ HeirEnds
         \/ HelperSpawned \/ HelperReaped \/ HelperKilled \/ HelperReports
         \/ Rejected \/ Validate \/ Remains
SavesWorld == DiskChanges \/ PowerLost
SavesInit == /\ disk \in [legacy : Sizes \cup {"none"}, pending : {"none"}, vault : {"none"},
                          kept : {"none"}]
             /\ mig = NoMigration /\ rejected = FALSE

SavesTypeOK == disk \in Disks /\ mig \in Migrations /\ rejected \in BOOLEAN

-----------------------------------------------------------------------------
RefusedIsKept ==
  rejected => /\ disk.vault # "torn"
              /\ disk.kept # "none" => \/ disk.legacy = disk.kept
                                       \/ disk.legacy = "none" /\ disk.pending = disk.kept

\* A migration that is granted leaves nothing of the old disk after a removal,
\* and the disk in its place otherwise.  From the launch after which a refused
\* migration was let pass to the end of the process, the vault is never torn
\* and the disk that was measured is still there, or in the quarantine, for as
\* long as the user leaves it alone (src/app/xemu_save_storage.c): nothing the
\* program does in later launches takes it away.  It is NOT said that those
\* launches look: runtime_xemu.c:60 returns before any check, so a disk the
\* user has replaced or removed since is started over, where docs/SAFETY.md
\* (96-99) has a changed source fail closed.
OldSavesAreAccountedFor ==
  /\ SavesTypeOK
  /\ RefusedIsKept
  /\ mig.at = "granted" =>
    CASE mig.verdict = "nothing" -> disk.legacy = "none" /\ disk.pending = "none"
      [] mig.verdict = "checked" ->
           /\ disk.vault = mig.proof
           /\ IF mig.report.removed THEN disk.legacy = "none" /\ disk.pending = "none"
                                    ELSE disk.legacy # "none"
      [] OTHER -> rejected
=============================================================================
