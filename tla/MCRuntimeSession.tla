-------------------------- MODULE MCRuntimeSession --------------------------
(***************************************************************************)
(* RuntimeSession with what lies above and below its worker: the ring its  *)
(* requests come from (RequestRing) and the emulators it starts (Playback),*)
(* for TLC.  A behaviour is one of a single part; the others stand at an   *)
(* initial state and stay there.                                           *)
(***************************************************************************)
EXTENDS RuntimeSession

CONSTANTS Capacity, Paths, WaitPolls, ClosePolls, Sizes, Vaults

VARIABLES
  part,   \* "worker", "ring" or "playback"
  entries, head, count, taken,
  owner, storage, handle, op, process, ghost, disk, mig, rejected

ring == <<entries, head, count, taken>>
playback == <<owner, storage, handle, op, process, ghost, disk, mig, rejected>>

Ring == INSTANCE RequestRing
Emulators == INSTANCE Playback WITH Generations <- Vaults, world <- process

ASSUME RingIsSized == Ring!RingAssumption
ASSUME PollsAreBounded == Emulators!PollsAssumption
ASSUME SavesAreNamed == Emulators!SavesAssumption

WorkerAtRest == Init /\ ~disc.present /\ ~disc.connected
PlaybackAtRest == Emulators!PlaybackInit /\ ~process.windows /\ disk.legacy = "none"

RuntimeInit == \/ part = "worker" /\ Init /\ Ring!Init /\ PlaybackAtRest
               \/ part = "ring" /\ WorkerAtRest /\ Ring!Init /\ PlaybackAtRest
               \/ part = "playback" /\ WorkerAtRest /\ Ring!Init /\ Emulators!PlaybackInit

RuntimeNext ==
  \/ part = "worker" /\ Next /\ UNCHANGED <<part, ring, playback>>
  \/ part = "ring" /\ Ring!Next /\ UNCHANGED <<part, vars, playback>>
  \/ part = "playback" /\ Emulators!PlaybackNext /\ UNCHANGED <<part, vars, ring>>

RuntimeSpec == RuntimeInit /\ [][RuntimeNext]_<<part, vars, ring, playback>>

-----------------------------------------------------------------------------
(* The properties of RequestRing and of Playback. *)

\* The ring keeps the promise of the queue whatever its head has wrapped to.
KeepsTheQueue == Ring!KeepsTheQueue

\* The emulators do what RuntimeSession takes them to do.
KeepsThePromise == Emulators!KeepsThePromise

\* No process and no mount is left behind when none is owned.
NothingOutlives == Emulators!NothingOutlives

\* No mount is taken from a process that reads through it.
ReadersAreSpared == Emulators!ReadersAreSpared

\* What a migration was granted for, or was let pass without, is still there
\* (XemuSaves says what is not checked again on a later launch).
OldSavesAreAccountedFor == Emulators!OldSavesAreAccountedFor
=============================================================================
