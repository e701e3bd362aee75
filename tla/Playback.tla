------------------------------ MODULE Playback ------------------------------
(***************************************************************************)
(* The runtime's worker between two media: the saved games are prepared    *)
(* before xemu is started, and one emulator at a time is started, polled   *)
(* and stopped (src/app/runtime_playback.c).                               *)
(***************************************************************************)
EXTENDS EmulatorProcess, XemuSaves

\* gdox_runtime_playback_start: the saves come first, and xemu only.
PrepareSaves == Idle /\ owner = "none" /\ Saves /\ UNCHANGED vars
StartXemuOn  == /\ mig.at = "granted"
                /\ Start /\ owner' = "xemu"
                /\ Refuse /\ UNCHANGED <<disk, rejected>>
StartOther   == /\ mig.at = "idle"
                /\ Start /\ owner' # "xemu"
                /\ UNCHANGED saveVars
Work  == mig.at = "idle" /\ Calls /\ UNCHANGED saveVars
Happens == World /\ UNCHANGED saveVars

\* An xemu that ends may have written its saves.
XemuSaved == owner = "xemu" /\ world.leader = "runs" /\ Checkpoint /\ UNCHANGED vars
FilesChange == Idle /\ owner = "none" /\ SavesWorld /\ UNCHANGED vars

PlaybackInit == Init /\ SavesInit
PlaybackNext == \/ PrepareSaves \/ StartXemuOn \/ StartOther \/ Work
                \/ Happens \/ XemuSaved \/ FilesChange
PlaybackSpec == PlaybackInit /\ [][PlaybackNext]_<<vars, saveVars>>
=============================================================================
