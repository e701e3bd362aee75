--------------------------- MODULE PlaybackCalls ---------------------------
(***************************************************************************)
(* What the runtime relies on of the emulator processes: the calls of     *)
(* PlaybackOwner, each as one step (src/app/runtime_playback.c).  The      *)
(* runtime's own model is written against these outcomes; EmulatorProcess *)
(* shows that the three kinds of process have no others.                  *)
(***************************************************************************)
EXTENDS PlaybackOwner

VARIABLE play

Init == play = NothingPlays

Start == \E m \in PhysicalSessions \cup ImageSessions : \E o \in StartOutcomes(play, m) : play' = o.play
Stop  == \E o \in StopOutcomes(play) : play' = o.play
Poll  == /\ play.owner # "none"
         /\ play' \in PollOutcomes(play)

\* gdox_runtime_xenia_cleanup.
Cleanup == ~play.handle /\ play' = [play EXCEPT !.storage = FALSE]
Exit    == play.alive /\ play' = [play EXCEPT !.alive = FALSE]

Next == Start \/ Stop \/ Poll \/ Cleanup \/ Exit
Spec == Init /\ [][Next]_play
=============================================================================
