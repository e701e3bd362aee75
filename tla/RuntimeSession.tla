--------------------------- MODULE RuntimeSession ---------------------------
(***************************************************************************)
(* The runtime worker: one thread that owns the media session, the        *)
(* emulator and the drive, against a disc that can be swapped, a drive    *)
(* that can be unplugged, an emulator that can exit and an export that can*)
(* fail between any two of its steps (src/app/runtime.c and               *)
(* runtime_{actions,session,physical,playback,media}.c).                  *)
(*                                                                        *)
(* The worker's program counter stands at every point where such a change *)
(* can be told apart from one a step earlier or later: each blocking call *)
(* (stop, close, open, start, eject) is one step.  Timers that only skip  *)
(* a look are left out: a look may come as late as it likes.              *)
(***************************************************************************)
EXTENDS PlaybackOwner, OpticalMonitor, PhysicalMediaMonitor

CONSTANT MaxReplacements   \* bound: disc changes during one live session

ASSUME BoundAssumption == /\ MaxReplacements \in Nat \ {0}
                          /\ Generations = 0 .. MaxReplacements

VARIABLES
  pc,        \* where the worker is in its cycle
  task,      \* the action, or session end, it is carrying out
  ending,    \* gdox_runtime_session_end_physical: reason and eject verdict
  play,      \* playback owner, process, Xenia storage
  media,     \* runtime->media
  source,    \* snapshot.media_source, and whether an image path is kept
  physical,  \* loop->physical
  monitor,   \* loop->optical_monitor
  hold,      \* runtime->preservation_hold
  stopping,  \* runtime->stopping
  disc,      \* the outside world: drive, disc and media tracker
  fault,     \* the export recorded a runtime error
  history    \* how the last physical session was left, and whose eject

worker == <<pc, task, ending>>
session == <<play, media, source>>
watching == <<physical, monitor, hold>>
world == <<disc, fault>>
vars == <<worker, session, watching, stopping, world, history>>

-----------------------------------------------------------------------------
Requests == {"none", "start", "restart", "stop", "eject", "preserve",
             "apply_display", "open_image", "use_physical"}

Tasks == {"none", "start_emulator", "restart_emulator", "stop_emulator",
          "apply_display", "eject", "eject_idle", "preserve", "open_image",
          "reopen_image", "use_physical", "live", "end"}

Points == {"begin", "cleanup", "restore", "request", "stop", "check_eject",
           "close", "complete_eject", "eject", "preserve", "open_image",
           "start", "media", "poll", "watch", "open_live", "stop_for_good",
           "close_storage", "close_for_good", "finished"}

Reasons  == {"none", "eject_request", "changed", "disconnected", "session_fault"}
Verdicts == {"unchecked", "current", "stale"}
Cleanups == {"none", "rearm", "require_retry", "eject"}

NotEnding == [reason |-> "none", verdict |-> "unchecked"]
FreshPhysical == [watch |-> FreshWatch, ejectGeneration |-> NoGeneration,
                  cleanup |-> "none"]

\* left: how the last physical session ended; asked: the disc whose eject
\* button ended it; verified: that disc was still in at the last check.
Histories == [left     : {"never", "event", "request", "manual"},
              asked    : Generations \cup {NoGeneration},
              verified : BOOLEAN]

TypeOK ==
  /\ pc \in Points
  /\ task \in Tasks
  /\ ending \in [reason : Reasons, verdict : Verdicts]
  /\ play \in Plays
  /\ media \in Medias
  /\ source \in {"physical", "image", "closed_image"}
  /\ physical \in [watch : Watches,
                   ejectGeneration : Generations \cup {NoGeneration},
                   cleanup : Cleanups]
  /\ monitor \in Monitors
  /\ hold \in BOOLEAN
  /\ stopping \in BOOLEAN
  /\ disc \in [present : BOOLEAN, generation : Generations,
               pressed : BOOLEAN, connected : BOOLEAN]
  /\ fault \in BOOLEAN
  /\ history \in Histories

Init ==
  /\ pc = "begin" /\ task = "none" /\ ending = NotEnding
  /\ play = NothingPlays /\ media = NoMedia /\ source = "physical"
  /\ physical = FreshPhysical /\ monitor = Initialized /\ hold = FALSE
  /\ stopping = FALSE
  /\ disc \in [present : BOOLEAN, generation : {0}, pressed : {FALSE},
               connected : BOOLEAN]
  /\ fault = FALSE
  /\ history = [left |-> "never", asked |-> NoGeneration, verified |-> FALSE]

IsRunning == Running(play)
IsOwned   == Owned(media)

Goto(point) == pc' = point /\ UNCHANGED <<task, ending>>
EndCycle    == pc' = "begin" /\ task' = "none" /\ ending' = NotEnding

\* Leaving a live session, for the history.
Leaves(how) ==
  history' = IF media.open /\ ~media'.open /\ source = "physical"
               THEN [history EXCEPT !.left = how] ELSE history

\* A check of the eject request against the disc that is in, for the history.
Verifies == history' = [history EXCEPT !.verified =
              /\ disc.present /\ disc.pressed
              /\ disc.generation = history.asked]

\* gdox_runtime_physical_reset: nothing of the last session is watched on.
ResetWatch ==
  /\ physical' = FreshPhysical
  /\ history' = [history EXCEPT !.asked = NoGeneration, !.verified = FALSE]

-----------------------------------------------------------------------------
(* The outside world.  The media tracker of the owned source counts disc   *)
(* changes from the opening of the session on; a change withdraws an eject *)
(* request that is pending in it.                                          *)

LivePhysical == media.exported /\ source = "physical"

ChangeDisc(present) ==
  IF LivePhysical
    THEN /\ disc.generation < MaxReplacements
         /\ disc' = [disc EXCEPT !.present = present, !.pressed = FALSE,
                                 !.generation = @ + 1]
    ELSE disc' = [disc EXCEPT !.present = present]

RemoveDisc  == disc.present /\ ChangeDisc(FALSE)
InsertDisc  == ~disc.present /\ ChangeDisc(TRUE)
ReplaceDisc == disc.present /\ LivePhysical /\ ChangeDisc(TRUE)
PressEject  == /\ LivePhysical /\ disc.present /\ ~disc.pressed
               /\ disc' = [disc EXCEPT !.pressed = TRUE]
PlugDrive   == disc' = [disc EXCEPT !.connected = ~@]

ChildExits  == play.alive /\ play' = [play EXCEPT !.alive = FALSE]
ExportFails == LivePhysical /\ ~fault /\ fault' = TRUE
StopRuntime == ~stopping /\ stopping' = TRUE

World ==
  \/ /\ RemoveDisc \/ InsertDisc \/ ReplaceDisc \/ PressEject \/ PlugDrive
     /\ UNCHANGED <<worker, session, watching, stopping, fault, history>>
  \/ /\ ChildExits
     /\ UNCHANGED <<worker, media, source, watching, stopping, world, history>>
  \/ /\ ExportFails
     /\ UNCHANGED <<worker, session, watching, stopping, disc, history>>
  \/ /\ StopRuntime
     /\ UNCHANGED <<worker, session, watching, world, history>>

\* One look at the disc through the export; a probe can stay unanswered.
Looks == {[event |-> IF disc.pressed THEN "eject_request" ELSE "none",
           readiness |-> r, generation |-> disc.generation] :
            r \in {"unknown", IF disc.present THEN "present" ELSE "absent"}}

IsCurrent(look) == LivePhysical /\ EjectRequestMatches(look, physical.ejectGeneration)

\* The tracker and the error record of an export go with the export.
WorldFollowsExport ==
  /\ disc' = IF media'.exported THEN disc
                                ELSE [disc EXCEPT !.pressed = FALSE, !.generation = 0]
  /\ fault' = (fault /\ media'.exported)

-----------------------------------------------------------------------------
(* run_runtime_cycle: stop check, then cleanup of a session that is no     *)
(* longer open but still owned.                                            *)

\* Bug variant: the worker does not look at stopping.
BeginCycleUnstoppably ==
  /\ pc = "begin"
  /\ Goto("cleanup")
  /\ UNCHANGED <<session, watching, stopping, world, history>>

BeginCycle ==
  /\ pc = "begin"
  /\ Goto(IF stopping THEN "stop_for_good" ELSE "cleanup")
  /\ UNCHANGED <<session, watching, stopping, world, history>>

\* Bug variant: what a failed open retained is not restored.
SkipUnlessOwed ==
  /\ pc = "cleanup"
  /\ media.open \/ physical.cleanup = "none"
  /\ Goto("request")
  /\ UNCHANGED <<session, watching, stopping, world, history>>

SkipCleanup ==
  /\ pc = "cleanup"
  /\ media.open \/ ~IsOwned
  /\ Goto("request")
  /\ UNCHANGED <<session, watching, stopping, world, history>>

\* gdox_runtime_physical_validate_cleanup: an eject that is still to be
\* completed needs its request to be pending in the disc that is in now.
ValidateCleanup ==
  /\ pc = "cleanup"
  /\ ~media.open /\ IsOwned
  /\ \E look \in Looks :
       physical' = IF physical.cleanup = "eject" /\ ~IsCurrent(look)
                     THEN [physical EXCEPT !.cleanup = "rearm"]
                     ELSE physical
  /\ Verifies
  /\ Goto("restore")
  /\ UNCHANGED <<session, monitor, hold, stopping, world>>

\* Bug variant: an owed rearm is forgotten.
MonitorUnarmedAfterCleanup ==
  IF physical.cleanup = "require_retry" THEN Failed(monitor, "terminal") ELSE monitor

\* gdox_runtime_physical_cleanup_completed
MonitorAfterCleanup == CASE physical.cleanup = "rearm"         -> SessionEnded
                         [] physical.cleanup = "require_retry" -> Failed(monitor, "terminal")
                         [] OTHER                              -> monitor

\* Bug variant: a cleanup that failed is forgotten.
CleanupForgotten(completed) == FreshPhysical

AfterCleanup(completed) == IF completed THEN FreshPhysical ELSE physical

CloseRetained ==
  /\ pc = "restore"
  /\ \E o \in CloseOutcomes(media) :
       /\ media' = o.media
       /\ IF o.ok /\ physical.cleanup = "eject"
            THEN Goto("complete_eject") /\ UNCHANGED <<physical, monitor>>
            ELSE /\ EndCycle
                 /\ physical' = AfterCleanup(o.ok)
                 /\ monitor'  = IF o.ok THEN MonitorAfterCleanup ELSE monitor
  /\ WorldFollowsExport
  /\ UNCHANGED <<play, source, hold, stopping, history>>

-----------------------------------------------------------------------------
(* Requests (runtime_actions.c).  The queue is abstracted to its head: any *)
(* request can be next (RuntimeRequests.tla keeps the queue itself).       *)

PlanStart == CASE media.open  -> IF IsRunning THEN "none" ELSE "start_emulator"
               [] ~media.open -> CASE source = "physical"     -> "discover"
                                   [] source = "image"        -> "reopen_image"
                                   [] source = "closed_image" -> "none"

PlanRequest(request) ==
  CASE request = "start" -> PlanStart
    [] request = "restart" /\ media.open        -> "restart_emulator"
    [] request = "stop" /\ IsRunning            -> "stop_emulator"
    [] request = "eject" /\ source = "physical" -> IF IsOwned \/ hold THEN "eject" ELSE "eject_idle"
    [] request = "preserve" /\ source = "physical" /\ media.open -> "preserve"
    [] request = "apply_display" /\ media.open /\ IsRunning -> "apply_display"
    [] request \in {"open_image", "use_physical"} -> request
    [] OTHER -> "none"

FirstPoint(action) == CASE action = "start_emulator" -> "start"
                        [] action = "reopen_image"   -> "open_image"
                        [] OTHER                     -> "stop"

TakeRequest ==
  /\ pc = "request"
  /\ ~stopping
  /\ \E request \in Requests :
       LET action == PlanRequest(request)
       IN  IF action \in {"none", "discover"}
             THEN /\ pc' = "media" /\ UNCHANGED <<task, ending>>
                  /\ monitor' = IF action = "discover" THEN Retried ELSE monitor
                  /\ hold' = (hold /\ action = "none")
             ELSE /\ pc' = FirstPoint(action) /\ task' = action /\ UNCHANGED ending
                  /\ hold' = (hold /\ action \notin {"use_physical", "open_image",
                                                     "eject", "eject_idle"})
                  /\ UNCHANGED monitor
  /\ UNCHANGED <<session, physical, stopping, world, history>>

StopBeforeRequest ==
  /\ pc = "request"
  /\ stopping
  /\ EndCycle
  /\ UNCHANGED <<session, watching, stopping, world, history>>

\* An action that ends the cycle, and one that goes on to look at the media.
EndTask   == IF task \in {"start_emulator", "restart_emulator", "stop_emulator",
                          "apply_display", "eject_idle"}
               THEN pc' = "media" /\ task' = "none" /\ UNCHANGED ending
               ELSE EndCycle
MonitorAfterFailure == IF task \in {"eject", "eject_idle"} THEN SessionEnded ELSE monitor

StopPlayback ==
  /\ pc = "stop"
  /\ \E o \in StopOutcomes(play) :
       /\ play' = o.play
       /\ CASE task = "end" -> Goto("check_eject") /\ UNCHANGED monitor
            [] task # "end" /\ ~o.ok -> EndTask /\ monitor' = MonitorAfterFailure
            [] task \in {"restart_emulator", "apply_display"} /\ o.ok ->
                 Goto("start") /\ UNCHANGED monitor
            [] task = "stop_emulator" /\ o.ok -> EndTask /\ UNCHANGED monitor
            [] OTHER -> Goto("close") /\ UNCHANGED monitor
  /\ UNCHANGED <<media, source, physical, hold, stopping, world, history>>

\* gdox_runtime_session_close, when something is owned.
Closings == IF IsOwned THEN CloseOutcomes(media) ELSE {[media |-> media, ok |-> TRUE]}

CloseForTask ==
  /\ pc = "close"
  /\ task # "end"
  /\ \E o \in Closings :
       /\ media' = o.media
       /\ CASE ~o.ok -> EndTask /\ monitor' = MonitorAfterFailure
            [] o.ok /\ task = "use_physical" -> EndCycle /\ monitor' = Retried
            [] o.ok /\ task \in {"eject", "eject_idle"} -> Goto("eject") /\ UNCHANGED monitor
            [] o.ok /\ task \in {"open_image", "preserve"} -> Goto(task) /\ UNCHANGED monitor
       /\ source' = IF o.ok /\ task = "use_physical" THEN "physical"
                    ELSE IF o.ok /\ IsOwned /\ source = "image" THEN "closed_image"
                    ELSE source
  /\ Leaves("request")
  /\ WorldFollowsExport
  /\ UNCHANGED <<play, physical, hold, stopping>>

\* gdox_optical_eject_device: discovery is armed again either way.
EjectDrive ==
  /\ pc = "eject"
  /\ disc' \in {disc, [disc EXCEPT !.present = FALSE]}
  /\ monitor' = SessionEnded
  /\ EndTask
  /\ UNCHANGED <<session, physical, hold, stopping, fault, history>>

\* gdox_runtime_run_preservation reads the disc through a source of its own
\* and retains that source when it cannot close it.
PreserveDisc ==
  /\ pc = "preserve"
  /\ \/ hold' = TRUE /\ UNCHANGED media
     \/ media' \in {NoMedia, [NoMedia EXCEPT !.retained = TRUE]} /\ UNCHANGED hold
  /\ EndCycle
  /\ UNCHANGED <<play, source, physical, monitor, stopping, world, history>>

OpenImage ==
  /\ pc = "open_image"
  /\ source' = "image"
  /\ \/ media' \in ImageSessions /\ (Goto("start") \/ EndCycle)
     \/ media' \in ImageLeftovers /\ EndCycle
  /\ UNCHANGED <<play, watching, stopping, world, history>>

StartPlayback ==
  /\ pc = "start"
  /\ \E o \in StartOutcomes(play, media) : play' = o.play /\ media' = o.media
  /\ EndTask
  /\ UNCHANGED <<source, watching, stopping, world, history>>

-----------------------------------------------------------------------------
(* run_idle_cycle: discovery (MediaDiscovery.tla checks it with the real   *)
(* thresholds and every presence).                                         *)

IdleWithoutDiscovery ==
  /\ pc = "media"
  /\ ~media.open
  /\ source # "physical" \/ hold
  /\ ResetWatch
  /\ EndCycle
  /\ UNCHANGED <<session, monitor, hold, stopping, world>>

Presence == IF disc.present THEN "disc" ELSE "empty"

ObserveAvailableMedia ==
  /\ pc = "media"
  /\ ~media.open
  /\ source = "physical" /\ ~hold
  /\ ResetWatch
  /\ IF ~disc.connected
       THEN monitor' = ObservationFailed(monitor) /\ EndCycle
       ELSE /\ monitor' = Observed(monitor, Presence)
            /\ IF Attempts(monitor, Presence)
                 THEN pc' = "open_live" /\ task' = "live" /\ UNCHANGED ending
                 ELSE EndCycle
  /\ UNCHANGED <<session, hold, stopping, world>>

\* gdox_runtime_session_prepare_live: a fresh source drains queued events.
PrepareLive ==
  /\ pc = "open_live"
  /\ \/ /\ media' \in PhysicalSessions
        /\ disc.present
        /\ disc' = [disc EXCEPT !.pressed = FALSE, !.generation = 0]
        /\ fault' = FALSE
        /\ history' = [history EXCEPT !.left = "never"]
        /\ Goto("start") \/ EndCycle
        /\ UNCHANGED monitor
     \/ /\ media' \in PhysicalLeftovers
        /\ \E failure \in {"transient", "terminal"} : monitor' = Failed(monitor, failure)
        /\ EndCycle
        /\ UNCHANGED <<disc, fault, history>>
  /\ UNCHANGED <<play, source, physical, hold, stopping>>

-----------------------------------------------------------------------------
(* run_active_cycle: poll playback, then the disc and the drive.           *)

EnterActive ==
  /\ pc = "media"
  /\ media.open
  /\ Goto("poll")
  /\ UNCHANGED <<session, watching, stopping, world, history>>

PollPlayback ==
  /\ pc = "poll"
  /\ play' \in IF IsRunning THEN PollOutcomes(play) ELSE {play}
  /\ Goto("watch")
  /\ UNCHANGED <<media, source, watching, stopping, world, history>>

WatchImage ==
  /\ pc = "watch"
  /\ source # "physical"
  /\ ResetWatch
  /\ EndCycle
  /\ UNCHANGED <<session, monitor, hold, stopping, world>>

EndSession(reason) == /\ pc' = "stop" /\ task' = "end"
                      /\ ending' = [NotEnding EXCEPT !.reason = reason]

RetryReason == CASE physical.cleanup = "eject"         -> "eject_request"
                 [] physical.cleanup = "require_retry" -> "session_fault"
                 [] OTHER                              -> "changed"

RetryEnding ==
  /\ pc = "watch"
  /\ source = "physical"
  /\ physical.cleanup # "none"
  /\ EndSession(RetryReason)
  /\ UNCHANGED <<session, watching, stopping, world, history>>

\* observe_media and observe_connection; each can be not due, or unanswered.
WatchesAfter(w) ==
  LET looked == {WatchObserved(w, look) : look \in Looks}
                  \cup (IF fault THEN {} ELSE {w})
  IN  looked \cup {WatchConnection(l, disc.connected) : l \in looked}

PollPhysical ==
  /\ pc = "watch"
  /\ source = "physical"
  /\ physical.cleanup = "none"
  /\ \E w \in WatchesAfter(IF fault THEN Faulted(physical.watch) ELSE physical.watch) :
       /\ physical' = [physical EXCEPT !.watch = w,
                         !.ejectGeneration = IF w.event = "eject_request"
                                               THEN disc.generation ELSE @]
       /\ history' = [history EXCEPT !.asked = physical'.ejectGeneration]
       /\ IF w.event = "none" THEN EndCycle ELSE EndSession(w.event)
  /\ UNCHANGED <<session, monitor, hold, stopping, world>>

-----------------------------------------------------------------------------
(* gdox_runtime_session_end_physical and finish_watch.                     *)

CheckEject ==
  /\ pc = "check_eject"
  /\ IF ending.reason = "eject_request" /\ ~IsRunning /\ media.exported
       THEN /\ \E look \in Looks :
                 ending' = [ending EXCEPT !.verdict = IF IsCurrent(look) THEN "current" ELSE "stale"]
            /\ Verifies
       ELSE UNCHANGED <<ending, history>>
  /\ pc' = "close" /\ UNCHANGED task
  /\ UNCHANGED <<session, watching, stopping, world>>

\* A stale eject request ends the session like a change of the disc.
EffectiveReason == IF ending.verdict = "stale" THEN "changed" ELSE ending.reason

MonitorAfterEnd(pending) ==
  CASE pending \/ EffectiveReason = "eject_request" -> Blocked
    [] ~pending /\ EffectiveReason = "session_fault" -> Failed(monitor, "terminal")
    [] OTHER -> SessionEnded

CleanupFor(reason) == CASE reason = "session_fault" -> "require_retry"
                        [] reason = "eject_request" -> "eject"
                        [] OTHER                    -> "rearm"

\* Bug variant: a close under the emulator.
ClosingsUnderPlayback == {o.media : o \in Closings}

\* The media is closed only once the emulator is gone, on every attempt.
ClosingsAfterStop == IF IsRunning THEN {media} ELSE {o.media : o \in Closings}

CloseForEnd ==
  /\ pc = "close"
  /\ task = "end"
  /\ media' \in ClosingsAfterStop
  /\ monitor' = MonitorAfterEnd(Owned(media'))
  /\ CASE Owned(media') ->
            /\ EndCycle
            /\ physical' = [physical EXCEPT !.cleanup = CleanupFor(ending.reason)]
       [] ~Owned(media') /\ ending.verdict = "current" ->
            pc' = "complete_eject" /\ UNCHANGED <<task, ending, physical>>
       [] OTHER -> EndCycle /\ physical' = FreshPhysical
  /\ Leaves("event")
  /\ WorldFollowsExport
  /\ UNCHANGED <<play, source, hold, stopping>>

\* complete_eject_request: the tray opens, the drive only releases the disc
\* for a manual eject, or the command fails.
CompleteEject ==
  /\ pc = "complete_eject"
  /\ \/ disc' = [disc EXCEPT !.present = FALSE] /\ monitor' = EjectCompleted("tray_ejected")
        /\ UNCHANGED history
     \/ monitor' = EjectCompleted("manual") /\ history' = [history EXCEPT !.left = "manual"] /\ UNCHANGED disc
     \/ monitor' = SessionEnded /\ UNCHANGED <<disc, history>>
  /\ physical' = FreshPhysical
  /\ EndCycle
  /\ UNCHANGED <<session, hold, stopping, fault>>

-----------------------------------------------------------------------------
(* gdox_runtime_cleanup, repeated by the worker until it succeeds.         *)

StopForGood ==
  /\ pc = "stop_for_good"
  /\ \E o \in StopOutcomes(play) : play' = o.play
  /\ Goto(IF Running(play') THEN "stop_for_good" ELSE "close_storage")
  /\ UNCHANGED <<media, source, watching, stopping, world, history>>

CloseStorage ==
  /\ pc = "close_storage"
  /\ \E active \in {FALSE, play.storage} :
       /\ play' = [play EXCEPT !.storage = active]
       /\ Goto(IF active THEN "stop_for_good" ELSE "close_for_good")
  /\ UNCHANGED <<media, source, watching, stopping, world, history>>

CloseForGood ==
  /\ pc = "close_for_good"
  /\ media' \in {o.media : o \in Closings}
  /\ Goto(IF Owned(media') THEN "stop_for_good" ELSE "finished")
  /\ WorldFollowsExport
  /\ UNCHANGED <<play, source, watching, stopping, history>>

-----------------------------------------------------------------------------
Cycle == BeginCycle \/ SkipCleanup \/ ValidateCleanup \/ CloseRetained
Request == \/ TakeRequest \/ StopBeforeRequest \/ StopPlayback \/ CloseForTask
           \/ EjectDrive \/ PreserveDisc \/ OpenImage \/ StartPlayback
Idle == IdleWithoutDiscovery \/ ObserveAvailableMedia \/ PrepareLive
Active == \/ EnterActive \/ PollPlayback \/ WatchImage \/ RetryEnding
          \/ PollPhysical \/ CheckEject \/ CloseForEnd \/ CompleteEject
Shutdown == StopForGood \/ CloseStorage \/ CloseForGood

Worker == Cycle \/ Request \/ Idle \/ Active \/ Shutdown

Next == Worker \/ World

Spec == Init /\ [][Next]_vars

\* The worker is a thread that never waits on another: it repeats its cycle
\* every 100 ms and, once stopping, gdox_runtime_cleanup every second.  A
\* teardown that is retried for ever succeeds in the end.
Quits(stop) == stop /\ ~Running(play')

LiveSpec ==
  /\ Spec
  /\ WF_vars(Worker)
  /\ SF_vars(Quits(StopPlayback) /\ task = "end")
  /\ SF_vars(Quits(StopPlayback) /\ task \in {"eject", "preserve", "open_image", "use_physical"})
  /\ SF_vars(CloseRetained /\ ~Owned(media'))
  /\ SF_vars(Quits(StopForGood))
  /\ SF_vars(CloseStorage /\ ~play'.storage)
  /\ SF_vars(CloseForGood /\ ~Owned(media'))

-----------------------------------------------------------------------------
(* Safety. *)

\* No teardown beneath an emulator: while a process is owned, the session
\* it reads from is open and still holds its disc.
PlaybackKeepsMedia ==
  Running(play) => media.open /\ (media.exported \/ media.validated)

\* The tag and the union agree: no untagged process, no owner without one,
\* and an owned Xenia has its session storage.
OwnerMatchesProcess ==
  /\ play.owner # "none" <=> Running(play)
  /\ play.alive => Running(play)
  /\ Running(play) => play.owner = media.backend
  /\ play.owner = "xenia" => play.storage

\* An open session has one source to launch from: its disc is exported or
\* validated, never both and never neither, and a physical one is exported.
OneLaunchSource ==
  media.open => /\ media.exported # media.validated
                /\ source = "physical" => media.exported

\* Emulator, session and disc always belong together: none is lost sight of
\* and none is taken away beneath another.
OwnershipIsSound == PlaybackKeepsMedia /\ OwnerMatchesProcess /\ OneLaunchSource

\* A session is opened, a disc preserved and a tray opened only once the
\* last session released all it owned and no emulator is left.
DriveIsReleased ==
  pc \in {"open_live", "open_image", "preserve", "eject", "complete_eject"}
    => ~Running(play) /\ ~Owned(media)

\* A session is opened with a watch that carries nothing over from the last
\* one, so a new export at the address of the old one is not mistaken for it.
WatchStartsFresh == pc = "open_live" => physical = FreshPhysical

\* The tray is opened for an eject request only when the last check before
\* the release of the drive found that very request still pending in the
\* disc it was made for, however often the teardown was retried since.
EjectIsForRequestedDisc ==
  pc = "complete_eject" => history.asked # NoGeneration /\ history.verified

\* A teardown that still owes a rearm, a retry or an eject keeps owing it
\* until the physical session owns nothing.
OwedCleanupIsKept ==
  [][physical.cleanup # "none" /\ physical'.cleanup = "none"
       => ~(Owned(media') /\ source' = "physical")]_vars

\* Between sessions the worker waits for a disc, or for the user.
AtRest == /\ pc = "begin" /\ source = "physical" /\ ~hold /\ ~Owned(media)
\* A session that an event of the disc or the drive ended leaves discovery
\* armed, or latched in a failure the user is told of.
EventEndsRearm ==
  AtRest /\ history.left = "event" => monitor.permitted \/ monitor.required

\* The worker ends only when the drive, the emulator and the session
\* storage are all released.
ShutdownReleasesAll ==
  pc = "finished" => ~Running(play) /\ ~play.storage /\ ~Owned(media)

\* A boundary is passed only with everything of the last session put away:
\* before a disc is opened, copied or ejected, and before the worker ends.
BoundariesAreClean == DriveIsReleased /\ WatchStartsFresh /\ ShutdownReleasesAll

-----------------------------------------------------------------------------
(* Liveness. *)

\* A runtime that is told to stop stops.
StopFinishes == stopping ~> pc = "finished"

\* A session that an event condemned, and what the failed close of any session
\* retains, is let go of in the end, whatever the user asks for in between and
\* however often the emulator cannot be stopped or the drive not be restored.
CondemnedIsReleased ==
  (physical.watch.event # "none" /\ source = "physical") \/ (IsOwned /\ ~media.open)
    ~> ~IsOwned
=============================================================================
