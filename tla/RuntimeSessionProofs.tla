------------------------ MODULE RuntimeSessionProofs ------------------------
(***************************************************************************)
(* RuntimeSession, for every threshold, every set of backends and any      *)
(* number of disc changes: the operators of its two monitors stay within   *)
(* their types; who owns the emulator and the disc at each place of the    *)
(* cycle; and the identity of an eject request, which disc the tray is     *)
(* opened for, whatever is retried in between.  Then what MCRuntimeSession *)
(* puts around the worker: the ring keeps its queue at any capacity, old   *)
(* saves are accounted for, and the emulator processes keep what the       *)
(* worker relies on, for every number of polls.                            *)
(***************************************************************************)
EXTENDS MCRuntimeSession, Integers, SequenceTheorems, TLAPS

-----------------------------------------------------------------------------
(* The monitors: no counter passes its limit.                              *)

\* A saturating counter does not pass its limit.
LEMMA SaturatedIsBounded ==
  ASSUME NEW limit \in Nat, NEW n \in 0 .. limit
  PROVE  Saturated(n, limit) \in 0 .. limit
  BY DEF Saturated

\* Zero and the limit of every counter are in its range.
LEMMA CountersStartAtZero ==
  /\ 0 \in 0 .. StableObservations /\ StableObservations \in 0 .. StableObservations
  /\ 0 \in 0 .. RearmObservations
  /\ 0 \in 0 .. TransientRetryLimit
  /\ 0 \in 0 .. AbsentConfirmations /\ AbsentConfirmations \in 0 .. AbsentConfirmations
  /\ 0 \in 0 .. DisconnectConfirmations
  /\ DisconnectConfirmations \in 0 .. DisconnectConfirmations
  /\ 0 \in 0 .. FaultConfirmations
  BY MonitorAssumption, WatchAssumption

\* A monitor that was just initialized is typed.
LEMMA InitializedMonitor == Initialized \in Monitors
  BY MonitorAssumption DEF Initialized, Monitors

\* A blocked monitor is typed.
LEMMA BlockedMonitor == Blocked \in Monitors
  BY InitializedMonitor DEF Blocked, Monitors

\* A monitor is typed after a session end and after either eject.
LEMMA EndedMonitor ==
  /\ SessionEnded \in Monitors
  /\ \A completion : EjectCompleted(completion) \in Monitors
  BY InitializedMonitor, BlockedMonitor DEF SessionEnded, EjectCompleted

\* A monitor is typed after a command to try again.
LEMMA RetriedMonitor == Retried \in Monitors
  BY InitializedMonitor, MonitorAssumption DEF Retried, Monitors

\* A failed preparation or observation keeps the monitor typed.
LEMMA FailedMonitor ==
  ASSUME NEW m \in Monitors, NEW failure
  PROVE  Failed(m, failure) \in Monitors /\ ObservationFailed(m) \in Monitors
  BY MonitorAssumption DEF Failed, ObservationFailed, Monitors

\* A look at the drive keeps the monitor typed, whatever it reports.
LEMMA ObservedMonitor ==
  ASSUME NEW m \in Monitors, NEW presence
  PROVE  Observed(m, presence) \in Monitors
  <1>1. Saturated(m.rearm, RearmObservations) \in 0 .. RearmObservations
    BY SaturatedIsBounded, MonitorAssumption DEF Monitors
  <1>2. Dwelled(m) \in 0 .. StableObservations
    BY SaturatedIsBounded, MonitorAssumption DEF Monitors, Dwelled
  <1>3. ObservedEmpty(m) \in Monitors
    <2> DEFINE rearm == Saturated(m.rearm, RearmObservations)
    <2>1. [Initialized EXCEPT !.rearm = rearm] \in Monitors
      BY <1>1, InitializedMonitor DEF Monitors
    <2>2. [m EXCEPT !.stable = 0, !.rearm = rearm] \in Monitors
      BY <1>1, CountersStartAtZero DEF Monitors
    <2> QED BY <2>1, <2>2 DEF ObservedEmpty
  <1>4. \A permitted \in BOOLEAN :
          [m EXCEPT !.rearm = 0, !.stable = Dwelled(m), !.permitted = permitted] \in Monitors
    BY <1>2, CountersStartAtZero DEF Monitors
  <1>5. (m.permitted /\ ~Attempts(m, presence)) \in BOOLEAN
    OBVIOUS
  <1>6. [m EXCEPT !.rearm = 0, !.stable = Dwelled(m),
                  !.permitted = m.permitted /\ ~Attempts(m, presence)] \in Monitors
    BY <1>4, <1>5
  <1> QED BY <1>3, <1>6 DEF Observed

-----------------------------------------------------------------------------
\* A fresh watch is typed.
LEMMA FreshWatchIsTyped == FreshWatch \in Watches
  BY WatchAssumption DEF FreshWatch, Watches, WatchEvents

\* A session fault keeps the watch typed.
LEMMA FaultedWatch ==
  ASSUME NEW w \in Watches
  PROVE  Faulted(w) \in Watches
  BY DEF Faulted, Watches

\* A counter that reaches its confirmations latches an event, so a watch
\* without an event has all its counters below their limits.
Unlatched(w) == /\ w.event = "none"
                /\ w.absent < AbsentConfirmations
                /\ w.disconnected < DisconnectConfirmations
                /\ w.faults < FaultConfirmations

LatchIsExact(w) == w.event # "none" \/ Unlatched(w)

\* A look at the disc keeps the watch typed and its latch exact.
LEMMA ObservedWatch ==
  ASSUME NEW w \in Watches, LatchIsExact(w), NEW o \in Observations
  PROVE  WatchObserved(w, o) \in Watches /\ LatchIsExact(WatchObserved(w, o))
  <1> DEFINE b == BasedOn(w, o)
             c == CountedFault(b)
  <1>1. CASE w.event # "none"
    BY <1>1 DEF WatchObserved
  <1>2. CASE w.event = "none"
    <2>1. Unlatched(w)
      BY <1>2 DEF LatchIsExact
    <2>2. \A e \in WatchEvents \ {"none"} : Latched(w, e) \in Watches /\ LatchIsExact(Latched(w, e))
      BY DEF Latched, Watches, LatchIsExact
    <2>3. b \in Watches /\ Unlatched(b) /\ b.faults = w.faults /\ b.sessionFault = w.sessionFault
      BY <2>1 DEF BasedOn, Watches, Observations, Unlatched
    <2>4. \A e \in WatchEvents \ {"none"} : Latched(b, e) \in Watches /\ LatchIsExact(Latched(b, e))
      BY <2>3 DEF Latched, Watches, LatchIsExact
    <2>5. CASE ~FaultConfirmed(w, o)
      <3>0. ~w.sessionFault \/ w.faults + 1 < FaultConfirmations
        BY <2>5, WatchAssumption DEF FaultConfirmed, Watches
      <3>1. c \in Watches /\ Unlatched(c)
        BY <3>0, <2>3, WatchAssumption DEF CountedFault, Watches, Unlatched
      <3>2. CountedPresence(c, o) \in Watches /\ LatchIsExact(CountedPresence(c, o))
        <4>1. CASE o.readiness = "present"
          <5>1. [c EXCEPT !.absent = 0] \in Watches /\ Unlatched([c EXCEPT !.absent = 0])
            BY <3>1, WatchAssumption DEF Watches, Unlatched
          <5> QED BY <4>1, <5>1 DEF CountedPresence, LatchIsExact
        <4>2. CASE o.readiness = "absent" /\ c.absent + 1 >= AbsentConfirmations
          <5>1. [c EXCEPT !.absent = AbsentConfirmations, !.event = "changed"] \in Watches
            BY <3>1, CountersStartAtZero DEF Watches, WatchEvents
          <5>2. [c EXCEPT !.absent = AbsentConfirmations, !.event = "changed"].event # "none"
            BY <3>1 DEF Watches
          <5> QED BY <4>2, <5>1, <5>2 DEF CountedPresence, LatchIsExact
        <4>3. CASE o.readiness = "absent" /\ ~(c.absent + 1 >= AbsentConfirmations)
          <5>1. [c EXCEPT !.absent = @ + 1] \in Watches /\ Unlatched([c EXCEPT !.absent = @ + 1])
            BY <3>1, <4>3, WatchAssumption DEF Watches, Unlatched
          <5> QED BY <4>3, <5>1 DEF CountedPresence, LatchIsExact
        <4>4. CASE o.readiness \notin {"present", "absent"}
          BY <3>1, <4>4 DEF CountedPresence, LatchIsExact
        <4> QED BY <4>1, <4>2, <4>3, <4>4
      <3> QED BY <1>2, <2>2, <2>5, <3>2 DEF WatchObserved, WatchEvents
    <2>6. CASE FaultConfirmed(w, o)
      BY <1>2, <2>2, <2>4, <2>6 DEF WatchObserved, WatchEvents
    <2> QED BY <2>5, <2>6
  <1> QED BY <1>1, <1>2 DEF Watches

\* A check of the drive keeps the watch typed and its latch exact.
LEMMA ConnectedWatch ==
  ASSUME NEW w \in Watches, LatchIsExact(w), NEW connected \in BOOLEAN
  PROVE  WatchConnection(w, connected) \in Watches /\ LatchIsExact(WatchConnection(w, connected))
  <1>1. CASE w.event # "none"
    BY <1>1 DEF WatchConnection
  <1>2. CASE w.event = "none" /\ connected
    <2>1. [w EXCEPT !.disconnected = 0] \in Watches /\ Unlatched([w EXCEPT !.disconnected = 0])
      BY <1>2, WatchAssumption DEF Watches, Unlatched, LatchIsExact
    <2> QED BY <1>2, <2>1 DEF WatchConnection, LatchIsExact
  <1>3. CASE w.event = "none" /\ ~connected
    <2>1. CASE w.disconnected + 1 < DisconnectConfirmations
      <3>1. /\ [w EXCEPT !.disconnected = @ + 1] \in Watches
            /\ Unlatched([w EXCEPT !.disconnected = @ + 1])
        BY <1>3, <2>1, WatchAssumption DEF Watches, Unlatched, LatchIsExact
      <3> QED BY <1>3, <2>1, <3>1 DEF WatchConnection, LatchIsExact
    <2>2. CASE ~(w.disconnected + 1 < DisconnectConfirmations)
      <3> DEFINE l == [w EXCEPT !.disconnected = DisconnectConfirmations,
                                !.event = "disconnected"]
      <3>1. l \in Watches /\ l.event # "none"
        BY CountersStartAtZero DEF Watches, WatchEvents
      <3>2. WatchConnection(w, connected) = l
        BY <1>3, <2>2 DEF WatchConnection
      <3> QED BY <3>1, <3>2 DEF LatchIsExact
    <2> QED BY <2>1, <2>2
  <1> QED BY <1>1, <1>2, <1>3

-----------------------------------------------------------------------------
(* Ownership of the emulator and of the disc.                              *)

\* The part of the state that ownership is about.
OwnershipTyped ==
  /\ pc \in Points
  /\ task \in Tasks
  /\ play \in Plays
  /\ media \in Medias
  /\ source \in {"physical", "image", "closed_image"}

\* Where a cycle can be, given what the session owns.
OpenPoints     == {"poll", "watch", "check_eject", "start"}
ReleasedPoints == {"open_live", "open_image", "preserve", "eject", "complete_eject"}
StoppedPoints  == {"close_storage", "close_for_good", "finished"}
PlayTasks      == {"restart_emulator", "stop_emulator", "apply_display", "end"}
CloseTasks     == {"eject", "eject_idle", "preserve", "open_image", "use_physical"}

PointsMatch ==
  /\ pc \in OpenPoints => media.open
  /\ pc = "restore" => ~media.open
  /\ pc \in {"request", "media"} => media.open \/ ~Owned(media)
  /\ pc \in {"stop", "close"} /\ task \in PlayTasks => media.open
  /\ pc \in {"stop", "close", "eject"} /\ task = "eject_idle" => ~Owned(media)
  /\ pc = "close" /\ task # "end" => ~Running(play)
  /\ pc \in ReleasedPoints => ~Running(play) /\ ~Owned(media)
  /\ pc \in StoppedPoints => ~Running(play)
  /\ pc \in {"close_for_good", "finished"} => ~play.storage
  /\ pc = "finished" => ~Owned(media)
  /\ pc = "stop" => task \in PlayTasks \cup CloseTasks
  /\ pc = "close" => task \in CloseTasks \cup {"end"}
  /\ pc = "check_eject" => task = "end"
  /\ pc = "eject" => task \in {"eject", "eject_idle"}

IInv == /\ OwnershipTyped
        /\ PointsMatch
        /\ OneLaunchSource
        /\ PlaybackKeepsMedia
        /\ OwnerMatchesProcess

-----------------------------------------------------------------------------
(* What the outcomes of the blocking calls have in common. *)

\* A runtime with no media, or only a retained source, is typed and not open.
LEMMA NothingIsClosed ==
  /\ NoMedia \in Medias /\ ~NoMedia.open
  /\ [NoMedia EXCEPT !.retained = TRUE] \in Medias
  /\ ~[NoMedia EXCEPT !.retained = TRUE].open
  <1>1. NoMedia \in Medias /\ ~NoMedia.open
    BY DEF NoMedia, Medias
  <1> QED BY <1>1 DEF Medias

\* Whatever a close leaves, the session is not open, and a successful close
\* leaves nothing.
LEMMA ClosedOutcome ==
  ASSUME NEW m \in Medias, NEW o \in CloseOutcomes(m)
  PROVE  /\ o.media \in Medias
         /\ ~o.media.open
         /\ o.ok => ~Owned(o.media)
  <1>1. o.media \in Leftovers(m)
    BY DEF CloseOutcomes
  <1>2. o.ok => ~Owned(o.media)
    BY Zenon DEF CloseOutcomes
  <1>3. o.media \in Medias /\ ~o.media.open
    <2>1. PICK kept \in Owners(m) : o.media = Remaining(m, kept)
      BY <1>1 DEF Leftovers
    <2>2. Remaining(m, kept) \in Medias /\ ~Remaining(m, kept).open
      BY DEF Remaining, Owners, NoMedia, Medias
    <2> QED BY <2>1, <2>2
  <1> QED BY <1>2, <1>3

\* The owner, its handle and its child agree.
OwnerIsSound(p) == /\ p.owner # "none" <=> p.handle
                   /\ p.alive => p.handle
                   /\ p.owner = "xenia" => p.storage

\* A stop that succeeds leaves no process, and one that fails changes no
\* owner.
LEMMA StoppedOutcome ==
  ASSUME NEW p \in Plays, OwnerIsSound(p), NEW o \in StopOutcomes(p)
  PROVE  /\ o.play \in Plays
         /\ OwnerIsSound(o.play)
         /\ o.play.handle => p.handle /\ o.play.owner = p.owner
         /\ o.ok => ~o.play.handle
  <1>1. CASE p.owner = "none"
    <2>1. o = [play |-> p, ok |-> ~Running(p)]
      BY <1>1 DEF StopOutcomes
    <2>2. o.play = p /\ (o.ok => ~p.handle)
      BY <2>1 DEF Running
    <2> QED BY <2>2
  <1>2. CASE p.owner # "none" /\ o \in Kept(p)
    <2>1. (o.play = p \/ o.play = [p EXCEPT !.alive = FALSE]) /\ ~o.ok
      BY <1>2 DEF Kept
    <2> QED BY <2>1 DEF Plays, OwnerIsSound
  <1>3. CASE p.owner # "none" /\ o \in Stopped(p)
    <2>1. PICK s \in BOOLEAN : o.play = Released(p, s)
      BY <1>3 DEF Stopped, StorageLeft, Plays
    <2> QED BY <2>1 DEF Released, NothingPlays, Plays, OwnerIsSound
  <1> QED BY <1>1, <1>2, <1>3 DEF StopOutcomes

\* A poll only ever releases the process it finds, and keeps it sound.
LEMMA PolledOutcome ==
  ASSUME NEW p \in Plays, OwnerIsSound(p), NEW q \in PollOutcomes(p)
  PROVE  /\ q \in Plays
         /\ OwnerIsSound(q)
         /\ q.handle => p.handle /\ q.owner = p.owner
  <1>1. q = p \/ \E s \in BOOLEAN : q = Released(p, s)
    BY DEF PollOutcomes, StorageLeft, Plays
  <1> QED BY <1>1 DEF Released, NothingPlays, Plays, OwnerIsSound

\* The export takes a disc over without losing it.
LEMMA TargetOutcome ==
  ASSUME NEW m \in Medias, m.open, m.exported # m.validated, NEW t \in XeniaTargets(m)
  PROVE  /\ t.media \in Medias
         /\ t.media.open
         /\ t.media.exported # t.media.validated
         /\ m.exported => t.media = m
         /\ t.media.backend = m.backend
  <1>1. t.media = m \/ t.media = ExportedForXenia(m)
    BY DEF XeniaTargets
  <1> QED BY <1>1 DEF ExportedForXenia, Medias

\* A start leaves the session open with its disc, and what it leaves running
\* is the emulator of that session.
LEMMA LaunchedOutcome ==
  ASSUME NEW p \in Plays, NEW m \in Medias, m.backend # "none", NEW alive \in BOOLEAN,
         m.backend = "xenia" \/ p.owner # "xenia"
  PROVE  LET o == Launched(p, m, alive)
         IN  /\ o.play \in Plays
             /\ OwnerIsSound(o.play)
             /\ o.media = m
             /\ o.play.owner = m.backend
  <1>1. Launched(p, m, alive).play = Started(p, m.backend, alive)
    BY DEF Launched
  <1>2. Launched(p, m, alive).media = m
    BY DEF Launched
  <1>3. m.backend \in Backends
    BY DEF Medias
  <1>4. /\ Started(p, m.backend, alive) \in Plays
        /\ Started(p, m.backend, alive).owner = m.backend
        /\ Started(p, m.backend, alive).handle
        /\ m.backend = "xenia" => Started(p, m.backend, alive).storage
    BY <1>3 DEF Started, Plays
  <1> QED BY <1>1, <1>2, <1>4 DEF OwnerIsSound

\* A start keeps the session open with one source, and what it leaves
\* running belongs to that session.
LEMMA StartedOutcome ==
  ASSUME NEW p \in Plays, OwnerIsSound(p), NEW m \in Medias, m.open,
         m.exported # m.validated, p.handle => p.owner = m.backend,
         NEW o \in StartOutcomes(p, m)
  PROVE  /\ o.play \in Plays
         /\ OwnerIsSound(o.play)
         /\ o.media \in Medias
         /\ o.media.open
         /\ o.media.exported # o.media.validated
         /\ m.exported => o.media = m
         /\ o.play.handle => o.play.owner = o.media.backend
  <1> DEFINE refused == [play |-> p, media |-> m, ok |-> FALSE]
  <1>1. CASE o = refused
    BY <1>1
  <1>2. CASE o # refused
    <2>1. p.owner = "none" /\ ~p.handle
      BY <1>2 DEF StartOutcomes, Running
    <2>2. CASE m.backend = "xemu" /\ o \in StartXemu(p, m)
      <3>1. o = Launched(p, m, TRUE)
        BY <2>2 DEF StartXemu
      <3> QED BY <2>1, <2>2, <3>1, LaunchedOutcome
    <2>3. CASE m.backend = "dolphin" /\ o \in StartDolphin(p, m)
      <3>1. PICK alive \in BOOLEAN : o = Launched(p, m, alive)
        BY <2>3 DEF StartDolphin
      <3> QED BY <2>1, <2>3, <3>1, LaunchedOutcome
    <2>4. CASE m.backend = "xenia" /\ o \in StartXenia(p, m)
      <3>1. PICK t \in XeniaTargets(m) :
              \/ \E alive \in BOOLEAN : o = Launched(p, t.media, alive)
              \/ \E s \in BOOLEAN :
                   o = [play |-> [p EXCEPT !.storage = s], media |-> t.media, ok |-> FALSE]
        BY <2>4 DEF StartXenia
      <3>2. /\ t.media \in Medias /\ t.media.open
            /\ t.media.exported # t.media.validated
            /\ m.exported => t.media = m
            /\ t.media.backend = m.backend
        BY TargetOutcome
      <3>3. CASE \E alive \in BOOLEAN : o = Launched(p, t.media, alive)
        BY <2>1, <2>4, <3>2, <3>3, LaunchedOutcome
      <3>4. CASE \E s \in BOOLEAN :
                   o = [play |-> [p EXCEPT !.storage = s], media |-> t.media, ok |-> FALSE]
        BY <2>1, <3>2, <3>4 DEF Plays, OwnerIsSound
      <3> QED BY <3>1, <3>3, <3>4
    <2> QED BY <1>2, <2>1, <2>2, <2>3, <2>4 DEF StartOutcomes, Running
  <1> QED BY <1>1, <1>2

-----------------------------------------------------------------------------
(* The invariant is inductive. *)

\* The worker starts in IInv.
LEMMA InitOwnership == Init => IInv
  BY DEF Init, IInv, OwnershipTyped, PointsMatch, OneLaunchSource, PlaybackKeepsMedia,
         OwnerMatchesProcess, Points, Tasks, Plays, Medias, NothingPlays, NoMedia,
         Running, Owned, OpenPoints, ReleasedPoints, StoppedPoints

\* What a step of the worker or of the world has to re-establish.
USE DEF Running, Owned

\* No step of the outside world breaks ownership.
LEMMA WorldKeepsOwnership == IInv /\ World => IInv'
  <1> SUFFICES ASSUME IInv, World PROVE IInv'
    OBVIOUS
  <1> USE DEF IInv
  <1>1. CASE ChildExits /\ UNCHANGED <<worker, media, source>>
    BY <1>1 DEF ChildExits, worker, OwnershipTyped, PointsMatch, OneLaunchSource,
                PlaybackKeepsMedia, OwnerMatchesProcess, Plays
  <1>2. CASE UNCHANGED <<worker, session>>
    BY <1>2 DEF worker, session, OwnershipTyped, PointsMatch, OneLaunchSource,
                PlaybackKeepsMedia, OwnerMatchesProcess
  <1> QED BY <1>1, <1>2 DEF World

\* The cleanup half of a cycle keeps ownership.
LEMMA CycleKeepsOwnership == IInv /\ Cycle => IInv'
  <1> SUFFICES ASSUME IInv, Cycle PROVE IInv'
    OBVIOUS
  <1> USE DEF IInv, OwnershipTyped, PointsMatch, OneLaunchSource, PlaybackKeepsMedia,
              OwnerMatchesProcess, OpenPoints, ReleasedPoints, StoppedPoints
  <1>1. CASE BeginCycle
    BY <1>1 DEF BeginCycle, Goto, session, Points
  <1>2. CASE SkipCleanup
    BY <1>2 DEF SkipCleanup, IsOwned, Goto, session, Points
  <1>3. CASE ValidateCleanup
    BY <1>3 DEF ValidateCleanup, IsOwned, Goto, session, Points
  <1>4. CASE CloseRetained
    <2>1. PICK o \in CloseOutcomes(media) :
            /\ media' = o.media
            /\ IF o.ok /\ physical.cleanup = "eject" THEN Goto("complete_eject") ELSE EndCycle
      BY <1>4 DEF CloseRetained, AfterCleanup
    <2>2. /\ media' \in Medias
          /\ ~media'.open
          /\ o.ok => ~Owned(media')
      BY <2>1, ClosedOutcome
    <2>3. ~Running(play) /\ UNCHANGED <<play, source>>
      BY <1>4 DEF CloseRetained, AfterCleanup
    <2> QED BY <2>1, <2>2, <2>3 DEF Goto, EndCycle, Points, Tasks
  <1> QED BY <1>1, <1>2, <1>3, <1>4 DEF Cycle

\* Requests keep ownership.
LEMMA RequestKeepsOwnership == IInv /\ Request => IInv'
  <1> SUFFICES ASSUME IInv, Request PROVE IInv'
    OBVIOUS
  <1> USE DEF IInv, OwnershipTyped, PointsMatch, OneLaunchSource, PlaybackKeepsMedia,
              OwnerMatchesProcess, OpenPoints, ReleasedPoints, StoppedPoints,
              PlayTasks, CloseTasks
  <1>1. CASE TakeRequest
    <2>1. PICK request \in Requests :
            LET action == PlanRequest(request)
            IN  IF action \in {"none", "discover"}
                  THEN pc' = "media" /\ UNCHANGED task
                  ELSE pc' = FirstPoint(action) /\ task' = action
      BY <1>1 DEF TakeRequest
    <2>2. pc = "request" /\ UNCHANGED session
      BY <1>1 DEF TakeRequest
    <2> DEFINE action == PlanRequest(request)
    <2>3. /\ action \in {"none", "discover", "start_emulator", "reopen_image"}
                       \cup (PlayTasks \ {"end"}) \cup CloseTasks
          /\ action = "start_emulator" => media.open
          /\ action \in PlayTasks => media.open
          /\ action = "eject_idle" => ~Owned(media)
          /\ action = "reopen_image" => ~media.open
      BY DEF PlanRequest, PlanStart, Requests, IsOwned, IsRunning
    <2>4. /\ FirstPoint("start_emulator") = "start"
          /\ FirstPoint("reopen_image") = "open_image"
          /\ \A a \in (PlayTasks \ {"end"}) \cup CloseTasks : FirstPoint(a) = "stop"
      BY DEF FirstPoint
    <2> QED BY <2>1, <2>2, <2>3, <2>4 DEF session, Points, Tasks
  <1>2. CASE StopBeforeRequest
    BY <1>2 DEF StopBeforeRequest, EndCycle, session, Points, Tasks
  <1>3. CASE StopPlayback
    <2>1. PICK o \in StopOutcomes(play) :
            /\ play' = o.play
            /\ CASE task = "end" -> Goto("check_eject")
                 [] task # "end" /\ ~o.ok -> EndTask
                 [] task \in {"restart_emulator", "apply_display"} /\ o.ok -> Goto("start")
                 [] task = "stop_emulator" /\ o.ok -> EndTask
                 [] OTHER -> Goto("close")
      BY <1>3 DEF StopPlayback
    <2>2. pc = "stop" /\ UNCHANGED <<media, source>>
      BY <1>3 DEF StopPlayback
    <2>3. OwnerIsSound(play)
      BY DEF OwnerIsSound
    <2>4. /\ play' \in Plays
          /\ OwnerIsSound(play')
          /\ play'.handle => play.handle /\ play'.owner = play.owner
          /\ o.ok => ~play'.handle
      BY <2>1, <2>3, StoppedOutcome
    <2> QED BY <2>1, <2>2, <2>4 DEF OwnerIsSound, Goto, EndTask, EndCycle, Points, Tasks
  <1>4. CASE CloseForTask
    <2>1. PICK o \in Closings :
            /\ media' = o.media
            /\ CASE ~o.ok -> EndTask
                 [] o.ok /\ task = "use_physical" -> EndCycle
                 [] o.ok /\ task \in {"eject", "eject_idle"} -> Goto("eject")
                 [] o.ok /\ task \in {"open_image", "preserve"} -> Goto(task)
      BY <1>4 DEF CloseForTask
    <2>2. pc = "close" /\ task \in CloseTasks /\ UNCHANGED play
      BY <1>4 DEF CloseForTask
    <2>3. source' \in {"physical", "image", "closed_image"}
      BY <1>4 DEF CloseForTask
    <2>4. /\ media' \in Medias
          /\ ~media'.open
          /\ o.ok => ~Owned(media')
          /\ ~Owned(media) => ~Owned(media')
      <3>1. CASE IsOwned
        BY <2>1, <3>1, ClosedOutcome DEF Closings, IsOwned
      <3>2. CASE ~IsOwned
        BY <2>1, <3>2 DEF Closings, IsOwned
      <3> QED BY <3>1, <3>2
    <2> QED BY <2>1, <2>2, <2>3, <2>4 DEF Goto, EndTask, EndCycle, Points, Tasks
  <1>5. CASE EjectDrive
    BY <1>5 DEF EjectDrive, EndTask, EndCycle, session, Points, Tasks
  <1>6. CASE PreserveDisc
    <2>1. ~play.handle /\ ~media.open /\ UNCHANGED <<play, source>> /\ EndCycle
      BY <1>6 DEF PreserveDisc
    <2>2. media' \in Medias /\ ~media'.open
      <3>1. CASE UNCHANGED media
        BY <2>1, <3>1
      <3>2. CASE media' \in {NoMedia, [NoMedia EXCEPT !.retained = TRUE]}
        BY <3>2, NothingIsClosed
      <3> QED BY <1>6, <3>1, <3>2 DEF PreserveDisc
    <2> QED BY <2>1, <2>2 DEF EndCycle, Points, Tasks
  <1>7. CASE OpenImage
    <2>1. pc = "open_image" /\ UNCHANGED play /\ source' = "image"
      BY <1>7 DEF OpenImage
    <2>2. CASE media' \in ImageSessions /\ (Goto("start") \/ EndCycle)
      <3>1. /\ media' \in Medias /\ media'.open
            /\ media'.exported # media'.validated
        BY <2>2 DEF ImageSessions, LiveMedia, NoMedia, Medias
      <3> QED BY <2>1, <2>2, <3>1 DEF Goto, EndCycle, Points, Tasks
    <2>3. CASE media' \in ImageLeftovers /\ EndCycle
      <3>1. media' \in Medias /\ ~media'.open
        BY <2>3 DEF ImageLeftovers, PhysicalLeftovers
      <3> QED BY <2>1, <2>3, <3>1 DEF EndCycle, Points, Tasks
    <2> QED BY <1>7, <2>2, <2>3 DEF OpenImage
  <1>8. CASE StartPlayback
    <2>1. PICK o \in StartOutcomes(play, media) : play' = o.play /\ media' = o.media
      BY <1>8 DEF StartPlayback
    <2>2. /\ pc = "start" /\ UNCHANGED source
          /\ pc' \in {"begin", "media"} /\ task' = "none"
      BY <1>8 DEF StartPlayback, EndTask, EndCycle
    <2>3. /\ play' \in Plays
          /\ OwnerIsSound(play')
          /\ media' \in Medias
          /\ media'.open
          /\ media'.exported # media'.validated
          /\ media.exported => media' = media
          /\ play'.handle => play'.owner = media'.backend
      BY <2>1, <2>2, StartedOutcome DEF OwnerIsSound
    <2>4. source' = "physical" => media'.exported
      BY <2>2, <2>3
    <2>5. OwnershipTyped' /\ PointsMatch'
      BY <2>2, <2>3 DEF Points, Tasks
    <2>6. OneLaunchSource' /\ PlaybackKeepsMedia' /\ OwnerMatchesProcess'
      BY <2>3, <2>4 DEF OwnerIsSound, Medias
    <2> QED BY <2>5, <2>6
  <1> QED BY <1>1, <1>2, <1>3, <1>4, <1>5, <1>6, <1>7, <1>8 DEF Request

\* The idle cycle keeps ownership.
LEMMA IdleKeepsOwnership == IInv /\ Idle => IInv'
  <1> SUFFICES ASSUME IInv, Idle PROVE IInv'
    OBVIOUS
  <1> USE DEF IInv, OwnershipTyped, PointsMatch, OneLaunchSource, PlaybackKeepsMedia,
              OwnerMatchesProcess, OpenPoints, ReleasedPoints, StoppedPoints
  <1>1. CASE IdleWithoutDiscovery
    BY <1>1 DEF IdleWithoutDiscovery, EndCycle, session, Points, Tasks
  <1>2. CASE ObserveAvailableMedia
    BY <1>2 DEF ObserveAvailableMedia, EndCycle, session, Points, Tasks
  <1>3. CASE PrepareLive
    <2>1. ~play.handle /\ ~Owned(media) /\ UNCHANGED <<play, source>>
      BY <1>3 DEF PrepareLive
    <2>2. CASE media' \in PhysicalSessions /\ (Goto("start") \/ EndCycle)
      <3>1. PICK b \in Backends : media' = LiveMedia(b)
        BY <2>2 DEF PhysicalSessions, PlayableLive
      <3>2. /\ media' \in Medias /\ media'.open
            /\ media'.exported /\ ~media'.validated
        BY <3>1 DEF LiveMedia, NoMedia, Medias
      <3> QED BY <2>1, <2>2, <3>2 DEF Goto, EndCycle, Points, Tasks
    <2>3. CASE media' \in PhysicalLeftovers /\ EndCycle
      <3>1. media' \in Medias /\ ~media'.open
        BY <2>3 DEF PhysicalLeftovers
      <3> QED BY <2>1, <2>3, <3>1 DEF EndCycle, Points, Tasks
    <2> QED BY <1>3, <2>2, <2>3 DEF PrepareLive
  <1> QED BY <1>1, <1>2, <1>3 DEF Idle

\* The active cycle keeps ownership.
LEMMA ActiveKeepsOwnership == IInv /\ Active => IInv'
  <1> SUFFICES ASSUME IInv, Active PROVE IInv'
    OBVIOUS
  <1> USE DEF IInv, OwnershipTyped, PointsMatch, OneLaunchSource, PlaybackKeepsMedia,
              OwnerMatchesProcess, OpenPoints, ReleasedPoints, StoppedPoints, PlayTasks
  <1>1. CASE EnterActive
    BY <1>1 DEF EnterActive, Goto, session, Points
  <1>2. CASE PollPlayback
    <2>1. play' \in PollOutcomes(play) \/ play' = play
      BY <1>2 DEF PollPlayback, IsRunning
    <2>2. pc = "poll" /\ Goto("watch") /\ UNCHANGED <<media, source>>
      BY <1>2 DEF PollPlayback
    <2>3. /\ play' \in Plays
          /\ OwnerIsSound(play')
          /\ play'.handle => play.handle /\ play'.owner = play.owner
      BY <2>1, PolledOutcome DEF OwnerIsSound
    <2> QED BY <2>2, <2>3 DEF OwnerIsSound, Goto, Points
  <1>3. CASE WatchImage
    BY <1>3 DEF WatchImage, EndCycle, session, Points, Tasks
  <1>4. CASE RetryEnding
    BY <1>4 DEF RetryEnding, EndSession, session, Points, Tasks
  <1>5. CASE PollPhysical
    <2>1. pc = "watch" /\ UNCHANGED session
      BY <1>5 DEF PollPhysical
    <2>2. \/ pc' = "begin" /\ task' = "none"
          \/ pc' = "stop" /\ task' = "end"
      BY <1>5 DEF PollPhysical, EndCycle, EndSession
    <2> QED BY <2>1, <2>2 DEF session, Points, Tasks
  <1>6. CASE CheckEject
    BY <1>6 DEF CheckEject, session, Points
  <1>7. CASE CloseForEnd
    <2>1. pc = "close" /\ task = "end" /\ media.open /\ UNCHANGED <<play, source>>
      BY <1>7 DEF CloseForEnd, ClosingsAfterStop
    <2>2. \/ IsRunning /\ media' = media
          \/ ~IsRunning /\ \E o \in CloseOutcomes(media) : media' = o.media
      BY <1>7, <2>1 DEF CloseForEnd, ClosingsAfterStop, Closings, IsOwned
    <2>3. /\ media' \in Medias
          /\ play.handle => media' = media
          /\ ~play.handle => ~media'.open
      BY <2>2, ClosedOutcome DEF IsRunning
    <2>4. \/ EndCycle
          \/ ~Owned(media') /\ pc' = "complete_eject" /\ UNCHANGED task
      BY <1>7 DEF CloseForEnd, ClosingsAfterStop
    <2> QED BY <2>1, <2>3, <2>4 DEF EndCycle, Points, Tasks
  <1>8. CASE CompleteEject
    BY <1>8 DEF CompleteEject, EndCycle, session, Points, Tasks
  <1> QED BY <1>1, <1>2, <1>3, <1>4, <1>5, <1>6, <1>7, <1>8 DEF Active

\* The shutdown keeps ownership.
LEMMA ShutdownKeepsOwnership == IInv /\ Shutdown => IInv'
  <1> SUFFICES ASSUME IInv, Shutdown PROVE IInv'
    OBVIOUS
  <1> USE DEF IInv, OwnershipTyped, PointsMatch, OneLaunchSource, PlaybackKeepsMedia,
              OwnerMatchesProcess, OpenPoints, ReleasedPoints, StoppedPoints
  <1>1. CASE StopForGood
    <2>1. PICK o \in StopOutcomes(play) : play' = o.play
      BY <1>1 DEF StopForGood
    <2>2. pc = "stop_for_good" /\ UNCHANGED <<media, source, task>>
      BY <1>1 DEF StopForGood, Goto
    <2>3. pc' = IF play'.handle THEN "stop_for_good" ELSE "close_storage"
      BY <1>1 DEF StopForGood, Goto
    <2>4. /\ play' \in Plays
          /\ OwnerIsSound(play')
          /\ play'.handle => play.handle /\ play'.owner = play.owner
      BY <2>1, StoppedOutcome DEF OwnerIsSound
    <2> QED BY <2>2, <2>3, <2>4 DEF OwnerIsSound, Points
  <1>2. CASE CloseStorage
    <2>1. PICK active \in BOOLEAN :
            /\ play' = [play EXCEPT !.storage = active]
            /\ Goto(IF active THEN "stop_for_good" ELSE "close_for_good")
      BY <1>2 DEF CloseStorage, Plays
    <2>2. pc = "close_storage" /\ UNCHANGED <<media, source, task>>
      BY <1>2 DEF CloseStorage, Goto
    <2>3. pc' = IF active THEN "stop_for_good" ELSE "close_for_good"
      BY <2>1 DEF Goto
    <2> QED BY <2>1, <2>2, <2>3 DEF Plays, Points
  <1>3. CASE CloseForGood
    <2>1. pc = "close_for_good" /\ UNCHANGED <<play, source, task>>
      BY <1>3 DEF CloseForGood, Goto
    <2>2. pc' = IF Owned(media') THEN "stop_for_good" ELSE "finished"
      BY <1>3 DEF CloseForGood, Goto
    <2>3. media' \in Medias /\ (media'.open => media' = media)
      BY <1>3, ClosedOutcome DEF CloseForGood, Closings, IsOwned
    <2> QED BY <2>1, <2>2, <2>3 DEF Points
  <1> QED BY <1>1, <1>2, <1>3 DEF Shutdown

\* The inductive invariant of ownership holds of every behaviour.
THEOREM Ownership == Spec => []IInv
  <1>1. IInv /\ [Next]_vars => IInv'
    <2> SUFFICES ASSUME IInv, [Next]_vars PROVE IInv'
      OBVIOUS
    <2>1. CASE UNCHANGED vars
      BY <2>1 DEF vars, worker, session, IInv, OwnershipTyped, PointsMatch,
                  OneLaunchSource, PlaybackKeepsMedia, OwnerMatchesProcess
    <2> QED BY <2>1, WorldKeepsOwnership, CycleKeepsOwnership, RequestKeepsOwnership,
               IdleKeepsOwnership, ActiveKeepsOwnership, ShutdownKeepsOwnership
            DEF Next, Worker
  <1> QED BY InitOwnership, <1>1, PTL DEF Spec

\* No teardown beneath an emulator.
THEOREM MediaOutlivesPlayback == Spec => []PlaybackKeepsMedia
  BY Ownership, PTL DEF IInv

\* The owner tag and the process never disagree.
THEOREM OwnerIsTagged == Spec => []OwnerMatchesProcess
  BY Ownership, PTL DEF IInv

\* A session always has exactly one source to launch from.
THEOREM LaunchSourceIsUnique == Spec => []OneLaunchSource
  BY Ownership, PTL DEF IInv

\* Emulator, session and disc belong together.
THEOREM OwnershipHolds == Spec => []OwnershipIsSound
  <1>1. IInv => OwnershipIsSound
    BY DEF IInv, OwnershipIsSound
  <1> QED BY Ownership, <1>1, PTL

\* The drive is opened, preserved from and ejected only when it is released.
THEOREM DriveIsReleasedFirst == Spec => []DriveIsReleased
  <1>1. IInv => DriveIsReleased
    BY DEF IInv, PointsMatch, ReleasedPoints, DriveIsReleased
  <1> QED BY Ownership, <1>1, PTL

\* The worker finishes with nothing owned.
THEOREM ShutdownIsComplete == Spec => []ShutdownReleasesAll
  <1>1. IInv => ShutdownReleasesAll
    BY DEF IInv, PointsMatch, StoppedPoints, ShutdownReleasesAll
  <1> QED BY Ownership, <1>1, PTL

-----------------------------------------------------------------------------
(* The identity of an eject request.                                       *)

Physicals == [watch : Watches, ejectGeneration : Generations \cup {NoGeneration},
              cleanup : Cleanups]
Discs     == [present : BOOLEAN, generation : Generations,
              pressed : BOOLEAN, connected : BOOLEAN]
Endings   == [reason : Reasons, verdict : Verdicts]

\* TypeOK without the part OwnershipTyped already has.
WatchingTyped ==
  /\ ending \in Endings
  /\ physical \in Physicals /\ LatchIsExact(physical.watch)
  /\ monitor \in Monitors
  /\ hold \in BOOLEAN
  /\ stopping \in BOOLEAN
  /\ disc \in Discs
  /\ fault \in BOOLEAN
  /\ history \in Histories

\* The disc the tray may be opened for is known and was still in when checked.
Confirmed == history.asked # NoGeneration /\ history.verified

\* From the event to the opened tray the request keeps its disc: an ending is
\* pending only while the worker ends a session, the generation it kept is the
\* one that was asked for, and what passed a check stays confirmed.
EjectIdentity ==
  /\ task # "end" => ending = NotEnding
  /\ task = "end" => pc \in {"stop", "check_eject", "close", "complete_eject"}
  /\ physical.cleanup = "eject" \/ ending.reason = "eject_request"
       => history.asked = physical.ejectGeneration
  /\ ending.verdict = "current" => Confirmed
  /\ pc = "restore" /\ physical.cleanup = "eject" => Confirmed
  /\ pc = "complete_eject" => Confirmed
  /\ pc = "open_live" => physical = FreshPhysical

JInv == IInv /\ WatchingTyped /\ EjectIdentity

-----------------------------------------------------------------------------
\* The physical state of a new session is typed.
LEMMA FreshPhysicalIsTyped ==
  FreshPhysical \in Physicals /\ LatchIsExact(FreshPhysical.watch)
  <1>1. LatchIsExact(FreshWatch)
    BY WatchAssumption DEF FreshWatch, LatchIsExact, Unlatched
  <1> QED BY <1>1, FreshWatchIsTyped DEF FreshPhysical, Physicals, Cleanups

\* A source starts counting at a generation it can report.
LEMMA ZeroIsAGeneration == 0 \in Generations
  BY BoundAssumption

\* Removing a disc and releasing its export keep the disc typed.
LEMMA ReleasedDisc ==
  ASSUME NEW d \in Discs
  PROVE  /\ [d EXCEPT !.present = FALSE] \in Discs
         /\ [d EXCEPT !.pressed = FALSE, !.generation = 0] \in Discs
  BY ZeroIsAGeneration DEF Discs

\* A look is an observation of the disc that is in.
LEMMA LookIsObserved ==
  ASSUME WatchingTyped, NEW look \in Looks
  PROVE  look \in Observations /\ look.generation = disc.generation
  BY DEF WatchingTyped, Discs, Looks, Observations, MediaEvents, Readiness

\* A look that finds the request current confirms it.
LEMMA CurrentIsConfirmed ==
  ASSUME WatchingTyped, NEW look \in Looks, IsCurrent(look),
         history.asked = physical.ejectGeneration, Verifies
  PROVE  Confirmed'
  <1>1. /\ look.event = "eject_request" /\ look.readiness = "present"
        /\ look.generation = physical.ejectGeneration
    BY DEF IsCurrent, EjectRequestMatches
  <1>2. disc.pressed /\ disc.present /\ disc.generation = physical.ejectGeneration
    BY <1>1 DEF Looks
  <1>3. history' = [history EXCEPT !.verified = TRUE]
    BY <1>2 DEF Verifies
  <1>4. history.asked \in Generations
    BY <1>2 DEF WatchingTyped, Discs
  <1> QED BY <1>3, <1>4, WatchAssumption DEF WatchingTyped, Histories, Confirmed

\* The worker starts in JInv.
LEMMA InitEject == Init => JInv
  <1> SUFFICES ASSUME Init PROVE JInv
    OBVIOUS
  <1>1. IInv
    BY InitOwnership
  <1>2. WatchingTyped
    <2>1. disc \in Discs
      BY ZeroIsAGeneration DEF Init, Discs
    <2> QED BY <2>1, FreshPhysicalIsTyped, InitializedMonitor
            DEF Init, WatchingTyped, Endings, NotEnding, Reasons, Verdicts, Histories
  <1>3. EjectIdentity
    BY DEF Init, EjectIdentity, FreshPhysical, NotEnding
  <1> QED BY <1>1, <1>2, <1>3 DEF JInv

-----------------------------------------------------------------------------
(* Steps that leave the watching part of the state alone. *)

\* A step that leaves the watching state alone, and enters no point that
\* promises a confirmed disc, keeps WatchingTyped and EjectIdentity.
LEMMA UntouchedIsKept ==
  ASSUME JInv, UNCHANGED <<physical, history, monitor, hold, stopping, world>>,
         \/ UNCHANGED worker
         \/ task # "end" /\ task' # "end" /\ (ending' = ending \/ ending' = NotEnding)
              /\ pc' \notin {"restore", "complete_eject", "open_live"}
         \/ UNCHANGED <<task, ending>>
              /\ pc' \in {"check_eject", "close"}
  PROVE  WatchingTyped' /\ EjectIdentity'
  <1> USE DEF JInv
  <1>1. WatchingTyped'
    BY DEF WatchingTyped, worker, world, Endings, NotEnding, Reasons, Verdicts, LatchIsExact, Unlatched
  <1>2. EjectIdentity'
    BY DEF EjectIdentity, worker, world, Confirmed, NotEnding
  <1> QED BY <1>1, <1>2

\* Whatever the outside world does to the drive keeps it typed.
LEMMA DiscMoves ==
  ASSUME disc \in Discs, RemoveDisc \/ InsertDisc \/ ReplaceDisc \/ PressEject \/ PlugDrive
  PROVE  disc' \in Discs
  <1>1. ASSUME NEW present \in BOOLEAN, ChangeDisc(present) PROVE disc' \in Discs
    <2>1. CASE LivePhysical
      <3>1. disc.generation + 1 \in Generations
        BY <1>1, <2>1, BoundAssumption DEF ChangeDisc, Discs
      <3> QED BY <1>1, <2>1, <3>1 DEF ChangeDisc, Discs
    <2>2. CASE ~LivePhysical
      BY <1>1, <2>2 DEF ChangeDisc, Discs
    <2> QED BY <2>1, <2>2
  <1>2. CASE RemoveDisc \/ InsertDisc \/ ReplaceDisc
    BY <1>1, <1>2 DEF RemoveDisc, InsertDisc, ReplaceDisc
  <1>3. CASE PressEject \/ PlugDrive
    BY <1>3 DEF PressEject, PlugDrive, Discs
  <1> QED BY <1>2, <1>3

\* No step of the outside world breaks the identity of an eject request.
LEMMA WorldKeepsEject == JInv /\ World => WatchingTyped' /\ EjectIdentity'
  <1> SUFFICES ASSUME JInv, World PROVE WatchingTyped' /\ EjectIdentity'
    OBVIOUS
  <1>1. UNCHANGED <<worker, physical, monitor, hold, history>>
    BY DEF World, watching
  <1>2. disc' \in Discs /\ fault' \in BOOLEAN /\ stopping' \in BOOLEAN
    BY DiscMoves DEF World, world, JInv, WatchingTyped, ChildExits, ExportFails, StopRuntime
  <1> QED BY <1>1, <1>2 DEF JInv, WatchingTyped, EjectIdentity, worker, Confirmed,
                            LatchIsExact, Unlatched

\* The tracker of an export that is released stays typed.
LEMMA FollowedWorld ==
  ASSUME WatchingTyped, WorldFollowsExport
  PROVE  disc' \in Discs /\ fault' \in BOOLEAN
  BY ReleasedDisc DEF WatchingTyped, WorldFollowsExport

\* Recording how a session was left keeps whose eject is recorded.
LEMMA LeftHistory ==
  ASSUME WatchingTyped, NEW how \in {"event", "request"}, Leaves(how)
  PROVE  history' \in Histories /\ history'.asked = history.asked
         /\ history'.verified = history.verified
  BY DEF WatchingTyped, Leaves, Histories

\* Forgetting a watch keeps the history typed.
LEMMA ForgottenHistory ==
  ASSUME WatchingTyped, ResetWatch
  PROVE  history' \in Histories
  BY DEF WatchingTyped, ResetWatch, Histories

\* A check of the request keeps the history typed and the asked disc.
LEMMA VerifiedHistory ==
  ASSUME WatchingTyped, Verifies
  PROVE  history' \in Histories /\ history'.asked = history.asked
  <1>1. \A v \in BOOLEAN : /\ [history EXCEPT !.verified = v] \in Histories
                            /\ [history EXCEPT !.verified = v].asked = history.asked
    BY DEF WatchingTyped, Histories
  <1>2. (disc.present /\ disc.pressed /\ disc.generation = history.asked) \in BOOLEAN
    OBVIOUS
  <1> QED BY <1>1, <1>2 DEF Verifies

\* The cleanup half of a cycle keeps the identity of an eject request.
LEMMA CycleKeepsEject == JInv /\ Cycle => WatchingTyped' /\ EjectIdentity'
  <1> SUFFICES ASSUME JInv, Cycle PROVE WatchingTyped' /\ EjectIdentity'
    OBVIOUS
  <1>0. WatchingTyped /\ EjectIdentity
    BY DEF JInv
  <1>1. CASE BeginCycle \/ SkipCleanup
    BY <1>1, UntouchedIsKept DEF JInv, BeginCycle, SkipCleanup, Goto, watching, EjectIdentity
  <1>2. CASE ValidateCleanup
    <2>1. PICK look \in Looks :
            physical' = IF physical.cleanup = "eject" /\ ~IsCurrent(look)
                          THEN [physical EXCEPT !.cleanup = "rearm"] ELSE physical
      BY <1>2 DEF ValidateCleanup
    <2>2. /\ Verifies /\ pc' = "restore"
          /\ UNCHANGED <<task, ending, monitor, hold, stopping, disc, fault>>
      BY <1>2 DEF ValidateCleanup, Goto, world
    <2>3. task # "end"
      BY <1>0, <1>2 DEF ValidateCleanup, EjectIdentity
    <2>4. /\ physical' \in Physicals /\ LatchIsExact(physical'.watch)
          /\ physical'.ejectGeneration = physical.ejectGeneration
          /\ physical'.cleanup = "eject" => physical.cleanup = "eject" /\ IsCurrent(look)
      BY <2>1, <1>0 DEF WatchingTyped, Physicals, Cleanups
    <2>5. physical'.cleanup = "eject" => Confirmed'
      <3>1. SUFFICES ASSUME physical'.cleanup = "eject" PROVE Confirmed'
        OBVIOUS
      <3>2. IsCurrent(look) /\ history.asked = physical.ejectGeneration
        BY <2>4, <3>1, <1>0 DEF EjectIdentity
      <3> QED BY <1>0, <2>2, <3>2, CurrentIsConfirmed
    <2>6. history' \in Histories /\ history'.asked = history.asked
      BY <2>2, <1>0, VerifiedHistory
    <2>7. WatchingTyped'
      BY <1>0, <2>2, <2>4, <2>6 DEF WatchingTyped
    <2>8. EjectIdentity'
      BY <1>0, <2>2, <2>3, <2>4, <2>5, <2>6 DEF EjectIdentity, NotEnding
    <2> QED BY <2>7, <2>8
  <1>3. CASE CloseRetained
    <2>1. \/ /\ physical.cleanup = "eject" /\ Goto("complete_eject")
             /\ UNCHANGED <<physical, monitor>>
          \/ /\ EndCycle /\ physical' \in {FreshPhysical, physical}
             /\ monitor' \in {monitor, MonitorAfterCleanup}
      BY <1>3 DEF CloseRetained, AfterCleanup
    <2>2. pc = "restore" /\ UNCHANGED <<play, source, hold, stopping, history>>
      BY <1>3 DEF CloseRetained, AfterCleanup
    <2>3. disc' \in Discs /\ fault' \in BOOLEAN
      BY <1>0, <1>3, FollowedWorld DEF CloseRetained, AfterCleanup
    <2>4. monitor' \in Monitors
      BY <1>0, <2>1, EndedMonitor, FailedMonitor DEF MonitorAfterCleanup, WatchingTyped
    <2>5. physical' \in Physicals /\ LatchIsExact(physical'.watch)
      BY <1>0, <2>1, FreshPhysicalIsTyped DEF WatchingTyped
    <2>6. ending' = NotEnding /\ task' # "end"
      BY <1>0, <2>1, <2>2 DEF EjectIdentity, EndCycle, Goto
    <2>7. WatchingTyped'
      BY <1>0, <2>2, <2>3, <2>4, <2>5, <2>6 DEF WatchingTyped, Endings, NotEnding, Reasons, Verdicts
    <2>8. EjectIdentity'
      BY <1>0, <2>1, <2>2, <2>6 DEF EjectIdentity, EndCycle, Goto, NotEnding, Confirmed, FreshPhysical
    <2> QED BY <2>7, <2>8
  <1> QED BY <1>1, <1>2, <1>3 DEF Cycle

\* Requests keep the identity of an eject request.
LEMMA RequestKeepsEject == JInv /\ Request => WatchingTyped' /\ EjectIdentity'
  <1> SUFFICES ASSUME JInv, Request PROVE WatchingTyped' /\ EjectIdentity'
    OBVIOUS
  <1>0. WatchingTyped /\ EjectIdentity /\ PointsMatch
    BY DEF JInv, IInv
  <1>s. source \in {"physical", "image", "closed_image"} /\ media.open \in BOOLEAN
    BY DEF JInv, IInv, OwnershipTyped, Medias
  <1>1. CASE TakeRequest
    <2>1. /\ pc = "request" /\ UNCHANGED <<ending, physical, stopping, disc, fault, history>>
          /\ hold' \in BOOLEAN
          /\ monitor' \in {monitor, Retried}
      BY <1>1 DEF TakeRequest, world
    <2>2. task # "end"
      BY <1>0, <2>1 DEF EjectIdentity
    <2>3. \/ pc' = "media" /\ task' = task
          \/ \E request \in Requests :
               task' = PlanRequest(request) /\ pc' = FirstPoint(PlanRequest(request))
      BY <1>1 DEF TakeRequest
    <2>4. task' # "end" /\ pc' \in {"media", "start", "open_image", "stop"}
      <3>0. PlanStart \in {"none", "start_emulator", "discover", "reopen_image"}
        BY <1>s DEF PlanStart
      <3>1. \A request \in Requests : PlanRequest(request) # "end"
        BY <3>0 DEF PlanRequest, Requests
      <3>2. \A action : FirstPoint(action) \in {"start", "open_image", "stop"}
        BY DEF FirstPoint
      <3> QED BY <2>2, <2>3, <3>1, <3>2
    <2>5. WatchingTyped'
      BY <1>0, <2>1, RetriedMonitor DEF WatchingTyped
    <2>6. EjectIdentity'
      BY <1>0, <2>1, <2>2, <2>4 DEF EjectIdentity, NotEnding
    <2> QED BY <2>5, <2>6
  <1>2. CASE StopBeforeRequest
    BY <1>0, <1>2, UntouchedIsKept DEF StopBeforeRequest, EndCycle, watching, EjectIdentity
  <1>3. CASE StopPlayback
    <2>1. /\ pc = "stop"
          /\ UNCHANGED <<physical, hold, stopping, disc, fault, history>>
          /\ monitor' \in {monitor, SessionEnded}
      BY <1>3 DEF StopPlayback, world, MonitorAfterFailure
    <2>2. \/ task = "end" /\ pc' = "check_eject" /\ UNCHANGED <<task, ending>>
          \/ task # "end" /\ pc' \in {"start", "close"} /\ UNCHANGED <<task, ending>>
          \/ task # "end" /\ EndTask
      BY <1>3 DEF StopPlayback, Goto
    <2>3. WatchingTyped'
      BY <1>0, <2>1, <2>2, EndedMonitor
         DEF WatchingTyped, EndTask, EndCycle, Endings, NotEnding, Reasons, Verdicts
    <2>4. EjectIdentity'
      BY <1>0, <2>1, <2>2 DEF EjectIdentity, EndTask, EndCycle, NotEnding, Confirmed
    <2> QED BY <2>3, <2>4
  <1>4. CASE CloseForTask
    <2>1. /\ pc = "close" /\ task # "end" /\ task \in CloseTasks
          /\ UNCHANGED <<physical, hold, stopping>>
          /\ Leaves("request") /\ WorldFollowsExport
      BY <1>0, <1>4 DEF CloseForTask, PointsMatch
    <2>2. \/ pc' \in {"eject", "open_image", "preserve"} /\ UNCHANGED <<task, ending>>
          \/ pc' \in {"begin", "media"} /\ task' = "none" /\ ending' \in {ending, NotEnding}
      BY <1>4, <2>1 DEF CloseForTask, Goto, EndTask, EndCycle, CloseTasks
    <2>8. monitor' \in {monitor, SessionEnded, Retried}
      BY <1>4, <2>1 DEF CloseForTask, MonitorAfterFailure, CloseTasks
    <2>3. disc' \in Discs /\ fault' \in BOOLEAN
      BY <1>0, <2>1, FollowedWorld
    <2>4. /\ history' \in Histories
          /\ history'.asked = history.asked /\ history'.verified = history.verified
      BY <1>0, <2>1, LeftHistory
    <2>5. ending' = NotEnding /\ task' # "end"
      BY <1>0, <2>1, <2>2 DEF EjectIdentity
    <2>6. WatchingTyped'
      BY <1>0, <2>1, <2>3, <2>4, <2>5, <2>8, EndedMonitor, RetriedMonitor
         DEF WatchingTyped, Endings, NotEnding, Reasons, Verdicts
    <2>7. EjectIdentity'
      BY <1>0, <2>1, <2>2, <2>4, <2>5 DEF EjectIdentity, NotEnding
    <2> QED BY <2>6, <2>7
  <1>5. CASE EjectDrive
    <2>1. /\ pc = "eject" /\ task # "end"
          /\ disc' \in {disc, [disc EXCEPT !.present = FALSE]}
          /\ monitor' = SessionEnded
          /\ UNCHANGED <<physical, hold, stopping, fault, history>>
          /\ pc' \in {"begin", "media"} /\ task' = "none" /\ ending' \in {ending, NotEnding}
      BY <1>0, <1>5 DEF EjectDrive, EndTask, EndCycle, PointsMatch
    <2>2. disc' \in Discs
      BY <1>0, <2>1, ReleasedDisc DEF WatchingTyped
    <2>3. WatchingTyped'
      BY <1>0, <2>1, <2>2, EndedMonitor
         DEF WatchingTyped, Endings, NotEnding, Reasons, Verdicts
    <2>4. EjectIdentity'
      BY <1>0, <2>1 DEF EjectIdentity, NotEnding, Confirmed
    <2> QED BY <2>3, <2>4
  <1>6. CASE PreserveDisc
    <2>1. /\ pc = "preserve" /\ EndCycle /\ hold' \in BOOLEAN
          /\ UNCHANGED <<physical, monitor, stopping, disc, fault, history>>
      BY <1>0, <1>6 DEF PreserveDisc, world, WatchingTyped
    <2>2. WatchingTyped'
      BY <1>0, <2>1 DEF WatchingTyped, EndCycle, Endings, NotEnding, Reasons, Verdicts
    <2>3. EjectIdentity'
      BY <1>0, <2>1 DEF EjectIdentity, EndCycle, NotEnding
    <2> QED BY <2>2, <2>3
  <1>7. CASE OpenImage
    <2>1. /\ task # "end" /\ UNCHANGED watching /\ UNCHANGED <<stopping, world, history>>
          /\ (pc' = "start" /\ UNCHANGED <<task, ending>>) \/ EndCycle
      BY <1>0, <1>7 DEF OpenImage, EjectIdentity, Goto
    <2> QED BY <2>1, UntouchedIsKept DEF EndCycle, watching
  <1>8. CASE StartPlayback
    <2>1. /\ task # "end" /\ UNCHANGED watching /\ UNCHANGED <<stopping, world, history>>
          /\ pc' \in {"begin", "media"} /\ task' = "none" /\ ending' \in {ending, NotEnding}
      BY <1>0, <1>8 DEF StartPlayback, EjectIdentity, EndTask, EndCycle
    <2> QED BY <2>1, UntouchedIsKept DEF watching
  <1> QED BY <1>1, <1>2, <1>3, <1>4, <1>5, <1>6, <1>7, <1>8 DEF Request

\* The idle cycle keeps the identity of an eject request.
LEMMA IdleKeepsEject == JInv /\ Idle => WatchingTyped' /\ EjectIdentity'
  <1> SUFFICES ASSUME JInv, Idle PROVE WatchingTyped' /\ EjectIdentity'
    OBVIOUS
  <1>0. WatchingTyped /\ EjectIdentity
    BY DEF JInv
  <1>1. CASE IdleWithoutDiscovery \/ ObserveAvailableMedia
    <2>1. /\ pc = "media" /\ physical' = FreshPhysical /\ ResetWatch
          /\ UNCHANGED <<hold, stopping, disc, fault>>
          /\ monitor' \in {monitor, ObservationFailed(monitor), Observed(monitor, Presence)}
      BY <1>1 DEF IdleWithoutDiscovery, ObserveAvailableMedia, ResetWatch, world
    <2>2. \/ EndCycle
          \/ pc' = "open_live" /\ task' = "live" /\ UNCHANGED ending
      BY <1>1 DEF IdleWithoutDiscovery, ObserveAvailableMedia
    <2>3. ending' = NotEnding /\ task' # "end" /\ pc' \in {"begin", "open_live"}
      BY <1>0, <2>1, <2>2 DEF EjectIdentity, EndCycle
    <2>4. monitor' \in Monitors
      BY <1>0, <2>1, ObservedMonitor, FailedMonitor DEF WatchingTyped
    <2>5. history' \in Histories
      BY <1>0, <2>1, ForgottenHistory
    <2>6. WatchingTyped'
      BY <1>0, <2>1, <2>3, <2>4, <2>5, FreshPhysicalIsTyped
         DEF WatchingTyped, Endings, NotEnding, Reasons, Verdicts
    <2>7. EjectIdentity'
      BY <2>1, <2>3 DEF EjectIdentity, NotEnding, FreshPhysical
    <2> QED BY <2>6, <2>7
  <1>2. CASE PrepareLive
    <2>1. /\ pc = "open_live" /\ UNCHANGED <<physical, hold, stopping>>
          /\ disc' \in {disc, [disc EXCEPT !.pressed = FALSE, !.generation = 0]}
          /\ fault' \in {fault, FALSE}
          /\ history' \in {history, [history EXCEPT !.left = "never"]}
          /\ monitor' = monitor \/ \E failure : monitor' = Failed(monitor, failure)
          /\ (pc' = "start" /\ UNCHANGED <<task, ending>>) \/ EndCycle
      BY <1>2 DEF PrepareLive, Goto
    <2>2. disc' \in Discs
      BY <1>0, <2>1, ReleasedDisc DEF WatchingTyped
    <2>3. /\ history' \in Histories
          /\ history'.asked = history.asked /\ history'.verified = history.verified
      BY <1>0, <2>1 DEF WatchingTyped, Histories
    <2>4. ending' = NotEnding /\ task' # "end"
      BY <1>0, <2>1 DEF EjectIdentity, EndCycle
    <2>5. WatchingTyped'
      <3>1. monitor' \in Monitors
        BY <1>0, <2>1, FailedMonitor DEF WatchingTyped
      <3>2. fault' \in BOOLEAN /\ hold' \in BOOLEAN /\ stopping' \in BOOLEAN
        BY <1>0, <2>1 DEF WatchingTyped
      <3>3. ending' \in Endings
        BY <2>4 DEF Endings, NotEnding, Reasons, Verdicts
      <3> QED BY <1>0, <2>1, <2>2, <2>3, <3>1, <3>2, <3>3 DEF WatchingTyped
    <2>6. EjectIdentity'
      BY <1>0, <2>1, <2>3, <2>4 DEF EjectIdentity, EndCycle, NotEnding
    <2> QED BY <2>5, <2>6
  <1> QED BY <1>1, <1>2 DEF Idle

\* A look and a check of the drive, in that order, keep the watch typed.
LEMMA WatchedTwice ==
  ASSUME WatchingTyped, NEW v \in Watches, LatchIsExact(v), NEW w \in WatchesAfter(v)
  PROVE  w \in Watches /\ LatchIsExact(w)
  <1>1. PICK l : /\ w = l \/ w = WatchConnection(l, disc.connected)
                 /\ l = v \/ \E look \in Looks : l = WatchObserved(v, look)
    BY DEF WatchesAfter
  <1>2. l \in Watches /\ LatchIsExact(l)
    BY <1>1, LookIsObserved, ObservedWatch
  <1> QED BY <1>1, <1>2, ConnectedWatch DEF WatchingTyped, Discs

\* The active cycle keeps the identity of an eject request.
LEMMA ActiveKeepsEject == JInv /\ Active => WatchingTyped' /\ EjectIdentity'
  <1> SUFFICES ASSUME JInv, Active PROVE WatchingTyped' /\ EjectIdentity'
    OBVIOUS
  <1>0. WatchingTyped /\ EjectIdentity /\ PointsMatch
    BY DEF JInv, IInv
  <1>1. CASE EnterActive \/ PollPlayback
    BY <1>0, <1>1, UntouchedIsKept DEF EnterActive, PollPlayback, Goto, watching, EjectIdentity
  <1>2. CASE WatchImage
    <2>1. /\ pc = "watch" /\ physical' = FreshPhysical /\ ResetWatch /\ EndCycle
          /\ UNCHANGED <<monitor, hold, stopping, disc, fault>>
      BY <1>2 DEF WatchImage, ResetWatch, world
    <2>2. WatchingTyped'
      BY <1>0, <2>1, FreshPhysicalIsTyped, ForgottenHistory
         DEF WatchingTyped, EndCycle, Endings, NotEnding, Reasons, Verdicts
    <2>3. EjectIdentity'
      BY <2>1 DEF EjectIdentity, EndCycle, NotEnding, FreshPhysical, ResetWatch
    <2> QED BY <2>2, <2>3
  <1>3. CASE RetryEnding
    <2>1. /\ pc = "watch" /\ EndSession(RetryReason)
          /\ UNCHANGED <<physical, monitor, hold, stopping, disc, fault, history>>
      BY <1>3 DEF RetryEnding, watching, world
    <2>2. /\ RetryReason \in Reasons
          /\ RetryReason = "eject_request" => physical.cleanup = "eject"
      BY DEF RetryReason, Reasons
    <2>3. /\ ending'.reason = RetryReason /\ ending'.verdict = "unchecked"
          /\ ending' \in Endings /\ pc' = "stop" /\ task' = "end"
      BY <2>1, <2>2 DEF EndSession, NotEnding, Endings, Reasons, Verdicts
    <2>4. WatchingTyped'
      BY <1>0, <2>1, <2>3 DEF WatchingTyped
    <2>5. EjectIdentity'
      BY <1>0, <2>1, <2>2, <2>3 DEF EjectIdentity
    <2> QED BY <2>4, <2>5
  <1>5. CASE PollPhysical
    <2> DEFINE v == IF fault THEN Faulted(physical.watch) ELSE physical.watch
    <2>1. PICK w \in WatchesAfter(v) :
            /\ physical' = [physical EXCEPT !.watch = w,
                              !.ejectGeneration = IF w.event = "eject_request"
                                                    THEN disc.generation ELSE @]
            /\ IF w.event = "none" THEN EndCycle ELSE EndSession(w.event)
      BY <1>5 DEF PollPhysical
    <2>2. /\ pc = "watch" /\ source = "physical" /\ physical.cleanup = "none"
          /\ history' = [history EXCEPT !.asked = physical'.ejectGeneration]
          /\ UNCHANGED <<monitor, hold, stopping, disc, fault>>
      BY <1>5 DEF PollPhysical, world
    <2>3. v \in Watches /\ LatchIsExact(v)
      <3>1. physical.watch \in Watches /\ LatchIsExact(physical.watch)
        BY <1>0 DEF WatchingTyped, Physicals
      <3>2. LatchIsExact(Faulted(physical.watch))
        BY <3>1 DEF Faulted, Watches, LatchIsExact, Unlatched
      <3> QED BY <3>1, <3>2, FaultedWatch
    <2>4. w \in Watches /\ LatchIsExact(w)
      BY <1>0, <2>3, WatchedTwice
    <2>5. /\ physical' \in Physicals /\ physical'.watch = w
          /\ physical'.cleanup = physical.cleanup
      <3> DEFINE g == IF w.event = "eject_request" THEN disc.generation
                                                  ELSE physical.ejectGeneration
      <3>1. g \in Generations \cup {NoGeneration}
        BY <1>0 DEF WatchingTyped, Physicals, Discs
      <3>2. physical' = [physical EXCEPT !.watch = w, !.ejectGeneration = g]
        BY <2>1
      <3> QED BY <1>0, <2>4, <3>1, <3>2 DEF WatchingTyped, Physicals
    <2>6. history' \in Histories /\ history'.asked = physical'.ejectGeneration
      BY <1>0, <2>2, <2>5 DEF WatchingTyped, Histories, Physicals
    <2>7. /\ ending' \in Endings /\ ending'.verdict = "unchecked"
          /\ pc' \in {"begin", "stop"} /\ task' \in {"none", "end"}
          /\ task' # "end" => ending' = NotEnding
          /\ task' = "end" => pc' = "stop"
      BY <2>1, <2>4 DEF EndCycle, EndSession, Endings, NotEnding, Reasons, Verdicts, Watches, WatchEvents
    <2>8. WatchingTyped'
      BY <1>0, <2>2, <2>4, <2>5, <2>6, <2>7 DEF WatchingTyped
    <2>9. EjectIdentity'
      BY <2>2, <2>5, <2>6, <2>7 DEF EjectIdentity
    <2> QED BY <2>8, <2>9
  <1>6. CASE CheckEject
    <2>1. /\ pc = "check_eject" /\ pc' = "close"
          /\ UNCHANGED <<task, physical, monitor, hold, stopping, disc, fault>>
      BY <1>6 DEF CheckEject, watching, world
    <2>2. task = "end"
      BY <1>0, <2>1 DEF PointsMatch
    <2>3. CASE UNCHANGED <<ending, history>>
      <3>1. WatchingTyped'
        BY <1>0, <2>1, <2>3 DEF WatchingTyped
      <3>2. EjectIdentity'
        BY <1>0, <2>1, <2>2, <2>3 DEF EjectIdentity, Confirmed
      <3> QED BY <3>1, <3>2
    <2>4. ASSUME ending.reason = "eject_request", Verifies, NEW look \in Looks,
                 ending' = [ending EXCEPT !.verdict = IF IsCurrent(look) THEN "current" ELSE "stale"]
          PROVE  WatchingTyped' /\ EjectIdentity'
      <3>1. /\ ending' \in Endings /\ ending'.reason = ending.reason
            /\ ending'.verdict = "current" => IsCurrent(look)
        BY <1>0, <2>4 DEF WatchingTyped, Endings, Verdicts
      <3>2. history.asked = physical.ejectGeneration
        BY <1>0, <2>4 DEF EjectIdentity
      <3>3. ending'.verdict = "current" => Confirmed'
        BY <1>0, <2>4, <3>1, <3>2, CurrentIsConfirmed
      <3>4. history' \in Histories /\ history'.asked = history.asked
        BY <1>0, <2>4, VerifiedHistory
      <3>5. WatchingTyped'
        BY <1>0, <2>1, <3>1, <3>4 DEF WatchingTyped
      <3>6. EjectIdentity'
        BY <1>0, <2>1, <2>2, <3>1, <3>2, <3>3, <3>4 DEF EjectIdentity
      <3> QED BY <3>5, <3>6
    <2> QED BY <1>6, <2>3, <2>4 DEF CheckEject
  <1>7. CASE CloseForEnd
    <2>1. /\ pc = "close" /\ task = "end" /\ UNCHANGED <<hold, stopping>>
          /\ monitor' = MonitorAfterEnd(Owned(media'))
          /\ Leaves("event") /\ WorldFollowsExport
      BY <1>7 DEF CloseForEnd, ClosingsAfterStop
    <2>2. \/ EndCycle /\ physical' = [physical EXCEPT !.cleanup = CleanupFor(ending.reason)]
          \/ /\ ending.verdict = "current" /\ pc' = "complete_eject"
             /\ UNCHANGED <<task, ending, physical>>
          \/ EndCycle /\ physical' = FreshPhysical
      BY <1>7 DEF CloseForEnd, ClosingsAfterStop
    <2>3. disc' \in Discs /\ fault' \in BOOLEAN
      BY <1>0, <2>1, FollowedWorld
    <2>4. /\ history' \in Histories
          /\ history'.asked = history.asked /\ history'.verified = history.verified
      BY <1>0, <2>1, LeftHistory
    <2>5. monitor' \in Monitors
      BY <1>0, <2>1, BlockedMonitor, FailedMonitor, EndedMonitor DEF MonitorAfterEnd, WatchingTyped
    <2>6. /\ physical' \in Physicals /\ LatchIsExact(physical'.watch)
          /\ \/ physical' = FreshPhysical
             \/ /\ physical'.ejectGeneration = physical.ejectGeneration
                /\ \/ physical' = physical
                   \/ physical'.cleanup = "eject" => ending.reason = "eject_request"
      <3>1. /\ CleanupFor(ending.reason) \in Cleanups
            /\ CleanupFor(ending.reason) = "eject" => ending.reason = "eject_request"
        BY DEF CleanupFor, Cleanups
      <3> QED BY <1>0, <2>2, <3>1, FreshPhysicalIsTyped DEF WatchingTyped, Physicals
    <2>7. ending' \in {ending, NotEnding}
      BY <2>2 DEF EndCycle
    <2>8. WatchingTyped'
      BY <1>0, <2>1, <2>3, <2>4, <2>5, <2>6, <2>7
         DEF WatchingTyped, Endings, NotEnding, Reasons, Verdicts
    <2>9. EjectIdentity'
      <3>1. CASE EndCycle
        BY <1>0, <2>4, <2>6, <3>1 DEF EjectIdentity, EndCycle, NotEnding, FreshPhysical
      <3>2. CASE /\ ending.verdict = "current" /\ pc' = "complete_eject"
                 /\ UNCHANGED <<task, ending, physical>>
        BY <1>0, <2>1, <2>4, <3>2 DEF EjectIdentity, Confirmed
      <3> QED BY <2>2, <3>1, <3>2
    <2> QED BY <2>8, <2>9
  <1>8. CASE CompleteEject
    <2>1. /\ pc = "complete_eject" /\ physical' = FreshPhysical /\ EndCycle
          /\ UNCHANGED <<hold, stopping, fault>>
          /\ disc' \in {disc, [disc EXCEPT !.present = FALSE]}
          /\ history' \in {history, [history EXCEPT !.left = "manual"]}
          /\ monitor' = SessionEnded \/ \E completion : monitor' = EjectCompleted(completion)
      BY <1>8 DEF CompleteEject
    <2>2. disc' \in Discs
      BY <1>0, <2>1, ReleasedDisc DEF WatchingTyped
    <2>3. history' \in Histories
      BY <1>0, <2>1 DEF WatchingTyped, Histories
    <2>4. WatchingTyped'
      BY <1>0, <2>1, <2>2, <2>3, FreshPhysicalIsTyped, EndedMonitor
         DEF WatchingTyped, EndCycle, Endings, NotEnding, Reasons, Verdicts
    <2>5. EjectIdentity'
      BY <2>1 DEF EjectIdentity, EndCycle, NotEnding, FreshPhysical
    <2> QED BY <2>4, <2>5
  <1> QED BY <1>1, <1>2, <1>3, <1>5, <1>6, <1>7, <1>8 DEF Active

\* The shutdown keeps the identity of an eject request.
LEMMA ShutdownKeepsEject == JInv /\ Shutdown => WatchingTyped' /\ EjectIdentity'
  <1> SUFFICES ASSUME JInv, Shutdown PROVE WatchingTyped' /\ EjectIdentity'
    OBVIOUS
  <1>0. WatchingTyped /\ EjectIdentity
    BY DEF JInv
  <1>1. CASE StopForGood \/ CloseStorage
    <2>1. /\ task # "end" /\ UNCHANGED <<task, ending>>
          /\ pc' \in {"stop_for_good", "close_storage", "close_for_good"}
          /\ UNCHANGED watching /\ UNCHANGED <<stopping, world, history>>
      BY <1>0, <1>1 DEF StopForGood, CloseStorage, Goto, EjectIdentity
    <2> QED BY <2>1, UntouchedIsKept DEF watching
  <1>2. CASE CloseForGood
    <2>1. /\ task # "end" /\ pc' \in {"stop_for_good", "finished"}
          /\ UNCHANGED <<task, ending, physical, monitor, hold, stopping, history>>
          /\ WorldFollowsExport
      BY <1>0, <1>2 DEF CloseForGood, Goto, EjectIdentity, watching
    <2>2. disc' \in Discs /\ fault' \in BOOLEAN
      BY <1>0, <2>1, FollowedWorld
    <2>3. WatchingTyped'
      BY <1>0, <2>1, <2>2 DEF WatchingTyped
    <2>4. EjectIdentity'
      BY <1>0, <2>1 DEF EjectIdentity, Confirmed
    <2> QED BY <2>3, <2>4
  <1> QED BY <1>1, <1>2 DEF Shutdown

\* JInv is an invariant of the runtime.
LEMMA EjectInvariant == Spec => []JInv
  <1>1. JInv /\ IInv' /\ [Next]_vars => JInv'
    <2> SUFFICES ASSUME JInv, IInv', [Next]_vars PROVE WatchingTyped' /\ EjectIdentity'
      BY DEF JInv
    <2>1. CASE UNCHANGED vars
      BY <2>1, UntouchedIsKept DEF vars, watching
    <2> QED BY <2>1, WorldKeepsEject, CycleKeepsEject, RequestKeepsEject, IdleKeepsEject,
               ActiveKeepsEject, ShutdownKeepsEject DEF Next, Worker
  <1> QED BY InitEject, Ownership, <1>1, PTL DEF Spec

-----------------------------------------------------------------------------
\* Every variable keeps its type: no monitor counter passes its limit.
THEOREM TypesAreKept == Spec => []TypeOK
  <1>1. JInv => TypeOK
    BY DEF JInv, IInv, OwnershipTyped, WatchingTyped, TypeOK, Physicals, Discs, Endings
  <1> QED BY EjectInvariant, <1>1, PTL

\* The tray is opened only for the disc whose eject button was pressed, as
\* far as the last check before the release could tell.
THEOREM EjectKeepsItsDisc == Spec => []EjectIsForRequestedDisc
  <1>1. JInv => EjectIsForRequestedDisc
    BY DEF JInv, EjectIdentity, Confirmed, EjectIsForRequestedDisc
  <1> QED BY EjectInvariant, <1>1, PTL

\* A session is opened with nothing left of the last watch.
THEOREM WatchIsFresh == Spec => []WatchStartsFresh
  <1>1. JInv => WatchStartsFresh
    BY DEF JInv, EjectIdentity, WatchStartsFresh
  <1> QED BY EjectInvariant, <1>1, PTL

\* Everything of the last session is put away at every boundary.
THEOREM BoundariesStayClean == Spec => []BoundariesAreClean
  BY DriveIsReleasedFirst, WatchIsFresh, ShutdownIsComplete, PTL DEF BoundariesAreClean

-----------------------------------------------------------------------------
(* What a teardown still owes. *)

CleanupIsForgotten == physical.cleanup # "none" /\ physical'.cleanup = "none"
CleanupWasDue      == ~(Owned(media') /\ source' = "physical")

\* A step that forgets an owed cleanup leaves a physical session that owns
\* nothing, or a session of another source.
LEMMA StepKeepsOwedCleanup ==
  ASSUME JInv, [Next]_vars, CleanupIsForgotten PROVE CleanupWasDue
  <1>0. /\ physical \in Physicals /\ media \in Medias
        /\ physical.cleanup # "none" /\ physical'.cleanup = "none"
        /\ physical' # physical
    BY DEF JInv, IInv, WatchingTyped, OwnershipTyped, CleanupIsForgotten
  <1>p. PointsMatch
    BY DEF JInv, IInv
  <1>1. CASE CloseRetained
    <2>1. PICK o \in CloseOutcomes(media) :
            media' = o.media /\ (physical' = physical \/ o.ok)
      BY <1>1 DEF CloseRetained, AfterCleanup
    <2>2. o.ok => ~Owned(o.media)
      BY <1>0, ClosedOutcome
    <2> QED BY <1>0, <2>1, <2>2 DEF CleanupWasDue
  <1>2. CASE IdleWithoutDiscovery \/ ObserveAvailableMedia
    BY <1>p, <1>2 DEF IdleWithoutDiscovery, ObserveAvailableMedia, PointsMatch, session, CleanupWasDue
  <1>3. CASE WatchImage
    BY <1>3 DEF WatchImage, session, CleanupWasDue
  <1>4. CASE CompleteEject
    BY <1>p, <1>4 DEF CompleteEject, PointsMatch, ReleasedPoints, session, CleanupWasDue
  <1>5. CASE ValidateCleanup
    BY <1>0, <1>5 DEF ValidateCleanup, Physicals
  <1>6. CASE CloseForEnd
    <2>1. CASE Owned(media')
      <3>1. physical'.cleanup = CleanupFor(ending.reason)
        BY <1>0, <1>6, <2>1 DEF CloseForEnd, ClosingsAfterStop, Physicals
      <3> QED BY <1>0, <3>1 DEF CleanupFor
    <2> QED BY <2>1 DEF CleanupWasDue
  <1>7. CASE UNCHANGED physical
    BY <1>0, <1>7
  <1>8. CASE Cycle
    BY <1>1, <1>5, <1>7, <1>8 DEF Cycle, BeginCycle, SkipCleanup, watching
  <1>9. CASE Request
    BY <1>7, <1>9 DEF Request, TakeRequest, StopBeforeRequest, StopPlayback, CloseForTask,
                      EjectDrive, PreserveDisc, OpenImage, StartPlayback, watching
  <1>10. CASE Idle
    BY <1>2, <1>7, <1>10 DEF Idle, PrepareLive
  <1>11. CASE Active
    <2>1. CASE PollPhysical
      BY <1>0, <2>1 DEF PollPhysical
    <2> QED BY <1>3, <1>4, <1>6, <1>7, <1>11, <2>1
            DEF Active, EnterActive, PollPlayback, RetryEnding, CheckEject, watching
  <1>12. CASE Shutdown
    BY <1>7, <1>12 DEF Shutdown, StopForGood, CloseStorage, CloseForGood, watching
  <1>13. CASE World \/ UNCHANGED vars
    BY <1>7, <1>13 DEF World, vars, watching
  <1> QED BY <1>8, <1>9, <1>10, <1>11, <1>12, <1>13 DEF Next, Worker

\* A rearm, a retry or an eject that a failed teardown owes is not forgotten
\* while the physical session still owns something.
THEOREM OwedCleanupSurvives == Spec => OwedCleanupIsKept
  <1>1. JInv /\ [Next]_vars
          => [physical.cleanup # "none" /\ physical'.cleanup = "none"
                => ~(Owned(media') /\ source' = "physical")]_vars
    BY StepKeepsOwedCleanup DEF CleanupIsForgotten, CleanupWasDue
  <1> QED BY EjectInvariant, <1>1, PTL DEF Spec, OwedCleanupIsKept
-----------------------------------------------------------------------------
(* Discovery behind a session that an event ended.                         *)

LiveOnly(m) == ~m.validated /\ ~m.retained
Armed(m) == m.permitted \/ m.required
ShutdownPoints == {"stop_for_good", "close_storage", "close_for_good", "finished"}

\* A session of the drive has its export and nothing else, and only such a
\* session is ended by an event, an eject request checked where it can be.
SessionIsLive ==
  /\ source = "physical" /\ media.open => media.exported /\ LiveOnly(media)
  /\ task = "end" => source = "physical"
  /\ pc = "close" /\ task = "end" /\ ending.reason = "eject_request"
       /\ ending.verdict = "unchecked" => Running(play)

\* What is stopped or closed is open, or nothing; and nothing holds a drive
\* whose disc is open, or about to be.
SessionIsFree ==
  /\ pc \in {"stop", "close"} => media.open \/ ~Owned(media)
  /\ (source = "physical" /\ media.open) \/ pc = "open_live" => ~hold

\* After such an end, and until the next disc is opened, discovery is armed,
\* or about to be, or owed with what the failed close kept.
RearmIsOwed ==
  history.left = "event" =>
    /\ ~hold /\ task # "preserve" /\ pc # "preserve"
    /\ source = "physical" => ~media.open
    /\ source = "physical" /\ pc \notin ShutdownPoints =>
         \/ Armed(monitor) \/ pc \in {"complete_eject", "open_live"}
         \/ Owned(media) /\ LiveOnly(media) /\ physical.cleanup # "none"

RInv == SessionIsLive /\ SessionIsFree /\ RearmIsOwed

\* A close of an export leaves an export, or says that it left nothing.
LEMMA ClosedLive ==
  ASSUME NEW m \in Medias, LiveOnly(m), NEW o \in CloseOutcomes(m)
  PROVE  LiveOnly(o.media) /\ (~o.ok => Owned(o.media))
  <1>1. PICK kept \in Owners(m) : o.media = Remaining(m, kept)
    BY DEF CloseOutcomes, Leftovers
  <1>2. LiveOnly(o.media)
    <2>1. kept.validated = FALSE /\ kept.retained = FALSE
      BY DEF Owners, LiveOnly, Medias
    <2> DEFINE r == [m EXCEPT !.open = FALSE, !.exported = kept.exported,
                       !.validated = kept.validated, !.retained = kept.retained]
    <2>2. r.validated = kept.validated /\ r.retained = kept.retained
      BY DEF Medias
    <2>3. Remaining(m, kept) \in {r, NoMedia}
      BY DEF Remaining
    <2>4. NoMedia.validated = FALSE /\ NoMedia.retained = FALSE
      BY DEF NoMedia
    <2> HIDE DEF r
    <2> QED BY <1>1, <2>1, <2>2, <2>3, <2>4 DEF LiveOnly
  <1>3. ~o.ok => Owned(o.media)
    BY Zenon DEF CloseOutcomes, LiveOnly
  <1> QED BY <1>2, <1>3

\* What the worker makes of the monitor keeps it armed.
LEMMA MonitorStaysArmed ==
  ASSUME NEW m \in Monitors
  PROVE  /\ Armed(SessionEnded) /\ Armed(Retried)
         /\ \A failure : Armed(Failed(m, failure))
         /\ Armed(m) => Armed(ObservationFailed(m))
         /\ \A presence : Armed(m) /\ ~Attempts(m, presence) => Armed(Observed(m, presence))
         /\ Armed(EjectCompleted("tray_ejected"))
  <1>1. Armed(SessionEnded) /\ Armed(Retried) /\ Armed(EjectCompleted("tray_ejected"))
    BY DEF Armed, SessionEnded, Retried, EjectCompleted, Initialized
  <1>2. \A failure : Armed(Failed(m, failure))
    <2>1. TAKE failure
    <2> DEFINE retries == failure = "transient" /\ m.transient < TransientRetryLimit
    <2>2. Failed(m, failure).permitted = retries /\ Failed(m, failure).required = ~retries
      BY DEF Failed
    <2> QED BY <2>2 DEF Armed
  <1>3. Armed(m) => Armed(ObservationFailed(m))
    BY DEF Armed, ObservationFailed, Monitors
  <1>4. \A presence : Armed(m) /\ ~Attempts(m, presence) => Armed(Observed(m, presence))
    <2>1. Armed(m) => Armed(ObservedEmpty(m))
      BY DEF Armed, ObservedEmpty, Initialized, Monitors
    <2>2. ASSUME NEW presence, Armed(m), ~Attempts(m, presence), ~ReportsNoMedia(presence)
          PROVE  Armed(Observed(m, presence))
      <3>1. /\ Observed(m, presence).required = m.required
            /\ Observed(m, presence).permitted
                   = (m.permitted /\ ~Attempts(m, presence))
        BY <2>2 DEF Observed, Monitors
      <3> QED BY <2>2, <3>1 DEF Armed
    <2> QED BY <2>1, <2>2 DEF Observed
  <1> QED BY <1>1, <1>2, <1>3, <1>4

\* Every step keeps the session of a drive a live one.
LEMMA SessionStaysLive ==
  ASSUME JInv, SessionIsLive, [Next]_vars
  PROVE  SessionIsLive'
  <1>0. /\ OwnershipTyped /\ PointsMatch /\ OwnerMatchesProcess /\ WatchingTyped
        /\ EjectIdentity /\ OneLaunchSource /\ PlaybackKeepsMedia
    BY DEF JInv, IInv
  <1>m. media \in Medias
    BY <1>0 DEF OwnershipTyped
  <1>1. CASE World
    <2>1. UNCHANGED <<worker, media, source>>
          /\ (play' = play \/ play' = [play EXCEPT !.alive = FALSE])
      BY <1>1 DEF World, session, ChildExits
    <2>2. Running(play') = Running(play)
      BY <1>0, <2>1 DEF OwnershipTyped, Plays, Running
    <2> QED BY <2>1, <2>2 DEF SessionIsLive, worker
  <1>2. CASE CloseRetained
    <2>1. ~media'.open
      BY <1>m, <1>2, ClosedOutcome DEF CloseRetained
    <2>2. task' # "end"
      BY <1>0, <1>2 DEF CloseRetained, EjectIdentity, EndCycle, Goto
    <2> QED BY <2>1, <2>2 DEF SessionIsLive
  <1>3. CASE BeginCycle \/ SkipCleanup \/ ValidateCleanup
    BY <1>0, <1>3 DEF BeginCycle, SkipCleanup, ValidateCleanup, SessionIsLive, session, Goto
  <1>4. CASE TakeRequest
    <2>1. task' # "end" /\ UNCHANGED <<media, source>>
      <3>1. PlanStart \in {"none", "start_emulator", "discover", "reopen_image"}
        BY <1>0 DEF PlanStart, OwnershipTyped, Medias
      <3>2. \A request \in Requests : PlanRequest(request) # "end"
        BY <3>1 DEF PlanRequest, Requests
      <3>3. task # "end"
        BY <1>0, <1>4 DEF TakeRequest, EjectIdentity
      <3> QED BY <1>4, <3>2, <3>3 DEF TakeRequest, session
    <2> QED BY <2>1 DEF SessionIsLive
  <1>5. CASE StopBeforeRequest
    BY <1>5 DEF StopBeforeRequest, EndCycle, SessionIsLive, session
  <1>6. CASE StopPlayback
    <2>1. /\ UNCHANGED <<media, source>>
          /\ \/ task' = task /\ pc' \in {"check_eject", "start", "close"}
             \/ task' = "none"
      BY <1>6 DEF StopPlayback, Goto, EndTask, EndCycle
    <2>2. task = "end" => pc' = "check_eject"
      BY <1>6 DEF StopPlayback, Goto
    <2> QED BY <2>1, <2>2 DEF SessionIsLive
  <1>7. CASE CloseForTask
    <2>1. task' # "end"
      BY <1>0, <1>7 DEF CloseForTask, Goto, EndTask, EndCycle, PointsMatch, CloseTasks
    <2>2. CASE Owned(media)
      <3>1. PICK o \in CloseOutcomes(media) : media' = o.media
        BY <1>7, <2>2 DEF CloseForTask, Closings, IsOwned
      <3> QED BY <1>m, <2>1, <3>1, ClosedOutcome DEF SessionIsLive
    <2>3. CASE ~Owned(media)
      <3>1. media' = media
        BY <1>7, <2>3 DEF CloseForTask, Closings, IsOwned
      <3> QED BY <2>1, <2>3, <3>1 DEF SessionIsLive, Owned
    <2> QED BY <2>2, <2>3
  <1>8. CASE EjectDrive
    BY <1>8 DEF EjectDrive, EndTask, EndCycle, SessionIsLive, session
  <1>9. CASE PreserveDisc
    <2>1. task' = "none" /\ (~media'.open \/ media' = media) /\ source' = source
      BY <1>9, NothingIsClosed DEF PreserveDisc, EndCycle
    <2> QED BY <2>1 DEF SessionIsLive
  <1>10. CASE OpenImage
    BY <1>0, <1>10 DEF OpenImage, SessionIsLive, EndCycle, Goto, EjectIdentity
  <1>11. CASE StartPlayback
    <2>1. task' = "none" /\ source' = source
      BY <1>11 DEF StartPlayback, EndTask, EndCycle
    <2>2. PICK o \in StartOutcomes(play, media) : media' = o.media
      BY <1>11 DEF StartPlayback
    <2>3. source = "physical" => media' = media
      <3>1. media.open
        BY <1>0, <1>11 DEF StartPlayback, PointsMatch, OpenPoints
      <3>2. SUFFICES ASSUME source = "physical" PROVE o.media = media
        BY <2>2
      <3>3. media.exported
        BY <3>1, <3>2 DEF SessionIsLive
      <3>4. /\ play \in Plays /\ OwnerIsSound(play)
            /\ media.exported # media.validated
            /\ play.handle => play.owner = media.backend
        BY <1>0, <3>1 DEF OwnershipTyped, OwnerMatchesProcess, OwnerIsSound, OneLaunchSource,
              PlaybackKeepsMedia, Running
      <3> QED BY <1>m, <3>1, <3>3, <3>4, StartedOutcome
    <2> QED BY <2>1, <2>3 DEF SessionIsLive
  <1>12. CASE IdleWithoutDiscovery \/ ObserveAvailableMedia
    <2>1. task' # "end" /\ UNCHANGED session
      BY <1>12 DEF IdleWithoutDiscovery, ObserveAvailableMedia, EndCycle
    <2> QED BY <2>1 DEF SessionIsLive, session
  <1>13. CASE PrepareLive
    <2>1. task' # "end"
      BY <1>0, <1>13 DEF PrepareLive, EjectIdentity, EndCycle, Goto
    <2>2. \A b \in PlayableLive : LiveMedia(b).exported /\ LiveOnly(LiveMedia(b))
      BY DEF LiveMedia, NoMedia, LiveOnly
    <2>3. \/ \E b \in PlayableLive : media' = LiveMedia(b)
          \/ ~media'.open
      BY <1>13 DEF PrepareLive, PhysicalSessions, PhysicalLeftovers
    <2> QED BY <2>1, <2>2, <2>3 DEF SessionIsLive
  <1>14. CASE EnterActive \/ PollPlayback \/ WatchImage
    BY <1>14 DEF EnterActive, PollPlayback, WatchImage, SessionIsLive, session, Goto, EndCycle
  <1>15. CASE RetryEnding \/ PollPhysical
    <2>1. UNCHANGED session /\ source = "physical" /\ pc' \in {"begin", "stop"}
      BY <1>15 DEF RetryEnding, PollPhysical, EndSession, EndCycle
    <2> QED BY <2>1 DEF SessionIsLive, session
  <1>16. CASE CheckEject
    <2>1. task' = task /\ UNCHANGED session /\ media.open /\ task = "end"
      BY <1>0, <1>16 DEF CheckEject, PointsMatch, OpenPoints
    <2>2. media.exported
      BY <2>1 DEF SessionIsLive
    <2>3. CASE ending.reason = "eject_request" /\ ~Running(play)
      <3>1. ending'.verdict \in {"current", "stale"}
        BY <1>0, <1>16, <2>2, <2>3 DEF CheckEject, IsRunning, WatchingTyped, Endings
      <3> QED BY <2>1, <3>1 DEF SessionIsLive, session
    <2>4. CASE ending.reason # "eject_request" \/ Running(play)
      <3>1. ending' = ending
        BY <1>16, <2>4 DEF CheckEject, IsRunning
      <3> QED BY <2>1, <2>4, <3>1 DEF SessionIsLive, session
    <2> QED BY <2>3, <2>4
  <1>17. CASE CloseForEnd
    <2>1. source' = source /\ pc' # "close" /\ (task' = "end" => task = "end")
      BY <1>17 DEF CloseForEnd, ClosingsAfterStop, EndCycle
    <2>2. media' = media \/ ~media'.open
      <3>1. media' = media \/ \E o \in CloseOutcomes(media) : media' = o.media
        BY <1>17 DEF CloseForEnd, ClosingsAfterStop, Closings
      <3> QED BY <1>m, <3>1, ClosedOutcome
    <2> QED BY <2>1, <2>2 DEF SessionIsLive
  <1>18. CASE CompleteEject
    BY <1>18 DEF CompleteEject, SessionIsLive, session, EndCycle
  <1>19. CASE StopForGood \/ CloseStorage
    BY <1>0, <1>19 DEF StopForGood, CloseStorage, SessionIsLive, Goto, EjectIdentity
  <1>20. CASE CloseForGood
    <2>1. /\ source' = source /\ task' = task
          /\ pc' \in {"stop_for_good", "finished"}
      BY <1>20 DEF CloseForGood, Goto
    <2>2. media' = media \/ ~media'.open
      <3>1. PICK o \in Closings : media' = o.media
        BY <1>20 DEF CloseForGood
      <3> QED BY <1>m, <3>1, ClosedOutcome DEF Closings
    <2> QED BY <2>1, <2>2 DEF SessionIsLive
  <1>21. CASE UNCHANGED vars
    BY <1>21 DEF vars, worker, session, SessionIsLive
  <1> QED BY <1>1, <1>2, <1>3, <1>4, <1>5, <1>6, <1>7, <1>8, <1>9, <1>10, <1>11, <1>12,
             <1>13, <1>14, <1>15, <1>16, <1>17, <1>18, <1>19, <1>20, <1>21
          DEF Next, Worker, Cycle, Request, Idle, Active, Shutdown

\* Every step keeps what is stopped, closed or opened free to be.
LEMMA SessionStaysFree ==
  ASSUME JInv, SessionIsFree, [Next]_vars
  PROVE  SessionIsFree'
  <1>0. OwnershipTyped /\ PointsMatch
    BY DEF JInv, IInv
  <1>m. media \in Medias
    BY <1>0 DEF OwnershipTyped
  <1>1. CASE World
    BY <1>1 DEF World, SessionIsFree, worker, session, watching
  <1>2. CASE CloseRetained
    <2>1. ~media'.open
      BY <1>m, <1>2, ClosedOutcome DEF CloseRetained
    <2>2. pc' \in {"begin", "complete_eject"}
      BY <1>2 DEF CloseRetained, EndCycle, Goto
    <2> QED BY <2>1, <2>2 DEF SessionIsFree
  <1>3. CASE BeginCycle \/ SkipCleanup \/ ValidateCleanup
    <2>1. /\ UNCHANGED <<media, source, hold>>
          /\ pc' \in {"stop_for_good", "cleanup", "request", "restore"}
      BY <1>3 DEF BeginCycle, SkipCleanup, ValidateCleanup, session, watching, Goto
    <2> QED BY <2>1 DEF SessionIsFree
  <1>4. CASE TakeRequest
    <2>1. /\ UNCHANGED <<media, source>> /\ (~hold => ~hold') /\ pc = "request"
          /\ pc' \in {"media", "stop", "start", "open_image"}
      BY <1>4 DEF TakeRequest, session, FirstPoint
    <2> QED BY <1>0, <2>1 DEF SessionIsFree, PointsMatch
  <1>5. CASE StopBeforeRequest
    BY <1>5 DEF StopBeforeRequest, EndCycle, SessionIsFree, session, watching
  <1>6. CASE StopPlayback
    <2>1. /\ UNCHANGED <<media, source, hold>> /\ pc = "stop"
          /\ pc' \in {"check_eject", "start", "close", "media", "begin"}
      BY <1>6 DEF StopPlayback, Goto, EndTask, EndCycle
    <2> QED BY <2>1 DEF SessionIsFree
  <1>7. CASE CloseForTask
    <2>1. /\ pc' \in {"begin", "media", "eject", "open_image", "preserve"} /\ hold' = hold
      BY <1>0, <1>7 DEF CloseForTask, Goto, EndTask, EndCycle, PointsMatch, CloseTasks
    <2>2. \/ media' = media /\ ~Owned(media)
          \/ ~media'.open
      <3>1. (media' = media /\ ~Owned(media)) \/ \E o \in CloseOutcomes(media) : media' = o.media
        BY <1>7 DEF CloseForTask, Closings, IsOwned
      <3> QED BY <1>m, <3>1, ClosedOutcome
    <2> QED BY <2>1, <2>2 DEF SessionIsFree, Owned
  <1>8. CASE EjectDrive
    <2>1. UNCHANGED <<media, source, hold>> /\ pc' \in {"media", "begin"}
      BY <1>8 DEF EjectDrive, EndTask, EndCycle, session
    <2> QED BY <2>1 DEF SessionIsFree
  <1>9. CASE PreserveDisc
    <2>1. pc' = "begin" /\ ~media'.open
      BY <1>0, <1>9, NothingIsClosed
         DEF PreserveDisc, EndCycle, PointsMatch, ReleasedPoints, Owned
    <2> QED BY <2>1 DEF SessionIsFree
  <1>10. CASE OpenImage
    BY <1>10 DEF OpenImage, SessionIsFree, EndCycle, Goto
  <1>11. CASE StartPlayback
    <2>1. /\ UNCHANGED <<source, hold>> /\ media.open /\ pc' \in {"begin", "media"}
      BY <1>0, <1>11 DEF StartPlayback, EndTask, EndCycle, watching, PointsMatch, OpenPoints
    <2> QED BY <2>1 DEF SessionIsFree
  <1>12. CASE IdleWithoutDiscovery
    BY <1>12 DEF IdleWithoutDiscovery, EndCycle, SessionIsFree, session
  <1>13. CASE ObserveAvailableMedia
    <2>1. UNCHANGED <<media, source, hold>> /\ ~hold /\ pc' \in {"begin", "open_live"}
      BY <1>13 DEF ObserveAvailableMedia, EndCycle, session
    <2> QED BY <2>1 DEF SessionIsFree
  <1>14. CASE PrepareLive
    <2>1. pc = "open_live" /\ hold' = hold /\ pc' \in {"begin", "start"}
      BY <1>14 DEF PrepareLive, EndCycle, Goto
    <2> QED BY <2>1 DEF SessionIsFree
  <1>15. CASE EnterActive \/ PollPlayback \/ WatchImage \/ CompleteEject
    <2>1. UNCHANGED <<media, source, hold>> /\ pc' \in {"begin", "poll", "watch"}
      BY <1>15 DEF EnterActive, PollPlayback, WatchImage, CompleteEject, session, watching,
                   Goto, EndCycle
    <2> QED BY <2>1 DEF SessionIsFree
  <1>16. CASE RetryEnding \/ PollPhysical \/ CheckEject
    <2>1. UNCHANGED <<media, source, hold>> /\ pc' \in {"begin", "stop", "close"} /\ media.open
      BY <1>0, <1>16 DEF RetryEnding, PollPhysical, CheckEject, session, watching, EndSession,
                   EndCycle, PointsMatch, OpenPoints
    <2> QED BY <2>1 DEF SessionIsFree
  <1>17. CASE CloseForEnd
    <2>1. UNCHANGED <<source, hold>> /\ pc' \in {"begin", "complete_eject"}
      BY <1>17 DEF CloseForEnd, ClosingsAfterStop, EndCycle
    <2>2. media' = media \/ ~media'.open
      <3>1. media' = media \/ \E o \in CloseOutcomes(media) : media' = o.media
        BY <1>17 DEF CloseForEnd, ClosingsAfterStop, Closings
      <3> QED BY <1>m, <3>1, ClosedOutcome
    <2> QED BY <2>1, <2>2 DEF SessionIsFree
  <1>18. CASE StopForGood \/ CloseStorage \/ CloseForGood
    <2>1. /\ UNCHANGED <<source, hold>>
          /\ pc' \in {"stop_for_good", "close_storage", "close_for_good", "finished"}
      BY <1>18 DEF StopForGood, CloseStorage, CloseForGood, Goto, watching
    <2>2. media' = media \/ ~media'.open
      <3>1. media' = media \/ \E o \in CloseOutcomes(media) : media' = o.media
        BY <1>18 DEF StopForGood, CloseStorage, CloseForGood, Closings
      <3> QED BY <1>m, <3>1, ClosedOutcome
    <2> QED BY <2>1, <2>2 DEF SessionIsFree
  <1>19. CASE UNCHANGED vars
    BY <1>19 DEF vars, worker, session, watching, SessionIsFree
  <1> QED BY <1>1, <1>2, <1>3, <1>4, <1>5, <1>6, <1>7, <1>8, <1>9, <1>10, <1>11, <1>12,
             <1>13, <1>14, <1>15, <1>16, <1>17, <1>18, <1>19
          DEF Next, Worker, Cycle, Request, Idle, Active, Shutdown

\* Every step keeps the rearm that is owed.
LEMMA RearmStaysOwed ==
  ASSUME JInv, RInv, [Next]_vars
  PROVE  RearmIsOwed'
  <1>0. /\ OwnershipTyped /\ PointsMatch /\ OwnerMatchesProcess /\ WatchingTyped
        /\ EjectIdentity /\ RInv /\ SessionIsLive /\ SessionIsFree /\ RearmIsOwed
    BY DEF JInv, IInv, RInv
  <1>m. media \in Medias /\ monitor \in Monitors /\ history \in Histories
        /\ physical \in Physicals
    BY <1>0 DEF OwnershipTyped, WatchingTyped
  <1>1. CASE World
    <2>1. UNCHANGED <<worker, media, source, watching, history>>
      BY <1>1 DEF World, session
    <2> QED BY <1>0, <2>1 DEF RearmIsOwed, worker, watching
  <1>2. CASE CloseRetained
    <2>1. PICK o \in CloseOutcomes(media) :
            /\ media' = o.media
            /\ IF o.ok /\ physical.cleanup = "eject"
                 THEN Goto("complete_eject") /\ UNCHANGED <<physical, monitor>>
                 ELSE /\ EndCycle
                      /\ physical' = AfterCleanup(o.ok)
                      /\ monitor'  = IF o.ok THEN MonitorAfterCleanup ELSE monitor
      BY <1>2 DEF CloseRetained
    <2>2. UNCHANGED <<source, hold, history>> /\ pc = "restore"
      BY <1>2 DEF CloseRetained
    <2>3. ~media'.open
      BY <1>m, <2>1, ClosedOutcome
    <2>4. SUFFICES ASSUME history.left = "event", source = "physical"
                   PROVE  \/ Armed(monitor') \/ pc' = "complete_eject"
                          \/ Owned(media') /\ LiveOnly(media') /\ physical'.cleanup # "none"
      <3>1. task' \in {task, "none"} /\ pc' \in {"begin", "complete_eject"}
        BY <2>1 DEF Goto, EndCycle
      <3> QED BY <1>0, <2>2, <2>3, <3>1 DEF RearmIsOwed
    <2>6. Armed(monitor) \/ (LiveOnly(media) /\ physical.cleanup # "none")
      <3>1. pc = "restore" /\ history.left = "event" /\ source = "physical"
        BY <2>2, <2>4
      <3>2. RearmIsOwed
        BY <1>0
      <3> QED BY <3>1, <3>2 DEF RearmIsOwed, ShutdownPoints
    <2>7. CASE o.ok /\ physical.cleanup = "eject"
      BY <2>1, <2>7 DEF Goto
    <2>8. CASE ~o.ok
      <3>1. physical' = physical /\ monitor' = monitor
        BY <2>1, <2>8 DEF AfterCleanup
      <3> QED BY <1>m, <2>1, <2>6, <2>8, <3>1, ClosedLive
    <2>9. CASE o.ok /\ physical.cleanup # "eject"
      <3>1. monitor' = MonitorAfterCleanup
        BY <2>1, <2>9
      <3>2. Armed(MonitorAfterCleanup)
        BY <1>m, <2>6, <2>9, MonitorStaysArmed DEF MonitorAfterCleanup, Physicals, Cleanups
      <3> QED BY <3>1, <3>2
    <2> QED BY <2>7, <2>8, <2>9
  <1>3. CASE BeginCycle \/ SkipCleanup
    <2>1. UNCHANGED <<task, session, watching, history>>
          /\ pc \in {"begin", "cleanup"} /\ pc' \in {"stop_for_good", "cleanup", "request"}
      BY <1>3 DEF BeginCycle, SkipCleanup, Goto
    <2> QED BY <1>0, <2>1 DEF RearmIsOwed, session, watching, ShutdownPoints
  <1>4. CASE ValidateCleanup
    <2>1. /\ UNCHANGED <<task, session, monitor, hold>>
          /\ pc = "cleanup" /\ pc' = "restore"
          /\ physical' = physical \/ physical' = [physical EXCEPT !.cleanup = "rearm"]
          /\ history'.left = history.left
      BY <1>m, <1>4 DEF ValidateCleanup, Goto, Verifies, Histories
    <2>2. physical.cleanup # "none" => physical'.cleanup # "none"
      BY <1>m, <2>1 DEF Physicals
    <2> QED BY <1>0, <2>1, <2>2 DEF RearmIsOwed, session, ShutdownPoints
  <1>5. CASE TakeRequest
    <2>1. /\ pc = "request" /\ UNCHANGED <<session, physical, history>>
          /\ pc' \in {"media", "stop", "start", "open_image"}
      BY <1>5 DEF TakeRequest, FirstPoint
    <2>2. ~hold => ~hold'
      BY <1>5 DEF TakeRequest
    <2>3. monitor' \in {monitor, Retried}
      BY <1>5 DEF TakeRequest
    <2>4. task' = "preserve" => (media.open /\ source = "physical") \/ task = "preserve"
      <3>1. PlanStart # "preserve"
        BY <1>0 DEF PlanStart, OwnershipTyped, Medias
      <3>2. \A request \in Requests :
              PlanRequest(request) = "preserve" => source = "physical" /\ media.open
        BY <3>1 DEF PlanRequest, Requests
      <3> QED BY <1>5, <3>2 DEF TakeRequest
    <2>5. Armed(monitor) => Armed(monitor')
      BY <1>m, <2>3, MonitorStaysArmed
    <2> QED BY <1>0, <2>1, <2>2, <2>4, <2>5 DEF RearmIsOwed, session, ShutdownPoints
  <1>6. CASE StopBeforeRequest
    BY <1>0, <1>6 DEF StopBeforeRequest, EndCycle, RearmIsOwed, session, watching, ShutdownPoints
  <1>7. CASE StopPlayback
    <2>1. /\ pc = "stop" /\ UNCHANGED <<media, source, physical, hold, history>>
          /\ task' \in {task, "none"}
          /\ monitor' \in {monitor, SessionEnded}
          /\ pc' \in {"check_eject", "start", "close", "media", "begin"}
      BY <1>7 DEF StopPlayback, Goto, EndTask, EndCycle, MonitorAfterFailure
    <2>2. Armed(monitor) => Armed(monitor')
      BY <1>m, <2>1, MonitorStaysArmed
    <2> QED BY <1>0, <2>1, <2>2 DEF RearmIsOwed, ShutdownPoints
  <1>8. CASE CloseForTask
    <2>1. /\ pc = "close" /\ task \in CloseTasks /\ Leaves("request")
          /\ UNCHANGED <<physical, hold>>
      BY <1>0, <1>8 DEF CloseForTask, PointsMatch
    <2>2. /\ task' \in {task, "none"}
          /\ monitor' \in {monitor, SessionEnded, Retried}
          /\ \/ source' \in {source, "closed_image"}
             \/ source' = "physical" /\ task = "use_physical" /\ monitor' = Retried
      <3>1. PICK o \in Closings :
              /\ CASE ~o.ok -> EndTask /\ monitor' = MonitorAfterFailure
                   [] o.ok /\ task = "use_physical" -> EndCycle /\ monitor' = Retried
                   [] o.ok /\ task \in {"eject", "eject_idle"} ->
                        Goto("eject") /\ UNCHANGED monitor
                   [] o.ok /\ task \in {"open_image", "preserve"} ->
                        Goto(task) /\ UNCHANGED monitor
              /\ source' = IF o.ok /\ task = "use_physical" THEN "physical"
                           ELSE IF o.ok /\ IsOwned /\ source = "image" THEN "closed_image"
                           ELSE source
        BY <1>8 DEF CloseForTask
      <3>2. CASE ~o.ok
        BY <3>1, <3>2 DEF EndTask, EndCycle, MonitorAfterFailure
      <3>3. CASE o.ok /\ task = "use_physical"
        BY <3>1, <3>3 DEF EndCycle
      <3>4. CASE o.ok /\ task \in {"eject", "eject_idle"}
        BY <3>1, <3>4 DEF Goto
      <3>5. CASE o.ok /\ task \in {"open_image", "preserve"}
        BY <3>1, <3>5 DEF Goto
      <3> QED BY <2>1, <3>2, <3>3, <3>4, <3>5 DEF CloseTasks
    <2>3. ~media'.open
      <3>1. (media' = media /\ ~Owned(media)) \/ \E o \in CloseOutcomes(media) : media' = o.media
        BY <1>8 DEF CloseForTask, Closings, IsOwned
      <3> QED BY <1>m, <3>1, ClosedOutcome DEF Owned
    <2>4. \/ pc' \in {"begin", "media", "eject", "open_image"}
          \/ pc' = "preserve" /\ task = "preserve"
      BY <1>8, <2>1 DEF CloseForTask, Goto, EndTask, EndCycle, CloseTasks
    <2>5. Armed(monitor) => Armed(monitor')
      BY <1>m, <2>2, MonitorStaysArmed
    <2>6. history'.left = "event" => history.left = "event"
      BY <1>m, <2>1 DEF Leaves, Histories
    <2>7. CASE source' = "physical" /\ task = "use_physical" /\ monitor' = Retried
      BY <1>0, <1>m, <2>1, <2>2, <2>3, <2>4, <2>6, <2>7, MonitorStaysArmed DEF RearmIsOwed
    <2>8. CASE source' = source
      <3>1. history.left = "event" /\ source = "physical" => Armed(monitor) /\ ~media.open
        BY <1>0, <2>1 DEF RearmIsOwed, SessionIsFree, ShutdownPoints, Owned
      <3> QED BY <1>0, <2>1, <2>2, <2>3, <2>4, <2>5, <2>6, <2>8, <3>1 DEF RearmIsOwed
    <2>9. CASE source' = "closed_image"
      BY <1>0, <2>1, <2>2, <2>3, <2>4, <2>6, <2>9 DEF RearmIsOwed
    <2> QED BY <2>2, <2>7, <2>8, <2>9
  <1>9. CASE EjectDrive
    <2>1. /\ UNCHANGED <<session, physical, hold, history>> /\ task' = "none"
          /\ monitor' = SessionEnded /\ pc' \in {"begin", "media"}
      BY <1>9 DEF EjectDrive, EndTask, EndCycle
    <2> QED BY <1>0, <1>m, <2>1, MonitorStaysArmed DEF RearmIsOwed, session
  <1>10. CASE PreserveDisc
    BY <1>0, <1>10 DEF PreserveDisc, RearmIsOwed
  <1>11. CASE OpenImage
    <2>1. source' = "image" /\ UNCHANGED <<hold, history>> /\ task' \in {task, "none"}
          /\ pc' \in {"start", "begin"}
      BY <1>11 DEF OpenImage, Goto, EndCycle, watching
    <2> QED BY <1>0, <2>1 DEF RearmIsOwed
  <1>12. CASE StartPlayback
    <2>1. /\ UNCHANGED <<source, watching, history>> /\ task' = "none"
          /\ pc' \in {"begin", "media"} /\ media.open
      BY <1>0, <1>12 DEF StartPlayback, EndTask, EndCycle, PointsMatch, OpenPoints
    <2>2. history.left = "event" => source # "physical"
      BY <1>0, <2>1 DEF RearmIsOwed
    <2> QED BY <1>0, <2>1, <2>2 DEF RearmIsOwed, watching
  <1>13. CASE IdleWithoutDiscovery
    <2>1. /\ history'.left = history.left /\ UNCHANGED <<session, monitor, hold>>
          /\ task' = "none" /\ pc' = "begin" /\ (source # "physical" \/ hold)
      BY <1>m, <1>13 DEF IdleWithoutDiscovery, ResetWatch, EndCycle, Histories
    <2> QED BY <1>0, <2>1 DEF RearmIsOwed, session
  <1>14. CASE ObserveAvailableMedia
    <2>1. /\ history'.left = history.left /\ UNCHANGED <<session, hold>>
          /\ pc = "media" /\ ~media.open
      BY <1>m, <1>14 DEF ObserveAvailableMedia, ResetWatch, Histories
    <2>2. ~Owned(media)
      BY <1>0, <2>1 DEF PointsMatch
    <2>3. history.left = "event" /\ source = "physical" => Armed(monitor)
      BY <1>0, <2>1, <2>2 DEF RearmIsOwed, ShutdownPoints
    <2>4. /\ task' \in {"live", "none"} /\ pc' \in {"begin", "open_live"}
          /\ \/ pc' = "open_live"
             \/ monitor' = ObservationFailed(monitor)
             \/ monitor' = Observed(monitor, Presence) /\ ~Attempts(monitor, Presence)
      BY <1>14 DEF ObserveAvailableMedia, EndCycle
    <2>5. pc' = "open_live" \/ (Armed(monitor) => Armed(monitor'))
      BY <1>m, <2>4, MonitorStaysArmed
    <2> QED BY <1>0, <2>1, <2>3, <2>4, <2>5 DEF RearmIsOwed, session
  <1>15. CASE PrepareLive
    <2>1. /\ UNCHANGED <<source, physical, hold>>
          /\ \/ history' = [history EXCEPT !.left = "never"]
             \/ /\ ~media'.open /\ history' = history
                /\ task' = "none" /\ pc' = "begin"
                /\ \E failure : monitor' = Failed(monitor, failure)
      BY <1>15 DEF PrepareLive, PhysicalLeftovers, EndCycle
    <2>2. CASE history' = [history EXCEPT !.left = "never"]
      BY <1>m, <2>2 DEF Histories, RearmIsOwed
    <2> QED BY <1>0, <1>m, <2>1, <2>2, MonitorStaysArmed DEF RearmIsOwed
  <1>16. CASE EnterActive \/ PollPlayback
    <2>1. /\ UNCHANGED <<task, media, source, watching, history>>
          /\ pc' \in {"poll", "watch"} /\ pc \in {"media", "poll"}
      BY <1>16 DEF EnterActive, PollPlayback, Goto, session
    <2> QED BY <1>0, <2>1 DEF RearmIsOwed, watching, ShutdownPoints
  <1>17. CASE WatchImage
    <2>1. /\ history'.left = history.left /\ UNCHANGED <<session, monitor, hold>>
          /\ task' = "none" /\ pc' = "begin" /\ source # "physical"
      BY <1>m, <1>17 DEF WatchImage, ResetWatch, EndCycle, Histories
    <2> QED BY <1>0, <2>1 DEF RearmIsOwed, session
  <1>18. CASE RetryEnding \/ PollPhysical
    <2>1. /\ history'.left = history.left /\ source = "physical" /\ pc = "watch"
      BY <1>m, <1>18 DEF RetryEnding, PollPhysical, Histories
    <2>2. history.left # "event"
      BY <1>0, <2>1 DEF RearmIsOwed, PointsMatch, OpenPoints
    <2> QED BY <2>1, <2>2 DEF RearmIsOwed
  <1>19. CASE CheckEject
    <2>1. history'.left = history.left /\ pc = "check_eject"
      BY <1>m, <1>19 DEF CheckEject, Verifies, Histories
    <2>2. media.open /\ source = "physical"
      BY <1>0, <2>1 DEF PointsMatch, OpenPoints, SessionIsLive
    <2>3. history.left # "event"
      BY <1>0, <2>2 DEF RearmIsOwed
    <2> QED BY <2>1, <2>3 DEF RearmIsOwed
  <1>20. CASE CloseForEnd
    <2>1. /\ pc = "close" /\ task = "end" /\ source = "physical" /\ media.open
          /\ source' = source /\ hold' = hold
          /\ monitor' = MonitorAfterEnd(Owned(media'))
          /\ Leaves("event")
      BY <1>0, <1>20 DEF CloseForEnd, ClosingsAfterStop, SessionIsLive, PointsMatch, PlayTasks
    <2>2. history.left # "event" /\ LiveOnly(media) /\ media.exported
      BY <1>0, <2>1 DEF RearmIsOwed, SessionIsLive
    <2>h. ~hold
      BY <1>0, <2>1 DEF SessionIsFree
    <2>3. CASE media'.open
      <3>1. history' = history
        BY <2>1, <2>3 DEF Leaves
      <3> QED BY <2>2, <3>1 DEF RearmIsOwed
    <2>4. CASE ~media'.open
      <3>1. ~Running(play) /\ \E o \in CloseOutcomes(media) : media' = o.media
        BY <1>20, <2>1, <2>4 DEF CloseForEnd, ClosingsAfterStop, Closings, IsRunning, IsOwned, Owned
      <3>2. LiveOnly(media')
        BY <1>m, <2>2, <3>1, ClosedLive
      <3>3. CASE Owned(media')
        <4>1. EndCycle /\ physical' = [physical EXCEPT !.cleanup = CleanupFor(ending.reason)]
          BY <1>20, <3>3 DEF CloseForEnd, ClosingsAfterStop
        <4>2. physical'.cleanup # "none"
          BY <1>m, <4>1 DEF Physicals, CleanupFor
        <4> QED BY <2>1, <2>4, <2>h, <3>2, <3>3, <4>1, <4>2
                DEF RearmIsOwed, EndCycle
      <3>4. CASE ~Owned(media') /\ ending.verdict = "current"
        <4>1. pc' = "complete_eject" /\ task' = task
          BY <1>20, <3>4 DEF CloseForEnd, ClosingsAfterStop
        <4> QED BY <2>1, <2>4, <2>h, <4>1 DEF RearmIsOwed
      <3>5. CASE ~Owned(media') /\ ending.verdict # "current"
        <4>1. EndCycle
          BY <1>20, <3>5 DEF CloseForEnd, ClosingsAfterStop
        <4>2. EffectiveReason # "eject_request"
          BY <1>0, <2>1, <3>1, <3>5
             DEF EffectiveReason, SessionIsLive, WatchingTyped, Endings, Verdicts
        <4>3. Armed(monitor')
          BY <1>m, <2>1, <3>5, <4>2, MonitorStaysArmed DEF MonitorAfterEnd
        <4> QED BY <2>1, <2>4, <2>h, <4>1, <4>3 DEF RearmIsOwed, EndCycle
      <3> QED BY <3>3, <3>4, <3>5
    <2> QED BY <2>3, <2>4
  <1>21. CASE CompleteEject
    <2>1. /\ pc = "complete_eject" /\ EndCycle /\ UNCHANGED <<session, hold>>
          /\ \/ history' = [history EXCEPT !.left = "manual"]
             \/ history' = history /\ monitor' = EjectCompleted("tray_ejected")
             \/ history' = history /\ monitor' = SessionEnded
      BY <1>21 DEF CompleteEject
    <2>2. CASE history' = [history EXCEPT !.left = "manual"]
      BY <1>m, <2>2 DEF Histories, RearmIsOwed
    <2>3. CASE history' = history /\ Armed(monitor')
      BY <1>0, <2>1, <2>3 DEF RearmIsOwed, EndCycle, session
    <2> QED BY <1>m, <2>1, <2>2, <2>3, MonitorStaysArmed
  <1>22. CASE StopForGood \/ CloseStorage
    <2>1. /\ UNCHANGED <<task, media, source, hold, history>> /\ pc' \in ShutdownPoints
      BY <1>22 DEF StopForGood, CloseStorage, Goto, watching, ShutdownPoints
    <2> QED BY <1>0, <2>1 DEF RearmIsOwed, ShutdownPoints
  <1>23. CASE CloseForGood
    <2>1. /\ UNCHANGED <<task, source, hold, history>> /\ pc' \in ShutdownPoints
      BY <1>23 DEF CloseForGood, Goto, watching, ShutdownPoints
    <2>2. media' = media \/ ~media'.open
      <3>1. media' = media \/ \E o \in CloseOutcomes(media) : media' = o.media
        BY <1>23 DEF CloseForGood, Closings
      <3> QED BY <1>m, <3>1, ClosedOutcome
    <2> QED BY <1>0, <2>1, <2>2 DEF RearmIsOwed, ShutdownPoints
  <1>24. CASE UNCHANGED vars
    BY <1>0, <1>24 DEF vars, worker, session, watching, RearmIsOwed
  <1> QED BY <1>1, <1>2, <1>3, <1>4, <1>5, <1>6, <1>7, <1>8, <1>9, <1>10, <1>11, <1>12,
             <1>13, <1>14, <1>15, <1>16, <1>17, <1>18, <1>19, <1>20, <1>21, <1>22, <1>23,
             <1>24
          DEF Next, Worker, Cycle, Request, Idle, Active, Shutdown

\* THEOREM.  However a session that an event ended is torn down, at once or in
\* many attempts, with whatever fails, once the worker is at rest discovery is
\* armed again, or latched in a failure the user is told of
\* (runtime_physical.c: finish_watch and the completed cleanup).
THEOREM EventsRearm == Spec => []EventEndsRearm
  <1>1. Init => RInv
    BY DEF Init, RInv, SessionIsLive, SessionIsFree, RearmIsOwed, NoMedia, NotEnding
  <1>2. JInv /\ RInv /\ [Next]_vars => RInv'
    BY SessionStaysLive, SessionStaysFree, RearmStaysOwed DEF RInv
  <1>3. RInv => EventEndsRearm
    BY DEF RInv, RearmIsOwed, EventEndsRearm, AtRest, Armed, ShutdownPoints
  <1> QED BY EjectInvariant, <1>1, <1>2, <1>3, PTL DEF Spec

-----------------------------------------------------------------------------
(* The ring.  Each operation of it is shown to be the operation of the     *)
(* queue of the same name, by the places the entries have before and after *)
(* it.                                                                     *)

Held == Ring!Queue!Entries \cup {Ring!Blank}

\* The head is an index, and the entries are no more than there is room for.
RingTyped == /\ entries \in [Ring!Slots -> Held]
             /\ head \in Ring!Slots
             /\ count \in 0 .. Capacity

\* The sequence of requests the ring stands for.
Contents == [i \in 1 .. count |-> entries[Ring!Slot(i - 1)]]

-----------------------------------------------------------------------------
\* An offset from an index wraps at most once.
LEMMA WrapsOnce ==
  ASSUME Ring!RingAssumption, NEW h \in Ring!Slots, NEW o \in 0 .. Capacity
  PROVE  /\ (h + o) % Capacity = IF h + o < Capacity THEN h + o ELSE h + o - Capacity
         /\ (h + o) % Capacity \in Ring!Slots
  <1>1. Capacity \in Nat /\ Capacity > 0 /\ h \in Nat /\ h < Capacity /\ o \in Nat /\ o <= Capacity
    BY DEF Ring!RingAssumption, Ring!Slots
  <1>2. CASE h + o < Capacity
    <2>1. (h + o) % Capacity = h + o
      BY <1>1, <1>2, SMTT(20)
    <2> QED BY <1>1, <1>2, <2>1 DEF Ring!Slots
  <1>3. CASE h + o >= Capacity
    <2>1. (h + o) % Capacity = h + o - Capacity
      BY <1>1, <1>3, SMTT(20)
    <2> QED BY <1>1, <1>3, <2>1 DEF Ring!Slots
  <1> QED BY <1>1, <1>2, <1>3

\* Different offsets below the capacity are different slots.
LEMMA SlotsDiffer ==
  ASSUME Ring!RingAssumption, head \in Ring!Slots,
         NEW o \in 0 .. Capacity - 1, NEW p \in 0 .. Capacity - 1, Ring!Slot(o) = Ring!Slot(p)
  PROVE  o = p
  <1>1. /\ Ring!Slot(o) = IF head + o < Capacity THEN head + o ELSE head + o - Capacity
        /\ Ring!Slot(p) = IF head + p < Capacity THEN head + p ELSE head + p - Capacity
    BY WrapsOnce DEF Ring!Slot, Ring!RingAssumption
  <1>2. (IF head + o < Capacity THEN head + o ELSE head + o - Capacity)
          = IF head + p < Capacity THEN head + p ELSE head + p - Capacity
    BY <1>1
  <1>3. Capacity \in Nat /\ head \in 0 .. Capacity - 1
    BY DEF Ring!Slots, Ring!RingAssumption
  <1> QED BY <1>2, <1>3

\* The slot below the insertion, wrapped, is that of the youngest entry.
LEMMA TailIsYoungest ==
  ASSUME Ring!RingAssumption, head \in Ring!Slots, count \in 1 .. Capacity
  PROVE  Ring!TailSlot = Ring!Slot(count - 1)
  <1>1. /\ Ring!Slot(count) = IF head + count < Capacity THEN head + count
                                                    ELSE head + count - Capacity
        /\ Ring!Slot(count - 1) = IF head + (count - 1) < Capacity
                             THEN head + (count - 1) ELSE head + (count - 1) - Capacity
    BY WrapsOnce DEF Ring!Slot, Ring!RingAssumption
  <1> QED BY <1>1 DEF Ring!TailSlot, Ring!Insertion, Ring!Slots, Ring!RingAssumption

\* The contents are a sequence of entries, as long as the count says.
LEMMA ContentsAreASequence ==
  ASSUME Ring!RingAssumption, RingTyped
  PROVE  /\ Contents \in Seq(Held) /\ Len(Contents) = count
         /\ DOMAIN Contents = 1 .. count
         /\ \A i \in 1 .. count : /\ Ring!Slot(i - 1) \in Ring!Slots
                                  /\ Contents[i] = entries[Ring!Slot(i - 1)]
         /\ Contents = <<>> <=> count = 0
  <1>1. ASSUME NEW i \in 1 .. count PROVE Ring!Slot(i - 1) \in Ring!Slots
    <2>1. i - 1 \in 0 .. Capacity
      BY DEF RingTyped, Ring!RingAssumption
    <2> QED BY <2>1, WrapsOnce DEF RingTyped, Ring!Slot
  <1>2. ASSUME NEW i \in 1 .. count PROVE entries[Ring!Slot(i - 1)] \in Held
    BY <1>1 DEF RingTyped
  <1>3. count \in Nat
    BY DEF RingTyped, Ring!RingAssumption
  <1>4. Contents \in [1 .. count -> Held]
    BY <1>2 DEF Contents
  <1>5. Contents \in Seq(Held) /\ Len(Contents) = count
    BY <1>3, <1>4
  <1>6. Contents = <<>> <=> count = 0
    BY <1>3, <1>5, EmptySeq
  <1> QED BY <1>1, <1>3, <1>5, <1>6 DEF Contents

\* Whatever the step, the contents after it are a sequence too.
LEMMA ContentsStayASequence ==
  ASSUME Ring!RingAssumption, RingTyped'
  PROVE  /\ Contents' \in Seq(Held) /\ Len(Contents') = count'
         /\ \A i \in 1 .. count' : Contents'[i] = entries'[(head' + (i - 1)) % Capacity]
  <1>1. ASSUME NEW i \in 1 .. count' PROVE entries'[(head' + (i - 1)) % Capacity] \in Held
    <2>1. i - 1 \in 0 .. Capacity
      BY DEF RingTyped, Ring!RingAssumption
    <2>2. (head' + (i - 1)) % Capacity \in Ring!Slots
      BY <2>1, WrapsOnce DEF RingTyped, Ring!Slots
    <2> QED BY <2>2 DEF RingTyped, Ring!Slots
  <1>2. count' \in Nat
    BY DEF RingTyped, Ring!RingAssumption
  <1>3. Contents' = [i \in 1 .. count' |-> entries'[(head' + (i - 1)) % Capacity]]
    BY DEF Contents, Ring!Slot
  <1>4. Contents' \in [1 .. count' -> Held]
    BY <1>1, <1>3
  <1> QED BY <1>2, <1>3, <1>4

-----------------------------------------------------------------------------
\* The ring merges a request exactly when the queue does.
LEMMA MergesAlike ==
  ASSUME Ring!RingAssumption, RingTyped, NEW entry \in Ring!Queue!Entries
  PROVE  Ring!Replaces(entry) <=> Ring!Queue!Replaces(Contents, entry)
  <1>1. CASE count = 0
    BY <1>1, ContentsAreASequence DEF Ring!Replaces, Ring!Queue!Replaces
  <1>2. CASE count > 0
    <2>1. count \in 1 .. Capacity /\ head \in Ring!Slots
      BY <1>2 DEF RingTyped, Ring!RingAssumption
    <2>2. Contents # <<>> /\ Len(Contents) = count /\ Contents[count] = entries[Ring!TailSlot]
      BY <1>2, <2>1, ContentsAreASequence, TailIsYoungest
    <2> QED BY <1>2, <2>2 DEF Ring!Replaces, Ring!Queue!Replaces
  <1> QED BY <1>1, <1>2 DEF RingTyped, Ring!RingAssumption

\* An entry put in the ring is put in the queue.
LEMMA EnqueueIsEnqueue ==
  ASSUME Ring!RingAssumption, RingTyped, NEW entry \in Ring!Queue!Entries, Ring!Enqueue(entry)
  PROVE  /\ RingTyped'
         /\ Ring!Queue!Accepts(Contents, entry)
         /\ Contents' = Ring!Queue!Enqueued(Contents, entry)
         /\ taken' = taken
  <1>1. /\ Capacity \in Nat /\ Capacity > 0 /\ head \in Ring!Slots /\ entry \in Held
        /\ count \in 0 .. Capacity /\ entries \in [Ring!Slots -> Held]
    BY DEF RingTyped, Ring!RingAssumption, Held
  <1>2. CASE Ring!Replaces(entry)
    <2>1. /\ entries' = [entries EXCEPT ![Ring!TailSlot] = entry]
          /\ head' = head /\ count' = count /\ taken' = taken
      BY <1>2 DEF Ring!Enqueue
    <2>2. count \in 1 .. Capacity
      BY <1>1, <1>2 DEF Ring!Replaces
    <2>3. Ring!TailSlot = Ring!Slot(count - 1) /\ Ring!TailSlot \in Ring!Slots
      BY <1>1, <2>2, TailIsYoungest, ContentsAreASequence
    <2>4. RingTyped'
      BY <1>1, <2>1 DEF RingTyped, Ring!Slots
    <2>5. Ring!Queue!Replaces(Contents, entry)
      BY <1>2, MergesAlike
    <2>6. Contents' = [Contents EXCEPT ![Len(Contents)] = entry]
      <3>1. /\ [Contents EXCEPT ![count] = entry] \in Seq(Held)
            /\ Len([Contents EXCEPT ![count] = entry]) = count
            /\ \A i \in 1 .. count : [Contents EXCEPT ![count] = entry][i]
                                       = IF i = count THEN entry ELSE Contents[i]
        BY <1>1, <2>2, ContentsAreASequence, ExceptSeq
      <3>2. ASSUME NEW i \in 1 .. count
            PROVE  Contents'[i] = IF i = count THEN entry ELSE Contents[i]
        <4>1. Contents'[i] = entries'[Ring!Slot(i - 1)]
          BY <2>1, <2>4, ContentsStayASequence DEF Ring!Slot
        <4>2. Ring!Slot(i - 1) \in Ring!Slots /\ Contents[i] = entries[Ring!Slot(i - 1)]
          BY ContentsAreASequence
        <4>3. i # count => Ring!Slot(i - 1) # Ring!TailSlot
          <5>1. i - 1 \in 0 .. Capacity - 1 /\ count - 1 \in 0 .. Capacity - 1
            BY <1>1, <2>2
          <5>2. Ring!Slot(i - 1) = Ring!Slot(count - 1) => i - 1 = count - 1
            BY <1>1, <5>1, SlotsDiffer
          <5> QED BY <1>1, <2>3, <5>2
        <4> QED BY <1>1, <2>1, <2>3, <4>1, <4>2, <4>3
      <3>3. Contents' \in Seq(Held) /\ Len(Contents') = count /\ Len(Contents) = count
        BY <2>1, <2>4, ContentsStayASequence, ContentsAreASequence
      <3> QED BY <3>1, <3>2, <3>3, SeqEqual
    <2> QED BY <2>1, <2>4, <2>5, <2>6 DEF Ring!Queue!Accepts, Ring!Queue!Enqueued
  <1>3. CASE ~Ring!Replaces(entry)
    <2>1. /\ count < Capacity /\ count' = count + 1
          /\ entries' = [entries EXCEPT ![Ring!Insertion] = entry]
          /\ head' = head /\ taken' = taken
      BY <1>3 DEF Ring!Enqueue
    <2>2. Ring!Insertion = Ring!Slot(count) /\ Ring!Insertion \in Ring!Slots
      BY <1>1, WrapsOnce DEF Ring!Insertion, Ring!Slot
    <2>3. RingTyped'
      <3>1. count' \in 0 .. Capacity
        BY <1>1, <2>1
      <3>2. entries' \in [Ring!Slots -> Held]
        BY <1>1, <2>1
      <3> QED BY <1>1, <2>1, <3>1, <3>2 DEF RingTyped, Ring!Slots
    <2>4. ~Ring!Queue!Replaces(Contents, entry)
      BY <1>3, MergesAlike
    <2>5. Len(Contents) = count /\ Contents \in Seq(Held)
      BY ContentsAreASequence
    <2>6. Contents' = Append(Contents, entry)
      <3>1. /\ Append(Contents, entry) \in Seq(Held)
            /\ Len(Append(Contents, entry)) = count + 1
            /\ \A i \in 1 .. count : Append(Contents, entry)[i] = Contents[i]
            /\ Append(Contents, entry)[count + 1] = entry
        BY <1>1, <2>5, AppendProperties
      <3>2. ASSUME NEW i \in 1 .. count + 1
            PROVE  Contents'[i] = IF i = count + 1 THEN entry ELSE Contents[i]
        <4>1. Contents'[i] = entries'[Ring!Slot(i - 1)]
          BY <2>1, <2>3, ContentsStayASequence DEF Ring!Slot
        <4>2. CASE i = count + 1
          BY <1>1, <2>1, <2>2, <4>1, <4>2
        <4>3. CASE i # count + 1
          <5>1. i \in 1 .. count
            BY <1>1, <4>3
          <5>2. Ring!Slot(i - 1) \in Ring!Slots /\ Contents[i] = entries[Ring!Slot(i - 1)]
            BY <5>1, ContentsAreASequence
          <5>3. i - 1 \in 0 .. Capacity - 1 /\ count \in 0 .. Capacity - 1
            BY <1>1, <2>1, <5>1
          <5>4. Ring!Slot(i - 1) = Ring!Slot(count) => i - 1 = count
            BY <1>1, <5>3, SlotsDiffer
          <5>5. Ring!Slot(i - 1) # Ring!Insertion
            BY <1>1, <2>2, <4>3, <5>4
          <5> QED BY <1>1, <2>1, <2>2, <4>1, <4>3, <5>2, <5>5
        <4> QED BY <4>2, <4>3
      <3>3. Contents' \in Seq(Held) /\ Len(Contents') = count + 1
        BY <2>1, <2>3, ContentsStayASequence
      <3>4. \A i \in 1 .. count + 1 : Contents'[i] = Append(Contents, entry)[i]
        BY <1>1, <3>1, <3>2
      <3> QED BY <3>1, <3>3, <3>4, SeqEqual
    <2> QED BY <2>1, <2>3, <2>4, <2>5, <2>6 DEF Ring!Queue!Accepts, Ring!Queue!Enqueued
  <1> QED BY <1>2, <1>3

\* The oldest entry leaves the ring as it leaves the queue.
LEMMA DequeueIsDequeue ==
  ASSUME Ring!RingAssumption, RingTyped, Ring!Dequeue
  PROVE  /\ RingTyped'
         /\ Contents # <<>> /\ taken' = Head(Contents) /\ Contents' = Tail(Contents)
  <1>1. /\ Capacity \in Nat /\ Capacity > 0 /\ head \in Ring!Slots /\ count \in 1 .. Capacity
        /\ entries' = entries /\ count' = count - 1 /\ taken' = entries[head]
        /\ head' = IF count' = 0 THEN 0 ELSE (head + 1) % Capacity
    BY DEF RingTyped, Ring!RingAssumption, Ring!Dequeue, Ring!NextHead
  <1>2. (head + 1) % Capacity \in Ring!Slots /\ 0 \in Ring!Slots
    BY <1>1, WrapsOnce DEF Ring!Slots
  <1>3. RingTyped'
    BY <1>1, <1>2 DEF RingTyped, Ring!Slots
  <1>4. /\ Contents \in Seq(Held) /\ Len(Contents) = count /\ Contents # <<>>
        /\ \A i \in 1 .. count : Contents[i] = entries[Ring!Slot(i - 1)]
    BY <1>1, ContentsAreASequence
  <1>5. taken' = Head(Contents)
    <2>1. Ring!Slot(0) = head
      BY <1>1, WrapsOnce DEF Ring!Slot, Ring!Slots
    <2> QED BY <1>1, <1>4, <2>1
  <1>6. Contents' = Tail(Contents)
    <2>1. /\ Tail(Contents) \in Seq(Held) /\ Len(Tail(Contents)) = count - 1
          /\ \A i \in 1 .. count - 1 : Tail(Contents)[i] = Contents[i + 1]
      BY <1>4, HeadTailProperties
    <2>2. Contents' \in Seq(Held) /\ Len(Contents') = count - 1
      BY <1>1, <1>3, ContentsStayASequence
    <2>3. ASSUME NEW i \in 1 .. count - 1 PROVE Contents'[i] = Contents[i + 1]
      <3>1. head' = (head + 1) % Capacity
        BY <1>1
      <3>2. Contents'[i] = entries[(head' + (i - 1)) % Capacity]
        BY <1>1, <1>3, ContentsStayASequence
      <3>3. (head' + (i - 1)) % Capacity = Ring!Slot(i)
        <4>1. i \in 0 .. Capacity /\ i - 1 \in 0 .. Capacity /\ 1 \in 0 .. Capacity
          BY <1>1
        <4>2. head' = IF head + 1 < Capacity THEN head + 1 ELSE head + 1 - Capacity
          BY <1>1, <3>1, <4>1, WrapsOnce
        <4>3. (head' + (i - 1)) % Capacity
                = IF head' + (i - 1) < Capacity THEN head' + (i - 1)
                                                ELSE head' + (i - 1) - Capacity
          BY <1>2, <3>1, <4>1, WrapsOnce
        <4>4. Ring!Slot(i) = IF head + i < Capacity THEN head + i ELSE head + i - Capacity
          BY <1>1, <4>1, WrapsOnce DEF Ring!Slot
        <4> QED BY <1>1, <4>2, <4>3, <4>4 DEF Ring!Slots
      <3> QED BY <1>1, <1>4, <3>2, <3>3
    <2> QED BY <2>1, <2>2, <2>3, SeqEqual
  <1> QED BY <1>3, <1>4, <1>5, <1>6

-----------------------------------------------------------------------------
\* Where the entries of a ring are after a younger one was taken out of the
\* middle: those before it stay, those behind it are one slot down.
LEMMA OthersMoveDown ==
  ASSUME Ring!RingAssumption, RingTyped, NEW offset \in 0 .. count - 1, NEW i \in 1 .. count - 1
  PROVE  Ring!MovedDown(offset)[Ring!Slot(i - 1)]
           = IF i <= offset THEN Contents[i] ELSE Contents[i + 1]
  <1>1. /\ Capacity \in Nat /\ Capacity > 0 /\ head \in Ring!Slots /\ count \in 0 .. Capacity
        /\ offset \in Nat /\ i \in Nat /\ i \in 1 .. count /\ i + 1 \in 1 .. count
    BY DEF RingTyped, Ring!RingAssumption
  <1>2. /\ Ring!Slot(i - 1) \in Ring!Slots /\ Contents[i] = entries[Ring!Slot(i - 1)]
        /\ Contents[i + 1] = entries[Ring!Slot(i)]
    BY <1>1, ContentsAreASequence
  <1> DEFINE moved == {k \in offset + 1 .. count - 1 : Ring!Slot(k - 1) = Ring!Slot(i - 1)}
  <1>3. Ring!MovedDown(offset)[Ring!Slot(i - 1)]
          = IF moved = {} THEN entries[Ring!Slot(i - 1)]
                          ELSE entries[Ring!Slot(CHOOSE k \in moved : TRUE)]
    BY <1>2 DEF Ring!MovedDown
  <1>4. ASSUME NEW k \in moved PROVE k = i
    <2>1. k \in offset + 1 .. count - 1 /\ Ring!Slot(k - 1) = Ring!Slot(i - 1)
      OBVIOUS
    <2>2. k - 1 \in 0 .. Capacity - 1 /\ i - 1 \in 0 .. Capacity - 1
      BY <1>1, <2>1
    <2>3. k - 1 = i - 1
      BY <1>1, <2>1, <2>2, SlotsDiffer
    <2> QED BY <1>1, <2>1, <2>3
  <1>5. CASE i <= offset
    <2>1. moved = {}
      <3>1. i \notin offset + 1 .. count - 1
        BY <1>1, <1>5
      <3> QED BY <1>4, <3>1
    <2> QED BY <1>2, <1>3, <1>5, <2>1
  <1>6. CASE ~(i <= offset)
    <2>1. i \in moved
      BY <1>1, <1>6
    <2>2. (CHOOSE k \in moved : TRUE) = i
      BY <1>4, <2>1
    <2> QED BY <1>2, <1>3, <1>6, <2>1, <2>2
  <1> QED BY <1>5, <1>6

\* Moving entries down keeps the array an array of entries.
LEMMA MovedDownIsTyped ==
  ASSUME Ring!RingAssumption, RingTyped, NEW offset \in 0 .. count - 1
  PROVE  Ring!MovedDown(offset) \in [Ring!Slots -> Held]
  <1> SUFFICES ASSUME NEW slot \in Ring!Slots PROVE Ring!MovedDown(offset)[slot] \in Held
    BY DEF Ring!MovedDown
  <1> DEFINE moved == {k \in offset + 1 .. count - 1 : Ring!Slot(k - 1) = slot}
  <1>1. Ring!MovedDown(offset)[slot]
          = IF moved = {} THEN entries[slot] ELSE entries[Ring!Slot(CHOOSE k \in moved : TRUE)]
    BY DEF Ring!MovedDown
  <1>2. CASE moved = {}
    BY <1>1, <1>2 DEF RingTyped
  <1>3. CASE moved # {}
    <2>1. (CHOOSE k \in moved : TRUE) \in offset + 1 .. count - 1
      BY <1>3
    <2>2. ASSUME NEW k \in offset + 1 .. count - 1 PROVE Ring!Slot(k) \in Ring!Slots
      <3>1. k \in 0 .. Capacity
        BY DEF RingTyped, Ring!RingAssumption
      <3> QED BY <3>1, WrapsOnce DEF RingTyped, Ring!Slot
    <2>3. Ring!Slot(CHOOSE k \in moved : TRUE) \in Ring!Slots
      BY <2>1, <2>2
    <2> QED BY <1>1, <1>3, <2>3 DEF RingTyped
  <1> QED BY <1>2, <1>3

\* The oldest setup request leaves the ring as it leaves the queue.
LEMMA TakeSetupIsTakeSetup ==
  ASSUME Ring!RingAssumption, RingTyped, Ring!TakeSetup
  PROVE  /\ RingTyped'
         /\ Ring!Queue!SetupPositions(Contents) # {}
         /\ taken' = Contents[Ring!Queue!FirstSetup(Contents)]
         /\ Contents' = Ring!Queue!Without(Contents, Ring!Queue!FirstSetup(Contents))
  <1>1. PICK offset \in 0 .. count - 1 :
          /\ Ring!IsSetup(offset)
          /\ \A earlier \in 0 .. offset - 1 : ~Ring!IsSetup(earlier)
          /\ taken' = entries[Ring!Slot(offset)]
          /\ entries' = Ring!MovedDown(offset)
          /\ count' = count - 1
          /\ head' = IF count' = 0 THEN 0 ELSE head
    BY DEF Ring!TakeSetup
  <1>2. /\ Capacity \in Nat /\ Capacity > 0 /\ head \in Ring!Slots /\ count \in 1 .. Capacity
        /\ offset \in Nat /\ offset < count
    BY DEF RingTyped, Ring!RingAssumption
  <1>3. /\ Contents \in Seq(Held) /\ Len(Contents) = count
        /\ \A i \in 1 .. count : Contents[i] = entries[Ring!Slot(i - 1)]
    BY ContentsAreASequence
  <1>4. RingTyped'
    <2>1. entries' \in [Ring!Slots -> Held]
      BY <1>1, MovedDownIsTyped
    <2>2. count' \in 0 .. Capacity /\ head' \in Ring!Slots
      BY <1>1, <1>2 DEF Ring!Slots
    <2> QED BY <2>1, <2>2 DEF RingTyped, Ring!Slots
  <1> DEFINE positions == Ring!Queue!SetupPositions(Contents)
  <1>5. \A i \in 1 .. count : i \in positions <=> Ring!IsSetup(i - 1)
    BY <1>3 DEF Ring!Queue!SetupPositions, Ring!IsSetup
  <1>6. Ring!Queue!FirstSetup(Contents) = offset + 1 /\ positions # {}
    <2>1. offset + 1 \in positions
      BY <1>1, <1>2, <1>5
    <2>2. ASSUME NEW j \in positions PROVE j \in Nat /\ offset + 1 <= j
      <3>1. j \in 1 .. count
        BY <1>3 DEF Ring!Queue!SetupPositions
      <3>2. Ring!IsSetup(j - 1)
        BY <1>5, <3>1
      <3>3. j - 1 \notin 0 .. offset - 1
        BY <1>1, <3>2
      <3> QED BY <1>2, <3>1, <3>3
    <2>3. ASSUME NEW i \in positions, \A j \in positions : i <= j PROVE i = offset + 1
      BY <1>2, <2>1, <2>2, <2>3
    <2> QED BY <2>1, <2>2, <2>3 DEF Ring!Queue!FirstSetup
  <1>7. taken' = Contents[offset + 1]
    <2>1. offset + 1 \in 1 .. count /\ (offset + 1) - 1 = offset
      BY <1>2
    <2> QED BY <1>1, <1>3, <2>1
  <1>8. Contents' = Ring!Queue!Without(Contents, offset + 1)
    <2> DEFINE older == SubSeq(Contents, 1, offset)
               younger == SubSeq(Contents, offset + 2, count)
    <2>1. \A i \in 1 .. count : Contents[i] \in Held
      BY <1>3, ElementOfSeq
    <2>2. /\ older \in Seq(Held) /\ Len(older) = offset
          /\ \A i \in 1 .. offset : older[i] = Contents[i]
      <3>1. \A i \in 1 .. offset : Contents[i] \in Held
        BY <1>2, <2>1
      <3>2. /\ older \in Seq(Held)
            /\ Len(older) = IF 1 <= offset THEN offset - 1 + 1 ELSE 0
            /\ \A i \in 1 .. offset - 1 + 1 : older[i] = Contents[1 + i - 1]
        BY <1>2, <3>1, SubSeqProperties
      <3> QED BY <1>2, <3>2
    <2>3. /\ younger \in Seq(Held) /\ Len(younger) = count - 1 - offset
          /\ \A i \in 1 .. count - 1 - offset : younger[i] = Contents[offset + 1 + i]
      <3>1. \A i \in offset + 2 .. count : Contents[i] \in Held
        BY <1>2, <2>1
      <3>2. /\ younger \in Seq(Held)
            /\ Len(younger) = IF offset + 2 <= count THEN count - (offset + 2) + 1 ELSE 0
            /\ \A i \in 1 .. count - (offset + 2) + 1 :
                 younger[i] = Contents[offset + 2 + i - 1]
        BY <1>2, <3>1, SubSeqProperties
      <3> QED BY <1>2, <3>2
    <2>4. /\ older \o younger \in Seq(Held) /\ Len(older \o younger) = count - 1
          /\ \A i \in 1 .. count - 1 :
               (older \o younger)[i] = IF i <= offset THEN older[i] ELSE younger[i - offset]
      <3> HIDE DEF older, younger
      <3>1. /\ older \o younger \in Seq(Held)
            /\ Len(older \o younger) = Len(older) + Len(younger)
            /\ \A i \in 1 .. Len(older) + Len(younger) :
                 (older \o younger)[i] = IF i <= Len(older) THEN older[i]
                                                         ELSE younger[i - Len(older)]
        BY <2>2, <2>3, ConcatProperties
      <3>2. Len(older) + Len(younger) = count - 1
        BY <1>2, <2>2, <2>3
      <3>3. Len(older) = offset
        BY <2>2
      <3> QED BY <3>1, <3>2, <3>3
    <2>5. Contents' \in Seq(Held) /\ Len(Contents') = count - 1
      BY <1>1, <1>4, ContentsStayASequence
    <2>6. ASSUME NEW i \in 1 .. count - 1
          PROVE  Contents'[i] = IF i <= offset THEN Contents[i] ELSE Contents[i + 1]
      <3>1. count' = count - 1 /\ head' = head
        BY <1>1, <1>2
      <3>2. Contents'[i] = entries'[Ring!Slot(i - 1)]
        BY <1>4, <3>1, ContentsStayASequence DEF Ring!Slot
      <3> QED BY <1>1, <3>2, OthersMoveDown
    <2>7. ASSUME NEW i \in 1 .. count - 1 PROVE Contents'[i] = (older \o younger)[i]
      <3> HIDE DEF older, younger
      <3>1. CASE i <= offset
        <4>1. i \in 1 .. offset
          BY <1>2, <3>1
        <4> QED BY <2>2, <2>4, <2>6, <3>1, <4>1
      <3>2. CASE ~(i <= offset)
        <4>1. i - offset \in 1 .. count - 1 - offset /\ offset + 1 + (i - offset) = i + 1
          BY <1>2, <3>2
        <4> QED BY <2>3, <2>4, <2>6, <3>2, <4>1
      <3> QED BY <3>1, <3>2
    <2>8. Contents' = older \o younger
      <3> HIDE DEF older, younger
      <3> QED BY <2>4, <2>5, <2>7, SeqEqual
    <2>9. offset + 1 - 1 = offset /\ offset + 1 + 1 = offset + 2
      BY <1>2
    <2>10. Ring!Queue!Without(Contents, offset + 1)
             = SubSeq(Contents, 1, offset + 1 - 1) \o SubSeq(Contents, offset + 1 + 1, count)
      BY <1>3 DEF Ring!Queue!Without
    <2> QED BY <2>8, <2>9, <2>10
  <1> QED BY <1>4, <1>6, <1>7, <1>8

-----------------------------------------------------------------------------
\* An empty ring is an empty queue from which nothing was taken.
LEMMA RingStartsEmpty ==
  ASSUME Ring!RingAssumption, Ring!Init
  PROVE  RingTyped /\ Ring!Queue!QueueInit
  <1>1. RingTyped
    BY DEF Ring!Init, RingTyped, Ring!RingAssumption, Ring!Slots, Held, Ring!Blank
  <1>2. Contents = <<>>
    BY <1>1, ContentsAreASequence DEF Ring!Init
  <1> QED BY <1>1, <1>2
    DEF Ring!Init, Ring!Queue!QueueInit, Ring!Queue!NoRequest, Ring!Blank, Contents

\* Each step of the ring is a step of the queue, or leaves it alone.
LEMMA RingStepIsQueueStep ==
  ASSUME Ring!RingAssumption, RingTyped, [Ring!Next]_(Ring!vars)
  PROVE  RingTyped' /\ [Ring!Queue!QueueNext]_<<Contents, taken>>
  <1>1. ASSUME NEW entry \in Ring!Queue!Entries, Ring!Enqueue(entry)
        PROVE  RingTyped' /\ Ring!Queue!Enqueue(entry)
    BY <1>1, EnqueueIsEnqueue DEF Ring!Queue!Enqueue, Contents
  <1>2. CASE Ring!Dequeue
    <2>1. Ring!Queue!Dequeue
      BY <1>2, DequeueIsDequeue DEF Ring!Queue!Dequeue, Contents
    <2> QED BY <1>2, <2>1, DequeueIsDequeue DEF Ring!Queue!QueueNext
  <1>3. CASE Ring!TakeSetup
    <2>1. Ring!Queue!TakeSetup
      BY <1>3, TakeSetupIsTakeSetup DEF Ring!Queue!TakeSetup, Contents
    <2> QED BY <1>3, <2>1, TakeSetupIsTakeSetup DEF Ring!Queue!QueueNext
  <1>4. CASE UNCHANGED Ring!vars
    BY <1>4 DEF Ring!vars, RingTyped, Ring!Slots, Contents, Ring!Slot
  <1>5. CASE \E entry \in Ring!Queue!Entries : Ring!Enqueue(entry)
    BY <1>1, <1>5 DEF Ring!Queue!QueueNext
  <1> QED BY <1>2, <1>3, <1>4, <1>5 DEF Ring!Next

\* KeepsTheQueue: a ring of any size, wherever its head has wrapped to, is the
\* queue: requests leave it in order, merge, and are taken out of the middle
\* as they are in a sequence without end.
THEOREM RingKeepsTheQueue == RuntimeSpec => KeepsTheQueue
  <1>1. RuntimeInit => RingTyped /\ Ring!Queue!QueueInit
    BY RingIsSized, RingStartsEmpty DEF RuntimeInit
  <1>2. [RuntimeNext]_<<part, vars, ring, playback>> => [Ring!Next]_(Ring!vars)
    BY DEF RuntimeNext, ring, Ring!vars
  <1>3. RingTyped /\ [Ring!Next]_(Ring!vars)
          => RingTyped' /\ [Ring!Queue!QueueNext]_<<Contents, taken>>
    BY RingIsSized, RingStepIsQueueStep
  <1> QED BY <1>1, <1>2, <1>3, PTL
        DEF RuntimeSpec, KeepsTheQueue, Ring!KeepsTheQueue, Ring!Queue!QueueSpec, Contents

-----------------------------------------------------------------------------
(* The emulators.                                                          *)

\* A process object is held exactly while it has an owner; without one there
\* is neither a call under way nor anything in the world that was started.
HeldIsOwned ==
  /\ handle.held <=> owner # "none"
  /\ owner = "none" => /\ handle = Emulators!NoHandle /\ op = Emulators!NoCall
                       /\ process.leader = "none" /\ "xenia" \notin process.helpers
                       /\ process.mounter = "none" /\ ~process.mount /\ ~process.files
  /\ process.windows => owner # "dolphin"

\* The mount, its server and its directory are there only under a bridge.
ViewIsBridged ==
  /\ handle.bridge => Emulators!Bridged(owner)
  /\ ~handle.bridge => process.mounter = "none" /\ ~process.mount /\ ~process.files
  /\ process.mount => process.files

\* What the handle remembers of the child and its group is there.
ChildIsKnown ==
  /\ handle.reaped => process.leader = "none"
  /\ handle.pid => process.leader # "none" /\ ~process.other
  /\ handle.group \/ "xenia" \in process.helpers => Emulators!Grouped(owner)
  /\ "xenia" \in process.helpers => handle.group
  /\ Emulators!Grouped(owner) /\ process.leader = "runs" => handle.group

\* Where a call is: the child is not there before it is spawned, nor when the
\* mount is taken down.
CallIsPlaced ==
  /\ op.call = "none" => op = Emulators!NoCall
  /\ op.call # "none" => op.at # "idle"
  /\ op.at \in {"bridge", "spawn"} => op.call = "start" /\ ~handle.reaped
  /\ op.at = "bridge" => ~handle.bridge
  /\ op.at \in {"bridge", "spawn", "unmount", "remove"} => process.leader = "none" /\ "xenia" \notin process.helpers
  /\ op.at = "query" => op.call # "start"
  /\ op.at \in {"unmount", "remove"} =>
       op.then \in IF op.call = "start" THEN {"retain", "leak"} ELSE {"release", "polled"}
  /\ owner = "dolphin" => op.phase # "forced" /\ op.then # "leak"
  /\ op.call = "start" => op.at # "query" /\ (op.at # "spawn" => Emulators!Bridged(owner))

\* What a call found when it began.
BeginIsRemembered ==
  /\ op.call = "start" =>
       /\ op.begin.owner = "none" /\ ~op.begin.handle /\ ~op.begin.alive
       /\ (owner = "xenia" => ~op.begin.storage /\ storage)
       /\ (owner # "xenia" => storage = op.begin.storage)
  /\ op.call \in {"stop", "poll"} =>
       /\ op.begin.owner = owner /\ op.begin.handle /\ op.begin.storage = storage
       /\ Emulators!Alive => op.begin.alive

\* Dolphin is asked once, and strangers are met by Xenia's group only.
RequestsAreCounted ==
  /\ ghost.terms \in 0 .. 1 /\ (handle.held /\ ~handle.shut => ghost.terms = 0)
  /\ ghost.hurt \subseteq {"xenia"}

EmulatorsInv ==
  /\ Emulators!TypeOK /\ HeldIsOwned /\ ViewIsBridged /\ ChildIsKnown
  /\ CallIsPlaced /\ BeginIsRemembered /\ RequestsAreCounted

\* A migration runs only while no emulator is owned, and its helper only
\* where it is waited for; the vault that was validated is the one that was
\* proved; and once a refused one was let pass, no other is begun.
SavesInv ==
  /\ Emulators!SavesTypeOK
  /\ mig.at # "idle" => owner = "none"
  /\ mig.child # "none" => mig.at = "helper"
  /\ mig.at = "remains" => disk.vault = mig.proof
  /\ mig.at \notin {"idle", "granted"} => ~rejected
  /\ Emulators!OldSavesAreAccountedFor

-----------------------------------------------------------------------------
\* The saves: nothing but the migration moves what a migration relies on.
LEMMA SavesStart == RuntimeInit => SavesInv
  <1> SUFFICES ASSUME RuntimeInit PROVE SavesInv
    OBVIOUS
  <1>1. Emulators!SavesInit
    BY DEF RuntimeInit, PlaybackAtRest, Emulators!PlaybackInit
  <1>2. Emulators!NoMigration \in Emulators!Migrations
    BY DEF Emulators!NoMigration, Emulators!NoReport, Emulators!Migrations,
           Emulators!Reports, Emulators!Verdicts
  <1>3. Emulators!SavesTypeOK
    BY <1>1, <1>2 DEF Emulators!SavesInit, Emulators!SavesTypeOK, Emulators!Disks
  <1>4. mig.at = "idle" /\ mig.child = "none" /\ ~rejected
    BY <1>1 DEF Emulators!SavesInit, Emulators!NoMigration
  <1> QED BY <1>3, <1>4 DEF SavesInv, Emulators!OldSavesAreAccountedFor, Emulators!RefusedIsKept

\* A migration that is refused, goes on or is granted keeps its record typed.
LEMMA MigrationIsTyped ==
  ASSUME Emulators!SavesTypeOK
  PROVE  /\ Emulators!NoMigration \in Emulators!Migrations /\ Emulators!NoMigration.at = "idle"
         /\ Emulators!NoMigration.child = "none"
         /\ \A at \in {"idle", "look", "helper", "rejected", "validate", "remains", "granted"} :
              /\ [mig EXCEPT !.at = at] \in Emulators!Migrations /\ [mig EXCEPT !.at = at].at = at
              /\ [mig EXCEPT !.at = at].proof = mig.proof /\ [mig EXCEPT !.at = at].child = mig.child
         /\ \A v \in Emulators!Verdicts :
              /\ [mig EXCEPT !.at = "granted", !.verdict = v] \in Emulators!Migrations
              /\ [mig EXCEPT !.at = "granted", !.verdict = v].at = "granted"
              /\ [mig EXCEPT !.at = "granted", !.verdict = v].verdict = v
              /\ [mig EXCEPT !.at = "granted", !.verdict = v].bytes = mig.bytes
              /\ [mig EXCEPT !.at = "granted", !.verdict = v].proof = mig.proof
              /\ [mig EXCEPT !.at = "granted", !.verdict = v].report = mig.report
              /\ [mig EXCEPT !.at = "granted", !.verdict = v].child = mig.child
  <1>1. /\ Emulators!NoMigration \in Emulators!Migrations /\ Emulators!NoMigration.at = "idle"
        /\ Emulators!NoMigration.child = "none"
    BY DEF Emulators!NoMigration, Emulators!NoReport, Emulators!Migrations,
           Emulators!Reports, Emulators!Verdicts
  <1>2. mig \in Emulators!Migrations
    BY DEF Emulators!SavesTypeOK
  <1> QED BY <1>1, <1>2 DEF Emulators!Migrations

\* A migration's own steps.
LEMMA SavesStep ==
  ASSUME SavesInv, Emulators!Saves, owner = "none", owner' = owner
  PROVE  SavesInv'
  <1>1. /\ Emulators!SavesTypeOK /\ disk \in Emulators!Disks /\ mig \in Emulators!Migrations
        /\ rejected \in BOOLEAN /\ (mig.child # "none" => mig.at = "helper")
        /\ (mig.at \notin {"idle", "granted"} => ~rejected) /\ Emulators!RefusedIsKept
    BY DEF SavesInv, Emulators!SavesTypeOK, Emulators!OldSavesAreAccountedFor
  <1>2. CASE /\ Emulators!SavesTypeOK' /\ mig'.at \notin {"remains", "granted"}
             /\ mig'.child # "none" => mig'.at = "helper"
             /\ \/ ~rejected'
                \/ mig'.at = "idle" /\ UNCHANGED <<disk, rejected>>
    BY <1>1, <1>2 DEF SavesInv, Emulators!OldSavesAreAccountedFor, Emulators!RefusedIsKept
  <1>3. CASE Emulators!Refuse /\ UNCHANGED <<disk, rejected>>
    <2>1. Emulators!SavesTypeOK' /\ mig'.at = "idle" /\ mig'.child = "none"
      BY <1>1, <1>3, MigrationIsTyped DEF Emulators!Refuse, Emulators!SavesTypeOK
    <2> QED BY <1>2, <1>3, <2>1
  <1>4. CASE Emulators!Prepare
    <2>1. CASE rejected /\ Emulators!Grant("sticky")
      <3>1. /\ mig' \in Emulators!Migrations /\ mig'.at = "granted" /\ mig'.verdict = "sticky"
            /\ mig'.child = "none"
        BY <1>1, <1>4, <2>1, MigrationIsTyped DEF Emulators!Prepare, Emulators!Grant, Emulators!Verdicts
      <3>2. disk' = disk /\ rejected' = rejected
        BY <1>4 DEF Emulators!Prepare
      <3>3. Emulators!SavesTypeOK' /\ Emulators!OldSavesAreAccountedFor'
        BY <1>1, <2>1, <3>1, <3>2 DEF Emulators!SavesTypeOK, Emulators!OldSavesAreAccountedFor,
           Emulators!RefusedIsKept
      <3> QED BY <3>1, <3>3 DEF SavesInv
    <2>2. CASE ~rejected /\ Emulators!Go("look")
      <3>1. mig' \in Emulators!Migrations /\ mig'.at = "look" /\ mig'.child = "none"
        BY <1>1, <1>4, <2>2, MigrationIsTyped DEF Emulators!Go, Emulators!Prepare
      <3> QED BY <1>1, <1>2, <1>4, <2>2, <3>1 DEF Emulators!Prepare, Emulators!SavesTypeOK
    <2> QED BY <1>4, <2>1, <2>2 DEF Emulators!Prepare
  <1>5. CASE Emulators!Look
    <2>1. CASE disk.legacy = "none" /\ disk.pending = "none" /\ Emulators!Grant("nothing")
      <3>1. /\ mig' \in Emulators!Migrations /\ mig'.at = "granted" /\ mig'.verdict = "nothing"
            /\ mig'.child = "none"
        BY <1>1, <1>5, <2>1, MigrationIsTyped DEF Emulators!Look, Emulators!Grant, Emulators!Verdicts
      <3>2. disk' = disk /\ rejected' = rejected
        BY <1>5 DEF Emulators!Look
      <3>3. Emulators!SavesTypeOK' /\ Emulators!OldSavesAreAccountedFor'
        BY <1>1, <2>1, <3>1, <3>2 DEF Emulators!SavesTypeOK, Emulators!OldSavesAreAccountedFor,
           Emulators!RefusedIsKept
      <3> QED BY <3>1, <3>3 DEF SavesInv
    <2>2. ASSUME NEW b \in Sizes, Emulators!Ask(b) PROVE SavesInv'
      <3>1. mig' \in Emulators!Migrations /\ mig'.at = "helper"
        BY <1>1, <2>2 DEF Emulators!Ask, Emulators!Migrations
      <3> QED BY <1>1, <1>2, <1>5, <3>1 DEF Emulators!Look, Emulators!SavesTypeOK
    <2> QED BY <1>3, <1>5, <2>1, <2>2 DEF Emulators!Look
  <1>6. CASE Emulators!Helper
    <2>1. disk' \in Emulators!Disks
      BY <1>1, <1>6 DEF Emulators!Helper, Emulators!HelperRestores, Emulators!HelperExports, Emulators!HelperTears,
         Emulators!HelperRenames, Emulators!HelperRemoves, Emulators!HelperExits, Emulators!Disks
    <2>2. \/ \E held \in BOOLEAN : mig' = [mig EXCEPT !.child = "ended", !.open = held]
          \/ mig' = [mig EXCEPT !.exported = TRUE] \/ mig' = mig
      BY <1>6 DEF Emulators!Helper, Emulators!HelperRestores, Emulators!HelperExports, Emulators!HelperTears,
         Emulators!HelperRenames, Emulators!HelperRemoves, Emulators!HelperExits
    <2>3. mig' \in Emulators!Migrations /\ mig'.at = "helper"
      <3>1. mig.at = "helper"
        BY <1>1, <1>6 DEF Emulators!Helper
      <3>2. CASE \E held \in BOOLEAN : mig' = [mig EXCEPT !.child = "ended", !.open = held]
        BY <1>1, <3>1, <3>2 DEF Emulators!Migrations
      <3>3. CASE mig' = [mig EXCEPT !.exported = TRUE] \/ mig' = mig
        BY <1>1, <3>1, <3>3 DEF Emulators!Migrations
      <3> QED BY <2>2, <3>2, <3>3
    <2> QED BY <1>1, <1>2, <1>6, <2>1, <2>3 DEF Emulators!Helper, Emulators!SavesTypeOK
  <1>7. CASE /\ UNCHANGED <<disk, rejected>> /\ mig.at = "helper"
             /\ \E c \in {"runs", "ended", "reaped"}, held \in BOOLEAN :
                  mig' = [mig EXCEPT !.child = c, !.open = held]
    <2>1. mig' \in Emulators!Migrations /\ mig'.at = "helper"
      BY <1>1, <1>7 DEF Emulators!Migrations
    <2> QED BY <1>1, <1>2, <1>7, <2>1 DEF Emulators!SavesTypeOK
  <1>8. CASE Emulators!HelperReports
    <2>1. mig' \in Emulators!Migrations /\ mig'.at \in {"rejected", "validate", "idle"} /\ mig'.child = "none"
      <3>1. CASE mig' = [mig EXCEPT !.at = "rejected", !.child = "none"]
        BY <1>1, <3>1 DEF Emulators!Migrations
      <3>2. ASSUME NEW r \in Emulators!Reports, NEW g \in Vaults,
                   mig' = [mig EXCEPT !.at = "validate", !.child = "none", !.report = r, !.proof = g]
            PROVE  mig' \in Emulators!Migrations /\ mig'.at = "validate" /\ mig'.child = "none"
        BY <1>1, <3>2 DEF Emulators!Migrations
      <3>3. CASE Emulators!Refuse
        BY <1>1, <3>3, MigrationIsTyped DEF Emulators!Refuse
      <3> QED BY <1>8, <3>1, <3>2, <3>3 DEF Emulators!HelperReports
    <2> QED BY <1>1, <1>2, <1>8, <2>1 DEF Emulators!HelperReports, Emulators!SavesTypeOK
  <1>9. CASE Emulators!Rejected
    <2>2. CASE /\ Emulators!SourceRemains /\ (disk.vault = "none" \/ Emulators!Validated)
               /\ Emulators!Settle
      <3>1. /\ mig' \in Emulators!Migrations /\ mig'.at = "granted" /\ mig'.verdict = "rejected"
            /\ mig'.child = "none" /\ rejected' = TRUE
        BY <1>1, <1>9, <2>2, MigrationIsTyped
        DEF Emulators!Rejected, Emulators!Settle, Emulators!Grant, Emulators!Verdicts
      <3>2. disk.vault # "torn"
        BY <2>2, SavesAreNamed DEF Emulators!SavesAssumption, Emulators!Validated
      <3>3. /\ disk' \in Emulators!Disks /\ disk'.vault = disk.vault /\ disk'.kept = mig.bytes
            /\ disk'.legacy = disk.legacy /\ disk'.pending = disk.pending
        BY <1>1, <2>2 DEF Emulators!Settle, Emulators!Disks, Emulators!Migrations
      <3>4. Emulators!SavesTypeOK' /\ Emulators!OldSavesAreAccountedFor'
        BY <2>2, <3>1, <3>2, <3>3
        DEF Emulators!SavesTypeOK, Emulators!OldSavesAreAccountedFor, Emulators!RefusedIsKept,
            Emulators!SourceRemains
      <3> QED BY <3>1, <3>4 DEF SavesInv
    <2> QED BY <1>3, <1>9, <2>2 DEF Emulators!Rejected
  <1>10. CASE Emulators!Validate
    <2>1. CASE Emulators!Validated /\ disk.vault = mig.proof /\ Emulators!Go("remains")
      <3>1. /\ mig' \in Emulators!Migrations /\ mig'.at = "remains" /\ mig'.proof = mig.proof
            /\ mig'.child = "none"
        BY <1>1, <1>10, <2>1, MigrationIsTyped DEF Emulators!Go, Emulators!Validate
      <3> QED BY <1>1, <1>10, <2>1, <3>1 DEF Emulators!Validate, SavesInv, Emulators!SavesTypeOK,
              Emulators!OldSavesAreAccountedFor, Emulators!RefusedIsKept
    <2> QED BY <1>3, <1>10, <2>1 DEF Emulators!Validate
  <1>11. CASE Emulators!Remains
    <2>1. CASE Emulators!Agrees(mig.report) /\ Emulators!Grant("checked")
      <3>1. /\ mig' \in Emulators!Migrations /\ mig'.at = "granted" /\ mig'.verdict = "checked"
            /\ mig'.report = mig.report /\ mig'.proof = mig.proof /\ mig'.child = "none"
        BY <1>1, <1>11, <2>1, MigrationIsTyped DEF Emulators!Remains, Emulators!Grant, Emulators!Verdicts
      <3>2. disk' = disk /\ rejected' = rejected /\ disk.vault = mig.proof
        BY <1>11 DEF Emulators!Remains, SavesInv
      <3>3. IF mig.report.removed THEN disk.legacy = "none" /\ disk.pending = "none" ELSE disk.legacy # "none"
        BY <2>1 DEF Emulators!Agrees
      <3>4. Emulators!SavesTypeOK' /\ Emulators!OldSavesAreAccountedFor'
        BY <1>1, <3>1, <3>2, <3>3 DEF Emulators!SavesTypeOK, Emulators!OldSavesAreAccountedFor,
           Emulators!RefusedIsKept
      <3> QED BY <3>1, <3>4 DEF SavesInv
    <2> QED BY <1>3, <1>11, <2>1 DEF Emulators!Remains
  <1>12. CASE Emulators!HeirEnds \/ Emulators!HelperSpawned \/ Emulators!HelperReaped \/ Emulators!HelperKilled
    <2>1. CASE Emulators!HeirEnds
      <3>1. mig' = [mig EXCEPT !.child = mig.child, !.open = FALSE]
        BY <1>1, <2>1 DEF Emulators!HeirEnds, Emulators!Migrations
      <3> QED BY <1>1, <1>7, <2>1, <3>1 DEF Emulators!HeirEnds
    <2>2. CASE Emulators!HelperSpawned
      BY <1>3, <1>7, <2>2 DEF Emulators!HelperSpawned
    <2>3. CASE Emulators!HelperReaped
      <3>1. mig' = [mig EXCEPT !.child = "reaped", !.open = mig.open] /\ mig.open \in BOOLEAN
        BY <1>1, <2>3 DEF Emulators!HelperReaped, Emulators!Migrations
      <3> QED BY <1>1, <1>7, <2>3, <3>1 DEF Emulators!HelperReaped
    <2>4. CASE Emulators!HelperKilled
      BY <1>3, <2>4 DEF Emulators!HelperKilled
    <2> QED BY <1>12, <2>1, <2>2, <2>3, <2>4
  <1> QED BY <1>4, <1>5, <1>6, <1>8, <1>9, <1>10, <1>11, <1>12 DEF Emulators!Saves

\* The other steps of the playback, and of the rest of the runtime.
LEMMA PlaybackKeepsSaves ==
  ASSUME SavesInv, [RuntimeNext]_<<part, vars, ring, playback>>
  PROVE  SavesInv'
  <1>1. Emulators!SavesTypeOK /\ disk \in Emulators!Disks /\ mig \in Emulators!Migrations
    BY DEF SavesInv, Emulators!SavesTypeOK
  <1>2. CASE Emulators!PrepareSaves
    BY <1>2, SavesStep DEF Emulators!PrepareSaves, Emulators!vars
  <1>3. CASE Emulators!StartXemuOn
    <2>1. mig' = Emulators!NoMigration /\ disk' = disk /\ rejected' = rejected
      BY <1>3 DEF Emulators!StartXemuOn, Emulators!Refuse
    <2>2. mig' \in Emulators!Migrations /\ mig'.at = "idle" /\ mig'.child = "none"
      BY <1>1, <2>1, MigrationIsTyped
    <2> QED BY <1>1, <2>1, <2>2 DEF SavesInv, Emulators!SavesTypeOK,
       Emulators!OldSavesAreAccountedFor, Emulators!RefusedIsKept
  <1>4. CASE mig.at = "idle" /\ UNCHANGED Emulators!saveVars
    BY <1>1, <1>4 DEF SavesInv, Emulators!saveVars, Emulators!SavesTypeOK,
       Emulators!OldSavesAreAccountedFor, Emulators!RefusedIsKept
  <1>5. CASE owner' = owner /\ UNCHANGED Emulators!saveVars
    BY <1>1, <1>5 DEF SavesInv, Emulators!saveVars, Emulators!SavesTypeOK,
       Emulators!OldSavesAreAccountedFor, Emulators!RefusedIsKept
  <1>6. CASE Emulators!XemuSaved
    <2>1. /\ mig.at = "idle" /\ mig' = mig /\ rejected' = rejected /\ disk' \in Emulators!Disks
          /\ disk'.vault # "torn" /\ disk'.kept = disk.kept
          /\ disk'.legacy = disk.legacy /\ disk'.pending = disk.pending
      BY <1>1, <1>6, SavesAreNamed
      DEF Emulators!XemuSaved, Emulators!Checkpoint, SavesInv, Emulators!Disks, Emulators!SavesAssumption
    <2> QED BY <2>1 DEF SavesInv, Emulators!SavesTypeOK,
       Emulators!OldSavesAreAccountedFor, Emulators!RefusedIsKept
  <1>7. CASE Emulators!FilesChange
    <2>1. owner = "none" /\ owner' = owner
      BY <1>7 DEF Emulators!FilesChange, Emulators!vars
    <2>2. CASE Emulators!DiskChanges
      <3>1. /\ mig' = mig /\ mig.at # "granted" /\ rejected' = rejected /\ disk' \in Emulators!Disks
            /\ disk'.vault = disk.vault /\ disk'.kept = "none"
        BY <1>1, <2>2 DEF Emulators!DiskChanges, Emulators!Disks
      <3> QED BY <2>1, <3>1 DEF SavesInv, Emulators!SavesTypeOK,
       Emulators!OldSavesAreAccountedFor, Emulators!RefusedIsKept
    <2>3. CASE Emulators!PowerLost
      <3>1. mig' = Emulators!NoMigration /\ disk' \in Emulators!Disks /\ rejected' = FALSE
        BY <1>1, <2>3 DEF Emulators!PowerLost, Emulators!Disks
      <3>2. mig' \in Emulators!Migrations /\ mig'.at = "idle" /\ mig'.child = "none"
        BY <1>1, <3>1, MigrationIsTyped
      <3> QED BY <1>1, <3>1, <3>2 DEF SavesInv, Emulators!SavesTypeOK,
       Emulators!OldSavesAreAccountedFor, Emulators!RefusedIsKept
    <2> QED BY <1>7, <2>2, <2>3 DEF Emulators!FilesChange, Emulators!SavesWorld
  <1>8. CASE UNCHANGED playback
    BY <1>5, <1>8 DEF playback, Emulators!saveVars
  <1>9. CASE Emulators!PlaybackNext
    BY <1>2, <1>3, <1>4, <1>5, <1>6, <1>7, <1>9 DEF Emulators!PlaybackNext, Emulators!StartOther, Emulators!Work,
       Emulators!Happens, Emulators!World
  <1> QED BY <1>8, <1>9 DEF RuntimeNext

\* OldSavesAreAccountedFor: whatever the helper did before it was stopped, and
\* whatever happened to the files meanwhile, a migration is granted only for a
\* vault that was proved and an old disk that is gone or in its place; and
\* after a refused one was let pass, no launch tears the vault or takes away
\* the disk it was refused for.  A disk the user changes after that is not
\* looked at again, and nothing is said of it.
THEOREM SavesAreAccountedFor == RuntimeSpec => []OldSavesAreAccountedFor
  <1>1. SavesInv => OldSavesAreAccountedFor
    BY DEF SavesInv, OldSavesAreAccountedFor
  <1> QED BY <1>1, SavesStart, PlaybackKeepsSaves, PTL DEF RuntimeSpec

-----------------------------------------------------------------------------
\* The records that calls are made of are typed.
LEMMA CallsAreTyped ==
  /\ Emulators!NoHandle \in Emulators!Handles /\ Emulators!NewHandle \in Emulators!Handles
  /\ Emulators!NoCall \in Emulators!Ops
  /\ \A w \in BOOLEAN : Emulators!QuietWorld(w) \in Emulators!Worlds
  <1>1. 0 \in 0 .. ClosePolls /\ 0 \in 0 .. WaitPolls
    BY PollsAreBounded DEF Emulators!PollsAssumption
  <1>2. Emulators!NothingPlays \in Emulators!Plays
    BY DEF Emulators!NothingPlays, Emulators!Plays
  <1>3. Emulators!NoHandle \in Emulators!Handles
    BY <1>1 DEF Emulators!NoHandle, Emulators!Handles
  <1>4. Emulators!NewHandle \in Emulators!Handles
    BY <1>3 DEF Emulators!NewHandle, Emulators!Handles
  <1>5. Emulators!NoCall \in Emulators!Ops
    BY <1>1, <1>2 DEF Emulators!NoCall, Emulators!Ops
  <1>6. \A w \in BOOLEAN : Emulators!QuietWorld(w) \in Emulators!Worlds
    BY DEF Emulators!QuietWorld, Emulators!Worlds, Emulators!Ends
  <1> QED BY <1>3, <1>4, <1>5, <1>6

\* At the start no emulator is owned and nothing is there.
LEMMA EmulatorsStart == RuntimeInit => EmulatorsInv
  <1> SUFFICES ASSUME RuntimeInit PROVE EmulatorsInv
    OBVIOUS
  <1>1. Emulators!Init
    BY DEF RuntimeInit, PlaybackAtRest, Emulators!PlaybackInit
  <1>2. /\ owner = "none" /\ storage = FALSE /\ handle = Emulators!NoHandle /\ op = Emulators!NoCall
        /\ ghost = [terms |-> 0, hurt |-> {}]
    BY <1>1 DEF Emulators!Init
  <1>3. PICK w \in BOOLEAN : process = Emulators!QuietWorld(w)
    BY <1>1 DEF Emulators!Init
  <1>4. /\ process \in Emulators!Worlds /\ process.windows = w /\ process.leader = "none"
        /\ "xenia" \notin process.helpers /\ process.other = FALSE /\ process.mounter = "none"
        /\ ~process.mount /\ ~process.files
    BY <1>3, CallsAreTyped DEF Emulators!QuietWorld
  <1>5. Emulators!TypeOK
    <2>1. ghost \in Emulators!Ghosts
      BY <1>2 DEF Emulators!Ghosts
    <2>2. /\ owner \in Backends \cup {"none"} /\ storage \in BOOLEAN /\ handle \in Emulators!Handles
          /\ op \in Emulators!Ops
      BY <1>2, CallsAreTyped
    <2> QED BY <1>4, <2>1, <2>2 DEF Emulators!TypeOK
  <1>6. /\ ~handle.held /\ ~handle.bridge /\ ~handle.pid /\ ~handle.group /\ op.call = "none" /\ op.at = "idle"
        /\ op.then = "none" /\ op.phase = "first"
    BY <1>2 DEF Emulators!NoHandle, Emulators!NoCall
  <1>8. HeldIsOwned
    BY <1>2, <1>4, <1>6 DEF HeldIsOwned
  <1>9. ViewIsBridged /\ ChildIsKnown
    BY <1>2, <1>4, <1>6 DEF ViewIsBridged, ChildIsKnown, Emulators!Grouped
  <1>10. CallIsPlaced /\ BeginIsRemembered /\ RequestsAreCounted
    BY <1>2, <1>6 DEF CallIsPlaced, BeginIsRemembered, RequestsAreCounted
  <1> QED BY <1>5, <1>8, <1>9, <1>10 DEF EmulatorsInv

\* What a look at the child may have changed of the handle and the world.
Looked(r) ==
  /\ r.h \in Emulators!Handles /\ r.w \in Emulators!Worlds
  /\ r.h.held = handle.held /\ r.h.bridge = handle.bridge /\ r.h.shut = handle.shut
  /\ r.h.mounter = handle.mounter
  /\ r.w.windows = process.windows /\ r.w.helpers = process.helpers /\ r.w.other = process.other
  /\ r.w.mounter = process.mounter /\ r.w.mount = process.mount /\ r.w.files = process.files
  /\ r.w.leader = process.leader \/ (process.leader = "ended" /\ r.w.leader = "none")
  /\ r.h.reaped => r.w.leader = "none"
  /\ r.h.pid => r.w.leader # "none" /\ ~r.w.other
  /\ r.h.group \/ "xenia" \in r.w.helpers => Emulators!Grouped(owner)
  /\ "xenia" \in r.w.helpers => r.h.group
  /\ Emulators!Grouped(owner) /\ r.w.leader = "runs" => r.h.group

\* Reaping a child that ended forgets its number and nothing else.
LEMMA ReapedIsLooked ==
  ASSUME EmulatorsInv
  PROVE  Looked(Emulators!Reaped)
  <1>1. /\ handle \in Emulators!Handles /\ process \in Emulators!Worlds
        /\ ChildIsKnown
    BY DEF EmulatorsInv, Emulators!TypeOK
  <1>2. CASE ~handle.reaped /\ process.leader # "runs"
    <2> DEFINE h == [handle EXCEPT !.pid = FALSE, !.reaped = TRUE]
               w == [process EXCEPT !.leader = "none"]
    <2>1. Emulators!Reaped = [h |-> h, w |-> w]
      BY <1>2 DEF Emulators!Reaped
    <2>2. h \in Emulators!Handles /\ w \in Emulators!Worlds
      BY <1>1 DEF Emulators!Handles, Emulators!Worlds, Emulators!Ends
    <2>3. /\ h.held = handle.held /\ h.bridge = handle.bridge /\ h.shut = handle.shut
          /\ h.mounter = handle.mounter /\ h.group = handle.group /\ ~h.pid
          /\ w.windows = process.windows /\ w.helpers = process.helpers /\ w.other = process.other
          /\ w.mounter = process.mounter /\ w.mount = process.mount /\ w.files = process.files
          /\ w.leader = "none"
      BY <1>1 DEF Emulators!Handles, Emulators!Worlds
    <2>4. process.leader \in {"none", "ended"}
      BY <1>1, <1>2 DEF Emulators!Worlds, Emulators!Ends
    <2> HIDE DEF h, w
    <2> QED BY <1>1, <1>2, <2>1, <2>2, <2>3, <2>4 DEF Looked, ChildIsKnown
  <1>3. CASE ~(~handle.reaped /\ process.leader # "runs")
    BY <1>1, <1>3 DEF Looked, ChildIsKnown, Emulators!Reaped
  <1> QED BY <1>2, <1>3

\* So does every query; and one that says the child exited says that no
\* process of it is left.
LEMMA QueryIsLook ==
  ASSUME EmulatorsInv, owner # "none", NEW r \in Emulators!Query
  PROVE  /\ Looked(r) /\ r.out \in {"running", "exited", "error"}
         /\ owner = "dolphin" /\ r.out = "running" => ~r.h.reaped
         /\ r.out = "exited" => r.w.leader = "none" /\ "xenia" \notin r.w.helpers /\ r.h.reaped
  <1>1. /\ handle \in Emulators!Handles /\ process \in Emulators!Worlds
        /\ ChildIsKnown /\ owner \in {"xemu", "xenia", "dolphin"}
    BY BackendsAssumption DEF EmulatorsInv, Emulators!TypeOK
  <1>2. PICK x : x = Emulators!Reaped
    OBVIOUS
  <1>3. Looked(x) /\ x.h.reaped \in BOOLEAN
    BY <1>2, ReapedIsLooked DEF Looked, Emulators!Handles
  <1>4. x = [h |-> x.h, w |-> x.w]
    BY <1>2 DEF Emulators!Reaped
  <1>5. Looked([h |-> handle, w |-> process, out |-> "error"])
    BY <1>1 DEF Looked, ChildIsKnown
  <1>6. \A out : Looked([h |-> x.h, w |-> x.w, out |-> out])
    BY <1>3 DEF Looked
  <1>7. CASE owner = "xemu"
    <2>1. r \in Emulators!QueryXemu
      BY <1>7 DEF Emulators!Query
    <2> DEFINE c == [x EXCEPT !.h.session = FALSE]
    <2>2. /\ c.w = x.w /\ c.h \in Emulators!Handles /\ c.h.held = x.h.held /\ c.h.bridge = x.h.bridge
          /\ c.h.shut = x.h.shut /\ c.h.mounter = x.h.mounter /\ c.h.reaped = x.h.reaped
          /\ c.h.pid = x.h.pid /\ c.h.group = x.h.group
      BY <1>3, <1>4 DEF Looked, Emulators!Handles
    <2>3. Looked([h |-> c.h, w |-> c.w, out |-> "exited"])
      <3> HIDE DEF c
      <3> QED BY <1>3, <2>2 DEF Looked
    <2>4. \/ r = [h |-> handle, w |-> process, out |-> "error"]
          \/ r = [h |-> x.h, w |-> x.w, out |-> "running"]
          \/ r = [h |-> c.h, w |-> c.w, out |-> "exited"] /\ x.h.reaped
          \/ r = [h |-> x.h, w |-> x.w, out |-> "error"]
      BY <2>1, <1>2 DEF Emulators!QueryXemu, Emulators!Failed, Emulators!Result
    <2>5. "xenia" \notin process.helpers
      BY <1>1, <1>7 DEF ChildIsKnown, Emulators!Grouped
    <2> HIDE DEF c
    <2> QED BY <1>3, <1>5, <1>6, <1>7, <2>2, <2>3, <2>4, <2>5 DEF Looked
  <1>8. CASE owner = "xenia"
    <2>1. r \in Emulators!QueryXenia
      BY <1>8 DEF Emulators!Query
    <2> DEFINE c == [x EXCEPT !.h.group = FALSE]
    <2>2. /\ c.w = x.w /\ c.h \in Emulators!Handles /\ c.h.held = x.h.held /\ c.h.bridge = x.h.bridge
          /\ c.h.shut = x.h.shut /\ c.h.mounter = x.h.mounter /\ c.h.reaped = x.h.reaped
          /\ c.h.pid = x.h.pid /\ ~c.h.group
      BY <1>3, <1>4 DEF Looked, Emulators!Handles
    <2>3. \/ r = [h |-> handle, w |-> process, out |-> "error"]
          \/ r = [h |-> x.h, w |-> x.w, out |-> "error"]
          \/ r = [h |-> x.h, w |-> x.w, out |-> "running"]
          \/ /\ r = [h |-> c.h, w |-> c.w, out |-> "exited"]
             /\ x.h.reaped /\ ~Emulators!GroupExists(x.h, x.w)
      BY <2>1, <1>2 DEF Emulators!QueryXenia, Emulators!Failed, Emulators!Result
    <2>4. CASE r = [h |-> c.h, w |-> c.w, out |-> "exited"] /\ x.h.reaped /\ ~Emulators!GroupExists(x.h, x.w)
      <3>1. "xenia" \notin x.w.helpers /\ x.w.leader = "none"
        BY <1>3, <2>4 DEF Looked, Emulators!GroupExists
      <3> HIDE DEF c
      <3> QED BY <1>3, <2>2, <2>4, <3>1 DEF Looked
    <2> QED BY <1>5, <1>6, <1>8, <2>3, <2>4
  <1>9. CASE owner = "dolphin"
    <2>1. r \in Emulators!QueryDolphin
      BY <1>9 DEF Emulators!Query
    <2>2. \/ r = [h |-> handle, w |-> process, out |-> "error"]
          \/ r = [h |-> x.h, w |-> x.w, out |-> "exited"] /\ x.h.reaped
          \/ r = [h |-> x.h, w |-> x.w, out |-> "running"] /\ ~x.h.reaped
      BY <2>1, <1>2 DEF Emulators!QueryDolphin, Emulators!Failed, Emulators!Result
    <2>3. "xenia" \notin process.helpers
      BY <1>1, <1>9 DEF ChildIsKnown, Emulators!Grouped
    <2> QED BY <1>3, <1>5, <1>6, <2>2, <2>3 DEF Looked
  <1> QED BY <1>1, <1>7, <1>8, <1>9

-----------------------------------------------------------------------------
\* A mount and an object go only when nobody reads through them, and only a
\* spawn brings a process.
Spares == /\ process.mount /\ ~process'.mount => ~Emulators!Alive
          /\ owner' # owner => ~Emulators!Alive
          /\ Emulators!Alive' => Emulators!Alive \/ op.at = "spawn"

\* What a look finds may be kept.
LEMMA SeenIsKept ==
  ASSUME EmulatorsInv, NEW r, Looked(r), Emulators!Sees(r), owner' = owner
  PROVE  /\ handle' \in Emulators!Handles /\ process' \in Emulators!Worlds
         /\ handle'.held = handle.held /\ handle'.shut = handle.shut
         /\ handle'.bridge = handle.bridge
         /\ process'.windows = process.windows /\ process'.mount = process.mount
         /\ Emulators!Alive' <=> Emulators!Alive
         /\ ViewIsBridged' /\ ChildIsKnown'
  <1>1. handle' = r.h /\ process' = r.w
    BY DEF Emulators!Sees
  <1>2. /\ handle' \in Emulators!Handles /\ process' \in Emulators!Worlds
        /\ handle'.held = handle.held /\ handle'.shut = handle.shut
        /\ handle'.bridge = handle.bridge
        /\ process'.windows = process.windows /\ process'.mount = process.mount
        /\ process'.mounter = process.mounter /\ process'.files = process.files
    BY <1>1 DEF Looked
  <1>3. Emulators!Alive' <=> Emulators!Alive
    BY <1>1 DEF Looked, Emulators!Alive
  <1>4. ViewIsBridged'
    BY <1>2 DEF EmulatorsInv, ViewIsBridged, Emulators!Bridged
  <1>5. Emulators!Grouped(owner)' <=> Emulators!Grouped(owner)
    BY <1>2 DEF Emulators!Grouped
  <1>6. ChildIsKnown'
    BY <1>1, <1>5 DEF Looked, ChildIsKnown
  <1> QED BY <1>2, <1>3, <1>4, <1>6

\* A call that returns with the process object still owned keeps the
\* invariant when the view and the child do.
LEMMA KeepKeeps ==
  ASSUME EmulatorsInv, owner # "none", Emulators!Keep, UNCHANGED ghost,
         handle' \in Emulators!Handles, process' \in Emulators!Worlds,
         handle'.held, handle'.shut = handle.shut, process'.windows = process.windows,
         process.mount /\ ~process'.mount => ~Emulators!Alive,
         Emulators!Alive' => Emulators!Alive \/ op.at = "spawn",
         ViewIsBridged', ChildIsKnown'
  PROVE  EmulatorsInv' /\ Spares
  <1>1. op' = Emulators!NoCall /\ owner' = owner /\ storage' = storage
    BY DEF Emulators!Keep, Emulators!Return
  <1>2. Emulators!TypeOK' /\ RequestsAreCounted'
    BY <1>1, CallsAreTyped DEF EmulatorsInv, Emulators!TypeOK, RequestsAreCounted, HeldIsOwned
  <1>3. HeldIsOwned'
    BY <1>1 DEF EmulatorsInv, HeldIsOwned
  <1>4. CallIsPlaced' /\ BeginIsRemembered'
    BY <1>1 DEF CallIsPlaced, BeginIsRemembered, Emulators!NoCall
  <1> QED BY <1>1, <1>2, <1>3, <1>4 DEF EmulatorsInv, Spares

\* So does one that releases it, when nothing is left.
LEMMA ReleaseKeeps ==
  ASSUME EmulatorsInv, Emulators!Release, UNCHANGED ghost, ~Emulators!Alive,
         process' \in Emulators!Worlds, process'.leader = "none", "xenia" \notin process'.helpers,
         process'.mounter = "none", ~process'.mount, ~process'.files
  PROVE  EmulatorsInv' /\ Spares
  <1>1. /\ handle' = Emulators!NoHandle /\ owner' = "none" /\ op' = Emulators!NoCall
        /\ storage' \in {FALSE, storage}
    BY DEF Emulators!Release, Emulators!Return
  <1>2. Emulators!TypeOK'
    BY <1>1, CallsAreTyped DEF EmulatorsInv, Emulators!TypeOK
  <1>3. /\ ~handle'.held /\ ~handle'.bridge /\ ~handle'.pid /\ ~handle'.group
    BY <1>1 DEF Emulators!NoHandle
  <1>4. HeldIsOwned'
    BY <1>1, <1>3 DEF HeldIsOwned
  <1>5. ViewIsBridged' /\ ChildIsKnown' /\ RequestsAreCounted'
    BY <1>1, <1>3 DEF EmulatorsInv, ViewIsBridged, ChildIsKnown, RequestsAreCounted, Emulators!Grouped
  <1>6. CallIsPlaced' /\ BeginIsRemembered'
    BY <1>1 DEF CallIsPlaced, BeginIsRemembered, Emulators!NoCall
  <1>7. ~Emulators!Alive'
    BY DEF Emulators!Alive
  <1> QED BY <1>2, <1>4, <1>5, <1>6, <1>7 DEF EmulatorsInv, Spares

\* And one that goes on elsewhere.
LEMMA ContinueKeeps ==
  ASSUME EmulatorsInv, op.at # "idle", NEW o \in Emulators!Ops, Emulators!Continue(o), ghost' \in Emulators!Ghosts,
         o.call = op.call, o.begin = op.begin,
         handle' \in Emulators!Handles, process' \in Emulators!Worlds,
         handle'.held, process'.windows = process.windows,
         process.mount /\ ~process'.mount => ~Emulators!Alive,
         Emulators!Alive' => Emulators!Alive,
         ViewIsBridged', ChildIsKnown', CallIsPlaced', RequestsAreCounted'
  PROVE  EmulatorsInv' /\ Spares
  <1>1. op' = o /\ owner' = owner /\ storage' = storage
    BY DEF Emulators!Continue
  <1>2. owner # "none"
    BY DEF EmulatorsInv, HeldIsOwned, Emulators!NoCall
  <1>3. Emulators!TypeOK'
    BY <1>1 DEF EmulatorsInv, Emulators!TypeOK
  <1>4. HeldIsOwned'
    BY <1>1, <1>2 DEF EmulatorsInv, HeldIsOwned
  <1>5. BeginIsRemembered'
    BY <1>1 DEF EmulatorsInv, BeginIsRemembered
  <1> QED BY <1>1, <1>3, <1>4, <1>5 DEF EmulatorsInv, Spares

\* A call begins: what it finds is remembered, and nothing else moves.
LEMMA StartKeeps ==
  ASSUME EmulatorsInv, Emulators!Start
  PROVE  EmulatorsInv' /\ Spares
  <1>1. PICK k \in Backends :
          /\ k = "xenia" => ~storage
          /\ process.windows => k # "dolphin"
          /\ owner' = k /\ storage' = Emulators!StorageOpened(k)
          /\ handle' = [Emulators!NewHandle EXCEPT !.session = (k = "xemu")]
          /\ op' = Emulators!Call("start", IF Emulators!Bridged(k) THEN "bridge" ELSE "spawn")
    BY DEF Emulators!Start
  <1>2. /\ op.call = "none" /\ owner = "none" /\ process' = process
        /\ ghost' = [ghost EXCEPT !.terms = 0]
    BY DEF Emulators!Start, Emulators!Idle
  <1>3. k \in {"xemu", "xenia", "dolphin"}
    BY BackendsAssumption
  <1>4. /\ process \in Emulators!Worlds /\ process.leader = "none" /\ "xenia" \notin process.helpers
        /\ process.mounter = "none" /\ ~process.mount /\ ~process.files
    BY <1>2 DEF EmulatorsInv, Emulators!TypeOK, HeldIsOwned, Emulators!QuietWorld
  <1>5. ~Emulators!Alive /\ ~Emulators!Alive'
    BY <1>2, <1>4 DEF Emulators!Alive
  <1>6. /\ handle' \in Emulators!Handles /\ handle'.held /\ ~handle'.reaped /\ ~handle'.pid /\ ~handle'.group
        /\ ~handle'.bridge /\ ~handle'.shut
    <2>1. PICK b \in BOOLEAN : b = (k = "xemu")
      OBVIOUS
    <2>2. handle' = [Emulators!NewHandle EXCEPT !.session = b]
      BY <1>1, <2>1
    <2> QED BY <2>2, CallsAreTyped DEF Emulators!NewHandle, Emulators!NoHandle, Emulators!Handles
  <1>7. Emulators!Now \in Emulators!Plays
    BY DEF EmulatorsInv, Emulators!TypeOK, Emulators!Now, Emulators!Plays, Emulators!Handles,
           Emulators!Alive, Emulators!Worlds
  <1>8. PICK place \in {"bridge", "spawn"} :
          /\ place = "bridge" <=> Emulators!Bridged(k)
          /\ op' = Emulators!Call("start", place)
    BY <1>1
  <1>9. /\ op' \in Emulators!Ops /\ op'.call = "start" /\ op'.at = place /\ op'.begin = Emulators!Now
        /\ op'.phase = "first" /\ op'.then = "none"
    <2>1. PICK n : n = Emulators!NoCall
      OBVIOUS
    <2>2. n \in Emulators!Ops /\ n.phase = "first" /\ n.then = "none"
      BY <2>1, CallsAreTyped DEF Emulators!NoCall
    <2>3. op' = [n EXCEPT !.call = "start", !.at = place, !.begin = Emulators!Now]
      BY <1>8, <2>1 DEF Emulators!Call
    <2> QED BY <1>7, <1>8, <2>2, <2>3 DEF Emulators!Ops
  <1>10. storage' \in BOOLEAN /\ (k = "xenia" => storage') /\ (k # "xenia" => storage' = storage)
    <2>1. storage \in BOOLEAN
      BY DEF EmulatorsInv, Emulators!TypeOK
    <2> QED BY <1>1, <2>1 DEF Emulators!StorageOpened
  <1>11. /\ ghost' \in Emulators!Ghosts /\ ghost'.terms = 0 /\ ghost'.hurt = ghost.hurt
    <2>1. ghost \in Emulators!Ghosts
      BY DEF EmulatorsInv, Emulators!TypeOK
    <2> QED BY <1>2, <2>1 DEF Emulators!Ghosts
  <1>12. Emulators!TypeOK'
    BY <1>1, <1>2, <1>4, <1>6, <1>9, <1>10, <1>11 DEF Emulators!TypeOK
  <1>13. HeldIsOwned'
    BY <1>1, <1>2, <1>3, <1>6 DEF HeldIsOwned
  <1>14. ViewIsBridged' /\ ChildIsKnown'
    BY <1>2, <1>4, <1>6 DEF ViewIsBridged, ChildIsKnown, Emulators!Grouped
  <1>15. CallIsPlaced'
    BY <1>1, <1>2, <1>3, <1>4, <1>6, <1>8, <1>9 DEF CallIsPlaced, Emulators!Bridged
  <1>16. BeginIsRemembered'
    <2>1. op'.begin.owner = "none" /\ ~op'.begin.handle /\ ~op'.begin.alive /\ op'.begin.storage = storage
      BY <1>2, <1>5, <1>9 DEF Emulators!Now, EmulatorsInv, HeldIsOwned
    <2> QED BY <1>1, <1>9, <1>10, <2>1 DEF BeginIsRemembered
  <1>17. RequestsAreCounted'
    BY <1>11 DEF EmulatorsInv, RequestsAreCounted
  <1>18. Spares
    BY <1>2, <1>5 DEF Spares
  <1> QED BY <1>12, <1>13, <1>14, <1>15, <1>16, <1>17, <1>18 DEF EmulatorsInv

-----------------------------------------------------------------------------
(* The steps of a call. *)

\* The parts of the record of a call that a step relies on.
LEMMA CallParts ==
  ASSUME EmulatorsInv
  PROVE  /\ op \in Emulators!Ops /\ handle \in Emulators!Handles /\ process \in Emulators!Worlds
         /\ ghost \in Emulators!Ghosts /\ owner \in Backends \cup {"none"} /\ storage \in BOOLEAN
         /\ op.at # "idle" => op.call # "none" /\ owner # "none" /\ handle.held
         /\ owner # "none" => owner \in {"xemu", "xenia", "dolphin"} /\ handle.held
  BY BackendsAssumption DEF EmulatorsInv, Emulators!TypeOK, HeldIsOwned, CallIsPlaced, Emulators!NoCall

\* The record of a call that goes on at another place.
LEMMA MovedCall ==
  ASSUME EmulatorsInv, NEW at \in {"idle", "bridge", "spawn", "query", "unmount", "remove"},
         NEW then \in {"none", "retain", "leak", "release", "polled"}
  PROVE  /\ Emulators!Remove(at, then) \in Emulators!Ops
         /\ Emulators!Remove(at, then).call = op.call /\ Emulators!Remove(at, then).begin = op.begin
         /\ Emulators!Remove(at, then).at = at /\ Emulators!Remove(at, then).then = then
         /\ Emulators!Remove(at, then).phase = op.phase
         /\ [op EXCEPT !.at = at] \in Emulators!Ops
         /\ [op EXCEPT !.at = at].call = op.call /\ [op EXCEPT !.at = at].begin = op.begin
         /\ [op EXCEPT !.at = at].at = at /\ [op EXCEPT !.at = at].then = op.then
         /\ [op EXCEPT !.at = at].phase = op.phase
  <1>1. op \in Emulators!Ops
    BY CallParts
  <1> QED BY <1>1 DEF Emulators!Ops, Emulators!Remove

\* The server of the view: it was not made, it failed, or it is there.
LEMMA BridgeStartKeeps ==
  ASSUME EmulatorsInv, Emulators!BridgeStart
  PROVE  EmulatorsInv' /\ Spares
  <1>1. /\ op.at = "bridge" /\ op.call = "start" /\ ~handle.reaped /\ ~handle.bridge
        /\ process.leader = "none" /\ "xenia" \notin process.helpers /\ process.mounter = "none"
        /\ ~process.mount /\ ~process.files /\ Emulators!Bridged(owner) /\ ghost' = ghost
    BY DEF Emulators!BridgeStart, EmulatorsInv, CallIsPlaced, ViewIsBridged
  <1>2. ~Emulators!Alive
    BY <1>1 DEF Emulators!Alive
  <1>3. CASE Emulators!Release /\ UNCHANGED process
    BY <1>1, <1>2, <1>3, CallParts, ReleaseKeeps
  <1>4. ASSUME NEW m \in {"none", "runs", "ended"}, NEW mounted \in BOOLEAN, m = "none" => ~mounted,
               process' = [process EXCEPT !.mounter = m, !.mount = mounted, !.files = TRUE],
               handle' = [handle EXCEPT !.bridge = TRUE, !.mounter = (m # "none")],
               NEW o, o \in {Emulators!Remove("unmount", "retain"), [op EXCEPT !.at = "spawn"]},
               Emulators!Continue(o)
        PROVE  EmulatorsInv' /\ Spares
    <2>1. PICK b \in BOOLEAN : b = (m # "none")
      OBVIOUS
    <2>2. handle' = [handle EXCEPT !.bridge = TRUE, !.mounter = b]
      BY <1>4, <2>1
    <2>3. /\ handle' \in Emulators!Handles /\ handle'.held = handle.held /\ handle'.bridge
          /\ handle'.pid = handle.pid /\ handle'.reaped = handle.reaped /\ handle'.group = handle.group
          /\ handle'.shut = handle.shut
      BY <2>2, CallParts DEF Emulators!Handles
    <2>4. /\ process' \in Emulators!Worlds /\ process'.windows = process.windows
          /\ process'.leader = process.leader /\ process'.helpers = process.helpers
          /\ process'.other = process.other /\ process'.files
      BY <1>4, CallParts DEF Emulators!Worlds, Emulators!Ends
    <2>5. /\ o \in Emulators!Ops /\ o.call = op.call /\ o.begin = op.begin
          /\ o.at = "spawn" \/ (o.at = "unmount" /\ o.then = "retain")
          /\ o.phase = op.phase /\ (o.then = "leak" => op.then = "leak")
      <3>1. CASE o = Emulators!Remove("unmount", "retain")
        BY <3>1, MovedCall
      <3>2. CASE o = [op EXCEPT !.at = "spawn"]
        BY <3>2, MovedCall
      <3> QED BY <1>4, <3>1, <3>2
    <2>6. op' = o /\ owner' = owner
      BY <1>4 DEF Emulators!Continue
    <2>7. Emulators!Grouped(owner)' <=> Emulators!Grouped(owner)
      BY <2>4, <2>6 DEF Emulators!Grouped
    <2>8. ViewIsBridged'
      BY <1>1, <2>3, <2>4, <2>6 DEF ViewIsBridged, Emulators!Bridged
    <2>9. ChildIsKnown'
      BY <1>1, <2>3, <2>4, <2>6, <2>7 DEF ChildIsKnown, EmulatorsInv
    <2>10. CallIsPlaced'
      BY <1>1, <2>3, <2>4, <2>5, <2>6 DEF CallIsPlaced, EmulatorsInv, Emulators!Bridged
    <2>11. RequestsAreCounted'
      BY <1>1, <2>3 DEF EmulatorsInv, RequestsAreCounted
    <2>12. ~Emulators!Alive'
      BY <1>1, <2>4 DEF Emulators!Alive
    <2> QED BY <1>1, <1>2, <1>4, <2>3, <2>4, <2>5, <2>8, <2>9, <2>10, <2>11, <2>12, CallParts, ContinueKeeps
  <1> QED BY <1>3, <1>4 DEF Emulators!BridgeStart

\* The child is there, with the number that is kept.
LEMMA ChildKeeps ==
  ASSUME EmulatorsInv, op.at = "spawn", Emulators!Child, UNCHANGED ghost
  PROVE  EmulatorsInv' /\ Spares
  <1>1. /\ process' = [process EXCEPT !.leader = "runs", !.other = FALSE]
        /\ handle' = [handle EXCEPT !.pid = TRUE, !.group = Emulators!Grouped(owner)]
        /\ Emulators!Keep /\ owner' = owner
    BY DEF Emulators!Child, Emulators!Keep
  <1>2. ~handle.reaped /\ "xenia" \notin process.helpers /\ owner # "none"
    BY CallParts DEF EmulatorsInv, CallIsPlaced
  <1>3. PICK g \in BOOLEAN : g = Emulators!Grouped(owner)
    BY DEF Emulators!Grouped
  <1>4. handle' = [handle EXCEPT !.pid = TRUE, !.group = g]
    BY <1>1, <1>3
  <1>5. /\ handle' \in Emulators!Handles /\ handle'.held = handle.held /\ handle'.bridge = handle.bridge
        /\ handle'.pid /\ ~handle'.reaped /\ handle'.group = g /\ handle'.shut = handle.shut
    BY <1>2, <1>4, CallParts DEF Emulators!Handles
  <1>6. /\ process' \in Emulators!Worlds /\ process'.windows = process.windows
        /\ process'.leader = "runs" /\ process'.helpers = process.helpers /\ ~process'.other
        /\ process'.mounter = process.mounter /\ process'.mount = process.mount /\ process'.files = process.files
    BY <1>1, CallParts DEF Emulators!Worlds, Emulators!Ends
  <1>7. ViewIsBridged'
    BY <1>1, <1>5, <1>6 DEF EmulatorsInv, ViewIsBridged, Emulators!Bridged
  <1>8. Emulators!Grouped(owner)' <=> g
    BY <1>1, <1>3, <1>6 DEF Emulators!Grouped
  <1>9. ChildIsKnown'
    BY <1>2, <1>5, <1>6, <1>8 DEF ChildIsKnown
  <1> QED BY <1>1, <1>2, <1>5, <1>6, <1>7, <1>9, CallParts, KeepKeeps

\* Spawning: without a child the object goes, or stays to close its bridge.
LEMMA SpawnKeeps ==
  ASSUME EmulatorsInv, Emulators!Spawn
  PROVE  EmulatorsInv' /\ Spares
  <1>1. /\ op.at = "spawn" /\ op.call = "start" /\ ~handle.reaped /\ owner # "none"
        /\ process.leader = "none" /\ "xenia" \notin process.helpers /\ ghost' = ghost
    BY CallParts DEF Emulators!Spawn, EmulatorsInv, CallIsPlaced
  <1>2. ~Emulators!Alive
    BY <1>1 DEF Emulators!Alive
  <1>3. CASE Emulators!Child
    BY <1>1, <1>3, ChildKeeps
  <1>4. CASE Emulators!Release /\ UNCHANGED process /\ (owner = "xemu" \/ process.windows)
    <2>1. ~handle.bridge
      BY <1>4 DEF EmulatorsInv, ViewIsBridged, Emulators!Bridged
    <2>2. process.mounter = "none" /\ ~process.mount /\ ~process.files
      BY <2>1 DEF EmulatorsInv, ViewIsBridged
    <2> QED BY <1>1, <1>2, <1>4, <2>2, CallParts, ReleaseKeeps
  <1>5. CASE /\ Emulators!Grouped(owner) /\ Emulators!Continue(Emulators!Remove("unmount", "leak"))
             /\ UNCHANGED <<handle, process>>
    <2>1. PICK o : o = Emulators!Remove("unmount", "leak")
      OBVIOUS
    <2>2. /\ o \in Emulators!Ops /\ o.call = op.call /\ o.begin = op.begin /\ o.at = "unmount"
          /\ o.then = "leak" /\ o.phase = op.phase
      BY <2>1, MovedCall
    <2>3. /\ op' = o /\ owner' = owner /\ handle' = handle /\ process' = process /\ Emulators!Continue(o)
          /\ owner = "xenia" /\ ~process.windows
      BY <1>5, <2>1 DEF Emulators!Continue, Emulators!Grouped
    <2>4. CallIsPlaced'
      BY <1>1, <2>2, <2>3 DEF CallIsPlaced, Emulators!Bridged
    <2>5. ViewIsBridged' /\ ChildIsKnown' /\ RequestsAreCounted'
      BY <1>1, <2>3 DEF EmulatorsInv, ViewIsBridged, ChildIsKnown, RequestsAreCounted,
         Emulators!Bridged, Emulators!Grouped
    <2>6. ~Emulators!Alive'
      BY <1>2, <2>3 DEF Emulators!Alive
    <2> QED BY <1>1, <1>2, <2>2, <2>3, <2>4, <2>5, <2>6, CallParts, ContinueKeeps
  <1>6. CASE owner = "dolphin" /\ handle' = [handle EXCEPT !.reaped = TRUE] /\ Emulators!Keep /\ UNCHANGED process
    <2>1. /\ handle' \in Emulators!Handles /\ handle'.held = handle.held /\ handle'.bridge = handle.bridge
          /\ handle'.pid = handle.pid /\ handle'.group = handle.group /\ handle'.shut = handle.shut
      BY <1>6, CallParts DEF Emulators!Handles
    <2>2. owner' = owner
      BY <1>6 DEF Emulators!Keep
    <2>3. ViewIsBridged' /\ ChildIsKnown'
      BY <1>1, <1>6, <2>1, <2>2 DEF EmulatorsInv, ViewIsBridged, ChildIsKnown, Emulators!Bridged, Emulators!Grouped
    <2>4. ~Emulators!Alive'
      BY <1>2, <1>6 DEF Emulators!Alive
    <2> QED BY <1>1, <1>2, <1>6, <2>1, <2>3, <2>4, CallParts, KeepKeeps
  <1> QED BY <1>1, <1>3, <1>4, <1>5, <1>6 DEF Emulators!Spawn, Emulators!SpawnXemu, Emulators!SpawnXenia,
          Emulators!SpawnXemuWindows, Emulators!SpawnXeniaWindows, Emulators!SpawnDolphin, Emulators!NoChild

\* The mount is taken down when no process of the emulator is left.
LEMMA BridgeUnmountKeeps ==
  ASSUME EmulatorsInv, Emulators!BridgeUnmount
  PROVE  EmulatorsInv' /\ Spares
  <1>1. PICK m \in {process.mount, FALSE} : process' = [process EXCEPT !.mount = m]
    BY DEF Emulators!BridgeUnmount
  <1>2. PICK o : o = [op EXCEPT !.at = "remove"]
    OBVIOUS
  <1>3. /\ op.at = "unmount" /\ Emulators!Continue(o) /\ op' = o /\ owner' = owner /\ handle' = handle
        /\ ghost' = ghost
    BY <1>2 DEF Emulators!BridgeUnmount, Emulators!Continue
  <1>4. o \in Emulators!Ops /\ o.call = op.call /\ o.begin = op.begin /\ o.at = "remove"
        /\ o.then = op.then /\ o.phase = op.phase
    BY <1>2, MovedCall
  <1>5. /\ process' \in Emulators!Worlds /\ process'.windows = process.windows
        /\ process'.leader = process.leader /\ process'.helpers = process.helpers
        /\ process'.other = process.other /\ process'.mounter = process.mounter
        /\ process'.mount = m /\ process'.files = process.files
    BY <1>1, CallParts DEF Emulators!Worlds
  <1>6. process.leader = "none" /\ "xenia" \notin process.helpers
    BY <1>3 DEF EmulatorsInv, CallIsPlaced
  <1>7. ~Emulators!Alive /\ ~Emulators!Alive'
    BY <1>5, <1>6 DEF Emulators!Alive
  <1>8. ViewIsBridged' /\ ChildIsKnown'
    BY <1>3, <1>5 DEF EmulatorsInv, ViewIsBridged, ChildIsKnown, Emulators!Bridged, Emulators!Grouped
  <1>9. CallIsPlaced'
    <2>1. Emulators!Bridged(owner)' <=> Emulators!Bridged(owner)
      BY <1>3, <1>5 DEF Emulators!Bridged
    <2>2. /\ op.call # "none" /\ op.then \in IF op.call = "start" THEN {"retain", "leak"} ELSE {"release", "polled"}
          /\ owner = "dolphin" => op.phase # "forced" /\ op.then # "leak"
          /\ op.call = "start" => Emulators!Bridged(owner)
      BY <1>3, CallParts DEF EmulatorsInv, CallIsPlaced
    <2> QED BY <1>3, <1>4, <1>5, <1>6, <2>1, <2>2 DEF CallIsPlaced
  <1>10. RequestsAreCounted'
    BY <1>3 DEF EmulatorsInv, RequestsAreCounted
  <1> QED BY <1>3, <1>4, <1>5, <1>7, <1>8, <1>9, <1>10, CallParts, ContinueKeeps

\* What closing the bridge can leave of the view.
LEMMA UnbridgedParts ==
  ASSUME EmulatorsInv, NEW v \in IF handle.bridge THEN Emulators!Unbridged(process) ELSE {process}
  PROVE  /\ v \in Emulators!Worlds /\ v.windows = process.windows /\ v.leader = process.leader
         /\ v.helpers = process.helpers /\ v.other = process.other
         /\ v.mount => v.files
         /\ (handle.bridge => Emulators!Gone(v)) => v.mounter = "none" /\ ~v.mount /\ ~v.files
  <1>1. process \in Emulators!Worlds /\ ViewIsBridged
    BY CallParts DEF EmulatorsInv
  <1>2. CASE ~handle.bridge
    BY <1>1, <1>2 DEF ViewIsBridged
  <1>3. CASE handle.bridge
    <2>1. /\ v \in [windows : {FALSE}, leader : {process.leader}, helpers : {process.helpers},
                    other : {process.other}, mounter : {"none", process.mounter},
                    mount : {FALSE, process.mount}, files : {FALSE, process.files}]
          /\ v.files # process.files => ~v.mount
      BY <1>3 DEF Emulators!Unbridged
    <2>2. process.windows = FALSE
      BY <1>1, <1>3 DEF ViewIsBridged, Emulators!Bridged, Emulators!Worlds
    <2>3. v \in Emulators!Worlds
      BY <1>1, <2>1 DEF Emulators!Worlds, Emulators!Ends
    <2>4. v.mount => v.files
      BY <1>1, <2>1 DEF ViewIsBridged
    <2> QED BY <1>3, <2>1, <2>2, <2>3, <2>4 DEF Emulators!Gone
  <1> QED BY <1>2, <1>3

\* The bridge is closed and the object released, or kept with what is left.
LEMMA BridgeRemoveKeeps ==
  ASSUME EmulatorsInv, Emulators!BridgeRemove
  PROVE  EmulatorsInv' /\ Spares
  <1>1. /\ op.at = "remove" /\ owner # "none" /\ handle.held
        /\ process.leader = "none" /\ "xenia" \notin process.helpers
        /\ op.then \in {"retain", "leak", "release", "polled"}
        /\ op.then = "leak" => op.call = "start"
    BY CallParts DEF Emulators!BridgeRemove, EmulatorsInv, CallIsPlaced
  <1>2. ~Emulators!Alive
    BY <1>1 DEF Emulators!Alive
  <1>3. PICK v \in IF handle.bridge THEN Emulators!Unbridged(process) ELSE {process} :
          LET closed == handle.bridge => Emulators!Gone(v)
              rest   == IF closed THEN [handle EXCEPT !.bridge = FALSE, !.mounter = FALSE,
                                                      !.asked = FALSE, !.polls = 0]
                        ELSE [handle EXCEPT !.mounter = v.mounter # "none"]
          IN  CASE op.then = "leak" ->
                       /\ Emulators!Release /\ UNCHANGED ghost
                       /\ process' = [process EXCEPT !.mounter = "none", !.mount = FALSE, !.files = FALSE]
                [] op.then \in {"retain", "release"} /\ closed ->
                       Emulators!Release /\ process' = v /\ UNCHANGED ghost
                [] op.then = "polled" \/ (op.then # "leak" /\ ~closed) ->
                       handle' = rest /\ Emulators!Keep /\ process' = v /\ UNCHANGED ghost
    BY DEF Emulators!BridgeRemove
  <1>4. /\ v \in Emulators!Worlds /\ v.windows = process.windows /\ v.leader = process.leader
        /\ v.helpers = process.helpers /\ v.other = process.other
        /\ v.mount => v.files
        /\ (handle.bridge => Emulators!Gone(v)) => v.mounter = "none" /\ ~v.mount /\ ~v.files
    BY UnbridgedParts
  <1>5. CASE /\ Emulators!Release /\ UNCHANGED ghost
             /\ process' = [process EXCEPT !.mounter = "none", !.mount = FALSE, !.files = FALSE]
    <2>1. /\ process' \in Emulators!Worlds /\ process'.leader = "none" /\ "xenia" \notin process'.helpers
          /\ process'.mounter = "none" /\ ~process'.mount /\ ~process'.files
      BY <1>1, <1>5, CallParts DEF Emulators!Worlds, Emulators!Ends
    <2> QED BY <1>2, <1>5, <2>1, ReleaseKeeps
  <1>6. CASE /\ handle.bridge => Emulators!Gone(v)
             /\ Emulators!Release /\ process' = v /\ UNCHANGED ghost
    BY <1>1, <1>2, <1>4, <1>6, ReleaseKeeps
  <1>7. ASSUME NEW h, handle' = h, Emulators!Keep, process' = v, UNCHANGED ghost,
               h \in Emulators!Handles, h.held = handle.held, h.shut = handle.shut, h.pid = handle.pid,
               h.reaped = handle.reaped, h.group = handle.group,
               h.bridge = handle.bridge \/ (~h.bridge /\ v.mounter = "none" /\ ~v.mount /\ ~v.files)
        PROVE  EmulatorsInv' /\ Spares
    <2>1. owner' = owner
      BY <1>7 DEF Emulators!Keep
    <2>2. ~handle.bridge => v.mounter = "none" /\ ~v.mount /\ ~v.files
      BY <1>4
    <2>3. ViewIsBridged'
      BY <1>4, <1>7, <2>1, <2>2 DEF EmulatorsInv, ViewIsBridged, Emulators!Bridged
    <2>4. ChildIsKnown'
      BY <1>4, <1>7, <2>1 DEF EmulatorsInv, ChildIsKnown, Emulators!Grouped
    <2>5. ~Emulators!Alive'
      BY <1>1, <1>4, <1>7 DEF Emulators!Alive
    <2> QED BY <1>1, <1>2, <1>4, <1>7, <2>3, <2>4, <2>5, KeepKeeps
  <1>8. CASE /\ handle.bridge => Emulators!Gone(v)
             /\ handle' = [handle EXCEPT !.bridge = FALSE, !.mounter = FALSE, !.asked = FALSE, !.polls = 0]
             /\ Emulators!Keep /\ process' = v /\ UNCHANGED ghost
    <2>1. PICK h : h = [handle EXCEPT !.bridge = FALSE, !.mounter = FALSE, !.asked = FALSE, !.polls = 0]
      OBVIOUS
    <2>2. 0 \in 0 .. ClosePolls
      BY PollsAreBounded DEF Emulators!PollsAssumption
    <2>3. /\ h \in Emulators!Handles /\ h.held = handle.held /\ h.shut = handle.shut /\ h.pid = handle.pid
          /\ h.reaped = handle.reaped /\ h.group = handle.group /\ ~h.bridge
      BY <2>1, <2>2, CallParts DEF Emulators!Handles
    <2> QED BY <1>4, <1>7, <1>8, <2>1, <2>3
  <1>9. CASE /\ handle' = [handle EXCEPT !.mounter = v.mounter # "none"]
             /\ Emulators!Keep /\ process' = v /\ UNCHANGED ghost
    <2>1. PICK b \in BOOLEAN : b = (v.mounter # "none")
      OBVIOUS
    <2>2. PICK h : h = [handle EXCEPT !.mounter = b]
      OBVIOUS
    <2>3. /\ h \in Emulators!Handles /\ h.held = handle.held /\ h.shut = handle.shut /\ h.pid = handle.pid
          /\ h.reaped = handle.reaped /\ h.group = handle.group /\ h.bridge = handle.bridge
      BY <2>2, CallParts DEF Emulators!Handles
    <2> QED BY <1>7, <1>9, <2>1, <2>2, <2>3
  <1>10. CASE op.then = "leak"
    BY <1>3, <1>5, <1>10
  <1>11. CASE op.then \in {"retain", "release"} /\ (handle.bridge => Emulators!Gone(v))
    BY <1>3, <1>6, <1>11
  <1>12. CASE op.then # "leak" /\ (op.then = "polled" \/ ~(handle.bridge => Emulators!Gone(v)))
    BY <1>3, <1>8, <1>9, <1>12
  <1> QED BY <1>1, <1>10, <1>11, <1>12

\* The record of a call that begins.
LEMMA CallBegins ==
  ASSUME EmulatorsInv, NEW c \in {"start", "poll", "stop"},
         NEW place \in {"idle", "bridge", "spawn", "query", "unmount", "remove"}
  PROVE  /\ Emulators!Call(c, place) \in Emulators!Ops
         /\ Emulators!Call(c, place).call = c /\ Emulators!Call(c, place).at = place
         /\ Emulators!Call(c, place).begin = Emulators!Now /\ Emulators!Call(c, place).phase = "first"
         /\ Emulators!Call(c, place).then = "none"
         /\ [Emulators!Call(c, place) EXCEPT !.then = "release"] \in Emulators!Ops
         /\ [Emulators!Call(c, place) EXCEPT !.then = "release"].call = c
         /\ [Emulators!Call(c, place) EXCEPT !.then = "release"].at = place
         /\ [Emulators!Call(c, place) EXCEPT !.then = "release"].begin = Emulators!Now
         /\ [Emulators!Call(c, place) EXCEPT !.then = "release"].phase = "first"
         /\ [Emulators!Call(c, place) EXCEPT !.then = "release"].then = "release"
  <1>1. Emulators!Now \in Emulators!Plays
    BY CallParts DEF Emulators!Now, Emulators!Plays, Emulators!Handles, Emulators!Alive, Emulators!Worlds
  <1>2. PICK n : n = Emulators!NoCall
    OBVIOUS
  <1>3. n \in Emulators!Ops /\ n.phase = "first" /\ n.then = "none"
    BY <1>2, CallsAreTyped DEF Emulators!NoCall
  <1>4. Emulators!Call(c, place) = [n EXCEPT !.call = c, !.at = place, !.begin = Emulators!Now]
    BY <1>2 DEF Emulators!Call
  <1>5. PICK x : x = [n EXCEPT !.call = c, !.at = place, !.begin = Emulators!Now]
    OBVIOUS
  <1>6. /\ x \in Emulators!Ops /\ x.call = c /\ x.at = place /\ x.begin = Emulators!Now
        /\ x.phase = "first" /\ x.then = "none"
    BY <1>1, <1>3, <1>5 DEF Emulators!Ops
  <1>7. /\ [x EXCEPT !.then = "release"] \in Emulators!Ops /\ [x EXCEPT !.then = "release"].call = c
        /\ [x EXCEPT !.then = "release"].at = place /\ [x EXCEPT !.then = "release"].begin = Emulators!Now
        /\ [x EXCEPT !.then = "release"].phase = "first" /\ [x EXCEPT !.then = "release"].then = "release"
    BY <1>6 DEF Emulators!Ops
  <1> QED BY <1>4, <1>5, <1>6, <1>7

\* A stop or a poll that goes on after its first step.
LEMMA BeginKeeps ==
  ASSUME EmulatorsInv, op.call = "none", owner # "none", NEW o \in Emulators!Ops, Emulators!Continue(o),
         o.call \in {"stop", "poll"}, o.begin = Emulators!Now, UNCHANGED ghost,
         handle' \in Emulators!Handles, process' \in Emulators!Worlds,
         handle'.held, handle'.shut = handle.shut, process'.windows = process.windows,
         process.mount /\ ~process'.mount => ~Emulators!Alive,
         Emulators!Alive' => Emulators!Alive,
         ViewIsBridged', ChildIsKnown', CallIsPlaced'
  PROVE  EmulatorsInv' /\ Spares
  <1>1. op' = o /\ owner' = owner /\ storage' = storage
    BY DEF Emulators!Continue
  <1>2. Emulators!TypeOK' /\ RequestsAreCounted'
    BY <1>1, CallParts DEF EmulatorsInv, Emulators!TypeOK, RequestsAreCounted
  <1>3. HeldIsOwned'
    BY <1>1 DEF EmulatorsInv, HeldIsOwned
  <1>4. BeginIsRemembered'
    BY <1>1, CallParts DEF BeginIsRemembered, Emulators!Now
  <1> QED BY <1>1, <1>2, <1>3, <1>4 DEF EmulatorsInv, Spares

\* A stop begins with a look at the child.
LEMMA StopKeeps ==
  ASSUME EmulatorsInv, Emulators!Stop
  PROVE  EmulatorsInv' /\ Spares
  <1>1. PICK o : o = Emulators!Call("stop", "query")
    OBVIOUS
  <1>2. /\ o \in Emulators!Ops /\ o.call = "stop" /\ o.at = "query" /\ o.begin = Emulators!Now
        /\ o.phase = "first" /\ o.then = "none"
    BY <1>1, CallBegins
  <1>3. /\ op.call = "none" /\ owner # "none" /\ op' = o /\ owner' = owner /\ storage' = storage
        /\ handle' = handle /\ process' = process /\ ghost' = ghost
    BY <1>1 DEF Emulators!Stop, Emulators!Idle
  <1>4. Emulators!Continue(o)
    BY <1>3 DEF Emulators!Continue
  <1>5. CallIsPlaced'
    BY <1>2, <1>3 DEF CallIsPlaced
  <1>6. ViewIsBridged' /\ ChildIsKnown' /\ (Emulators!Alive' <=> Emulators!Alive)
    BY <1>3 DEF EmulatorsInv, ViewIsBridged, ChildIsKnown, Emulators!Bridged, Emulators!Grouped, Emulators!Alive
  <1> QED BY <1>2, <1>3, <1>4, <1>5, <1>6, CallParts, BeginKeeps

\* The child has ended: the object goes, or its bridge is closed first.
LEMMA EndedKeeps ==
  ASSUME EmulatorsInv, op.at = "query", NEW r, Looked(r), r.w.leader = "none", "xenia" \notin r.w.helpers,
         Emulators!Ended(r), UNCHANGED ghost
  PROVE  EmulatorsInv' /\ Spares
  <1>1. ~Emulators!Alive
    BY DEF Looked, Emulators!Alive
  <1>2. op.call \in {"stop", "poll"} /\ owner # "none" /\ handle.held
    BY CallParts DEF EmulatorsInv, CallIsPlaced, Emulators!Ops
  <1>3. CASE owner = "xemu" \/ process.windows
    <2>1. Emulators!Release /\ process' = r.w
      BY <1>3 DEF Emulators!Ended
    <2>2. process.mounter = "none" /\ ~process.mount /\ ~process.files
      BY <1>3 DEF EmulatorsInv, ViewIsBridged, Emulators!Bridged
    <2>3. /\ process' \in Emulators!Worlds /\ process'.leader = "none" /\ "xenia" \notin process'.helpers
          /\ process'.mounter = "none" /\ ~process'.mount /\ ~process'.files
      BY <2>1, <2>2 DEF Looked
    <2> QED BY <1>1, <2>1, <2>3, ReleaseKeeps
  <1>4. CASE ~(owner = "xemu" \/ process.windows)
    <2>1. PICK place \in {"unmount", "remove"}, then \in {"polled", "release"} :
            Emulators!Continue(Emulators!Remove(place, then))
      BY <1>4 DEF Emulators!Ended
    <2>2. Emulators!Sees(r) /\ handle' = r.h /\ process' = r.w
      BY <1>4 DEF Emulators!Ended, Emulators!Sees
    <2>3. PICK o : o = Emulators!Remove(place, then)
      OBVIOUS
    <2>4. /\ o \in Emulators!Ops /\ o.call = op.call /\ o.begin = op.begin /\ o.at = place
          /\ o.then = then /\ o.phase = op.phase
      BY <2>3, MovedCall
    <2>5. Emulators!Continue(o) /\ op' = o /\ owner' = owner
      BY <2>1, <2>3 DEF Emulators!Continue
    <2>6. /\ handle' \in Emulators!Handles /\ process' \in Emulators!Worlds
          /\ handle'.held = handle.held /\ handle'.shut = handle.shut
          /\ process'.windows = process.windows /\ process'.mount = process.mount
          /\ Emulators!Alive' <=> Emulators!Alive
          /\ ViewIsBridged' /\ ChildIsKnown'
      BY <2>2, <2>5, SeenIsKept
    <2>7. CallIsPlaced'
      <3>1. owner = "dolphin" => op.phase # "forced"
        BY DEF EmulatorsInv, CallIsPlaced
      <3> QED BY <1>2, <2>2, <2>4, <2>5, <3>1 DEF CallIsPlaced
    <2>8. RequestsAreCounted'
      BY <2>6 DEF EmulatorsInv, RequestsAreCounted
    <2> QED BY <1>2, <2>4, <2>5, <2>6, <2>7, <2>8, CallParts, ContinueKeeps
  <1> QED BY <1>3, <1>4

\* A signal meets a stranger only when it is for Xenia's group.
LEMMA SignalsAreCounted ==
  ASSUME EmulatorsInv, owner # "none", NEW r, Looked(r),
         NEW s \in {Emulators!Signalled(Emulators!MeetsXemu(r.h)), Emulators!Signalled(Emulators!MeetsXenia(r.h))}
  PROVE  s \in Emulators!Ghosts /\ s.terms = ghost.terms /\ s.hurt \subseteq {"xenia"}
  <1>1. ghost \in Emulators!Ghosts /\ owner \in Backends /\ ghost.hurt \subseteq {"xenia"}
    BY CallParts DEF EmulatorsInv, RequestsAreCounted
  <1>2. ~Emulators!MeetsXemu(r.h)
    BY DEF Emulators!MeetsXemu, Looked
  <1>3. Emulators!MeetsXenia(r.h) => owner = "xenia"
    BY DEF Emulators!MeetsXenia, Emulators!Grouped, Looked
  <1>4. PICK hurt \in {ghost.hurt, ghost.hurt \cup {owner}} :
          /\ hurt # ghost.hurt => owner = "xenia"
          /\ s = [ghost EXCEPT !.hurt = hurt]
    BY <1>2, <1>3 DEF Emulators!Signalled
  <1>5. hurt \in SUBSET Backends /\ hurt \subseteq {"xenia"}
    BY <1>1, <1>4 DEF Emulators!Ghosts
  <1> QED BY <1>1, <1>4, <1>5 DEF Emulators!Ghosts

\* The ways to go on waiting.
WaitsOn == \E o \in Emulators!Ops : /\ Emulators!Continue(o)
                                    /\ o.call = op.call /\ o.begin = op.begin /\ o.at = "query"

LEMMA TurnGoesOn ==
  ASSUME op \in Emulators!Ops, op.at = "query", NEW s, Emulators!Turn(s)
  PROVE  (Emulators!Keep /\ UNCHANGED ghost) \/ (WaitsOn /\ ghost' = s)
  <1>1. CASE Emulators!Continue([op EXCEPT !.phase = "grace"]) /\ ghost' = s
    <2>1. PICK o : o = [op EXCEPT !.phase = "grace"]
      OBVIOUS
    <2>2. o \in Emulators!Ops /\ o.call = op.call /\ o.begin = op.begin /\ o.at = "query"
      BY <2>1 DEF Emulators!Ops
    <2> QED BY <1>1, <2>1, <2>2 DEF WaitsOn
  <1>2. CASE Emulators!Continue([op EXCEPT !.phase = "forced", !.waited = 0]) /\ ghost' = s
    <2>1. PICK o : o = [op EXCEPT !.phase = "forced", !.waited = 0]
      OBVIOUS
    <2>2. o \in Emulators!Ops /\ o.call = op.call /\ o.begin = op.begin /\ o.at = "query"
      <3>1. 0 \in 0 .. WaitPolls
        BY PollsAreBounded DEF Emulators!PollsAssumption
      <3> QED BY <2>1, <3>1 DEF Emulators!Ops
    <2> QED BY <1>2, <2>1, <2>2 DEF WaitsOn
  <1> QED BY <1>1, <1>2 DEF Emulators!Turn

LEMMA SleepGoesOn ==
  ASSUME op \in Emulators!Ops, op.at = "query", ~Emulators!Over, NEW a \in BOOLEAN, Emulators!Sleeps(a)
  PROVE  WaitsOn
  <1>1. PICK o : o = [op EXCEPT !.waited = @ + 1, !.again = a]
    OBVIOUS
  <1>2. op.waited + 1 \in 0 .. WaitPolls
    BY PollsAreBounded DEF Emulators!PollsAssumption, Emulators!Ops, Emulators!Over
  <1>3. o \in Emulators!Ops /\ o.call = op.call /\ o.begin = op.begin /\ o.at = "query"
    BY <1>1, <1>2 DEF Emulators!Ops
  <1> QED BY <1>1, <1>3 DEF WaitsOn, Emulators!Sleeps

\* The wait for the child goes on, grows impatient, or is given up.
Waits(r) == Emulators!WaitingXemu(r) \/ Emulators!WaitingXenia(r) \/ Emulators!WaitingWindows(r)

LEMMA WaitingGoesOn ==
  ASSUME op \in Emulators!Ops, op.at = "query", NEW r, Waits(r)
  PROVE  /\ Emulators!Sees(r)
         /\ \/ Emulators!Keep /\ UNCHANGED ghost
            \/ WaitsOn /\ ghost' \in {ghost, Emulators!Signalled(Emulators!MeetsXemu(r.h)),
                                      Emulators!Signalled(Emulators!MeetsXenia(r.h))}
  <1>1. op.again \in BOOLEAN
    BY DEF Emulators!Ops
  <1>2. CASE Emulators!WaitingXemu(r)
    <2>1. Emulators!Sees(r)
      BY <1>2 DEF Emulators!WaitingXemu
    <2>2. \/ Emulators!Turn(Emulators!Signalled(Emulators!MeetsXemu(r.h)))
          \/ ~Emulators!Over /\ Emulators!Sleeps(op.again) /\ ghost' = ghost
      BY <1>2 DEF Emulators!WaitingXemu
    <2>3. PICK s : s = Emulators!Signalled(Emulators!MeetsXemu(r.h))
      OBVIOUS
    <2> QED BY <1>1, <2>1, <2>2, <2>3, TurnGoesOn, SleepGoesOn
  <1>3. CASE Emulators!WaitingXenia(r)
    <2> DEFINE repeat == /\ op.phase = "grace" /\ ~op.again /\ r.out = "running"
                         /\ ~handle.reaped /\ r.h.reaped /\ r.h.group
    <2>1. Emulators!Sees(r)
      BY <1>3 DEF Emulators!WaitingXenia
    <2>2. PICK s : s = Emulators!Signalled(Emulators!MeetsXenia(r.h))
      OBVIOUS
    <2>3. \/ Emulators!Turn(s)
          \/ ~Emulators!Over /\ Emulators!Sleeps(op.again \/ repeat) /\ ghost' = IF repeat THEN s ELSE ghost
      BY <1>3, <2>2 DEF Emulators!WaitingXenia
    <2> HIDE DEF repeat
    <2>4. PICK a \in BOOLEAN : a = (op.again \/ repeat)
      OBVIOUS
    <2>5. Emulators!Turn(s) \/ (~Emulators!Over /\ Emulators!Sleeps(a) /\ ghost' \in {ghost, s})
      BY <2>3, <2>4
    <2> QED BY <2>1, <2>2, <2>5, TurnGoesOn, SleepGoesOn
  <1>4. CASE Emulators!WaitingWindows(r)
    <2>1. Emulators!Sees(r)
      BY <1>4 DEF Emulators!WaitingWindows
    <2>2. Emulators!Turn(ghost) \/ (~Emulators!Over /\ Emulators!Sleeps(op.again) /\ ghost' = ghost)
      BY <1>4 DEF Emulators!WaitingWindows
    <2> QED BY <1>1, <2>1, <2>2, TurnGoesOn, SleepGoesOn
  <1> QED BY <1>2, <1>3, <1>4 DEF Waits

LEMMA WaitingKeeps ==
  ASSUME EmulatorsInv, op.at = "query", owner # "dolphin", NEW r, Looked(r), Waits(r)
  PROVE  EmulatorsInv' /\ Spares
  <1>1. /\ op.call \in {"stop", "poll"} /\ owner # "none" /\ handle.held /\ op \in Emulators!Ops
    BY CallParts DEF EmulatorsInv, CallIsPlaced, Emulators!Ops
  <1>2. /\ Emulators!Sees(r)
        /\ \/ Emulators!Keep /\ UNCHANGED ghost
           \/ WaitsOn /\ ghost' \in {ghost, Emulators!Signalled(Emulators!MeetsXemu(r.h)),
                                     Emulators!Signalled(Emulators!MeetsXenia(r.h))}
    BY <1>1, WaitingGoesOn
  <1>3. ASSUME owner' = owner
        PROVE  /\ handle' \in Emulators!Handles /\ process' \in Emulators!Worlds
               /\ handle'.held = handle.held /\ handle'.shut = handle.shut
               /\ process'.windows = process.windows /\ process'.mount = process.mount
               /\ Emulators!Alive' <=> Emulators!Alive
               /\ ViewIsBridged' /\ ChildIsKnown'
    BY <1>2, <1>3, SeenIsKept
  <1>4. CASE Emulators!Keep /\ UNCHANGED ghost
    <2>1. owner' = owner
      BY <1>4 DEF Emulators!Keep
    <2> QED BY <1>1, <1>3, <1>4, <2>1, KeepKeeps
  <1>5. CASE WaitsOn /\ ghost' \in {ghost, Emulators!Signalled(Emulators!MeetsXemu(r.h)),
                                    Emulators!Signalled(Emulators!MeetsXenia(r.h))}
    <2>1. PICK o \in Emulators!Ops : /\ Emulators!Continue(o)
                                     /\ o.call = op.call /\ o.begin = op.begin /\ o.at = "query"
      BY <1>5 DEF WaitsOn
    <2>2. op' = o /\ owner' = owner
      BY <2>1 DEF Emulators!Continue
    <2>3. CallIsPlaced'
      BY <1>1, <2>1, <2>2 DEF CallIsPlaced
    <2>4. ghost' \in Emulators!Ghosts /\ ghost'.terms = ghost.terms /\ ghost'.hurt \subseteq {"xenia"}
      BY <1>1, <1>5, CallParts, SignalsAreCounted DEF EmulatorsInv, RequestsAreCounted
    <2>5. RequestsAreCounted'
      BY <1>3, <2>2, <2>4 DEF EmulatorsInv, RequestsAreCounted
    <2> QED BY <1>1, <1>3, <2>1, <2>2, <2>3, <2>4, <2>5, ContinueKeeps
  <1> QED BY <1>2, <1>4, <1>5

\* A stop of xemu or Xenia looks at the child once more.
LEMMA StopQueryLooks ==
  ASSUME EmulatorsInv, Emulators!StopQuery
  PROVE  \E r \in Emulators!Query :
           /\ Looked(r) /\ (r.out = "exited" => r.w.leader = "none" /\ "xenia" \notin r.w.helpers)
           /\ (r.out = "exited" /\ Emulators!Ended(r) /\ UNCHANGED ghost) \/ Waits(r)
  <1>1. owner \in {"xemu", "xenia"} /\ process.windows \in BOOLEAN
    BY CallParts, BackendsAssumption DEF Emulators!StopQuery, Emulators!Worlds
  <1>2. PICK r \in Emulators!Query :
       CASE r.out = "exited" -> Emulators!Ended(r) /\ UNCHANGED ghost
         [] r.out # "exited" /\ process.windows -> Emulators!WaitingWindows(r)
         [] r.out # "exited" /\ ~process.windows /\ owner = "xemu"  -> Emulators!WaitingXemu(r)
         [] r.out # "exited" /\ ~process.windows /\ owner = "xenia" -> Emulators!WaitingXenia(r)
    BY DEF Emulators!StopQuery
  <1>3. Looked(r) /\ (r.out = "exited" => r.w.leader = "none" /\ "xenia" \notin r.w.helpers)
    BY <1>1, QueryIsLook
  <1>4. (r.out = "exited" /\ Emulators!Ended(r) /\ UNCHANGED ghost) \/ Waits(r)
    BY <1>1, <1>2 DEF Waits
  <1> QED BY <1>3, <1>4

LEMMA StopQueryKeeps ==
  ASSUME EmulatorsInv, Emulators!StopQuery
  PROVE  EmulatorsInv' /\ Spares
  <1>1. PICK r \in Emulators!Query :
          /\ Looked(r) /\ (r.out = "exited" => r.w.leader = "none" /\ "xenia" \notin r.w.helpers)
          /\ (r.out = "exited" /\ Emulators!Ended(r) /\ UNCHANGED ghost) \/ Waits(r)
    BY StopQueryLooks
  <1>2. op.at = "query" /\ owner # "dolphin"
    BY DEF Emulators!StopQuery
  <1> QED BY <1>1, <1>2, EndedKeeps, WaitingKeeps

\* On Windows the sleep between two looks sees the end of the child.
LEMMA StopWokenKeeps ==
  ASSUME EmulatorsInv, Emulators!StopWoken
  PROVE  EmulatorsInv' /\ Spares
  <1>1. /\ op.at = "query" /\ process.windows /\ process.leader = "ended"
        /\ Emulators!Ended(Emulators!Reaped) /\ UNCHANGED ghost
    BY DEF Emulators!StopWoken
  <1>2. PICK r : r = Emulators!Reaped
    OBVIOUS
  <1>3. Looked(r) /\ ~handle.reaped
    BY <1>1, <1>2, ReapedIsLooked DEF EmulatorsInv, ChildIsKnown
  <1>4. r.w.leader = "none"
    BY <1>1, <1>2, <1>3, CallParts DEF Emulators!Reaped, Emulators!Worlds
  <1>5. "xenia" \notin r.w.helpers
    BY <1>1, <1>3 DEF Looked, Emulators!Grouped
  <1> QED BY <1>1, <1>2, <1>3, <1>4, <1>5, EndedKeeps

\* Dolphin is asked once and waited for, never forced.
LEMMA StopDolphinKeeps ==
  ASSUME EmulatorsInv, Emulators!StopDolphin
  PROVE  EmulatorsInv' /\ Spares
  <1>1. /\ op.at = "query" /\ owner = "dolphin" /\ owner # "none" /\ handle.held /\ op \in Emulators!Ops
        /\ op.call \in {"stop", "poll"} /\ op.phase \in {"first", "grace"} /\ op.then # "leak"
    BY CallParts DEF Emulators!StopDolphin, EmulatorsInv, CallIsPlaced, Emulators!Ops
  <1>2. PICK r \in Emulators!Query :
          CASE r.out = "error"  -> Emulators!Sees(r) /\ Emulators!Keep /\ UNCHANGED ghost
            [] r.out = "exited" -> Emulators!Ended(r) /\ UNCHANGED ghost
            [] r.out = "running" /\ op.phase = "first" ->
                 \/ Emulators!DolphinRequests(r.h) /\ Emulators!Sees(r) /\ Emulators!Keep /\ UNCHANGED ghost
                 \/ /\ handle' = [r.h EXCEPT !.shut = TRUE]
                    /\ ghost' = IF Emulators!DolphinRequests(r.h) THEN [ghost EXCEPT !.terms = @ + 1] ELSE ghost
                    /\ Emulators!Continue([op EXCEPT !.phase = "grace"]) /\ UNCHANGED process
            [] r.out = "running" /\ op.phase = "grace" ->
                 /\ Emulators!Sees(r) /\ UNCHANGED ghost
                 /\ IF op.waited < WaitPolls THEN Emulators!Continue([op EXCEPT !.waited = @ + 1])
                                             ELSE Emulators!Keep
    BY DEF Emulators!StopDolphin
  <1>3. /\ Looked(r) /\ r.out \in {"running", "exited", "error"}
        /\ r.out = "running" => ~r.h.reaped
        /\ r.out = "exited" => r.w.leader = "none" /\ "xenia" \notin r.w.helpers
    BY <1>1, QueryIsLook
  <1>4. CASE Emulators!Sees(r) /\ Emulators!Keep /\ UNCHANGED ghost
    <2>1. owner' = owner
      BY <1>4 DEF Emulators!Keep
    <2>2. /\ handle' \in Emulators!Handles /\ process' \in Emulators!Worlds
          /\ handle'.held = handle.held /\ handle'.shut = handle.shut
          /\ process'.windows = process.windows /\ process'.mount = process.mount
          /\ Emulators!Alive' <=> Emulators!Alive
          /\ ViewIsBridged' /\ ChildIsKnown'
      BY <1>3, <1>4, <2>1, SeenIsKept
    <2> QED BY <1>1, <1>4, <2>2, KeepKeeps
  <1>5. CASE r.out = "exited" /\ Emulators!Ended(r) /\ UNCHANGED ghost
    BY <1>1, <1>3, <1>5, EndedKeeps
  <1>6. CASE /\ r.out = "running" /\ handle' = [r.h EXCEPT !.shut = TRUE]
             /\ ghost' = IF Emulators!DolphinRequests(r.h) THEN [ghost EXCEPT !.terms = @ + 1] ELSE ghost
             /\ Emulators!Continue([op EXCEPT !.phase = "grace"]) /\ UNCHANGED process
    <2>1. PICK o : o = [op EXCEPT !.phase = "grace"]
      OBVIOUS
    <2>2. /\ o \in Emulators!Ops /\ o.call = op.call /\ o.begin = op.begin /\ o.at = "query"
          /\ o.phase = "grace" /\ o.then = op.then
      BY <1>1, <2>1 DEF Emulators!Ops
    <2>3. Emulators!Continue(o) /\ op' = o /\ owner' = owner /\ process' = process
      BY <1>6, <2>1 DEF Emulators!Continue
    <2>4. /\ handle' \in Emulators!Handles /\ handle'.held = handle.held /\ handle'.shut
          /\ handle'.bridge = handle.bridge /\ handle'.pid = r.h.pid /\ handle'.group = r.h.group
          /\ handle'.reaped = r.h.reaped
      BY <1>3, <1>6 DEF Looked, Emulators!Handles
    <2>5. ViewIsBridged'
      BY <2>3, <2>4 DEF EmulatorsInv, ViewIsBridged, Emulators!Bridged
    <2>6. ~Emulators!Grouped(owner) /\ ~Emulators!Grouped(owner)'
      BY <1>1, <2>3 DEF Emulators!Grouped
    <2>7. ChildIsKnown'
      BY <1>3, <1>6, <2>3, <2>4, <2>6 DEF Looked, ChildIsKnown
    <2>8. CallIsPlaced'
      BY <1>1, <2>2, <2>3 DEF CallIsPlaced
    <2>9. ghost' \in Emulators!Ghosts /\ ghost'.terms \in 0 .. 1 /\ ghost'.hurt = ghost.hurt
      <3>1. ghost \in Emulators!Ghosts /\ ghost.terms \in 0 .. 1 /\ (~handle.shut => ghost.terms = 0)
        BY <1>1, CallParts DEF EmulatorsInv, RequestsAreCounted
      <3>2. CASE handle.shut
        BY <1>3, <1>6, <3>1, <3>2 DEF Looked, Emulators!DolphinRequests
      <3>3. CASE ~handle.shut
        <4>1. ghost' = [ghost EXCEPT !.terms = 1]
          BY <1>3, <1>6, <3>1, <3>3 DEF Looked, Emulators!DolphinRequests
        <4> QED BY <3>1, <4>1 DEF Emulators!Ghosts
      <3> QED BY <3>2, <3>3
    <2>10. RequestsAreCounted'
      BY <2>4, <2>9 DEF EmulatorsInv, RequestsAreCounted
    <2>11. Emulators!Alive' <=> Emulators!Alive
      BY <2>3 DEF Emulators!Alive
    <2> QED BY <1>1, <2>2, <2>3, <2>4, <2>5, <2>7, <2>8, <2>9, <2>10, <2>11, CallParts, ContinueKeeps
  <1>7. CASE /\ Emulators!Sees(r) /\ UNCHANGED ghost /\ op.waited < WaitPolls
             /\ Emulators!Continue([op EXCEPT !.waited = @ + 1])
    <2>1. PICK o : o = [op EXCEPT !.waited = @ + 1]
      OBVIOUS
    <2>2. /\ o \in Emulators!Ops /\ o.call = op.call /\ o.begin = op.begin /\ o.at = "query"
          /\ o.phase = op.phase /\ o.then = op.then
      <3>1. op.waited + 1 \in 0 .. WaitPolls
        BY <1>1, <1>7, PollsAreBounded DEF Emulators!PollsAssumption, Emulators!Ops
      <3> QED BY <1>1, <2>1, <3>1 DEF Emulators!Ops
    <2>3. Emulators!Continue(o) /\ op' = o /\ owner' = owner
      BY <1>7, <2>1 DEF Emulators!Continue
    <2>4. /\ handle' \in Emulators!Handles /\ process' \in Emulators!Worlds
          /\ handle'.held = handle.held /\ handle'.shut = handle.shut
          /\ process'.windows = process.windows /\ process'.mount = process.mount
          /\ Emulators!Alive' <=> Emulators!Alive
          /\ ViewIsBridged' /\ ChildIsKnown'
      BY <1>3, <1>7, <2>3, SeenIsKept
    <2>5. CallIsPlaced'
      BY <1>1, <2>2, <2>3 DEF CallIsPlaced
    <2>6. RequestsAreCounted'
      BY <1>7, <2>4 DEF EmulatorsInv, RequestsAreCounted
    <2> QED BY <1>1, <1>7, <2>2, <2>3, <2>4, <2>5, <2>6, CallParts, ContinueKeeps
  <1>8. CASE r.out = "error"
    BY <1>2, <1>4, <1>8
  <1>9. CASE r.out = "exited"
    BY <1>2, <1>5, <1>9
  <1>10. CASE r.out = "running" /\ op.phase = "first"
    BY <1>2, <1>4, <1>6, <1>10
  <1>11. CASE r.out = "running" /\ op.phase = "grace"
    BY <1>2, <1>4, <1>7, <1>11
  <1> QED BY <1>1, <1>3, <1>8, <1>9, <1>10, <1>11

\* A look at the child that keeps the object, between two calls.
LEMMA PollKeeps ==
  ASSUME EmulatorsInv, owner # "none", NEW r, Looked(r), Emulators!Sees(r), Emulators!Keep, UNCHANGED ghost
  PROVE  EmulatorsInv' /\ Spares
  <1>1. owner' = owner
    BY DEF Emulators!Keep
  <1>2. /\ handle' \in Emulators!Handles /\ process' \in Emulators!Worlds
        /\ handle'.held = handle.held /\ handle'.shut = handle.shut
        /\ process'.windows = process.windows /\ process'.mount = process.mount
        /\ Emulators!Alive' <=> Emulators!Alive
        /\ ViewIsBridged' /\ ChildIsKnown'
    BY <1>1, SeenIsKept
  <1> QED BY <1>2, CallParts, KeepKeeps

\* One that finds it gone, without a bridge to close.
LEMMA GoneKeeps ==
  ASSUME EmulatorsInv, NEW r, Looked(r), r.w.leader = "none", "xenia" \notin r.w.helpers, ~r.h.bridge,
         Emulators!Release, process' = r.w, UNCHANGED ghost
  PROVE  EmulatorsInv' /\ Spares
  <1>1. ~Emulators!Alive
    BY DEF Looked, Emulators!Alive
  <1>2. /\ process' \in Emulators!Worlds /\ process'.leader = "none" /\ "xenia" \notin process'.helpers
        /\ process'.mounter = "none" /\ ~process'.mount /\ ~process'.files
    BY DEF Looked, EmulatorsInv, ViewIsBridged
  <1> QED BY <1>1, <1>2, ReleaseKeeps

LEMMA PollXemuKeeps ==
  ASSUME EmulatorsInv, Emulators!PollXemu
  PROVE  EmulatorsInv' /\ Spares
  <1>1. owner = "xemu" /\ owner # "none" /\ UNCHANGED ghost
    BY DEF Emulators!PollXemu
  <1>2. PICK r \in Emulators!Query :
          /\ process' = r.w
          /\ IF r.out = "exited" THEN Emulators!Release ELSE handle' = r.h /\ Emulators!Keep
    BY DEF Emulators!PollXemu
  <1>3. /\ Looked(r) /\ (r.out = "exited" => r.w.leader = "none" /\ "xenia" \notin r.w.helpers)
        /\ ~r.h.bridge
    BY <1>1, QueryIsLook DEF Looked, EmulatorsInv, ViewIsBridged, Emulators!Bridged
  <1>4. CASE r.out = "exited"
    BY <1>1, <1>2, <1>3, <1>4, GoneKeeps
  <1>5. CASE r.out # "exited"
    BY <1>1, <1>2, <1>3, <1>5, PollKeeps DEF Emulators!Sees
  <1> QED BY <1>4, <1>5

\* What closing the bridge of a child that is gone can leave.
LEMMA TryCloseParts ==
  ASSUME EmulatorsInv, NEW r, Looked(r), NEW c \in Emulators!TryClose(r.h, r.w)
  PROVE  /\ c.h \in Emulators!Handles /\ c.h.held = r.h.held /\ c.h.shut = r.h.shut
         /\ c.h.bridge = r.h.bridge /\ c.h.pid = r.h.pid /\ c.h.reaped = r.h.reaped
         /\ c.h.group = r.h.group
         /\ c.w \in Emulators!Worlds /\ c.w.windows = r.w.windows /\ c.w.leader = r.w.leader
         /\ c.w.helpers = r.w.helpers /\ c.w.other = r.w.other /\ (c.w.mount => c.w.files)
         /\ c.out = "closed" => c.w.mounter = "none" /\ ~c.w.mount /\ ~c.w.files
  <1>1. /\ r.h \in Emulators!Handles /\ r.w \in Emulators!Worlds /\ (r.w.mount => r.w.files)
    BY DEF Looked, EmulatorsInv, ViewIsBridged
  <1>2. PICK m \in Emulators!Ends : m = IF r.w.mounter = "ended" THEN "none" ELSE r.w.mounter
    BY <1>1 DEF Emulators!Worlds, Emulators!Ends
  <1>3. PICK asked : asked = [r.h EXCEPT !.asked = TRUE]
    OBVIOUS
  <1>4. PICK gone, left : /\ gone = [r.w EXCEPT !.mount = FALSE, !.mounter = m]
                          /\ left = [r.w EXCEPT !.mounter = m]
    OBVIOUS
  <1>5. PICK v : v = IF r.h.asked THEN left ELSE gone
    OBVIOUS
  <1>6. PICK b \in BOOLEAN : b = (v.mounter # "none")
    OBVIOUS
  <1>7. PICK x : x = [asked EXCEPT !.mounter = b]
    OBVIOUS
  <1>8. PICK p \in 0 .. ClosePolls : p = IF x.polls < ClosePolls THEN x.polls + 1 ELSE x.polls
    <2>1. x.polls \in 0 .. ClosePolls /\ ClosePolls \in Nat
      BY <1>1, <1>3, <1>7, PollsAreBounded DEF Emulators!Handles, Emulators!PollsAssumption
    <2> QED BY <2>1
  <1>9. PICK y, z : y = [x EXCEPT !.polls = p] /\ z = [v EXCEPT !.files = FALSE]
    OBVIOUS
  <1>10. /\ x \in Emulators!Handles /\ x.held = r.h.held /\ x.shut = r.h.shut
         /\ x.bridge = r.h.bridge /\ x.pid = r.h.pid /\ x.reaped = r.h.reaped /\ x.group = r.h.group
    BY <1>1, <1>3, <1>7 DEF Emulators!Handles
  <1>11. /\ y \in Emulators!Handles /\ y.held = r.h.held /\ y.shut = r.h.shut
         /\ y.bridge = r.h.bridge /\ y.pid = r.h.pid /\ y.reaped = r.h.reaped /\ y.group = r.h.group
    BY <1>9, <1>10 DEF Emulators!Handles
  <1>12. /\ v \in Emulators!Worlds /\ v.windows = r.w.windows /\ v.leader = r.w.leader
         /\ v.helpers = r.w.helpers /\ v.other = r.w.other /\ (v.mount => r.w.mount) /\ v.files = r.w.files
    BY <1>1, <1>4, <1>5 DEF Emulators!Worlds
  <1>13. /\ z \in Emulators!Worlds /\ z.windows = r.w.windows /\ z.leader = r.w.leader
         /\ z.helpers = r.w.helpers /\ z.other = r.w.other /\ z.mount = v.mount /\ ~z.files
         /\ z.mounter = v.mounter
    BY <1>9, <1>12 DEF Emulators!Worlds
  <1>14. \/ c = [h |-> r.h, w |-> r.w, out |-> "error"]
         \/ c = [h |-> x, w |-> v, out |-> "error"]
         \/ c = [h |-> y, w |-> v, out |-> "running"]
         \/ c = [h |-> x, w |-> z, out |-> "closed"] /\ v.mounter = "none" /\ ~v.mount
    <2>1. PICK left2, gone2 : /\ left2 = [r.w EXCEPT !.mounter = IF @ = "ended" THEN "none" ELSE @]
                              /\ gone2 = [r.w EXCEPT !.mount = FALSE,
                                                     !.mounter = IF @ = "ended" THEN "none" ELSE @]
      OBVIOUS
    <2>2. left2 = left /\ gone2 = gone
      BY <1>2, <1>4, <2>1
    <2>3. x = [[r.h EXCEPT !.asked = TRUE] EXCEPT !.mounter = v.mounter # "none"]
      BY <1>3, <1>6, <1>7
    <2>4. y = [x EXCEPT !.polls = IF @ < ClosePolls THEN @ + 1 ELSE @]
      BY <1>8, <1>9
    <2>5. v = IF r.h.asked THEN left2 ELSE gone2
      BY <1>5, <2>2
    <2>6. c \in {[h |-> r.h, w |-> r.w, out |-> "error"], [h |-> x, w |-> v, out |-> "error"]} \cup
                IF v.mounter # "none"
                THEN {[h |-> y, w |-> v, out |-> "running"]}
                ELSE IF v.mount THEN {} ELSE {[h |-> x, w |-> z, out |-> "closed"]}
      BY <1>9, <2>1, <2>3, <2>4, <2>5 DEF Emulators!TryClose
    <2> QED BY <2>6
  <1>15. CASE c = [h |-> r.h, w |-> r.w, out |-> "error"]
    BY <1>1, <1>15
  <1>16. CASE c = [h |-> x, w |-> v, out |-> "error"]
    BY <1>1, <1>10, <1>12, <1>16
  <1>17. CASE c = [h |-> y, w |-> v, out |-> "running"]
    BY <1>1, <1>11, <1>12, <1>17
  <1>18. CASE c = [h |-> x, w |-> z, out |-> "closed"] /\ v.mounter = "none" /\ ~v.mount
    BY <1>10, <1>13, <1>18
  <1> QED BY <1>14, <1>15, <1>16, <1>17, <1>18

\* A poll of Xenia: its group is gone and the bridge is closed, it runs, or it
\* is condemned.
LEMMA PollXeniaKeeps ==
  ASSUME EmulatorsInv, Emulators!PollXenia
  PROVE  EmulatorsInv' /\ Spares
  <1>1. owner = "xenia" /\ owner # "none" /\ op.call = "none" /\ UNCHANGED ghost /\ handle.held
    BY CallParts DEF Emulators!PollXenia, Emulators!Idle
  <1>2. PICK r \in Emulators!Query :
          CASE r.out = "exited" /\ ~r.h.bridge -> Emulators!Release /\ process' = r.w
            [] r.out = "exited" /\ r.h.bridge ->
                 \E c \in Emulators!TryClose(r.h, r.w) :
                   /\ process' = c.w
                   /\ IF c.out = "closed" THEN Emulators!Release ELSE handle' = c.h /\ Emulators!Keep
            [] r.out = "running" /\ (r.h.bridge => Emulators!Watched(r.w)) -> Emulators!Sees(r) /\ Emulators!Keep
            [] r.out = "error" \/ (r.out = "running" /\ r.h.bridge /\ ~Emulators!Watched(r.w)) ->
                 /\ Emulators!Sees(r)
                 /\ IF process.windows THEN Emulators!Keep
                    ELSE Emulators!Continue(Emulators!Call("poll", "query"))
    BY DEF Emulators!PollXenia
  <1>3. /\ Looked(r) /\ r.out \in {"running", "exited", "error"}
        /\ r.out = "exited" => r.w.leader = "none" /\ "xenia" \notin r.w.helpers
    BY <1>1, QueryIsLook
  <1>4. CASE r.out = "exited" /\ ~r.h.bridge
    BY <1>1, <1>2, <1>3, <1>4, GoneKeeps
  <1>5. CASE r.out = "exited" /\ r.h.bridge
    <2>1. PICK c \in Emulators!TryClose(r.h, r.w) :
            /\ process' = c.w
            /\ IF c.out = "closed" THEN Emulators!Release ELSE handle' = c.h /\ Emulators!Keep
      BY <1>2, <1>5
    <2>2. /\ c.h \in Emulators!Handles /\ c.h.held = r.h.held /\ c.h.shut = r.h.shut
          /\ c.h.bridge = r.h.bridge /\ c.h.pid = r.h.pid /\ c.h.reaped = r.h.reaped
          /\ c.h.group = r.h.group
          /\ c.w \in Emulators!Worlds /\ c.w.windows = r.w.windows /\ c.w.leader = r.w.leader
          /\ c.w.helpers = r.w.helpers /\ c.w.other = r.w.other /\ (c.w.mount => c.w.files)
          /\ c.out = "closed" => c.w.mounter = "none" /\ ~c.w.mount /\ ~c.w.files
      BY <1>3, TryCloseParts
    <2>3. ~Emulators!Alive
      BY <1>3, <1>5 DEF Looked, Emulators!Alive
    <2>4. CASE c.out = "closed"
      BY <1>1, <1>3, <1>5, <2>1, <2>2, <2>3, <2>4, ReleaseKeeps
    <2>5. CASE c.out # "closed"
      <3>1. handle' = c.h /\ Emulators!Keep /\ owner' = owner /\ process' = c.w
        BY <2>1, <2>5 DEF Emulators!Keep
      <3>2. ViewIsBridged'
        BY <1>3, <1>5, <2>2, <3>1 DEF Looked, EmulatorsInv, ViewIsBridged, Emulators!Bridged
      <3>3. Emulators!Grouped(owner)' <=> Emulators!Grouped(owner)
        BY <1>3, <2>2, <3>1 DEF Looked, Emulators!Grouped
      <3>4. ChildIsKnown'
        BY <1>3, <2>2, <3>1, <3>3 DEF Looked, ChildIsKnown
      <3>5. ~Emulators!Alive'
        BY <1>3, <1>5, <2>2, <3>1 DEF Emulators!Alive
      <3>6. handle'.held /\ handle'.shut = handle.shut /\ process'.windows = process.windows
        BY <1>1, <1>3, <2>2, <3>1 DEF Looked
      <3> QED BY <1>1, <2>2, <2>3, <3>1, <3>2, <3>4, <3>5, <3>6, KeepKeeps
    <2> QED BY <2>4, <2>5
  <1>6. CASE Emulators!Sees(r) /\ Emulators!Keep
    BY <1>1, <1>3, <1>6, PollKeeps
  <1>7. CASE Emulators!Sees(r) /\ Emulators!Continue(Emulators!Call("poll", "query"))
    <2>1. PICK o : o = Emulators!Call("poll", "query")
      OBVIOUS
    <2>2. /\ o \in Emulators!Ops /\ o.call = "poll" /\ o.at = "query" /\ o.begin = Emulators!Now
      BY <2>1, CallBegins
    <2>3. Emulators!Continue(o) /\ op' = o /\ owner' = owner
      BY <1>7, <2>1 DEF Emulators!Continue
    <2>4. /\ handle' \in Emulators!Handles /\ process' \in Emulators!Worlds
          /\ handle'.held = handle.held /\ handle'.shut = handle.shut
          /\ process'.windows = process.windows /\ process'.mount = process.mount
          /\ Emulators!Alive' <=> Emulators!Alive
          /\ ViewIsBridged' /\ ChildIsKnown'
      BY <1>3, <1>7, <2>3, SeenIsKept
    <2>5. CallIsPlaced'
      BY <1>1, <2>2, <2>3 DEF CallIsPlaced
    <2> QED BY <1>1, <2>2, <2>3, <2>4, <2>5, BeginKeeps
  <1>8. CASE r.out = "running" /\ (r.h.bridge => Emulators!Watched(r.w))
    BY <1>2, <1>6, <1>8
  <1>9. CASE r.out = "error" \/ (r.out = "running" /\ r.h.bridge /\ ~Emulators!Watched(r.w))
    BY <1>2, <1>6, <1>7, <1>9
  <1> QED BY <1>3, <1>4, <1>5, <1>8, <1>9

\* A poll of Dolphin stops it, as far as its bridge, when it has ended.
LEMMA PollDolphinKeeps ==
  ASSUME EmulatorsInv, Emulators!PollDolphin
  PROVE  EmulatorsInv' /\ Spares
  <1>1. owner = "dolphin" /\ owner # "none" /\ op.call = "none" /\ UNCHANGED ghost /\ handle.held
    BY CallParts DEF Emulators!PollDolphin, Emulators!Idle
  <1>2. PICK r \in Emulators!Query :
          /\ Emulators!Sees(r)
          /\ IF r.out = "exited"
             THEN Emulators!Continue([Emulators!Call("stop", IF r.h.bridge THEN "unmount" ELSE "remove")
                                        EXCEPT !.then = "release"])
             ELSE Emulators!Keep
    BY DEF Emulators!PollDolphin
  <1>3. /\ Looked(r) /\ (r.out = "exited" => r.w.leader = "none" /\ "xenia" \notin r.w.helpers)
    BY <1>1, QueryIsLook
  <1>4. CASE r.out # "exited"
    BY <1>1, <1>2, <1>3, <1>4, PollKeeps
  <1>5. CASE r.out = "exited"
    <2>1. PICK place \in {"unmount", "remove"} :
            Emulators!Continue([Emulators!Call("stop", place) EXCEPT !.then = "release"])
      BY <1>2, <1>5
    <2>2. PICK o : o = [Emulators!Call("stop", place) EXCEPT !.then = "release"]
      OBVIOUS
    <2>3. /\ o \in Emulators!Ops /\ o.call = "stop" /\ o.at = place /\ o.begin = Emulators!Now
          /\ o.phase = "first" /\ o.then = "release"
      BY <2>2, CallBegins
    <2>4. Emulators!Continue(o) /\ op' = o /\ owner' = owner /\ Emulators!Sees(r) /\ process' = r.w
      BY <1>2, <2>1, <2>2 DEF Emulators!Continue, Emulators!Sees
    <2>5. /\ handle' \in Emulators!Handles /\ process' \in Emulators!Worlds
          /\ handle'.held = handle.held /\ handle'.shut = handle.shut
          /\ process'.windows = process.windows /\ process'.mount = process.mount
          /\ Emulators!Alive' <=> Emulators!Alive
          /\ ViewIsBridged' /\ ChildIsKnown'
      BY <1>3, <2>4, SeenIsKept
    <2>6. CallIsPlaced'
      BY <1>3, <1>5, <2>3, <2>4 DEF CallIsPlaced
    <2> QED BY <1>1, <2>3, <2>4, <2>5, <2>6, BeginKeeps
  <1> QED BY <1>4, <1>5

\* Closing Xenia's storage touches nothing else.
LEMMA CleanupKeeps ==
  ASSUME EmulatorsInv, Emulators!Cleanup
  PROVE  EmulatorsInv' /\ Spares
  BY DEF Emulators!Cleanup, Emulators!Idle, EmulatorsInv, Emulators!TypeOK, HeldIsOwned, ViewIsBridged,
     ChildIsKnown, CallIsPlaced, BeginIsRemembered, RequestsAreCounted, Spares,
     Emulators!Bridged, Emulators!Grouped, Emulators!Alive

\* What goes on in the world by itself makes no process that is not known.
LEMMA WorldKeeps ==
  ASSUME EmulatorsInv, Emulators!World
  PROVE  EmulatorsInv' /\ Spares
  <1>1. /\ owner' = owner /\ storage' = storage /\ handle' = handle /\ op' = op /\ ghost' = ghost
    BY DEF Emulators!World
  <1>2. /\ process \in Emulators!Worlds
        /\ owner = "none" => /\ process.leader = "none" /\ "xenia" \notin process.helpers
                             /\ process.mounter = "none" /\ ~process.mount /\ ~process.files
    BY CallParts DEF EmulatorsInv, HeldIsOwned, Emulators!QuietWorld
  <1>3. /\ process' \in Emulators!Worlds
        /\ process'.windows = process.windows /\ process'.mount = process.mount
        /\ process'.files = process.files
        /\ process'.leader = process.leader \/ (process.leader = "runs" /\ process'.leader = "ended")
        /\ "xenia" \in process'.helpers => "xenia" \in process.helpers \/ (Emulators!Grouped(owner) /\ process.leader = "runs")
        /\ process'.other # process.other => process.leader = "none"
        /\ process'.mounter = process.mounter \/ process.mounter = "runs"
    <2>1. CASE Emulators!LeaderEnds
      BY <1>2, <2>1 DEF Emulators!LeaderEnds, Emulators!Worlds, Emulators!Ends
    <2>2. CASE Emulators!HelperStarts
      <3>1. PICK h : h = process.helpers \cup {owner}
        OBVIOUS
      <3>2. process' = [process EXCEPT !.helpers = h] /\ process.leader = "runs" /\ Emulators!Leads(owner)
        BY <2>2, <3>1 DEF Emulators!HelperStarts
      <3>3. h \in SUBSET {"xemu", "xenia"}
        BY <1>2, <3>1, <3>2 DEF Emulators!Leads, Emulators!Worlds
      <3>4. "xenia" \in h => "xenia" \in process.helpers \/ Emulators!Grouped(owner)
        BY <3>1, <3>2 DEF Emulators!Leads, Emulators!Grouped
      <3> QED BY <1>2, <3>2, <3>3, <3>4 DEF Emulators!Worlds
    <2>3. CASE Emulators!HelperEnds
      <3>1. PICK k \in process.helpers : process' = [process EXCEPT !.helpers = @ \ {k}]
        BY <2>3 DEF Emulators!HelperEnds
      <3> QED BY <1>2, <3>1 DEF Emulators!Worlds
    <2>4. CASE Emulators!NumberReused
      <3>1. process' = [process EXCEPT !.other = ~process.other] /\ process.leader = "none"
        BY <2>4 DEF Emulators!NumberReused
      <3> QED BY <1>2, <3>1 DEF Emulators!Worlds
    <2>5. CASE Emulators!MounterEnds
      BY <1>2, <2>5 DEF Emulators!MounterEnds, Emulators!Worlds, Emulators!Ends
    <2> QED BY <2>1, <2>2, <2>3, <2>4, <2>5 DEF Emulators!World
  <1>4. Emulators!Grouped(owner)' <=> Emulators!Grouped(owner)
    BY <1>1, <1>3 DEF Emulators!Grouped
  <1>5. Emulators!Alive' => Emulators!Alive
    BY <1>3 DEF Emulators!Alive
  <1>6. ChildIsKnown'
    BY <1>1, <1>3, <1>4 DEF EmulatorsInv, ChildIsKnown
  <1>7. ViewIsBridged'
    <2>1. ~handle.bridge => process'.mounter = "none"
      BY <1>3 DEF EmulatorsInv, ViewIsBridged
    <2> QED BY <1>1, <1>3, <2>1 DEF EmulatorsInv, ViewIsBridged, Emulators!Bridged
  <1>8. HeldIsOwned'
    <2>1. owner = "none" => /\ process'.leader = "none" /\ "xenia" \notin process'.helpers
                            /\ process'.mounter = "none" /\ ~process'.mount /\ ~process'.files
      BY <1>2, <1>3, <1>4 DEF Emulators!Grouped
    <2> QED BY <1>1, <1>3, <2>1 DEF EmulatorsInv, HeldIsOwned
  <1>9. CallIsPlaced'
    <2>1. op.at \in {"bridge", "spawn", "unmount", "remove"} => process'.leader = "none" /\ "xenia" \notin process'.helpers
      BY <1>3 DEF EmulatorsInv, CallIsPlaced
    <2> QED BY <1>1, <1>3, <2>1 DEF EmulatorsInv, CallIsPlaced, Emulators!Bridged
  <1>10. BeginIsRemembered' /\ RequestsAreCounted' /\ Emulators!TypeOK'
    BY <1>1, <1>3, <1>5 DEF EmulatorsInv, BeginIsRemembered, RequestsAreCounted, Emulators!TypeOK
  <1> QED BY <1>1, <1>3, <1>5, <1>6, <1>7, <1>8, <1>9, <1>10 DEF EmulatorsInv, Spares

\* Every step of the emulators keeps the invariant and spares the readers.
LEMMA EmulatorsStep ==
  ASSUME EmulatorsInv, [Emulators!Next]_(Emulators!vars)
  PROVE  EmulatorsInv' /\ Spares
  <1>1. CASE Emulators!Start
    BY <1>1, StartKeeps
  <1>2. CASE Emulators!Calls
    BY <1>2, BridgeStartKeeps, SpawnKeeps, BridgeUnmountKeeps, BridgeRemoveKeeps, StopKeeps,
       StopQueryKeeps, StopWokenKeeps, StopDolphinKeeps, PollXemuKeeps, PollXeniaKeeps,
       PollDolphinKeeps, CleanupKeeps DEF Emulators!Calls
  <1>3. CASE Emulators!World
    BY <1>3, WorldKeeps
  <1>4. CASE UNCHANGED Emulators!vars
    BY <1>4 DEF Emulators!vars, EmulatorsInv, Emulators!TypeOK, HeldIsOwned, ViewIsBridged,
       ChildIsKnown, CallIsPlaced, BeginIsRemembered, RequestsAreCounted, Spares,
       Emulators!Bridged, Emulators!Grouped, Emulators!Alive
  <1> QED BY <1>1, <1>2, <1>3, <1>4 DEF Emulators!Next

\* In the composition the emulators take their own steps or none.
LEMMA EmulatorsMove ==
  ASSUME [RuntimeNext]_<<part, vars, ring, playback>>
  PROVE  [Emulators!Next]_(Emulators!vars)
  <1>1. CASE Emulators!PlaybackNext
    BY <1>1 DEF Emulators!PlaybackNext, Emulators!PrepareSaves, Emulators!StartXemuOn,
       Emulators!StartOther, Emulators!Work, Emulators!Happens, Emulators!XemuSaved,
       Emulators!FilesChange, Emulators!Next
  <1>2. CASE UNCHANGED playback
    BY <1>2 DEF playback, Emulators!vars
  <1> QED BY <1>1, <1>2 DEF RuntimeNext

LEMMA EmulatorsInvariant == RuntimeSpec => []EmulatorsInv
  <1>1. EmulatorsInv /\ [RuntimeNext]_<<part, vars, ring, playback>> => EmulatorsInv'
    BY EmulatorsMove, EmulatorsStep
  <1> QED BY <1>1, EmulatorsStart, PTL DEF RuntimeSpec

\* NothingOutlives: at any timing of the children, their groups and the servers
\* of the views, an emulator that is let go has left no process and no mount.
THEOREM EmulatorsLeaveNothing == RuntimeSpec => []NothingOutlives
  <1>1. EmulatorsInv => NothingOutlives
    BY DEF EmulatorsInv, NothingOutlives, Emulators!NothingOutlives, HeldIsOwned, Emulators!Alive
  <1> QED BY <1>1, EmulatorsInvariant, PTL

\* ReadersAreSpared: no view is taken from a process that reads through it,
\* Dolphin is asked to end once, and the signals for xemu and Dolphin meet no
\* stranger.
THEOREM EmulatorsSpareReaders == RuntimeSpec => ReadersAreSpared
  <1>1. EmulatorsInv /\ [RuntimeNext]_<<part, vars, ring, playback>>
          => [/\ process.mount /\ ~process'.mount => ~Emulators!Alive
              /\ ghost'.terms < 2
              /\ ghost'.hurt \subseteq {"xenia"}]_(Emulators!vars)
    <2> SUFFICES ASSUME EmulatorsInv, [RuntimeNext]_<<part, vars, ring, playback>>
                 PROVE  /\ process.mount /\ ~process'.mount => ~Emulators!Alive
                        /\ ghost'.terms < 2
                        /\ ghost'.hurt \subseteq {"xenia"}
      OBVIOUS
    <2>1. EmulatorsInv' /\ Spares
      BY EmulatorsMove, EmulatorsStep
    <2> QED BY <2>1 DEF Spares, EmulatorsInv, RequestsAreCounted
  <1> QED BY <1>1, EmulatorsInvariant, PTL DEF RuntimeSpec, ReadersAreSpared, Emulators!ReadersAreSpared

-----------------------------------------------------------------------------
(* What the runtime's worker sees: each call is one step.                  *)

\* The ways a step ends, goes on with, or begins a call.
Finishes == \/ Emulators!Release \/ Emulators!Cleanup
            \/ Emulators!Keep /\ (op.at = "spawn" /\ owner = "xemu" => Emulators!Alive')
GoesOn == \/ op' = op /\ owner' = owner /\ storage' = storage
          \/ \E o : /\ Emulators!Continue(o) /\ op.call # "none"
                    /\ o.call = op.call /\ o.begin = op.begin
Begins == /\ op.call = "none" /\ op'.call # "none" /\ op'.begin = Emulators!Now

\* Every step does one of these.
LEMMA StepsAreOfACall ==
  ASSUME EmulatorsInv, Emulators!Next
  PROVE  Finishes \/ GoesOn \/ Begins
  <1>1. op \in Emulators!Ops /\ (op.at # "idle" => op.call # "none")
    BY CallParts
  <1>2. \A at, then : /\ Emulators!Remove(at, then).begin = op.begin
                      /\ Emulators!Remove(at, then).call = op.call
    BY <1>1 DEF Emulators!Ops, Emulators!Remove
  <1>3. \A c, place : /\ Emulators!Call(c, place).begin = Emulators!Now
                      /\ Emulators!Call(c, place).call = c
                      /\ [Emulators!Call(c, place) EXCEPT !.then = "release"].begin = Emulators!Now
                      /\ [Emulators!Call(c, place) EXCEPT !.then = "release"].call = c
    BY DEF Emulators!Call, Emulators!NoCall
  <1>4. CASE Emulators!Start
    BY <1>3, <1>4 DEF Emulators!Start, Emulators!Idle, Begins
  <1>5. CASE Emulators!BridgeStart
    <2>1. [op EXCEPT !.at = "spawn"].begin = op.begin /\ [op EXCEPT !.at = "spawn"].call = op.call
      BY <1>1 DEF Emulators!Ops
    <2>2. \/ Emulators!Release
          \/ Emulators!Continue(Emulators!Remove("unmount", "retain"))
          \/ Emulators!Continue([op EXCEPT !.at = "spawn"])
      BY <1>5 DEF Emulators!BridgeStart
    <2>3. op.call # "none"
      BY <1>1, <1>5 DEF Emulators!BridgeStart
    <2>4. CASE Emulators!Continue(Emulators!Remove("unmount", "retain"))
      BY <1>2, <2>3, <2>4 DEF GoesOn
    <2>5. CASE Emulators!Continue([op EXCEPT !.at = "spawn"])
      BY <2>1, <2>3, <2>5 DEF GoesOn
    <2> QED BY <2>2, <2>4, <2>5 DEF Finishes
  <1>6. CASE Emulators!Spawn
    <2>1. CASE Emulators!Child
      <3>1. process' = [process EXCEPT !.leader = "runs", !.other = FALSE] /\ Emulators!Keep
        BY <2>1 DEF Emulators!Child
      <3>2. Emulators!Alive'
        BY <3>1, CallParts DEF Emulators!Alive, Emulators!Worlds
      <3> QED BY <3>1, <3>2 DEF Finishes
    <2>2. CASE Emulators!Continue(Emulators!Remove("unmount", "leak"))
      BY <1>1, <1>2, <1>6, <2>2 DEF Emulators!Spawn, GoesOn
    <2>3. CASE Emulators!Release \/ (owner = "dolphin" /\ Emulators!Keep)
      BY <2>3 DEF Finishes
    <2> QED BY <1>6, <2>1, <2>2, <2>3 DEF Emulators!Spawn, Emulators!SpawnXemu, Emulators!SpawnXenia,
            Emulators!SpawnXemuWindows, Emulators!SpawnXeniaWindows, Emulators!SpawnDolphin, Emulators!NoChild
  <1>7. CASE Emulators!BridgeUnmount
    <2>1. [op EXCEPT !.at = "remove"].begin = op.begin /\ [op EXCEPT !.at = "remove"].call = op.call
      BY <1>1 DEF Emulators!Ops
    <2> QED BY <1>1, <1>7, <2>1 DEF Emulators!BridgeUnmount, GoesOn
  <1>8. CASE Emulators!BridgeRemove
    <2>1. op.at = "remove" /\ op.then \in {"leak", "retain", "release", "polled"}
      BY <1>1, <1>8 DEF Emulators!BridgeRemove, EmulatorsInv, CallIsPlaced
    <2>2. Emulators!Release \/ Emulators!Keep
      BY <1>8, <2>1 DEF Emulators!BridgeRemove
    <2> QED BY <2>1, <2>2 DEF Finishes
  <1>9. CASE Emulators!Stop
    BY <1>3, <1>9 DEF Emulators!Stop, Emulators!Idle, Begins
  <1>10. ASSUME NEW r, Emulators!Ended(r), op.at = "query" PROVE Finishes \/ GoesOn
    BY <1>1, <1>2, <1>10 DEF Emulators!Ended, Finishes, GoesOn
  <1>11. ASSUME NEW r, Waits(r), op.at = "query" PROVE Finishes \/ GoesOn
    <2>1. Emulators!Keep \/ WaitsOn
      BY <1>1, <1>11, WaitingGoesOn
    <2> QED BY <1>1, <1>11, <2>1 DEF Finishes, GoesOn, WaitsOn
  <1>12. CASE Emulators!StopQuery
    <2>1. op.at = "query"
      BY <1>12 DEF Emulators!StopQuery
    <2> QED BY <1>10, <1>11, <1>12, <2>1, StopQueryLooks
  <1>13. CASE Emulators!StopWoken
    BY <1>10, <1>13 DEF Emulators!StopWoken
  <1>14. CASE Emulators!StopDolphin
    <2>1. PICK r \in Emulators!Query :
            CASE r.out = "error"  -> Emulators!Sees(r) /\ Emulators!Keep /\ UNCHANGED ghost
              [] r.out = "exited" -> Emulators!Ended(r) /\ UNCHANGED ghost
              [] r.out = "running" /\ op.phase = "first" ->
                   \/ Emulators!DolphinRequests(r.h) /\ Emulators!Sees(r) /\ Emulators!Keep /\ UNCHANGED ghost
                   \/ /\ handle' = [r.h EXCEPT !.shut = TRUE]
                      /\ ghost' = IF Emulators!DolphinRequests(r.h) THEN [ghost EXCEPT !.terms = @ + 1] ELSE ghost
                      /\ Emulators!Continue([op EXCEPT !.phase = "grace"]) /\ UNCHANGED process
              [] r.out = "running" /\ op.phase = "grace" ->
                   /\ Emulators!Sees(r) /\ UNCHANGED ghost
                   /\ IF op.waited < WaitPolls THEN Emulators!Continue([op EXCEPT !.waited = @ + 1])
                                               ELSE Emulators!Keep
      BY <1>14 DEF Emulators!StopDolphin
    <2>2. /\ op.at = "query" /\ op.phase \in {"first", "grace"}
          /\ r.out \in {"running", "exited", "error"}
      BY <1>1, <1>14, QueryIsLook DEF Emulators!StopDolphin, EmulatorsInv, CallIsPlaced, Emulators!Ops
    <2>3. \A waited : /\ [op EXCEPT !.waited = waited].call = op.call
                      /\ [op EXCEPT !.waited = waited].begin = op.begin
                      /\ [op EXCEPT !.phase = "grace"].call = op.call
                      /\ [op EXCEPT !.phase = "grace"].begin = op.begin
      BY <1>1 DEF Emulators!Ops
    <2>4. CASE Emulators!Ended(r)
      BY <1>10, <2>2, <2>4
    <2>5. CASE Emulators!Keep
      BY <2>2, <2>5 DEF Finishes
    <2>6. CASE \E o : Emulators!Continue(o) /\ o.call = op.call /\ o.begin = op.begin
      BY <1>1, <2>2, <2>6 DEF GoesOn
    <2> QED BY <2>1, <2>2, <2>3, <2>4, <2>5, <2>6
  <1>15. CASE Emulators!PollXemu \/ Emulators!PollXenia \/ Emulators!PollDolphin
    <2>1. op.call = "none" /\ op.at # "spawn" /\ owner # "none"
      BY <1>15 DEF Emulators!PollXemu, Emulators!PollXenia, Emulators!PollDolphin, Emulators!Idle, EmulatorsInv,
         CallIsPlaced, Emulators!NoCall
    <2>2. CASE Emulators!PollXemu
      BY <2>1, <2>2 DEF Emulators!PollXemu, Finishes
    <2>3. CASE Emulators!PollXenia
      <3>1. PICK r \in Emulators!Query :
              CASE r.out = "exited" /\ ~r.h.bridge -> Emulators!Release /\ process' = r.w
                [] r.out = "exited" /\ r.h.bridge ->
                     \E c \in Emulators!TryClose(r.h, r.w) :
                       /\ process' = c.w
                       /\ IF c.out = "closed" THEN Emulators!Release ELSE handle' = c.h /\ Emulators!Keep
                [] r.out = "running" /\ (r.h.bridge => Emulators!Watched(r.w)) -> Emulators!Sees(r) /\ Emulators!Keep
                [] r.out = "error" \/ (r.out = "running" /\ r.h.bridge /\ ~Emulators!Watched(r.w)) ->
                     /\ Emulators!Sees(r)
                     /\ IF process.windows THEN Emulators!Keep
                        ELSE Emulators!Continue(Emulators!Call("poll", "query"))
        BY <2>3 DEF Emulators!PollXenia
      <3>2. r.out \in {"running", "exited", "error"}
        BY <2>1, QueryIsLook
      <3>3. Emulators!Release \/ Emulators!Keep \/ Emulators!Continue(Emulators!Call("poll", "query"))
        BY <3>1, <3>2
      <3> QED BY <1>3, <2>1, <3>3 DEF Emulators!Continue, Finishes, Begins
    <2>4. CASE Emulators!PollDolphin
      <3>1. \/ Emulators!Keep
            \/ \E place : Emulators!Continue([Emulators!Call("stop", place) EXCEPT !.then = "release"])
        BY <2>4 DEF Emulators!PollDolphin
      <3>2. ASSUME NEW place,
                   Emulators!Continue([Emulators!Call("stop", place) EXCEPT !.then = "release"])
            PROVE  Begins
        <4>1. op' = [Emulators!Call("stop", place) EXCEPT !.then = "release"]
          BY <3>2 DEF Emulators!Continue
        <4>2. op'.call = "stop" /\ op'.begin = Emulators!Now
          BY <1>3, <4>1
        <4> QED BY <2>1, <4>2 DEF Begins
      <3> QED BY <2>1, <3>1, <3>2 DEF Finishes
    <2> QED BY <1>15, <2>2, <2>3, <2>4
  <1>16. CASE Emulators!Cleanup
    BY <1>16 DEF Finishes
  <1>17. CASE Emulators!World
    BY <1>17 DEF Emulators!World, GoesOn
  <1> QED BY <1>4, <1>5, <1>6, <1>7, <1>8, <1>9, <1>12, <1>13, <1>14, <1>15, <1>16, <1>17
      DEF Emulators!Next, Emulators!Calls

\* Two records of what plays differ in a field.
LEMMA PlaysDiffer ==
  ASSUME NEW p \in Emulators!Plays, NEW q \in Emulators!Plays,
         p.owner = q.owner, p.handle = q.handle, p.alive = q.alive, p.storage = q.storage
  PROVE  p = q
  BY DEF Emulators!Plays

\* What is shown: the state between two calls, or what the call found.
ShownIs(s, o, h, a, t) == s \in Emulators!Plays /\ s.owner = o /\ s.handle = h /\ s.alive = a /\ s.storage = t

LEMMA ShownParts ==
  ASSUME EmulatorsInv
  PROVE  /\ op.call = "none" => ShownIs(Emulators!Shown, owner, handle.held, Emulators!Alive, storage)
         /\ op.call # "none" => ShownIs(Emulators!Shown, op.begin.owner, op.begin.handle,
                                        op.begin.alive /\ Emulators!Alive, op.begin.storage)
  <1>1. /\ Emulators!Alive \in BOOLEAN /\ handle.held \in BOOLEAN /\ storage \in BOOLEAN
        /\ owner \in Backends \cup {"none"} /\ op.begin \in Emulators!Plays
    BY CallParts DEF Emulators!Alive, Emulators!Worlds, Emulators!Handles, Emulators!Ops
  <1>2. CASE op.call = "none"
    BY <1>1, <1>2 DEF Emulators!Shown, Emulators!Idle, Emulators!Now, Emulators!Plays, ShownIs
  <1>3. CASE op.call # "none"
    <2>1. Emulators!Shown = [op.begin EXCEPT !.alive = op.begin.alive /\ Emulators!Alive]
      BY <1>3 DEF Emulators!Shown, Emulators!Idle
    <2>2. PICK a \in BOOLEAN : a = (op.begin.alive /\ Emulators!Alive)
      OBVIOUS
    <2> QED BY <1>1, <1>3, <2>1, <2>2 DEF Emulators!Plays, ShownIs
  <1> QED BY <1>2, <1>3

LEMMA ShownPartsNext ==
  ASSUME EmulatorsInv'
  PROVE  /\ op'.call = "none" => ShownIs(Emulators!Shown', owner', handle'.held, Emulators!Alive', storage')
         /\ op'.call # "none" => ShownIs(Emulators!Shown', op'.begin.owner, op'.begin.handle,
                                         op'.begin.alive /\ Emulators!Alive', op'.begin.storage)
  <1>1. /\ Emulators!Alive' \in BOOLEAN /\ handle'.held \in BOOLEAN /\ storage' \in BOOLEAN
        /\ owner' \in Backends \cup {"none"} /\ op'.begin \in Emulators!Plays
    BY DEF EmulatorsInv, Emulators!TypeOK, Emulators!Alive, Emulators!Worlds, Emulators!Handles, Emulators!Ops
  <1>2. CASE op'.call = "none"
    BY <1>1, <1>2 DEF Emulators!Shown, Emulators!Idle, Emulators!Now, Emulators!Plays, ShownIs
  <1>3. CASE op'.call # "none"
    <2>1. Emulators!Shown' = [op'.begin EXCEPT !.alive = op'.begin.alive /\ Emulators!Alive']
      BY <1>3 DEF Emulators!Shown, Emulators!Idle
    <2>2. PICK a \in BOOLEAN : a = (op'.begin.alive /\ Emulators!Alive')
      OBVIOUS
    <2> QED BY <1>1, <1>3, <2>1, <2>2 DEF Emulators!Plays, ShownIs
  <1> QED BY <1>2, <1>3

\* A child that ends, and nothing else, is an exit or no step at all.
LEMMA EndIsExit ==
  ASSUME NEW p \in Emulators!Plays, NEW q \in Emulators!Plays,
         q.owner = p.owner, q.handle = p.handle, q.alive => p.alive, q.storage = p.storage
  PROVE  q = p \/ (p.alive /\ q = [p EXCEPT !.alive = FALSE])
  <1>1. p.alive \in BOOLEAN /\ q.alive \in BOOLEAN
    BY DEF Emulators!Plays
  <1>2. CASE q.alive = p.alive
    BY <1>2, PlaysDiffer
  <1>3. CASE q.alive # p.alive
    <2>1. p.alive /\ ~q.alive
      BY <1>1, <1>3
    <2>2. PICK e : e = [p EXCEPT !.alive = FALSE]
      OBVIOUS
    <2>3. /\ e \in Emulators!Plays /\ e.owner = p.owner /\ e.handle = p.handle /\ ~e.alive
          /\ e.storage = p.storage
      BY <2>2 DEF Emulators!Plays
    <2>4. e.alive = q.alive
      BY <1>1, <2>1, <2>3 DEF Emulators!Plays
    <2>5. q = e
      BY <2>3, <2>4, PlaysDiffer
    <2> QED BY <2>1, <2>2, <2>5
  <1> QED BY <1>2, <1>3

\* What the promise lets a start and a stop of p leave.
StartLeaves(p, q) == \E m \in Emulators!Promise!PhysicalSessions \cup Emulators!Promise!ImageSessions :
                       \E o \in Emulators!Promise!StartOutcomes(p, m) : q = o.play
StopLeaves(p, q) == \E o \in Emulators!Promise!StopOutcomes(p) : q = o.play

\* What a start can leave, of each emulator.
LEMMA StartIsPromised ==
  ASSUME NEW p, NEW q, NEW k \in Backends, NEW s \in BOOLEAN, NEW a \in BOOLEAN,
         ShownIs(p, "none", FALSE, FALSE, s), k = "xenia" => ~s, k = "xemu" => a,
         ShownIs(q, k, TRUE, a, s \/ k = "xenia")
  PROVE  StartLeaves(p, q)
  <1>1. k \in {"xemu", "xenia", "dolphin"}
    BY BackendsAssumption
  <1>2. p \in Emulators!Plays /\ p.owner = "none" /\ ~p.handle /\ ~p.alive /\ p.storage = s
    BY DEF ShownIs
  <1>3. ASSUME NEW backend, backend = k PROVE q = Emulators!Promise!Started(p, backend, a)
    <2>1. PICK t \in BOOLEAN : t = (s \/ k = "xenia")
      OBVIOUS
    <2>2. PICK e : e = Emulators!Promise!Started(p, backend, a)
      OBVIOUS
    <2>3. e = [p EXCEPT !.owner = k, !.handle = TRUE, !.alive = a, !.storage = t]
      BY <1>2, <1>3, <2>1, <2>2 DEF Emulators!Promise!Started
    <2>4. ShownIs(e, k, TRUE, a, t)
      BY <1>2, <2>3 DEF ShownIs, Emulators!Plays
    <2>5. q = e
      BY <2>1, <2>4, PlaysDiffer DEF ShownIs
    <2> QED BY <2>2, <2>5
  <1>4. CASE k \in {"xemu", "dolphin"}
    <2>1. PICK m : m = Emulators!Promise!LiveMedia(k)
      OBVIOUS
    <2>2. m.open /\ m.exported /\ m.backend = k
      BY <2>1 DEF Emulators!Promise!LiveMedia, Emulators!Promise!NoMedia
    <2>3. m \in Emulators!Promise!PhysicalSessions
      BY <1>4, <2>1 DEF Emulators!Promise!PhysicalSessions, Emulators!Promise!PlayableLive
    <2>4. PICK o : o = Emulators!Promise!Launched(p, m, a)
      OBVIOUS
    <2>5. o.play = q
      BY <1>3, <2>2, <2>4 DEF Emulators!Promise!Launched
    <2>6. o \in Emulators!Promise!StartOutcomes(p, m)
      <3>1. CASE k = "xemu"
        BY <1>2, <2>2, <2>4, <3>1 DEF Emulators!Promise!StartOutcomes, Emulators!Promise!StartXemu, Emulators!Promise!Running
      <3>2. CASE k = "dolphin"
        BY <1>2, <2>2, <2>4, <3>2 DEF Emulators!Promise!StartOutcomes, Emulators!Promise!StartDolphin, Emulators!Promise!Running
      <3> QED BY <1>4, <3>1, <3>2
    <2> QED BY <2>3, <2>5, <2>6 DEF StartLeaves
  <1>5. CASE k = "xenia"
    <2>1. PICK m : m = [Emulators!Promise!NoMedia EXCEPT !.open = TRUE, !.validated = TRUE, !.backend = "xenia"]
      OBVIOUS
    <2>2. m.open /\ m.validated /\ ~m.exported /\ m.backend = "xenia"
      BY <2>1 DEF Emulators!Promise!NoMedia
    <2>3. m \in Emulators!Promise!ImageSessions
      BY <1>5, <2>1, <2>2 DEF Emulators!Promise!ImageSessions
    <2>4. PICK x : x = Emulators!Promise!ExportedForXenia(m)
      OBVIOUS
    <2>5. x.backend = "xenia" /\ Emulators!Promise!TargetReady(x)
      <3>1. CASE XeniaPrivateNbd
        <4>1. x = [Emulators!Promise!NoMedia EXCEPT !.open = TRUE, !.validated = FALSE, !.exported = TRUE,
                                                    !.backend = "xenia"]
          BY <2>1, <2>2, <2>4, <3>1 DEF Emulators!Promise!ExportedForXenia, Emulators!Promise!NoMedia
        <4> QED BY <3>1, <4>1 DEF Emulators!Promise!TargetReady, Emulators!Promise!NoMedia
      <3>2. CASE ~XeniaPrivateNbd
        BY <2>2, <2>4, <3>2 DEF Emulators!Promise!ExportedForXenia, Emulators!Promise!TargetReady
      <3> QED BY <3>1, <3>2
    <2>6. PICK t : t = [media |-> x, ok |-> TRUE]
      OBVIOUS
    <2>7. t \in Emulators!Promise!XeniaTargets(m) /\ t.ok /\ t.media = x
      BY <2>4, <2>5, <2>6 DEF Emulators!Promise!XeniaTargets
    <2>8. PICK o : o = Emulators!Promise!Launched(p, x, a)
      OBVIOUS
    <2>9. o.play = q
      BY <1>3, <1>5, <2>5, <2>8 DEF Emulators!Promise!Launched
    <2>10. o \in Emulators!Promise!StartXenia(p, m)
      BY <2>7, <2>8 DEF Emulators!Promise!StartXenia
    <2>11. o \in Emulators!Promise!StartOutcomes(p, m)
      BY <1>2, <1>5, <2>2, <2>10 DEF Emulators!Promise!StartOutcomes, Emulators!Promise!Running
    <2> QED BY <2>3, <2>9, <2>11 DEF StartLeaves
  <1> QED BY <1>1, <1>4, <1>5

\* A start of Xenia that fails may leave its session storage open.
LEMMA FailedStartIsPromised ==
  ASSUME NEW p, NEW q, NEW s \in BOOLEAN, "xenia" \in Backends,
         ShownIs(p, "none", FALSE, FALSE, FALSE), ShownIs(q, "none", FALSE, FALSE, s)
  PROVE  StartLeaves(p, q)
  <1>1. p \in Emulators!Plays /\ p.owner = "none" /\ ~p.handle /\ ~p.alive /\ ~p.storage
    BY DEF ShownIs
  <1>2. PICK m : m = [Emulators!Promise!NoMedia EXCEPT !.open = TRUE, !.validated = TRUE, !.backend = "xenia"]
    OBVIOUS
  <1>3. m.open /\ m.validated /\ ~m.exported /\ m.backend = "xenia"
    BY <1>2 DEF Emulators!Promise!NoMedia
  <1>4. m \in Emulators!Promise!ImageSessions
    BY <1>2, <1>3 DEF Emulators!Promise!ImageSessions
  <1>5. PICK t : t = [media |-> m, ok |-> FALSE]
    OBVIOUS
  <1>6. t \in Emulators!Promise!XeniaTargets(m)
    BY <1>5 DEF Emulators!Promise!XeniaTargets
  <1>7. PICK o : o = [play |-> [p EXCEPT !.storage = s], media |-> t.media, ok |-> FALSE]
    OBVIOUS
  <1>8. o \in Emulators!Promise!StartXenia(p, m)
    <2> DEFINE Undone(u, v) == [play |-> [p EXCEPT !.storage = v], media |-> u.media, ok |-> FALSE]
    <2>1. {Undone(u, v) : u \in Emulators!Promise!XeniaTargets(m), v \in BOOLEAN}
            \subseteq Emulators!Promise!StartXenia(p, m)
      BY DEF Emulators!Promise!StartXenia
    <2>2. o = Undone(t, s)
      BY <1>7
    <2> HIDE DEF Undone
    <2>3. o \in {Undone(u, v) : u \in Emulators!Promise!XeniaTargets(m), v \in BOOLEAN}
      BY <1>6, <2>2
    <2> QED BY <2>1, <2>3
  <1>9. o \in Emulators!Promise!StartOutcomes(p, m)
    BY <1>1, <1>3, <1>8 DEF Emulators!Promise!StartOutcomes, Emulators!Promise!Running
  <1>10. PICK e : e = [p EXCEPT !.storage = s]
    OBVIOUS
  <1>11. ShownIs(e, "none", FALSE, FALSE, s)
    BY <1>1, <1>10 DEF ShownIs, Emulators!Plays
  <1>12. q = e
    BY <1>11, PlaysDiffer DEF ShownIs
  <1> QED BY <1>4, <1>7, <1>9, <1>10, <1>12 DEF StartLeaves

\* What a stop can leave: the process, perhaps dead, or nothing.
LEMMA StopIsPromised ==
  ASSUME NEW p, NEW q, NEW k \in Backends, NEW s \in BOOLEAN, NEW a \in BOOLEAN,
         NEW t \in BOOLEAN, ShownIs(p, k, TRUE, a, s), ShownIs(q, "none", FALSE, FALSE, t),
         t = s \/ (~t /\ k = "xenia")
  PROVE  StopLeaves(p, q)
  <1>1. p \in Emulators!Plays /\ p.owner = k /\ k # "none" /\ p.storage = s
    BY BackendsAssumption DEF ShownIs
  <1>2. t \in Emulators!Promise!StorageLeft(p)
    BY <1>1 DEF Emulators!Promise!StorageLeft
  <1>3. PICK e : e = Emulators!Promise!Released(p, t)
    OBVIOUS
  <1>4. ShownIs(e, "none", FALSE, FALSE, t)
    BY <1>3 DEF Emulators!Promise!Released, Emulators!Promise!NothingPlays, ShownIs, Emulators!Plays
  <1>5. q = e
    BY <1>4, PlaysDiffer DEF ShownIs
  <1>6. PICK o : o = [play |-> q, ok |-> (k = "dolphin")]
    OBVIOUS
  <1>7. o \in [play : {Emulators!Promise!Released(p, u) : u \in Emulators!Promise!StorageLeft(p)}, ok : BOOLEAN]
    BY <1>2, <1>3, <1>5, <1>6
  <1>8. o \in Emulators!Promise!Stopped(p)
    BY <1>1, <1>6, <1>7 DEF Emulators!Promise!Stopped
  <1> QED BY <1>1, <1>6, <1>8 DEF StopLeaves, Emulators!Promise!StopOutcomes

\* Where the call stands, in what the proof of the promise needs of it.
LEMMA CallStands ==
  ASSUME EmulatorsInv, EmulatorsInv', Spares
  PROVE  /\ op.call \in {"none", "start", "stop", "poll"}
         /\ Emulators!Alive \in BOOLEAN /\ Emulators!Alive' \in BOOLEAN
         /\ handle.held = (owner # "none") /\ handle'.held = (owner' # "none")
         /\ owner' = "none" => ~Emulators!Alive'
         /\ op.call # "none" => owner # "none" /\ owner \in Backends
         /\ op.call # "start" => (Emulators!Alive' => Emulators!Alive)
         /\ op.call = "start" /\ owner = "xemu" => op.at = "spawn"
  <1>1. op.call \in {"none", "start", "stop", "poll"} /\ handle.held \in BOOLEAN /\ handle'.held \in BOOLEAN
    BY DEF EmulatorsInv, Emulators!TypeOK, Emulators!Ops, Emulators!Handles
  <1>2. Emulators!Alive \in BOOLEAN /\ Emulators!Alive' \in BOOLEAN
    BY DEF EmulatorsInv, Emulators!TypeOK, Emulators!Worlds, Emulators!Alive
  <1>3. handle.held = (owner # "none") /\ handle'.held = (owner' # "none")
    BY <1>1 DEF EmulatorsInv, HeldIsOwned
  <1>4. owner' = "none" => ~Emulators!Alive'
    BY DEF EmulatorsInv, HeldIsOwned, Emulators!QuietWorld, Emulators!Alive
  <1>5. op.call # "none" => owner # "none" /\ owner \in Backends
    BY CallParts DEF EmulatorsInv, CallIsPlaced
  <1>6. op.at = "spawn" => op.call = "start"
    BY DEF EmulatorsInv, CallIsPlaced
  <1>7. op.call = "start" /\ owner = "xemu" => op.at = "spawn"
    BY DEF EmulatorsInv, CallIsPlaced, Emulators!Bridged
  <1> QED BY <1>1, <1>2, <1>3, <1>4, <1>5, <1>6, <1>7 DEF Spares

\* Within a call nothing is shown but that the child ends.
LEMMA GoesOnIsPromised ==
  ASSUME EmulatorsInv, EmulatorsInv', Spares, GoesOn \/ Begins
  PROVE  [Emulators!Promise!Next]_(Emulators!Shown)
  <1>1. PICK p, q : p = Emulators!Shown /\ q = Emulators!Shown'
    OBVIOUS
  <1>2. p \in Emulators!Plays /\ q \in Emulators!Plays
    BY <1>1, ShownParts, ShownPartsNext DEF ShownIs
  <1>3. q.owner = p.owner /\ q.handle = p.handle /\ q.storage = p.storage /\ (q.alive => p.alive)
    <2>1. CASE Begins
      <3>1. /\ op'.begin.owner = owner /\ op'.begin.handle = handle.held
            /\ op'.begin.alive = Emulators!Alive /\ op'.begin.storage = storage
        BY <2>1 DEF Begins, Emulators!Now
      <3> QED BY <1>1, <2>1, <3>1, ShownParts, ShownPartsNext DEF Begins, ShownIs
    <2>2. CASE GoesOn /\ op.call = "none"
      <3>1. op' = op /\ owner' = owner /\ storage' = storage
        BY <2>2 DEF GoesOn
      <3> QED BY <1>1, <2>2, <3>1, CallStands, ShownParts, ShownPartsNext DEF ShownIs
    <2>3. CASE GoesOn /\ op.call # "none"
      <3>1. op'.call = op.call /\ op'.begin = op.begin
        BY <2>3 DEF GoesOn, Emulators!Continue
      <3>2. op.call = "start" => ~op.begin.alive
        BY DEF EmulatorsInv, BeginIsRemembered
      <3>3. op.begin.alive /\ Emulators!Alive' => op.begin.alive /\ Emulators!Alive
        BY <3>2, CallStands
      <3> QED BY <1>1, <2>3, <3>1, <3>3, ShownParts, ShownPartsNext DEF ShownIs
    <2> QED BY <2>1, <2>2, <2>3
  <1>4. q = p \/ (p.alive /\ q = [p EXCEPT !.alive = FALSE])
    BY <1>2, <1>3, EndIsExit
  <1> QED BY <1>1, <1>4 DEF Emulators!Promise!Next, Emulators!Promise!Exit

\* A call that keeps the process object: what it started, or what it found.
LEMMA KeepIsPromised ==
  ASSUME EmulatorsInv, EmulatorsInv', Spares, Emulators!Keep,
         op.at = "spawn" /\ owner = "xemu" => Emulators!Alive'
  PROVE  [Emulators!Promise!Next]_(Emulators!Shown)
  <1>1. PICK p, q : p = Emulators!Shown /\ q = Emulators!Shown'
    OBVIOUS
  <1>2. op'.call = "none" /\ owner' = owner /\ storage' = storage
    BY DEF Emulators!Keep, Emulators!Return, Emulators!NoCall
  <1>3. ShownIs(q, owner, handle.held, Emulators!Alive', storage)
    BY <1>1, <1>2, CallStands, ShownPartsNext
  <1>4. CASE op.call = "start"
    <2>1. /\ op.begin.owner = "none" /\ ~op.begin.handle /\ ~op.begin.alive
          /\ owner = "xenia" => ~op.begin.storage /\ storage
          /\ owner # "xenia" => storage = op.begin.storage
      BY <1>4 DEF EmulatorsInv, BeginIsRemembered
    <2>2. op.begin \in Emulators!Plays
      BY CallParts DEF Emulators!Ops
    <2>3. ShownIs(p, "none", FALSE, FALSE, op.begin.storage)
      BY <1>1, <1>4, <2>1, <2>2, ShownParts DEF ShownIs, Emulators!Plays
    <2>4. ShownIs(q, owner, TRUE, Emulators!Alive', op.begin.storage \/ owner = "xenia")
      BY <1>3, <1>4, <2>1, <2>2, CallStands, CallParts DEF ShownIs, Emulators!Plays
    <2>5. StartLeaves(p, q)
      <3>1. PICK k, a, s : k = owner /\ a = Emulators!Alive' /\ s = op.begin.storage
        OBVIOUS
      <3>2. k \in Backends /\ a \in BOOLEAN /\ s \in BOOLEAN /\ (k = "xenia" => ~s) /\ (k = "xemu" => a)
        BY <1>4, <2>1, <2>2, <3>1, CallStands DEF Emulators!Plays
      <3>3. ShownIs(p, "none", FALSE, FALSE, s) /\ ShownIs(q, k, TRUE, a, s \/ k = "xenia")
        BY <2>3, <2>4, <3>1
      <3> QED BY <3>2, <3>3, StartIsPromised, Zenon
    <2> QED BY <1>1, <2>5 DEF StartLeaves, Emulators!Promise!Next, Emulators!Promise!Start
  <1>5. CASE op.call # "start"
    <2>1. /\ p \in Emulators!Plays /\ p.owner = owner /\ p.handle = handle.held /\ p.storage = storage
          /\ (Emulators!Alive => p.alive)
      <3>1. CASE op.call = "none"
        BY <1>1, <3>1, ShownParts DEF ShownIs
      <3>2. CASE op.call \in {"stop", "poll"}
        BY <1>1, <3>2, ShownParts, CallStands DEF ShownIs, EmulatorsInv, BeginIsRemembered
      <3> QED BY <1>5, <3>1, <3>2, CallStands
    <2>2. q.alive => p.alive
      BY <1>3, <1>5, <2>1, CallStands DEF ShownIs
    <2>3. q = p \/ (p.alive /\ q = [p EXCEPT !.alive = FALSE])
      BY <1>3, <2>1, <2>2, EndIsExit DEF ShownIs
    <2> QED BY <1>1, <2>3 DEF Emulators!Promise!Next, Emulators!Promise!Exit
  <1> QED BY <1>4, <1>5

\* A call that lets the process object go: a start that failed, a poll that
\* found no child alive, or a stop.
LEMMA ReleaseIsPromised ==
  ASSUME EmulatorsInv, EmulatorsInv', Spares, Emulators!Release
  PROVE  [Emulators!Promise!Next]_(Emulators!Shown)
  <1>1. PICK p, q, t : p = Emulators!Shown /\ q = Emulators!Shown' /\ t = storage'
    OBVIOUS
  <1>2. /\ op'.call = "none" /\ owner' = "none" /\ ~handle'.held
        /\ t = storage \/ (owner = "xenia" /\ ~t)
    BY <1>1 DEF Emulators!Release, Emulators!Return, Emulators!NoCall, Emulators!NoHandle
  <1>3. t \in BOOLEAN
    BY <1>1 DEF EmulatorsInv, Emulators!TypeOK
  <1>4. ShownIs(q, "none", FALSE, FALSE, t)
    BY <1>1, <1>2, CallStands, ShownPartsNext
  <1>5. owner # "none" => ~Emulators!Alive
    BY <1>2 DEF Spares
  <1>6. CASE op.call = "none" /\ owner = "none"
    <2>1. ShownIs(p, "none", FALSE, Emulators!Alive, storage)
      BY <1>1, <1>6, CallStands, ShownParts
    <2>2. ~Emulators!Alive
      BY <1>6 DEF EmulatorsInv, HeldIsOwned, Emulators!QuietWorld, Emulators!Alive
    <2>3. q = p
      BY <1>2, <1>4, <1>6, <2>1, <2>2, PlaysDiffer, CallStands DEF ShownIs
    <2> QED BY <1>1, <2>3
  <1>7. CASE op.call = "none" /\ owner # "none"
    <2>1. /\ p \in Emulators!Plays /\ p.owner = owner /\ ~p.alive /\ p.storage = storage
      BY <1>1, <1>5, <1>7, CallStands, ShownParts DEF ShownIs
    <2>2. t \in Emulators!Promise!StorageLeft(p)
      BY <1>2, <1>3, <2>1 DEF Emulators!Promise!StorageLeft
    <2>3. PICK e : e = Emulators!Promise!Released(p, t)
      OBVIOUS
    <2>4. ShownIs(e, "none", FALSE, FALSE, t)
      BY <1>3, <2>3 DEF Emulators!Promise!Released, Emulators!Promise!NothingPlays, ShownIs, Emulators!Plays
    <2>5. q = e
      BY <1>4, <2>4, PlaysDiffer DEF ShownIs
    <2>6. q \in Emulators!Promise!PollOutcomes(p)
      BY <2>1, <2>2, <2>3, <2>5 DEF Emulators!Promise!PollOutcomes
    <2> QED BY <1>1, <1>7, <2>1, <2>6 DEF Emulators!Promise!Next, Emulators!Promise!Poll
  <1>8. CASE op.call = "start"
    <2>1. /\ op.begin.owner = "none" /\ ~op.begin.handle /\ ~op.begin.alive
          /\ owner = "xenia" => ~op.begin.storage /\ storage
          /\ owner # "xenia" => storage = op.begin.storage
      BY <1>8 DEF EmulatorsInv, BeginIsRemembered
    <2>2. op.begin \in Emulators!Plays
      BY CallParts DEF Emulators!Ops
    <2>3. ShownIs(p, "none", FALSE, FALSE, op.begin.storage)
      BY <1>1, <1>8, <2>1, <2>2, ShownParts DEF ShownIs, Emulators!Plays
    <2>4. CASE owner = "xenia"
      <3>1. ~op.begin.storage /\ op.begin.storage \in BOOLEAN /\ "xenia" \in Backends
        BY <1>8, <2>1, <2>2, <2>4, CallStands DEF Emulators!Plays
      <3>2. ShownIs(p, "none", FALSE, FALSE, FALSE)
        BY <2>3, <3>1 DEF ShownIs
      <3>3. StartLeaves(p, q)
        BY <1>3, <1>4, <3>1, <3>2, FailedStartIsPromised, Zenon
      <3> QED BY <1>1, <3>3 DEF StartLeaves, Emulators!Promise!Next, Emulators!Promise!Start
    <2>5. CASE owner # "xenia"
      <3>1. q = p
        BY <1>2, <1>4, <2>1, <2>3, <2>5, PlaysDiffer DEF ShownIs
      <3> QED BY <1>1, <3>1
    <2> QED BY <2>4, <2>5
  <1>9. CASE op.call \in {"stop", "poll"}
    <2>1. PICK k, a, s : k = owner /\ s = storage /\ a = (op.begin.alive /\ Emulators!Alive)
      OBVIOUS
    <2>2. k \in Backends /\ a \in BOOLEAN /\ s \in BOOLEAN
      BY <1>9, <2>1, CallStands, CallParts
    <2>3. ShownIs(p, k, TRUE, a, s)
      BY <1>1, <1>9, <2>1, ShownParts DEF ShownIs, EmulatorsInv, BeginIsRemembered
    <2>4. t = s \/ (~t /\ k = "xenia")
      BY <1>2, <2>1
    <2>5. StopLeaves(p, q)
      BY <1>3, <1>4, <2>2, <2>3, <2>4, StopIsPromised, Zenon
    <2> QED BY <1>1, <2>5 DEF StopLeaves, Emulators!Promise!Next, Emulators!Promise!Stop
  <1> QED BY <1>6, <1>7, <1>8, <1>9, CallStands

LEMMA CleanupIsPromised ==
  ASSUME EmulatorsInv, EmulatorsInv', Emulators!Cleanup
  PROVE  [Emulators!Promise!Next]_(Emulators!Shown)
  <1>1. PICK p, q : p = Emulators!Shown /\ q = Emulators!Shown'
    OBVIOUS
  <1>2. /\ op.call = "none" /\ op' = op /\ owner' = owner /\ handle' = handle /\ process' = process
        /\ ~handle.held /\ storage' = FALSE
    BY DEF Emulators!Cleanup, Emulators!Idle
  <1>3. Emulators!Alive' = Emulators!Alive
    BY <1>2 DEF Emulators!Alive
  <1>4. PICK e : e = [p EXCEPT !.storage = FALSE]
    OBVIOUS
  <1>5. ShownIs(p, owner, handle.held, Emulators!Alive, storage)
    BY <1>1, <1>2, ShownParts
  <1>6. ShownIs(q, owner, handle.held, Emulators!Alive, FALSE)
    BY <1>1, <1>2, <1>3, ShownPartsNext DEF ShownIs
  <1>7. /\ e \in Emulators!Plays /\ e.owner = p.owner /\ e.handle = p.handle /\ e.alive = p.alive
        /\ e.storage = FALSE
    BY <1>4, <1>5 DEF ShownIs, Emulators!Plays
  <1>8. q = e /\ ~p.handle
    BY <1>2, <1>5, <1>6, <1>7, PlaysDiffer DEF ShownIs
  <1> QED BY <1>1, <1>4, <1>8 DEF Emulators!Promise!Next, Emulators!Promise!Cleanup

\* Every step of the processes is a call of the promise, an exit, or not seen.
LEMMA PromiseStep ==
  ASSUME EmulatorsInv, [Emulators!Next]_(Emulators!vars)
  PROVE  [Emulators!Promise!Next]_(Emulators!Shown)
  <1>1. EmulatorsInv' /\ Spares
    BY EmulatorsStep
  <1>2. CASE UNCHANGED Emulators!vars
    BY <1>1, <1>2, GoesOnIsPromised DEF Emulators!vars, GoesOn
  <1>3. CASE Emulators!Next
    <2>1. Finishes \/ GoesOn \/ Begins
      BY <1>3, StepsAreOfACall
    <2> QED BY <1>1, <2>1, GoesOnIsPromised, KeepIsPromised, ReleaseIsPromised, CleanupIsPromised DEF Finishes
  <1> QED BY <1>2, <1>3

\* KeepsThePromise: however the children, their groups and the servers of the
\* views run between the steps of a call, each call of the worker leaves what
\* RuntimeSession takes it to leave; a process that is released is not alive.
THEOREM EmulatorsKeepThePromise == RuntimeSpec => KeepsThePromise
  <1>1. RuntimeInit => Emulators!Promise!Init
    <2> SUFFICES ASSUME RuntimeInit PROVE Emulators!Promise!Init
      OBVIOUS
    <2>1. Emulators!Init
      BY DEF RuntimeInit, PlaybackAtRest, Emulators!PlaybackInit
    <2>2. op = Emulators!NoCall /\ owner = "none" /\ ~storage /\ handle = Emulators!NoHandle
          /\ storage = FALSE
          /\ \E w \in BOOLEAN : process = Emulators!QuietWorld(w)
      BY <2>1 DEF Emulators!Init
    <2>3. ~handle.held /\ handle.held = FALSE /\ Emulators!Alive = FALSE /\ op.call = "none"
      BY <2>2 DEF Emulators!NoHandle, Emulators!NewHandle, Emulators!NoCall, Emulators!QuietWorld, Emulators!Alive
    <2> QED BY <2>2, <2>3 DEF Emulators!Promise!Init, Emulators!Shown, Emulators!Idle, Emulators!Now,
            Emulators!Promise!NothingPlays
  <1>2. EmulatorsInv /\ [RuntimeNext]_<<part, vars, ring, playback>>
          => [Emulators!Promise!Next]_(Emulators!Shown)
    BY EmulatorsMove, PromiseStep
  <1> QED BY <1>1, <1>2, EmulatorsInvariant, PTL
        DEF RuntimeSpec, KeepsThePromise, Emulators!KeepsThePromise, Emulators!Promise!Spec
=============================================================================
