--------------------------- MODULE MediaDiscovery ---------------------------
(***************************************************************************)
(* Discovery of a physical disc: the worker's idle cycle observes the     *)
(* resolved drive, and the optical monitor decides when the disc in it is *)
(* initialized, retried or left alone (src/app/runtime.c,                 *)
(* src/app/optical_monitor.c, src/app/runtime_drives.c).                  *)
(*                                                                        *)
(* The disc is abstracted to what one look reports; a live session is     *)
(* abstracted to whether it is open (RuntimeSession.tla opens it up).     *)
(***************************************************************************)
EXTENDS OpticalMonitor

CONSTANTS
  Devices,   \* identities of the drives that can be connected
  NoDevice   \* optical_device.id of a runtime that resolved no drive

ASSUME DevicesAssumption == NoDevice \notin Devices

VARIABLES
  monitor,       \* loop->optical_monitor
  device,        \* runtime->optical_device.id
  session,       \* runtime->media.open for a physical disc
  forceLaunch,   \* loop->force_launch
  drive,         \* the outside world: the drive a look resolves to
  history        \* what happened, recorded independently of the monitor

vars == <<monitor, device, session, forceLaunch, drive, history>>

\* gdox_runtime_drives_resolve reports a connected drive whenever it
\* succeeds, so "no_drive" is not among the presences of the idle cycle.
Drives == [device : Devices, presence : Presences \ {"no_drive"},
           resolvable : BOOLEAN]

\* tries: attempts that failed since the last boundary; latched: a failure
\* the runtime may not retry by itself; seen and gone: how many looks in a
\* row found a disc, and found none.
Histories == [tries   : 0 .. TransientRetryLimit + 2,
              latched : BOOLEAN,
              seen    : 0 .. StableObservations,
              gone    : 0 .. RearmObservations]

TypeOK == /\ monitor \in Monitors
          /\ device \in Devices \cup {NoDevice}
          /\ session \in BOOLEAN
          /\ forceLaunch \in BOOLEAN
          /\ drive \in Drives
          /\ history \in Histories

Forgotten == [tries |-> 0, latched |-> FALSE, seen |-> 0, gone |-> 0]
\* A command vouches for the disc: it counts as a full readiness dwell.
Commanded == [Forgotten EXCEPT !.seen = StableObservations]

Init == /\ monitor = Initialized
        /\ device = NoDevice
        /\ session = FALSE
        /\ forceLaunch = FALSE
        /\ drive \in Drives
        /\ history = Forgotten

-----------------------------------------------------------------------------
(* The outside world. *)

DriveChanges == /\ drive' \in Drives \ {drive}
                /\ UNCHANGED <<monitor, device, session, forceLaunch, history>>

-----------------------------------------------------------------------------
(* The idle cycle (observe_available_media). *)

\* Resolution can fail before or after it recorded the drive it looked at.
ObserveUnresolved ==
  /\ ~session
  /\ ~drive.resolvable
  /\ monitor' = ObservationFailed(monitor)
  /\ device' \in {device, drive.device}
  /\ history' = [history EXCEPT !.seen = 0]
  /\ UNCHANGED <<session, forceLaunch, drive>>

\* A drive other than the last resolved one starts as after a command.
MonitorAtResolve == IF device = drive.device THEN monitor ELSE Retried
HistoryAtResolve == IF device = drive.device THEN history ELSE Commanded

HistoryAfterLook ==
  LET h    == HistoryAtResolve
      gone == Saturated(h.gone, RearmObservations)
  IN  IF ~ReportsNoMedia(drive.presence)
        THEN [h EXCEPT !.gone = 0, !.seen = Saturated(h.seen, StableObservations)]
        ELSE IF gone = RearmObservations
               THEN [Forgotten EXCEPT !.gone = gone]
               ELSE [h EXCEPT !.seen = 0, !.gone = gone]

ObserveDrive ==
  /\ ~session
  /\ drive.resolvable
  /\ device' = drive.device
  /\ ~Attempts(MonitorAtResolve, drive.presence)
  /\ monitor' = Observed(MonitorAtResolve, drive.presence)
  /\ history' = HistoryAfterLook
  /\ UNCHANGED <<session, forceLaunch, drive>>

Attempt ==
  /\ ~session
  /\ drive.resolvable
  /\ device' = drive.device
  /\ Attempts(MonitorAtResolve, drive.presence)
  /\ UNCHANGED drive

\* gdox_runtime_session_prepare_live: prepared, retryable or terminal.
Prepare ==
  /\ Attempt
  /\ monitor' = Observed(MonitorAtResolve, drive.presence)
  /\ session' = TRUE
  /\ forceLaunch' = FALSE
  /\ history' = [HistoryAfterLook EXCEPT !.tries = 0]

FailToPrepare(failure) ==
  /\ Attempt
  /\ monitor' = Failed(Observed(MonitorAtResolve, drive.presence), failure)
  /\ forceLaunch' = (forceLaunch /\ failure = "transient")
  /\ history' = [HistoryAfterLook EXCEPT
                   !.tries   = @ + 1,
                   !.latched = failure = "terminal"
                                 \/ HistoryAtResolve.tries = TransientRetryLimit,
                   !.seen    = 0,
                   !.gone    = 0]
  /\ UNCHANGED session

PrepareFails == \E failure \in {"transient", "terminal"} : FailToPrepare(failure)

-----------------------------------------------------------------------------
(* Boundaries of a session, and commands. *)

\* The session ends: released, ejected, released for a manual eject, or
\* failed (gdox_runtime_session_end_physical, complete_eject_request).
SessionEnds ==
  /\ session
  /\ session' = FALSE
  /\ \/ monitor' = EjectCompleted("tray_ejected")  /\ history' = Forgotten
     \/ monitor' = EjectCompleted("manual")  /\ history' = [Forgotten EXCEPT !.latched = TRUE]
     \/ monitor' = Failed(monitor, "terminal")  /\ history' = [Forgotten EXCEPT !.latched = TRUE]
  /\ UNCHANGED <<device, forceLaunch, drive>>

\* GDOX_RUNTIME_ACTION_DISCOVER_PHYSICAL: Start without a session.
StartCommand ==
  /\ ~session
  /\ monitor' = Retried
  /\ forceLaunch' = TRUE
  /\ history' = Commanded
  /\ UNCHANGED <<device, session, drive>>

\* gdox_runtime_session_select_physical, with any session closed first: on
\* a switch to the physical source, or on a drive selection, which also
\* drops a forced launch (apply_drive_selection).
SelectPhysical ==
  /\ monitor' = Retried
  /\ device' = NoDevice
  /\ session' = FALSE
  /\ forceLaunch' \in {forceLaunch, FALSE}
  /\ history' = Commanded
  /\ UNCHANGED drive

-----------------------------------------------------------------------------
Observe == ObserveUnresolved \/ ObserveDrive \/ Prepare \/ PrepareFails

Next == DriveChanges \/ Observe \/ SessionEnds \/ StartCommand \/ SelectPhysical

\* The worker repeats its cycle every 100 ms until the runtime stops.
Spec == Init /\ [][Next]_vars /\ WF_vars(Observe)

-----------------------------------------------------------------------------
(* Properties. *)

\* A disc that keeps failing is initialized at most once more than the
\* retry limit before a removal, a command, another drive or the end of a
\* session gives it a new budget.
RetryBudget == history.tries <= TransientRetryLimit + 1

\* A disc that failed for good, or was released for a manual eject, is not
\* armed again until such a boundary.
LatchedDiscIsLeftAlone == history.latched => ~monitor.permitted

\* However observations, failures, commands and ends of sessions follow each
\* other, a disc that fails is tried a bounded number of times and then left.
FailuresAreLimited == RetryBudget /\ LatchedDiscIsLeftAlone

\* A disc is initialized only after a full dwell of looks in a row that
\* found it, counted from the last look that did not, the last boundary or
\* the last failed attempt.
AttemptsFollowADwell ==
  [][Prepare \/ PrepareFails => HistoryAfterLook.seen = StableObservations]_vars

DiscReady  == drive.resolvable /\ drive.presence = "disc"

\* A disc that stays in an armed drive is tried: no sequence of commands
\* and failures leaves the runtime armed and only looking for ever.
ArmedDiscIsTried ==
  <>[]DiscReady => \/ []<>(session \/ ~monitor.permitted)
                   \/ []<><<Prepare \/ PrepareFails>>_vars
=============================================================================
