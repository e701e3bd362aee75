--------------------------- MODULE RuntimeRequests ---------------------------
(***************************************************************************)
(* The user's thread and the worker at the runtime's one mutex: requests,  *)
(* emulator setup, drive selection and settings (src/app/runtime_controls  *)
(* .c, runtime_setup.c, runtime_drive_loop.c, and the order of             *)
(* run_runtime_cycle).  What an action does to the disc and the emulator   *)
(* is RuntimeSession.tla; here it only decides what the user may ask for.  *)
(*                                                                         *)
(* Each submission carries a number of its own, which stands for the path, *)
(* the display settings or the drive that was chosen.                      *)
(***************************************************************************)
EXTENDS RequestQueue

CONSTANTS
  MaxSubmissions,   \* bound: submissions of the user
  NoDrive           \* device_selection_requested is false

ASSUME SubmissionAssumption == /\ MaxSubmissions \in Nat
                               /\ Paths = 0 .. MaxSubmissions
                               /\ NoDrive \notin Paths

VARIABLES
  submitted,          \* how many submissions were accepted so far
  setupPending,       \* runtime->setup_request_pending
  selection,          \* the drive asked for, while device_selection_requested
  settings,           \* snapshot.settings: the choices that are in force
  dirty,              \* runtime->preferences_dirty
  saveRequested,      \* runtime->preferences_save_requested
  shownBusy,          \* the published snapshot shows playback or preparation
  stopping,           \* runtime->stopping
  pc,                 \* where the worker is in its cycle
  saving,             \* the copy of the settings that is being saved
  playing,            \* a playback process is owned
  owed,               \* a session that failed to close is still owned
  bundle,             \* the xemu choice runtime->bundle describes
  disk,               \* the settings file
  reported,           \* runtime->terminal_shutdown_failed
  history             \* numbers of accepted imports, and what was served last

queueVars == <<requests, request>>
choices == <<settings, dirty, saveRequested>>
gates == <<setupPending, selection, stopping>>
work == <<pc, saving>>
session == <<playing, owed, shownBusy>>
saved == <<disk, reported>>
vars == <<queueVars, submitted, choices, gates, work, session, bundle, saved, history>>

Settings == [xemu : Paths, drive : Paths, display : Paths]

Points == {"begin", "setup", "setup_save", "prepare", "flush", "save", "drives",
           "selected", "cleanup", "take", "execute", "launch", "media",
           "shutdown", "last_save", "release", "finished"}

TypeOK ==
  /\ requests \in Seq(Entries) /\ Len(requests) <= Capacity
  /\ request \in Entries \cup {NoRequest}
  /\ submitted \in 0 .. MaxSubmissions
  /\ setupPending \in BOOLEAN
  /\ selection \in Paths \cup {NoDrive}
  /\ settings \in Settings /\ saving \in Settings /\ disk \in Settings
  /\ dirty \in BOOLEAN /\ saveRequested \in BOOLEAN
  /\ shownBusy \in BOOLEAN /\ stopping \in BOOLEAN
  /\ pc \in Points
  /\ playing \in BOOLEAN /\ owed \in BOOLEAN
  /\ bundle \in Paths
  /\ reported \in BOOLEAN
  /\ history \in [accepted : SUBSET Paths, served : SUBSET Paths,
                  setup : Paths, action : Paths]

Defaults == [xemu |-> 0, drive |-> 0, display |-> 0]

Init ==
  /\ QueueInit
  /\ submitted = 0
  /\ setupPending = FALSE /\ selection = NoDrive
  /\ settings = Defaults /\ dirty = FALSE /\ saveRequested = FALSE
  /\ shownBusy = FALSE /\ stopping = FALSE
  /\ pc = "begin" /\ saving = Defaults
  /\ playing = FALSE /\ owed = FALSE
  /\ bundle = 0
  /\ disk = Defaults /\ reported = FALSE
  /\ history = [accepted |-> {}, served |-> {}, setup |-> 0, action |-> 0]

-----------------------------------------------------------------------------
(* The user's thread: each call is one critical section.  A call that is   *)
(* refused changes nothing but the notice.                                 *)

IsSelecting == selection # NoDrive

\* enqueue_request
MayEnqueue(kind) == /\ ~stopping
                    /\ ~IsSelecting
                    /\ setupPending => kind = "apply_display"

Numbered(n) == n = submitted + 1 /\ n \in Paths /\ submitted' = n

\* gdox_runtime_request, gdox_runtime_open_disc_image and the like
Submit(kind, n) ==
  /\ kind # "apply_display"
  /\ MayEnqueue(kind)
  /\ Enqueue([kind |-> kind, path |-> n])
  /\ UNCHANGED <<choices, gates, history>>

\* gdox_runtime_set_display: the settings are taken on even when the request
\* to apply them is refused.
SetDisplay(n) ==
  /\ ~stopping
  /\ settings' = [settings EXCEPT !.display = n]
  /\ dirty' = TRUE /\ saveRequested' = TRUE
  /\ LET entry == [kind |-> "apply_display", path |-> n]
     IN  IF MayEnqueue("apply_display") /\ Accepts(requests, entry)
           THEN Enqueue(entry)
           ELSE UNCHANGED queueVars
  /\ UNCHANGED <<gates, history>>

\* gdox_runtime_setup_submit; a full queue refuses even what it could merge.
SubmitSetup(kind, n) ==
  /\ ~(setupPending /\ kind = "set_xemu")
  /\ ~IsSelecting /\ ~stopping /\ ~shownBusy
  /\ Len(requests) < Capacity
  /\ Enqueue([kind |-> kind, path |-> n])
  /\ setupPending' = TRUE
  /\ IF kind = "set_xemu"
       THEN /\ settings' = [settings EXCEPT !.xemu = n]
            /\ dirty' = TRUE /\ saveRequested' = TRUE
            /\ UNCHANGED history
       ELSE /\ history' = [history EXCEPT !.accepted = @ \cup {n}]
            /\ UNCHANGED choices
  /\ UNCHANGED <<selection, stopping>>

\* gdox_runtime_select_drive
SelectDrive(n) ==
  /\ ~stopping /\ ~shownBusy
  /\ requests = <<>>
  /\ selection' = n
  /\ UNCHANGED <<queueVars, choices, setupPending, stopping, history>>

\* gdox_runtime_destroy
Destroy == /\ ~stopping
           /\ stopping' = TRUE
           /\ UNCHANGED <<queueVars, submitted, choices, setupPending, selection, history>>

User ==
  /\ \/ \E n \in Paths :
          /\ Numbered(n)
          /\ \/ \E kind \in ActionKinds : Submit(kind, n)
             \/ \E kind \in SetupKinds : SubmitSetup(kind, n)
             \/ SetDisplay(n)
             \/ SelectDrive(n)
     \/ Destroy
  /\ UNCHANGED <<work, session, bundle, saved>>

-----------------------------------------------------------------------------
(* The worker's cycle: setup requests first, whatever state the drive is   *)
(* in; then the settings, the drive, the cleanup, and one request.         *)

\* Bug variant: setup waits its turn behind the drive's restoration.
TakesSetupInTurn == FALSE

TakesSetupFirst == SetupPositions(requests) # {}

BeginCycle ==
  /\ pc = "begin"
  /\ CASE stopping -> pc' = "shutdown" /\ UNCHANGED queueVars
       [] ~stopping /\ TakesSetupFirst -> pc' = "setup" /\ TakeSetup
       [] OTHER -> pc' = "flush" /\ UNCHANGED queueVars
  /\ UNCHANGED <<saving, submitted, choices, gates, session, bundle, saved, history>>

\* gdox_runtime_setup_flush_preferences, up to the save
FlushIsDue(force) == dirty /\ (force \/ saveRequested)

CopyToSave == saving' = settings /\ dirty' = FALSE /\ saveRequested' = FALSE /\ UNCHANGED settings

\* Bug variant: settings that could not be saved are taken for saved.
DirtyAfterSaveForgotten(ok) == dirty

DirtyAfterSave(ok) == dirty \/ ~ok

\* gdox_preferences_save, and what becomes of the dirty flag
Save(ok) == /\ disk' = IF ok THEN saving ELSE disk
            /\ dirty' = DirtyAfterSave(ok)
            /\ UNCHANGED <<settings, saveRequested>>

PendingAfterSetup == SetupPositions(requests) # {}

Chosen == IF request.kind = "set_xemu" THEN request.path ELSE saving.xemu

\* A choice of xemu that failed is still described as the choice.
BundleAfterSetup(prepared) ==
  IF prepared \/ request.kind = "set_xemu" THEN Chosen ELSE bundle

FinishSetup(prepared) ==
  /\ bundle' = BundleAfterSetup(prepared)
  /\ setupPending' = PendingAfterSetup
  /\ history' = [history EXCEPT !.setup = request.path,
       !.served = IF request.kind = "import" THEN @ \cup {request.path} ELSE @]
  /\ shownBusy' = playing
  /\ pc' = "begin"
  /\ UNCHANGED <<selection, stopping, playing, owed>>

\* gdox_runtime_setup_execute; saving stands for its copies of the settings.
ExecuteSetup ==
  /\ pc = "setup"
  /\ CASE stopping ->
            /\ pc' = "begin"
            /\ UNCHANGED <<saving, choices, gates, session, bundle, history>>
       [] ~stopping /\ playing ->
            FinishSetup(FALSE) /\ UNCHANGED <<saving, choices>>
       [] ~stopping /\ ~playing ->
            /\ IF request.kind = "set_xemu" /\ FlushIsDue(TRUE)
                 THEN CopyToSave /\ pc' = "setup_save"
                 ELSE saving' = settings /\ UNCHANGED choices /\ pc' = "prepare"
            /\ UNCHANGED <<gates, session, bundle, history>>
  /\ UNCHANGED <<queueVars, submitted, saved>>

SaveForSetup ==
  /\ pc = "setup_save"
  /\ \E ok \in BOOLEAN :
       /\ Save(ok)
       /\ IF ok THEN pc' = "prepare" /\ UNCHANGED <<gates, session, bundle, history>>
                ELSE FinishSetup(FALSE)
  /\ UNCHANGED <<queueVars, submitted, saving, reported>>

\* gdox_runtime_bundle_prepare and the imports
PrepareSetup ==
  /\ pc = "prepare"
  /\ \E prepared \in BOOLEAN : FinishSetup(prepared)
  /\ UNCHANGED <<queueVars, submitted, choices, saving, saved>>

Setup == ExecuteSetup \/ SaveForSetup \/ PrepareSetup

FlushSettings ==
  /\ pc = "flush"
  /\ IF FlushIsDue(FALSE) THEN CopyToSave /\ pc' = "save"
                          ELSE UNCHANGED <<choices, saving>> /\ pc' = "drives"
  /\ UNCHANGED <<queueVars, submitted, gates, session, bundle, saved, history>>

SaveSettings ==
  /\ pc = "save"
  /\ \E ok \in BOOLEAN :
       /\ Save(ok)
       /\ IF ok THEN pc' = "drives" /\ UNCHANGED shownBusy
                ELSE pc' = "begin" /\ shownBusy' = playing
  /\ UNCHANGED <<queueVars, submitted, gates, saving, playing, owed, bundle, reported, history>>

-----------------------------------------------------------------------------
(* gdox_runtime_drive_loop_poll *)

SelectionIsDue == IsSelecting

\* Nothing to apply: the inventory is refreshed and published.
PollDrives ==
  /\ pc = "drives"
  /\ stopping \/ ~SelectionIsDue
  /\ IF stopping THEN pc' = "begin" /\ UNCHANGED shownBusy
                 ELSE pc' = "cleanup" /\ shownBusy' = playing
  /\ UNCHANGED <<queueVars, submitted, choices, gates, saving, playing, owed, bundle,
                 saved, history>>

\* gdox_runtime_drives_select, up to its save: refused under an emulator, or
\* when what the close left behind cannot be handed over.
SelectionFails ==
  /\ pc = "drives"
  /\ ~stopping /\ SelectionIsDue
  /\ selection' = NoDrive
  /\ owed' \in {owed, ~playing}
  /\ shownBusy' = playing
  /\ pc' = "begin"
  /\ UNCHANGED <<queueVars, submitted, choices, setupPending, stopping, saving, playing,
                 bundle, saved, history>>

ApplySelection ==
  /\ pc = "drives"
  /\ ~stopping /\ SelectionIsDue
  /\ ~playing
  /\ selection' = NoDrive
  /\ owed' = FALSE
  /\ settings' = [settings EXCEPT !.drive = selection]
  /\ saving' = settings'
  /\ pc' = "selected"
  /\ UNCHANGED <<queueVars, submitted, dirty, saveRequested, setupPending, stopping,
                 playing, shownBusy, bundle, saved, history>>

\* A selection that cannot be saved is in force all the same.
SaveSelection ==
  /\ pc = "selected"
  /\ disk' \in {disk, saving}
  /\ shownBusy' = playing
  /\ pc' = "begin"
  /\ UNCHANGED <<queueVars, submitted, choices, gates, saving, playing, owed, bundle,
                 reported, history>>

Drives == PollDrives \/ SelectionFails \/ ApplySelection \/ SaveSelection

-----------------------------------------------------------------------------
(* Cleanup, one request, and what the worker does with the disc.  A launch *)
(* ends the cycle here: what the code still looks at is looked at in the   *)
(* next one.                                                               *)

Cleanup ==
  /\ pc = "cleanup"
  /\ IF owed THEN pc' = "begin" /\ owed' \in BOOLEAN
             ELSE pc' = (IF stopping THEN "begin" ELSE "take") /\ UNCHANGED owed
  /\ UNCHANGED <<queueVars, submitted, choices, gates, saving, playing, shownBusy, bundle,
                 saved, history>>

TakeRequest ==
  /\ pc = "take"
  /\ IF requests = <<>>
       THEN pc' = "media" /\ UNCHANGED queueVars
       ELSE /\ Dequeue
            /\ pc' = IF Head(requests).kind \in SetupKinds THEN "setup" ELSE "execute"
  /\ UNCHANGED <<saving, submitted, choices, gates, session, bundle, saved, history>>

\* gdox_runtime_actions_execute; a close or a stop for a restart can fail.
ExecuteAction ==
  /\ pc = "execute"
  /\ history' = [history EXCEPT !.action = request.path]
  /\ \/ /\ request.kind = "start" /\ ~playing
        /\ shownBusy' \in BOOLEAN
        /\ pc' = "launch"
        /\ UNCHANGED playing
     \/ /\ request.kind \in {"close", "apply_display"} /\ playing
        /\ playing' = FALSE /\ shownBusy' = FALSE
        /\ pc' = IF request.kind = "apply_display" THEN "launch" ELSE "media"
     \/ /\ request.kind = "start" <=> playing
        /\ pc' = "media"
        /\ UNCHANGED <<playing, shownBusy>>
     \/ /\ request.kind \in {"close", "apply_display"} /\ playing
        /\ pc' = "media" /\ shownBusy' = TRUE
        /\ UNCHANGED playing
  /\ UNCHANGED <<queueVars, submitted, choices, gates, saving, owed, bundle, saved>>

\* The launch, or the opening before it, succeeds, or fails and is published.
Launch ==
  /\ pc = "launch"
  /\ playing' \in BOOLEAN
  /\ shownBusy' = playing'
  /\ owed' \in {owed, ~playing'}
  /\ pc' = "begin"
  /\ UNCHANGED <<queueVars, submitted, choices, gates, saving, bundle, saved, history>>

\* run_idle_cycle opens a disc; run_active_cycle sees the emulator exit, or
\* ends the session and may fail to close it.
ObserveMedia ==
  /\ pc = "media"
  /\ \/ /\ ~playing /\ shownBusy' = TRUE /\ pc' = "launch"
        /\ UNCHANGED <<playing, owed>>
     \/ /\ playing' \in {playing, FALSE} /\ shownBusy' = playing'
        /\ owed' \in {owed, ~playing'}
        /\ pc' = "begin"
  /\ UNCHANGED <<queueVars, submitted, choices, gates, saving, bundle, saved, history>>

Session == Cleanup \/ TakeRequest \/ ExecuteAction \/ Launch \/ ObserveMedia

-----------------------------------------------------------------------------
(* gdox_runtime_cleanup: the settings once more, and only then the release *)
(* of the drive, which may take as long as it likes.                       *)

FlushForGood ==
  /\ pc = "shutdown"
  /\ IF FlushIsDue(TRUE) THEN CopyToSave /\ pc' = "last_save"
                         ELSE UNCHANGED <<choices, saving>> /\ pc' = "release"
  /\ UNCHANGED <<queueVars, submitted, gates, session, bundle, saved, history>>

SaveForGood ==
  /\ pc = "last_save"
  /\ \E ok \in BOOLEAN : Save(ok) /\ reported' = (reported \/ ~ok)
  /\ pc' = "release"
  /\ UNCHANGED <<queueVars, submitted, gates, session, saving, bundle, history>>

Release ==
  /\ pc = "release"
  /\ \/ playing' = FALSE /\ owed' = FALSE /\ pc' = "finished"
     \/ UNCHANGED <<pc, playing, owed>>
  /\ UNCHANGED <<queueVars, submitted, choices, gates, saving, shownBusy, bundle, saved,
                 history>>

Shutdown == FlushForGood \/ SaveForGood \/ Release

Worker == BeginCycle \/ Setup \/ FlushSettings \/ SaveSettings \/ Drives \/ Session \/ Shutdown

Next == User \/ Worker

Spec == Init /\ [][Next]_vars

\* The worker never waits on another thread; a save, a launch or a cleanup
\* may fail every time.
LiveSpec == Spec /\ WF_vars(Worker)

-----------------------------------------------------------------------------
(* Safety. *)

InHand == pc \in {"setup", "setup_save", "prepare"}

\* The pending flag that closes the setup pages is up exactly while a setup
\* request is queued or being carried out, by whichever path it was taken.
PendingIsExact ==
  ~stopping => (setupPending <=> InHand \/ SetupPositions(requests) # {})

\* While no setup is under way, the xemu that is described and would be
\* launched is the one the settings name, however its preparation went.
BundleIsOfChoice == ~setupPending => bundle = settings.xemu

Queued(kind) == {requests[i].path : i \in {j \in DOMAIN requests : requests[j].kind = kind}}

\* No accepted import is dropped or overtaken out of existence by a later
\* one of its kind: each is served, in hand or in the queue.
ImportsAreServed ==
  ~stopping => history.accepted = history.served \cup Queued("import")
                 \cup (IF InHand /\ request.kind = "import" THEN {request.path} ELSE {})

\* Setup requests and actions are each carried out in the order in which
\* they were submitted, although setup passes actions in the queue.
ServedInOrder ==
  [][history'.setup >= history.setup /\ history'.action >= history.action]_vars

\* runtime_setup.c:157: a kill during the preparation of a chosen xemu finds
\* the choice on disk.
PreparedChoiceIsSaved ==
  pc = "prepare" /\ request.kind = "set_xemu" => disk.xemu = request.path

\* Between the two threads no request is lost and none leaves a trace it
\* should not: the flag, the queue, the described xemu and the file agree.
RequestsAreAccountedFor == /\ TypeOK /\ PendingIsExact /\ BundleIsOfChoice
                           /\ ImportsAreServed /\ PreparedChoiceIsSaved

\* The xemu and display settings in force at the end are on disk, or the end
\* reports that they are not, whatever saves failed on the way.
SettingsReachDisk ==
  pc = "finished" => \/ reported
                     \/ disk.xemu = settings.xemu /\ disk.display = settings.display

\* runtime_controls.c:123: accepted settings are persisted at the shutdown.
AcceptedSettingsReachDisk == pc = "finished" => reported \/ disk = settings

-----------------------------------------------------------------------------
(* Liveness: neither waits for the restoration of a drive. *)

\* An import that was accepted is carried out.
SetupIsServed ==
  \A n \in Paths : n \in history.accepted ~> n \in history.served \/ stopping

\* A drive selection that was accepted is acted on.
SelectionIsApplied == IsSelecting ~> ~IsSelecting \/ stopping

\* Neither waits for ever.
AcceptedIsServed == SetupIsServed /\ SelectionIsApplied
=============================================================================
