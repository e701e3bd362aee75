--------------------------- MODULE DriveSelection ---------------------------
(***************************************************************************)
(* Which of several drives the runtime opens, and who restores the ones    *)
(* whose closing failed (src/app/runtime_drives.c, runtime_drive_loop.c).  *)
(* A drive that was opened is unlocked until its handle is closed; when    *)
(* the user switches away from a drive that cannot be closed, its handle   *)
(* moves to a table of pending cleanups.                                   *)
(*                                                                         *)
(* The session around the handle is RuntimeSession.tla: here a session     *)
(* ends, and an observation finds a disc ready, at any time.               *)
(***************************************************************************)
EXTENDS Naturals, FiniteSets

CONSTANTS
  Drives,       \* the devices that can be connected, by identity
  MaxDevices,   \* GDOX_OPTICAL_MAX_DEVICES
  Image,        \* the handle of a disc image
  None          \* an empty device identity, or no handle

ASSUME DeviceAssumption == /\ MaxDevices \in Nat \ {0}
                           /\ IsFiniteSet(Drives)
                           /\ Image \notin Drives
                           /\ None \notin Drives \cup {Image}

VARIABLES
  devices,     \* snapshot->optical_devices
  unlisted,    \* optical_inventory_notice: the last refresh failed
  selected,    \* settings.optical_device_id; None is Automatic
  target,      \* runtime->optical_device
  media,       \* runtime->media
  source,      \* snapshot->media_source
  pending,     \* the owned slots of runtime->pending_cleanup
  playing,     \* a playback process is owned
  stopping,    \* runtime->stopping
  unlocked     \* the drives themselves: opened, and not restored since

session == <<media, source, playing, unlocked>>
vars == <<devices, unlisted, selected, target, session, pending, stopping>>

Choices == Drives \cup {None}

\* rank: 0 unsupported or not accessible, 1 known to be empty, 2 not known,
\* 3 known to hold a disc (the score of resolve_entry)
Listings == [connected : BOOLEAN, rank : 0 .. 3, cleanupPending : BOOLEAN]
NotListed == [rank |-> "none"]

Medias == [open : BOOLEAN, holds : Choices \cup {Image}]
NoMedia == [open |-> FALSE, holds |-> None]
Opened(what) == [open |-> TRUE, holds |-> what]
Retained(what) == [open |-> FALSE, holds |-> what]
Owned(m) == m.holds # None

Cleanups == [device : Choices, holds : Choices \cup {Image}]

TypeOK ==
  /\ devices \in [Drives -> Listings \cup {NotListed}]
  /\ unlisted \in BOOLEAN
  /\ selected \in Choices /\ target \in Choices
  /\ media \in Medias
  /\ source \in {"physical", "image"}
  /\ pending \subseteq Cleanups
  /\ IsFiniteSet(pending) /\ Cardinality(pending) <= MaxDevices
  /\ playing \in BOOLEAN /\ stopping \in BOOLEAN
  /\ unlocked \subseteq Drives

Init ==
  /\ devices = [d \in Drives |-> NotListed]
  /\ unlisted = FALSE
  /\ selected \in Choices
  /\ target = None
  /\ media = NoMedia /\ source = "physical"
  /\ pending = {}
  /\ playing = FALSE /\ stopping = FALSE
  /\ unlocked = {}

-----------------------------------------------------------------------------
(* The inventory. *)

Listed(d) == devices[d] # NotListed

PendingFor(table, d) == \E p \in table : p.device = d

Described(list, table) ==
  [d \in Drives |-> IF list[d] = NotListed THEN NotListed
                    ELSE [list[d] EXCEPT !.cleanupPending = PendingFor(table, d)]]

\* Bug variant: the list is not described again after a handle moved.
NotDescribed(list, table) == list

Describe(list, table) == Described(list, table)

\* The drives that are asked for their media: never one that is owned.
Excluded == {d \in Drives : \/ Owned(media) /\ d = target
                            \/ PendingFor(pending, d)}
Asked == IF Owned(media) \/ playing \/ PendingFor(pending, None)
           THEN {} ELSE Drives \ Excluded

FoundRanks(d) == IF d \in Asked THEN 0 .. 3 ELSE {0, 2}

\* A cleanup whose drive is gone stays on the list while there is room.
Kept(found) ==
  LET gone == {d \in Drives : PendingFor(pending, d)} \ found
      room == MaxDevices - Cardinality(found)
  IN  {kept \in SUBSET gone :
         Cardinality(kept) = IF Cardinality(gone) < room THEN Cardinality(gone) ELSE room}

Shown(d, found, ranks, kept) ==
  CASE d \in found -> [connected |-> TRUE, rank |-> ranks[d],
                       cleanupPending |-> PendingFor(pending, d)]
    [] d \in kept  -> [connected |-> FALSE, rank |-> 0, cleanupPending |-> TRUE]
    [] OTHER       -> NotListed

\* gdox_runtime_drives_refresh
Refresh ==
  /\ ~stopping
  /\ \E found \in SUBSET Drives : \E ranks \in [found -> 0 .. 3] :
       /\ Cardinality(found) <= MaxDevices
       /\ \A d \in found : ranks[d] \in FoundRanks(d)
       /\ \E kept \in Kept(found) :
            devices' = [d \in Drives |-> Shown(d, found, ranks, kept)]
  /\ unlisted' = FALSE
  /\ UNCHANGED <<selected, target, session, pending, stopping>>

RefreshFails ==
  /\ ~stopping
  /\ devices' = [d \in Drives |-> IF Listed(d) THEN [devices[d] EXCEPT !.connected = FALSE]
                                               ELSE NotListed]
  /\ unlisted' = TRUE
  /\ UNCHANGED <<selected, target, session, pending, stopping>>

-----------------------------------------------------------------------------
(* Closing a handle: it is closed, or gone with an error, or kept.  Only a *)
(* handle whose drive was restored is let go of (gdox_source_close).       *)

Closings == IF ~Owned(media) THEN {[media |-> NoMedia, ok |-> TRUE]}
            ELSE {[media |-> NoMedia, ok |-> ok] : ok \in BOOLEAN}
                   \cup {[media |-> Retained(media.holds), ok |-> FALSE]}

LeftUnlocked(m) == IF Owned(m) THEN unlocked ELSE unlocked \ {media.holds}

\* The worker acts on what is open, or on nothing: what is retained is
\* cleaned up first.
Settled == ~stopping /\ (Owned(media) => media.open)

-----------------------------------------------------------------------------
(* gdox_runtime_drives_select, and apply_drive_selection around it; under  *)
(* an emulator a selection is refused.                                     *)

MustClose(id) == /\ Owned(media)
                 /\ \/ ~media.open
                    \/ id # None /\ id # target
                    \/ source = "image"

\* retain_failed_cleanup
CanRetain(m) == /\ target # None
                /\ m.holds # Image
                /\ ~PendingFor(pending, target)
                /\ Cardinality(pending) < MaxDevices

CleanupOf(m, id) == [device |-> target, holds |-> m.holds]

\* The choice is taken on; without a session, discovery starts from nothing.
Choose(id, m, table) ==
  /\ selected' = id
  /\ media' = m
  /\ pending' = table
  /\ devices' = Describe(devices, table)
  /\ IF Owned(m) THEN UNCHANGED <<target, source>>
                 ELSE target' = None /\ source' = "physical"

Select(id) ==
  /\ ~stopping /\ ~playing
  /\ \E c \in IF MustClose(id) THEN Closings ELSE {[media |-> media, ok |-> TRUE]} :
       /\ \/ c.ok /\ Choose(id, c.media, pending)
          \/ /\ ~c.ok /\ CanRetain(c.media)
             /\ Choose(id, NoMedia,
                       IF Owned(c.media) THEN pending \cup {CleanupOf(c.media, id)}
                                         ELSE pending)
          \/ /\ ~c.ok /\ ~CanRetain(c.media)
             /\ media' = c.media
             /\ UNCHANGED <<selected, target, source, pending, devices>>
       /\ unlocked' = LeftUnlocked(c.media)
  /\ UNCHANGED <<unlisted, playing, stopping>>

-----------------------------------------------------------------------------
(* gdox_runtime_drives_resolve, and the opening of the drive when it is    *)
(* ready, for which the readiness dwell is MediaDiscovery.tla.             *)

Eligible == {d \in Drives : /\ Listed(d) /\ devices[d].connected
                            /\ devices[d].rank > 0
                            /\ ~devices[d].cleanupPending}

Score(d) == 2 * devices[d].rank + (IF d = target THEN 1 ELSE 0)

Best == {d \in Eligible : \A e \in Eligible : Score(e) <= Score(d)}

Resolved == IF unlisted THEN {}
            ELSE IF selected = None THEN Best
            ELSE {d \in {selected} : Listed(d) /\ devices[d].connected}

IsReady(d) == ~devices[d].cleanupPending /\ devices[d].rank \in {2, 3}

Observe ==
  /\ ~stopping /\ ~Owned(media) /\ source = "physical"
  /\ \E d \in Resolved :
       /\ target' = d
       /\ media' \in IF IsReady(d) THEN {NoMedia, Opened(d), Retained(d)} ELSE {NoMedia}
       /\ unlocked' = IF Owned(media') THEN unlocked \cup {d} ELSE unlocked
  /\ UNCHANGED <<devices, unlisted, selected, source, pending, playing, stopping>>

-----------------------------------------------------------------------------
(* The session. *)

Launch == /\ ~stopping /\ media.open /\ ~playing
          /\ playing' = TRUE
          /\ UNCHANGED <<devices, unlisted, selected, target, media, source, pending,
                         stopping, unlocked>>

StopPlayback == /\ playing
                /\ playing' = FALSE
                /\ UNCHANGED <<devices, unlisted, selected, target, media, source, pending,
                               stopping, unlocked>>

\* gdox_runtime_session_end_physical, run_cleanup_cycle, and the close of a
\* shutdown: in each the emulator has been stopped before.
CloseMedia ==
  /\ ~playing /\ Owned(media)
  /\ media.open => stopping \/ source = "physical"
  /\ \E c \in Closings : media' = c.media /\ unlocked' = LeftUnlocked(c.media)
  /\ UNCHANGED <<devices, unlisted, selected, target, source, pending, playing, stopping>>

\* use_physical_source, with gdox_runtime_session_select_physical
UsePhysical ==
  /\ Settled
  /\ playing' = FALSE
  /\ \E c \in Closings :
       /\ media' = c.media
       /\ unlocked' = LeftUnlocked(c.media)
       /\ IF c.ok THEN target' = None /\ source' = "physical"
                  ELSE UNCHANGED <<target, source>>
  /\ UNCHANGED <<devices, unlisted, selected, pending, stopping>>

\* open_requested_image; a failed opening keeps nothing of the file.
OpenImage ==
  /\ Settled
  /\ playing' = FALSE
  /\ \E c \in Closings :
       /\ IF c.ok THEN media' \in {NoMedia, Opened(Image)} /\ source' = "image"
                  ELSE media' = c.media /\ UNCHANGED source
       /\ unlocked' = LeftUnlocked(c.media)
  /\ UNCHANGED <<devices, unlisted, selected, target, pending, stopping>>

\* preserve_requested_disc: the drive is opened anew for the copy, and what
\* that leaves is retained by the session.
PreserveDisc ==
  /\ Settled /\ media.open /\ source = "physical"
  /\ playing' = FALSE
  /\ \E c \in Closings :
       /\ media' \in IF c.ok THEN {NoMedia, Retained(target)} ELSE {c.media}
       /\ unlocked' = IF c.ok /\ Owned(media') THEN LeftUnlocked(c.media) \cup {target}
                                               ELSE LeftUnlocked(c.media)
  /\ UNCHANGED <<devices, unlisted, selected, target, source, pending, stopping>>

-----------------------------------------------------------------------------
(* Pending cleanups. *)

Restored(table) == unlocked \ {p.holds : p \in pending \ table}

\* gdox_runtime_drives_retry_cleanup
RetryCleanup ==
  /\ ~stopping /\ ~media.open /\ ~playing
  /\ pending # {}
  /\ pending' \in SUBSET pending
  /\ unlocked' = Restored(pending')
  /\ devices' = Describe(devices, pending')
  /\ UNCHANGED <<unlisted, selected, target, media, source, playing, stopping>>

Stop == /\ ~stopping
        /\ stopping' = TRUE
        /\ UNCHANGED <<devices, unlisted, selected, target, session, pending>>

\* gdox_runtime_drives_close_pending
ClosePending ==
  /\ stopping /\ ~playing /\ ~Owned(media)
  /\ pending' \in SUBSET pending
  /\ unlocked' = Restored(pending')
  /\ UNCHANGED <<devices, unlisted, selected, target, media, source, playing, stopping>>

Next ==
  \/ Refresh \/ RefreshFails
  \/ \E id \in Choices : Select(id)
  \/ Observe \/ Launch \/ StopPlayback \/ CloseMedia
  \/ UsePhysical \/ OpenImage \/ PreserveDisc
  \/ RetryCleanup \/ Stop \/ ClosePending

Spec == Init /\ [][Next]_vars

-----------------------------------------------------------------------------
\* docs/SAFETY.md:10-14: whatever is switched, retained, retried or opened,
\* a drive that is unlocked has exactly one owner to restore it, and none is
\* opened a second time while its cleanup is still owed.
EveryDriveHasOneOwner ==
  /\ unlocked = {p.holds : p \in pending} \cup ({media.holds} \cap Drives)
  /\ \A p \in pending : p.holds # media.holds
  /\ \A p, q \in pending : p.holds = q.holds => p = q

\* Restoration stays tied to its device: a cleanup is filed under the very
\* drive it holds, and the target is the drive of the session.
CleanupKeepsItsDrive ==
  /\ \A p \in pending : p.device = p.holds
  /\ media.holds \in Drives => target = media.holds

\* docs/USER_GUIDE.md:65-68: a session that is open is of the drive that was
\* chosen, also after selections that failed half way.
SessionIsOfChoice == media.open /\ media.holds \in Drives => selected \in {None, media.holds}

\* Through every switch, retained handle and retry: who restores which drive
\* is never in doubt, and the session is of the drive the user chose.
DrivesAreAccountedFor == EveryDriveHasOneOwner /\ CleanupKeepsItsDrive /\ SessionIsOfChoice
=============================================================================
