-------------------------- MODULE EmulatorProcess --------------------------
(***************************************************************************)
(* The emulator processes behind playback: xemu                            *)
(* (src/platform/emulator_posix.c, emulator_windows.c), Xenia with its     *)
(* process group (xenia_process_posix.c, xenia_process_windows.c) and      *)
(* Dolphin (dolphin_process_linux.c), the last two reading the disc        *)
(* through a mount of the export (disc_bridge_linux.c).  Calls are made by *)
(* the runtime's worker alone; the processes, the mount's server and the   *)
(* kernel's reuse of process numbers go on between the steps of a call.    *)
(* Off Windows xemu and Xenia each lead a process group: Xenia's is waited *)
(* for to the last process, xemu's is signalled but only its leader counts. *)
(***************************************************************************)
EXTENDS PlaybackOwner, Naturals

CONSTANTS
  WaitPolls,   \* queries after the first one of a wait, and sleeps between them
  ClosePolls   \* GDOX_DISC_BRIDGE_CLOSE_MAX_POLLS

PollsAssumption == WaitPolls \in Nat \ {0} /\ ClosePolls \in Nat \ {0}

VARIABLES
  owner,     \* runtime->playback_owner
  storage,   \* xenia_storage.session.active
  handle,    \* what the process pointer points to
  op,        \* the call under way
  world,     \* the processes and the mount
  ghost

vars == <<owner, storage, handle, op, world, ghost>>

\* pid: the child's number is kept; group: process_group; mounter: the
\* bridge's child is kept; asked, polls: unmount_requested and close_polls;
\* shut: shutdown_requested.
Handles == [held : BOOLEAN, pid : BOOLEAN, reaped : BOOLEAN, group : BOOLEAN, session : BOOLEAN,
            bridge : BOOLEAN, mounter : BOOLEAN, asked : BOOLEAN,
            polls : 0 .. ClosePolls, shut : BOOLEAN]
NoHandle == [held |-> FALSE, pid |-> FALSE, reaped |-> TRUE, group |-> FALSE, session |-> FALSE,
             bridge |-> FALSE, mounter |-> FALSE, asked |-> FALSE, polls |-> 0, shut |-> FALSE]
NewHandle == [NoHandle EXCEPT !.held = TRUE, !.reaped = FALSE]

Ops == [call : {"none", "start", "poll", "stop"},
        at : {"idle", "bridge", "spawn", "query", "unmount", "remove"},
        phase : {"first", "grace", "forced"}, waited : 0 .. WaitPolls,
        again : BOOLEAN,                                \* interrupt_repeated
        then : {"none", "retain", "leak", "release", "polled"},
        begin : Plays]

\* windows: the build, without process groups and mounts; helpers: whose
\* group has processes besides its leader; other: the number of a child that
\* was reaped is now a stranger's group.
Ends == {"none", "runs", "ended"}
Worlds == [windows : BOOLEAN, leader : Ends, helpers : SUBSET {"xemu", "xenia"}, other : BOOLEAN,
           mounter : Ends, mount : BOOLEAN, files : BOOLEAN]
QuietWorld(w) == [windows |-> w, leader |-> "none", helpers |-> {}, other |-> FALSE,
                  mounter |-> "none", mount |-> FALSE, files |-> FALSE]

\* terms: requests to end that Dolphin got; hurt: owners whose signal met a
\* stranger.
Ghosts == [terms : 0 .. 2, hurt : SUBSET Backends]

Idle == op.call = "none"
Bridged(k) == ~world.windows /\ k \in {"xenia", "dolphin"}
Leads(k) == ~world.windows /\ k \in {"xemu", "xenia"}
Grouped(k) == ~world.windows /\ k = "xenia"
Alive == world.leader = "runs" \/ "xenia" \in world.helpers
Now == [owner |-> owner, handle |-> handle.held, alive |-> Alive, storage |-> storage]
NoCall == [call |-> "none", at |-> "idle", phase |-> "first", waited |-> 0, again |-> FALSE,
           then |-> "none", begin |-> NothingPlays]
Call(c, place) == [NoCall EXCEPT !.call = c, !.at = place, !.begin = Now]

\* The call returns and the process object is released, or is kept.
Return == op' = NoCall
Release == /\ handle' = NoHandle /\ owner' = "none" /\ Return
           /\ storage' \in IF owner = "xenia" THEN {FALSE, storage} ELSE {storage}
Keep == Return /\ UNCHANGED <<owner, storage>>
Continue(o) == op' = o /\ UNCHANGED <<owner, storage>>

-----------------------------------------------------------------------------
(* Looking at the child. *)

\* waitpid, or the wait on the process handle.
Reaped == IF ~handle.reaped /\ world.leader # "runs"
          THEN [h |-> [handle EXCEPT !.pid = FALSE, !.reaped = TRUE],
                w |-> [world EXCEPT !.leader = "none"]]
          ELSE [h |-> handle, w |-> world]
Result(r, out) == [h |-> r.h, w |-> r.w, out |-> out]
Failed == Result([h |-> handle, w |-> world], "error")

\* query_process of xemu: the session's directory goes with the child.
QueryXemu ==
  LET r == Reaped
      cleaned == [r EXCEPT !.h.session = FALSE]
  IN  {Failed} \cup
      IF ~r.h.reaped THEN {Result(r, "running")}
      ELSE {Result(cleaned, "exited"), Result(r, "error")}

\* query_process_group: any process of that number counts.
GroupExists(h, w) == h.group /\ ("xenia" \in w.helpers \/ w.other \/ ~h.reaped)

\* A slip: the group is not asked about once its leader has been reaped.
QueryXeniaLeader ==
  LET r == Reaped
  IN  {Failed} \cup
      IF ~r.h.reaped THEN {Result(r, "running")}
      ELSE {Result([r EXCEPT !.h.group = FALSE], "exited")}

\* query_child and query_process_group.
QueryXenia ==
  LET r == Reaped
  IN  {Failed, Result(r, "error")} \cup
      IF ~r.h.reaped \/ GroupExists(r.h, r.w) THEN {Result(r, "running")}
      ELSE {Result([r EXCEPT !.h.group = FALSE], "exited")}

\* reap of Dolphin.
QueryDolphin ==
  LET r == Reaped
  IN  {Failed, Result(r, IF r.h.reaped THEN "exited" ELSE "running")}

Query == CASE owner = "xemu"    -> QueryXemu
           [] owner = "xenia"   -> QueryXenia
           [] owner = "dolphin" -> QueryDolphin
Sees(r) == handle' = r.h /\ world' = r.w

-----------------------------------------------------------------------------
(* The mount of the disc. *)

Remove(place, what) == [op EXCEPT !.at = place, !.then = what]

\* unmount_bridge, the first of two.
BridgeUnmount ==
  /\ op.at = "unmount"
  /\ \E m \in {world.mount, FALSE} : world' = [world EXCEPT !.mount = m]
  /\ Continue([op EXCEPT !.at = "remove"])
  /\ UNCHANGED <<handle, ghost>>

\* What gdox_disc_bridge_close may leave: its child is stopped, by force if
\* need be, the mount asked to go again, and the directory removed when
\* nothing is mounted on it.
Unbridged(w) ==
  {v \in [windows : {FALSE}, leader : {w.leader}, helpers : {w.helpers}, other : {w.other},
          mounter : {"none", w.mounter}, mount : {FALSE, w.mount}, files : {FALSE, w.files}] :
     (v.files # w.files) => ~v.mount}

\* A slip: a view that is unmounted counts as closed.
GoneUnmounted(v) == ~v.mount
Gone(v) == v.mounter = "none" /\ ~v.files

\* By what was under way: a bridge that is not closed is retained with the
\* process object, but for the object of a launch that failed after it.
BridgeRemove ==
  /\ op.at = "remove"
  /\ \E v \in IF handle.bridge THEN Unbridged(world) ELSE {world} :
       LET closed == handle.bridge => Gone(v)
           rest   == IF closed THEN [handle EXCEPT !.bridge = FALSE, !.mounter = FALSE,
                                                   !.asked = FALSE, !.polls = 0]
                     ELSE [handle EXCEPT !.mounter = v.mounter # "none"]
       IN  CASE op.then = "leak" ->
                    Release /\ UNCHANGED ghost
                    /\ world' = [world EXCEPT !.mounter = "none", !.mount = FALSE, !.files = FALSE]
             [] op.then \in {"retain", "release"} /\ closed ->
                    Release /\ world' = v /\ UNCHANGED ghost
             [] op.then = "polled" \/ (op.then # "leak" /\ ~closed) ->
                    handle' = rest /\ Keep /\ world' = v /\ UNCHANGED ghost

-----------------------------------------------------------------------------
(* Starting. *)

\* gdox_xenia_storage_open.
StorageOpened(k) == storage \/ k = "xenia"

\* gdox_runtime_playback_start, as far as the process object or Xenia's
\* session storage.
Start ==
  /\ Idle /\ owner = "none"
  /\ \E k \in Backends :
       /\ k = "xenia" => ~storage
       /\ world.windows => k # "dolphin"
       /\ owner' = k
       /\ storage' = StorageOpened(k)
       /\ handle' = [NewHandle EXCEPT !.session = (k = "xemu")]
       /\ op' = Call("start", IF Bridged(k) THEN "bridge" ELSE "spawn")
  /\ ghost' = [ghost EXCEPT !.terms = 0]
  /\ UNCHANGED world

\* gdox_disc_bridge_start: nothing was made; a directory and perhaps its
\* server, which is closed again; or the view is there.
BridgeStart ==
  /\ op.at = "bridge"
  /\ \/ Release /\ UNCHANGED world
     \/ \E m \in {"none", "runs", "ended"}, mounted \in BOOLEAN :
          /\ m = "none" => ~mounted
          /\ world' = [world EXCEPT !.mounter = m, !.mount = mounted, !.files = TRUE]
          /\ handle' = [handle EXCEPT !.bridge = TRUE, !.mounter = (m # "none")]
          /\ \/ Continue(Remove("unmount", "retain"))
             \/ m = "runs" /\ mounted /\ Continue([op EXCEPT !.at = "spawn"])
  /\ UNCHANGED ghost

\* The call that makes the child succeeds, and its number is kept.
Child == /\ world' = [world EXCEPT !.leader = "runs", !.other = FALSE]
         /\ handle' = [handle EXCEPT !.pid = TRUE, !.group = Grouped(owner)]
         /\ Keep
\* Something before it or itself fails: the session's directory is removed
\* and the object freed.
NoChild == Release /\ UNCHANGED world

\* gdox_emulator_launch, gdox_xenia_launch and gdox_dolphin_launch from the
\* spawn on: without a child the object goes at once, but Dolphin's stays to
\* close its bridge, and Xenia's is destroyed, bridge and all.
SpawnXemu    == owner = "xemu" /\ ~world.windows /\ (Child \/ NoChild)
SpawnXemuWindows == owner = "xemu" /\ world.windows /\ (Child \/ NoChild)
SpawnXenia   == Grouped(owner) /\ (Child \/ (Continue(Remove("unmount", "leak")) /\ UNCHANGED <<handle, world>>))
SpawnXeniaWindows == owner = "xenia" /\ world.windows /\ (Child \/ NoChild)
SpawnDolphin ==
  /\ owner = "dolphin"
  /\ \/ Child
     \/ handle' = [handle EXCEPT !.reaped = TRUE] /\ Keep /\ UNCHANGED world
Spawn == /\ op.at = "spawn"
         /\ SpawnXemu \/ SpawnXemuWindows \/ SpawnXenia \/ SpawnXeniaWindows \/ SpawnDolphin
         /\ UNCHANGED ghost

-----------------------------------------------------------------------------
(* Stopping. *)

\* request_signal of xemu: to the group of a child that was not reaped.
MeetsXemu(h) == ~h.reaped /\ h.pid /\ world.other
\* request_signal of Xenia: to the group while its number is kept, else to a
\* child that was not reaped.
MeetsXenia(h) == (h.group \/ (~h.reaped /\ h.pid)) /\ world.other
Signalled(met) == [ghost EXCEPT !.hurt = IF met THEN @ \cup {owner} ELSE @]

Stop ==
  /\ Idle /\ owner # "none"
  /\ op' = Call("stop", "query")
  /\ UNCHANGED <<owner, storage, handle, world, ghost>>

\* The child has ended: terminate_owned_process, terminate_owned_child and
\* what the runtime's stop does then.
Ended(r) ==
  IF owner = "xemu" \/ world.windows
  THEN Release /\ world' = r.w
  ELSE /\ Sees(r)
       /\ Continue(IF r.h.bridge THEN Remove("unmount", IF op.call = "poll" THEN "polled" ELSE "release")
                   ELSE Remove("remove", IF op.call = "poll" THEN "polled" ELSE "release"))

\* wait_for_exit: every wait looks once, all but the first look again.
Over == op.phase = "first" \/ op.waited = WaitPolls
Sleeps(again) == Continue([op EXCEPT !.waited = @ + 1, !.again = again])

\* Between two waits the child is asked to end, then forced; after the last
\* it is given up.
Turn(signalled) ==
  \/ op.phase = "first" /\ Continue([op EXCEPT !.phase = "grace"]) /\ ghost' = signalled
  \/ op.phase = "grace" /\ Continue([op EXCEPT !.phase = "forced", !.waited = 0]) /\ ghost' = signalled
  \/ op.phase = "forced" /\ Keep /\ UNCHANGED ghost

\* terminate_owned_process of xemu: SIGTERM, then SIGKILL.
WaitingXemu(r) ==
  /\ Sees(r)
  /\ IF Over THEN Turn(Signalled(MeetsXemu(r.h))) ELSE Sleeps(op.again) /\ UNCHANGED ghost

\* terminate_owned_child of Xenia: SIGINT, again when its leader has gone
\* before its group, then SIGKILL.
WaitingXenia(r) ==
  LET repeat == /\ op.phase = "grace" /\ ~op.again /\ r.out = "running"
                /\ ~handle.reaped /\ r.h.reaped /\ r.h.group
      met    == Signalled(MeetsXenia(r.h))
  IN  /\ Sees(r)
      /\ IF Over THEN Turn(met)
         ELSE Sleeps(op.again \/ repeat) /\ ghost' = IF repeat THEN met ELSE ghost

\* terminate_owned_process on Windows: the windows of the process are asked
\* to close, then it is terminated by its handle, which no stranger has.
WaitingWindows(r) ==
  /\ Sees(r)
  /\ IF Over THEN Turn(ghost) ELSE Sleeps(op.again) /\ UNCHANGED ghost

StopQuery ==
  /\ op.at = "query" /\ owner # "dolphin"
  /\ \E r \in Query :
       CASE r.out = "exited" -> Ended(r) /\ UNCHANGED ghost
         [] r.out # "exited" /\ world.windows -> WaitingWindows(r)
         [] r.out # "exited" /\ ~world.windows /\ owner = "xemu"  -> WaitingXemu(r)
         [] r.out # "exited" /\ ~world.windows /\ owner = "xenia" -> WaitingXenia(r)

\* Windows: the sleep between two queries is a wait that reaps.
StopWoken ==
  /\ world.windows /\ op.at = "query" /\ op.phase # "first" /\ op.waited > 0
  /\ world.leader = "ended"
  /\ Ended(Reaped) /\ UNCHANGED ghost

\* A slip: every call of stop asks Dolphin to end.
DolphinRequestsAgain(h) == TRUE
\* gdox_dolphin_stop: one request, and no force.
DolphinRequests(h) == ~h.shut

StopDolphin ==
  /\ op.at = "query" /\ owner = "dolphin"
  /\ \E r \in Query :
       CASE r.out = "error"  -> Sees(r) /\ Keep /\ UNCHANGED ghost
         [] r.out = "exited" -> Ended(r) /\ UNCHANGED ghost
         [] r.out = "running" /\ op.phase = "first" ->
              \/ DolphinRequests(r.h) /\ Sees(r) /\ Keep /\ UNCHANGED ghost
              \/ /\ handle' = [r.h EXCEPT !.shut = TRUE]
                 /\ ghost' = IF DolphinRequests(r.h) THEN [ghost EXCEPT !.terms = @ + 1] ELSE ghost
                 /\ Continue([op EXCEPT !.phase = "grace"]) /\ UNCHANGED world
         [] r.out = "running" /\ op.phase = "grace" ->
              /\ Sees(r) /\ UNCHANGED ghost
              /\ IF op.waited < WaitPolls THEN Continue([op EXCEPT !.waited = @ + 1]) ELSE Keep

-----------------------------------------------------------------------------
(* Polling. *)

\* gdox_emulator_poll and gdox_runtime_xemu_poll.
PollXemu ==
  /\ Idle /\ owner = "xemu"
  /\ \E r \in Query :
       /\ world' = r.w
       /\ IF r.out = "exited" THEN Release ELSE handle' = r.h /\ Keep
  /\ UNCHANGED ghost

\* gdox_disc_bridge_try_close: unmounts once and waits for the server.
TryClose(h, w) ==
  LET asked == [h EXCEPT !.asked = TRUE]
      gone  == [w EXCEPT !.mount = FALSE, !.mounter = IF @ = "ended" THEN "none" ELSE @]
      v     == IF h.asked THEN [w EXCEPT !.mounter = IF @ = "ended" THEN "none" ELSE @] ELSE gone
      x     == [asked EXCEPT !.mounter = v.mounter # "none"]
  IN  {[h |-> h, w |-> w, out |-> "error"], [h |-> x, w |-> v, out |-> "error"]} \cup
      IF v.mounter # "none"
      THEN {[h |-> [x EXCEPT !.polls = IF @ < ClosePolls THEN @ + 1 ELSE @], w |-> v, out |-> "running"]}
      ELSE IF v.mount THEN {} ELSE {[h |-> x, w |-> [v EXCEPT !.files = FALSE], out |-> "closed"]}

Watched(w) == w.mounter = "runs"

\* gdox_xenia_poll and gdox_runtime_xenia_poll.  A monitor that fails, or a
\* view that stops, condemns the process.
PollXenia ==
  /\ Idle /\ owner = "xenia"
  /\ \E r \in Query :
       CASE r.out = "exited" /\ ~r.h.bridge -> Release /\ world' = r.w
         [] r.out = "exited" /\ r.h.bridge ->
              \E c \in TryClose(r.h, r.w) :
                /\ world' = c.w
                /\ IF c.out = "closed" THEN Release ELSE handle' = c.h /\ Keep
         [] r.out = "running" /\ (r.h.bridge => Watched(r.w)) -> Sees(r) /\ Keep
         [] r.out = "error" \/ (r.out = "running" /\ r.h.bridge /\ ~Watched(r.w)) ->
              Sees(r) /\ IF world.windows THEN Keep ELSE Continue(Call("poll", "query"))
  /\ UNCHANGED ghost

\* gdox_dolphin_poll and gdox_runtime_dolphin_poll.
PollDolphin ==
  /\ Idle /\ owner = "dolphin"
  /\ \E r \in Query :
       /\ Sees(r)
       /\ IF r.out = "exited"
          THEN Continue([Call("stop", IF r.h.bridge THEN "unmount" ELSE "remove") EXCEPT !.then = "release"])
          ELSE Keep
  /\ UNCHANGED ghost

\* gdox_runtime_xenia_cleanup.
Cleanup ==
  /\ Idle /\ ~handle.held /\ storage
  /\ storage' = FALSE
  /\ UNCHANGED <<owner, handle, op, world, ghost>>

-----------------------------------------------------------------------------
(* The world. *)

LeaderEnds  == world.leader = "runs" /\ world' = [world EXCEPT !.leader = "ended"]
HelperStarts == /\ Leads(owner) /\ world.leader = "runs"
                /\ world' = [world EXCEPT !.helpers = @ \cup {owner}]
HelperEnds  == \E k \in world.helpers : world' = [world EXCEPT !.helpers = @ \ {k}]
NumberReused == world.leader = "none" /\ "xenia" \notin world.helpers /\ owner # "none"
                /\ world' = [world EXCEPT !.other = ~@]
MounterEnds == world.mounter = "runs" /\ world' = [world EXCEPT !.mounter = "ended"]
World == /\ \/ LeaderEnds \/ HelperStarts \/ HelperEnds \/ NumberReused \/ MounterEnds
         /\ UNCHANGED <<owner, storage, handle, op, ghost>>

Init == /\ owner = "none" /\ storage = FALSE /\ handle = NoHandle
        /\ op = NoCall /\ world \in {QuietWorld(w) : w \in BOOLEAN} /\ ghost = [terms |-> 0, hurt |-> {}]
Calls == \/ BridgeStart \/ Spawn \/ BridgeUnmount \/ BridgeRemove
         \/ Stop \/ StopQuery \/ StopWoken \/ StopDolphin
         \/ PollXemu \/ PollXenia \/ PollDolphin \/ Cleanup
Next == Start \/ Calls \/ World
Spec == Init /\ [][Next]_vars

-----------------------------------------------------------------------------
TypeOK == /\ owner \in Backends \cup {"none"} /\ storage \in BOOLEAN
          /\ handle \in Handles /\ op \in Ops /\ world \in Worlds /\ ghost \in Ghosts

\* What the runtime sees of a call that is under way: nothing yet, but that
\* the child may end.
Shown == IF Idle THEN Now ELSE [op.begin EXCEPT !.alive = @ /\ Alive]
Promise == INSTANCE PlaybackCalls WITH play <- Shown

\* Whatever the child, its descendants and the mount do between the steps of
\* a call, each call of the worker leaves what the runtime relies on: above
\* all, a process that is released is not alive.
KeepsThePromise == Promise!Spec

\* When no process is owned, none that was started is left, nor the mount
\* it read the disc through, but for the mount of a launch that failed and
\* for what an xemu that ended by itself has left in its group.
NothingOutlives ==
  /\ TypeOK
  /\ Idle /\ ~handle.held =>
       /\ ~Alive /\ world.leader = "none"
       /\ world.mounter = "none" /\ ~world.mount /\ ~world.files

\* The view of the disc is never taken from a process that may read it, a
\* Dolphin that is saving is asked to end once and never forced, and the
\* signals meant for xemu and Dolphin meet no process that was given the
\* number of theirs.
ReadersAreSpared ==
  [][/\ world.mount /\ ~world'.mount => ~Alive
     /\ ghost'.terms < 2
     /\ ghost'.hurt \subseteq {"xenia"}]_vars
=============================================================================
