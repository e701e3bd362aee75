---------------------------- MODULE PlaybackOwner ----------------------------
(***************************************************************************)
(* The one tagged owner of an emulator process and what starting, polling *)
(* and stopping it can leave owned (src/app/runtime_playback.c and the    *)
(* backends behind it).  The three process pointers are one union, so one *)
(* handle stands for them.  A handle can outlive its child: the process   *)
(* object also owns a mount or a session directory.                       *)
(***************************************************************************)
EXTENDS MediaSession

Plays == [owner   : Backends \cup {"none"},  \* runtime->playback_owner
          handle  : BOOLEAN,                 \* a process pointer is not NULL
          alive   : BOOLEAN,                 \* the child runs
          storage : BOOLEAN]                 \* xenia_storage.session.active

NothingPlays == [owner |-> "none", handle |-> FALSE, alive |-> FALSE, storage |-> FALSE]

Running(p) == p.handle

Started(p, backend, alive) ==
  [p EXCEPT !.owner = backend, !.handle = TRUE, !.alive = alive,
            !.storage = (@ \/ backend = "xenia")]

Released(p, storage) == [NothingPlays EXCEPT !.storage = storage]

\* Closing Xenia's session storage fails without losing it.
StorageLeft(p) == IF p.owner = "xenia" THEN {FALSE, p.storage} ELSE {p.storage}

-----------------------------------------------------------------------------
(* gdox_runtime_playback_start *)

Launched(p, m, alive) ==
  [play |-> Started(p, m.backend, alive), media |-> m, ok |-> alive]

\* A failed start of Dolphin or Xenia can leave a process that only owns
\* the mount of the disc.
StartXemu(p, m)    == {Launched(p, m, TRUE)}
StartDolphin(p, m) == {Launched(p, m, alive) : alive \in BOOLEAN}

StartXenia(p, m) ==
  LET targets == XeniaTargets(m)
  IN  {Launched(p, t.media, alive) : t \in {u \in targets : u.ok}, alive \in BOOLEAN}
        \cup {[play |-> [p EXCEPT !.storage = s], media |-> t.media, ok |-> FALSE] :
                t \in targets, s \in BOOLEAN}

StartOutcomes(p, m) ==
  LET refused == {[play |-> p, media |-> m, ok |-> FALSE]}
  IN  IF p.owner # "none" \/ Running(p) \/ ~m.open
        THEN refused
        ELSE refused \cup
             CASE m.backend = "xemu"    /\ m.exported -> StartXemu(p, m)
               [] m.backend = "dolphin" /\ m.exported -> StartDolphin(p, m)
               [] m.backend = "xenia"   /\ ~p.storage -> StartXenia(p, m)
               [] OTHER -> {}

-----------------------------------------------------------------------------
(* gdox_runtime_playback_stop and gdox_runtime_playback_shutdown: the      *)
(* process is kept when it cannot be stopped; a released process can still *)
(* report a lost checkpoint or session storage that did not close.         *)

Kept(p) == [play : {p, [p EXCEPT !.alive = FALSE]}, ok : {FALSE}]

Stopped(p) ==
  {o \in [play : {Released(p, s) : s \in StorageLeft(p)}, ok : BOOLEAN] :
     CASE p.owner = "dolphin" -> o.ok
       [] p.owner = "xenia"   -> o.ok => ~o.play.storage
       [] OTHER -> TRUE}

StopOutcomes(p) == IF p.owner = "none"
                     THEN {[play |-> p, ok |-> ~Running(p)]}
                     ELSE Kept(p) \cup Stopped(p)

-----------------------------------------------------------------------------
(* gdox_runtime_playback_poll: only a child that ended is released.        *)

PollOutcomes(p) ==
  {p} \cup IF p.alive THEN {} ELSE {Released(p, s) : s \in StorageLeft(p)}
=============================================================================
