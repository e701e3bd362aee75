------------------------------ MODULE Desktop ------------------------------
(***************************************************************************)
(* The desktop program around the runtime: one process of a user at a time *)
(* owns the drive, later launches ask it to show its window, closing the   *)
(* window hides it, and every way out first takes the runtime down         *)
(* (src/ui/main.cpp, src/app/background_lifecycle.c and the guard and host *)
(* of each platform).  The runtime is whether there is one: RuntimeSession *)
(* opens it up.  The window's toolkit, the notification area and the kernel*)
(* are external.                                                           *)
(***************************************************************************)
EXTENDS Naturals, FiniteSets

CONSTANTS
  Procs,        \* launches of GDOX by one user
  NoProc,       \* nobody
  Stale,        \* a socket's name whose socket is closed
  MaxAttempts   \* tries to reach the running process; 20 in the code

\* Assumed where the constants get their values.
DesktopAssumption == /\ NoProc \notin Procs /\ Stale \notin Procs
                     /\ NoProc # Stale /\ "event" \notin Procs
                     /\ MaxAttempts \in Nat

VARIABLES
  platform,   \* "linux" or "windows"
  at,         \* where each process is in the code
  tries,      \* attempt of gdox_instance_guard_activate_existing
  holder,     \* who holds the lock on gdox-desktop.lock
  path,       \* the process whose socket gdox-desktop.activate names
  trusted,    \* the name has mode 0600
  handles,    \* who has the named mutex open
  events,     \* who has the named event open
  mail,       \* the sockets with a request, or the event when it is set
  app         \* the locals of run_application

deskVars == <<platform, at, tries, holder, path, trusted, handles, events, mail, app>>

Posix == platform = "linux"

\* From the first call of main to the return, in the order of the code.
Acquiring == {"locked", "cleared", "bound", "owned"}
Starting  == {"guarded", "hosted", "windowed"}
Looping   == {"top", "poll", "decide", "frame"}
Closing   == {"closing", "closePoll", "closeFrame", "urgent"}
Ending    == {"teardown", "leaving"}
Serving   == Starting \cup Looping \cup Closing \cup Ending
Owning    == Acquiring \cup Serving \cup {"unnamed", "silent"}
Knocking  == {"doubled", "knocking", "sending"}
Places    == {"out", "start"} \cup Owning \cup Knocking

HostEvents == {"none", "open", "quit", "available", "unavailable"}

\* lifecycle, the background host's fields, native_shutdown and exit_code.
\* callback and nested are the places the two levels of shutdown return to;
\* failed is what exit_code should tell.
Blank == [state |-> "visible", available |-> FALSE, raise |-> FALSE,
          window |-> FALSE, host |-> "none", icon |-> FALSE, reconnect |-> FALSE,
          slot |-> "none", menu |-> "none", handlers |-> FALSE, signalled |-> FALSE,
          runtime |-> FALSE, initialized |-> FALSE, progress |-> FALSE,
          complete |-> FALSE, success |-> FALSE, callback |-> "main",
          nested |-> "none", code |-> 0, failed |-> FALSE]

Apps == [state : {"visible", "hidden", "stopping"}, available : BOOLEAN, raise : BOOLEAN,
         window : BOOLEAN, host : {"none", "up", "cut"}, icon : BOOLEAN,
         reconnect : BOOLEAN, slot : HostEvents, menu : HostEvents,
         handlers : BOOLEAN, signalled : BOOLEAN, runtime : BOOLEAN,
         initialized : BOOLEAN, progress : BOOLEAN, complete : BOOLEAN,
         success : BOOLEAN, callback : {"main", "poll", "frame"},
         nested : {"none", "closePoll", "closeFrame"}, code : 0 .. 1, failed : BOOLEAN]

Init == /\ platform \in {"linux", "windows"}
        /\ at = [p \in Procs |-> "out"]
        /\ tries = [p \in Procs |-> 0]
        /\ holder = NoProc /\ path = NoProc /\ trusted = FALSE
        /\ handles = {} /\ events = {} /\ mail = {}
        /\ app = [p \in Procs |-> Blank]

Goto(p, place) == at' = [at EXCEPT ![p] = place]
Set(p, a) == app' = [app EXCEPT ![p] = a]

-----------------------------------------------------------------------------
(* gdox_background_lifecycle. *)

Initialized(a, startHidden) ==
  [a EXCEPT !.available = a.host # "none",
            !.state = IF startHidden /\ a.host # "none" THEN "hidden" ELSE "visible"]

Apply(a, action) ==
  IF a.state = "stopping" THEN a
  ELSE CASE action = "none"        -> a
         [] action = "closed"      -> [a EXCEPT !.state = IF a.available THEN "hidden"
                                                          ELSE "stopping"]
         [] action = "open"        -> [a EXCEPT !.state = "visible", !.raise = TRUE]
         [] action = "quit"        -> [a EXCEPT !.state = "stopping", !.raise = FALSE]
         [] action = "available"   -> [a EXCEPT !.available = TRUE]
         [] action = "unavailable" -> [a EXCEPT !.available = FALSE,
                                         !.state = IF a.state = "hidden" THEN "visible"
                                                   ELSE a.state]

-----------------------------------------------------------------------------
(* The background host. *)

\* One poll ends: the menu's event goes first and leaves the host's own for
\* the next poll.  A lost connection is reported by every poll.
Take(a) == IF a.menu # "none" THEN [app |-> [a EXCEPT !.menu = "none"], event |-> a.menu]
           ELSE [app |-> [a EXCEPT !.slot = "none"], event |-> a.slot]
Registered(a) == [a EXCEPT !.icon = TRUE, !.reconnect = FALSE, !.slot = "available"]
Polled(a) ==
  CASE a.host = "none" -> {[app |-> a, event |-> "none"]}
    [] a.host = "cut"  -> {[app |-> [a EXCEPT !.icon = FALSE], event |-> "unavailable"]}
    [] a.host = "up"   -> {Take(a)} \cup (IF a.reconnect THEN {Take(Registered(a))} ELSE {})

\* gdox_background_host_set_status: changing the tip is where Windows learns
\* that the icon is gone.
StatusSet(a) ==
  {a} \cup (IF ~Posix /\ a.icon THEN {[a EXCEPT !.icon = FALSE, !.slot = "unavailable"]}
            ELSE {})

\* Messages are handled while the host is polled; on Windows also by the
\* window's own pump.
Pumping(p) == /\ app[p].host = "up"
              /\ \/ at[p] \in {"poll", "closePoll"}
                 \/ ~Posix /\ app[p].window /\ at[p] \in {"windowed", "frame", "closeFrame"}

\* One slot for the host and one for the menu: the last message wins.
\* watch_watcher_owner: the notification area loses its owner or gets one.
WatcherMessages(a) ==
  {[a EXCEPT !.icon = FALSE, !.reconnect = FALSE, !.slot = "unavailable"],
   [a EXCEPT !.reconnect = ~a.icon \/ a.reconnect]}

\* handle_sni: what a property reads is the host's title and constants.
ItemCalls == {"Get", "GetAll", "Activate", "SecondaryActivate", "ContextMenu", "Scroll"}
HandleItem(a, call) ==
  CASE call \in {"Activate", "SecondaryActivate"} -> [a EXCEPT !.slot = "open"]
    [] call \in {"Get", "GetAll"}                 -> a
    [] call \in {"ContextMenu", "Scroll"}         -> a
ItemMessages(a) == {HandleItem(a, call) : call \in ItemCalls}

\* handle_menu: the layout has two items and is always the same; an event
\* names an item, that may be none of these, and what was done to it.
MenuCalls == [member : {"GetLayout", "AboutToShow", "Event"},
              item : 0 .. 2, event : {"clicked", "hovered", "ill-formed"}]
MenuEvent(a, m) ==
  CASE m.event = "clicked" /\ m.item = 1 -> [a EXCEPT !.menu = "open"]
    [] m.event = "clicked" /\ m.item = 2 -> [a EXCEPT !.menu = "quit"]
    [] m.event # "clicked" \/ m.item = 0 -> a
HandleMenu(a, m) == IF m.member = "Event" THEN MenuEvent(a, m) ELSE a
MenuMessages(a) == {HandleMenu(a, m) : m \in MenuCalls}

\* background_window_proc: a click, the choice from the menu, or a taskbar
\* that was made anew and has to get the icon again.
InstallTrayIcon(a) == {[a EXCEPT !.icon = installed] : installed \in BOOLEAN}
TrayClicked(a) == [a EXCEPT !.slot = "open"]
ShowTrayMenu(a) == {IF selected = "none" THEN a ELSE [a EXCEPT !.slot = selected] :
                      selected \in {"none", "open", "quit"}}
TaskbarCreated(a) == {[b EXCEPT !.slot = IF b.icon THEN "available" ELSE "unavailable"] :
                        b \in InstallTrayIcon(a)}
TrayMessages(a) == {TrayClicked(a)} \cup ShowTrayMenu(a) \cup TaskbarCreated(a)

Messages(a) == IF Posix THEN WatcherMessages(a) \cup ItemMessages(a) \cup MenuMessages(a)
               ELSE TrayMessages(a)

HostMessage(p) ==
  /\ Pumping(p)
  /\ \E a \in Messages(app[p]) : Set(p, a)
  /\ UNCHANGED <<platform, at, tries, holder, path, trusted, handles, events, mail>>

\* The session bus goes away.
ConnectionLost(p) ==
  /\ Posix /\ app[p].host = "up"
  /\ Set(p, [app[p] EXCEPT !.host = "cut"])
  /\ UNCHANGED <<platform, at, tries, holder, path, trusted, handles, events, mail>>

-----------------------------------------------------------------------------
(* The instance guard.  A process that ends, whatever way, loses its lock, *)
(* its socket and its handles; the socket's name stays unless it is        *)
(* removed, and the event stays while anybody has it open.                 *)

Mailbox(p) == IF Posix THEN p ELSE "event"
Without(boxes, p) == (boxes \ {p}) \ (IF events \subseteq {p} THEN {"event"} ELSE {})

Out(p) ==
  /\ Goto(p, "out")
  /\ holder' = IF holder = p THEN NoProc ELSE holder
  /\ path' = IF path = p THEN Stale ELSE path
  /\ handles' = handles \ {p} /\ events' = events \ {p}
  /\ mail' = Without(mail, p)
  /\ Set(p, Blank)
  /\ tries' = [tries EXCEPT ![p] = 0]
  /\ UNCHANGED <<platform, trusted>>

Launch(p) == /\ at[p] = "out" /\ Goto(p, "start")
             /\ UNCHANGED <<platform, tries, holder, path, trusted, handles, events, mail, app>>

\* What is asked for before there is a guard can be refused.
LaunchFails(p) == at[p] \in {"start", "owned"} /\ Out(p)

\* gdox_instance_guard_acquire, instance_guard_posix.c.
TakeLock(p) ==
  /\ Posix /\ at[p] = "start"
  /\ IF holder = NoProc THEN holder' = p /\ Goto(p, "locked")
                        ELSE UNCHANGED holder /\ Goto(p, "knocking")
  /\ UNCHANGED <<platform, tries, path, trusted, handles, events, mail, app>>

ClearName(p) ==
  /\ at[p] = "locked" /\ Goto(p, "cleared")
  /\ path' = NoProc /\ trusted' = FALSE
  /\ UNCHANGED <<platform, tries, holder, handles, events, mail, app>>

BindSocket(p) ==
  /\ at[p] = "cleared" /\ Goto(p, "bound")
  /\ path' = p /\ trusted' = FALSE
  /\ UNCHANGED <<platform, tries, holder, handles, events, mail, app>>

TrustSocket(p) ==
  /\ at[p] = "bound" /\ Goto(p, "guarded")
  /\ trusted' = TRUE
  /\ UNCHANGED <<platform, tries, holder, path, handles, events, mail, app>>

\* Any call in between can fail; what was bound is closed and unlinked.
ListenerFails(p) ==
  /\ at[p] \in {"locked", "cleared", "bound"} /\ Goto(p, "silent")
  /\ path' = IF at[p] = "bound" THEN NoProc ELSE path
  /\ trusted' = IF at[p] = "bound" THEN FALSE ELSE trusted
  /\ Set(p, [app[p] EXCEPT !.code = 1, !.failed = TRUE])
  /\ mail' = mail \ {p}
  /\ UNCHANGED <<platform, tries, holder, handles, events>>

\* gdox_instance_guard_acquire, instance_guard_windows.c: the mutex is never
\* waited for; having created it is having it.
OpenMutex(p) ==
  /\ ~Posix /\ at[p] = "start"
  /\ handles' = handles \cup {p}
  /\ Goto(p, IF handles = {} THEN "owned" ELSE "doubled")
  /\ UNCHANGED <<platform, tries, holder, path, trusted, events, mail, app>>

CloseDouble(p) ==
  /\ at[p] = "doubled" /\ Goto(p, "knocking")
  /\ handles' = handles \ {p}
  /\ UNCHANGED <<platform, tries, holder, path, trusted, events, mail, app>>

OpenEvent(p) ==
  /\ at[p] = "owned" /\ Goto(p, "guarded")
  /\ events' = events \cup {p}
  /\ UNCHANGED <<platform, tries, holder, path, trusted, handles, mail, app>>

\* gdox_instance_guard_activate_existing: look for the other process, then
\* send; a look or a send in vain costs an attempt and a delay.
Missed(p) == IF tries[p] + 1 < MaxAttempts
             THEN /\ tries' = [tries EXCEPT ![p] = @ + 1] /\ Goto(p, "knocking")
                  /\ UNCHANGED <<platform, holder, path, trusted, handles, events, mail, app>>
             ELSE Out(p)

LookForName(p) ==
  /\ Posix /\ at[p] = "knocking"
  /\ \/ /\ path # NoProc /\ trusted /\ Goto(p, "sending")
        /\ UNCHANGED <<platform, tries, holder, path, trusted, handles, events, mail, app>>
     \/ ~(path # NoProc /\ trusted) /\ Missed(p)

\* A socket with requests can be full.
SendRequest(p) ==
  /\ Posix /\ at[p] = "sending"
  /\ \/ /\ path \in Procs /\ mail' = mail \cup {path}
        /\ Goto(p, "out") /\ tries' = [tries EXCEPT ![p] = 0]
        /\ UNCHANGED <<platform, holder, path, trusted, handles, events, app>>
     \/ (path \notin Procs \/ path \in mail) /\ Missed(p)

OpenOther(p) ==
  /\ ~Posix /\ at[p] = "knocking"
  /\ \/ /\ events # {} /\ Goto(p, "sending") /\ events' = events \cup {p}
        /\ UNCHANGED <<platform, tries, holder, path, trusted, handles, mail, app>>
     \/ events = {} /\ Missed(p)

\* SetEvent goes to the event that was opened, whether or not its owner is
\* still there; the handle is closed at once.
SetOther(p) ==
  /\ ~Posix /\ at[p] = "sending" /\ Goto(p, "out")
  /\ mail' = IF events = {p} THEN {} ELSE {"event"}
  /\ events' = events \ {p}
  /\ tries' = [tries EXCEPT ![p] = 0]
  /\ UNCHANGED <<platform, holder, path, trusted, handles, app>>

\* gdox_instance_guard_release, the last thing main does.
RemoveName(p) ==
  /\ Posix /\ at[p] = "leaving" /\ Goto(p, "unnamed")
  /\ path' = NoProc /\ trusted' = FALSE
  /\ UNCHANGED <<platform, tries, holder, handles, events, mail, app>>

CloseEvent(p) ==
  /\ ~Posix /\ at[p] = "leaving" /\ Goto(p, "silent")
  /\ events' = events \ {p} /\ mail' = Without(mail, p)
  /\ UNCHANGED <<platform, tries, holder, path, trusted, handles, app>>

CloseSocket(p) ==
  /\ at[p] = "unnamed" /\ Goto(p, "silent")
  /\ mail' = mail \ {p}
  /\ path' = IF path = p THEN Stale ELSE path
  /\ UNCHANGED <<platform, tries, holder, trusted, handles, events, app>>

ReleaseLock(p) == at[p] = "silent" /\ Out(p)

-----------------------------------------------------------------------------
(* run_application, from the guard to the loop. *)

Unshared == <<platform, tries, holder, path, trusted, handles, events>>

\* A host that cannot be created leaves a window only, and Steam Deck's gaming
\* mode asks for none.  On Linux all of it is taken back unless the watcher
\* knows the item; on Windows the host lives on without its icon.
LinuxHosts(a) == {a} \cup {IF registered THEN [a EXCEPT !.host = "up", !.icon = TRUE] ELSE a :
                             registered \in BOOLEAN}
WindowsHosts(a) == {a} \cup {[b EXCEPT !.host = "up", !.slot = IF b.icon THEN @ ELSE "unavailable"] :
                               b \in InstallTrayIcon(a)}

CreateHost(p) ==
  /\ at[p] = "guarded" /\ Goto(p, "hosted")
  /\ \E a \in IF Posix THEN LinuxHosts(app[p]) ELSE WindowsHosts(app[p]) :
     \E startHidden \in BOOLEAN : Set(p, Initialized(a, startHidden))
  /\ UNCHANGED <<Unshared, mail>>

\* What ends main before there is a runtime.
StartFails(p) ==
  /\ \/ at[p] = "hosted" /\ app[p].state = "visible"   \* initialize_window
     \/ at[p] = "windowed" /\ Posix                    \* the signal handlers
  /\ Goto(p, "leaving")
  /\ Set(p, [Blank EXCEPT !.code = 1, !.failed = TRUE])
  /\ UNCHANGED <<Unshared, mail>>

FirstWindow(p) ==
  /\ at[p] = "hosted" /\ Goto(p, "windowed")
  /\ Set(p, [app[p] EXCEPT !.window = app[p].state = "visible"])
  /\ UNCHANGED <<Unshared, mail>>

\* The handlers, then gdox_app_initialize, which can go without a runtime.
AppInitialized(a) == {[a EXCEPT !.runtime = created] : created \in BOOLEAN}

Begin(p) ==
  /\ at[p] = "windowed" /\ Goto(p, "top")
  /\ \E a \in AppInitialized(app[p]) :
       Set(p, [a EXCEPT !.handlers = Posix, !.initialized = TRUE])
  /\ UNCHANGED <<Unshared, mail>>

-----------------------------------------------------------------------------
(* The loop. *)

\* SIGINT or SIGTERM: noted once the handlers are there, otherwise fatal.
Terminate(p) ==
  /\ at[p] # "out" /\ app[p].handlers
  /\ Set(p, [app[p] EXCEPT !.signalled = TRUE])
  /\ UNCHANGED <<at, mail, Unshared>>

\* The way out of the loop.  On Windows the session's end may have taken the
\* runtime down already.
Leave(p, a) ==
  IF ~Posix /\ a.complete
  THEN Goto(p, "teardown") /\ Set(p, [a EXCEPT !.code = IF a.success THEN a.code ELSE 1])
  ELSE Goto(p, "closing") /\ Set(p, [a EXCEPT !.progress = ~Posix, !.callback = "main"])

Top(p) ==
  /\ at[p] = "top"
  /\ \/ /\ app[p].state = "stopping" /\ Leave(p, app[p])
        /\ UNCHANGED mail
     \/ /\ app[p].state # "stopping" /\ app[p].signalled
        /\ Set(p, Apply(app[p], "quit"))
        /\ UNCHANGED <<at, mail>>
     \/ /\ app[p].state # "stopping" /\ ~app[p].signalled
        /\ mail' = mail \ {Mailbox(p)}
        /\ LET a == Apply(app[p], IF Mailbox(p) \in mail THEN "open" ELSE "none")
           IN  IF a.host = "none" THEN Goto(p, "decide") /\ Set(p, a)
               ELSE Goto(p, "poll") /\ \E b \in StatusSet(a) : Set(p, b)
  /\ UNCHANGED Unshared

Poll(p) ==
  /\ at[p] = "poll" /\ Goto(p, "decide")
  /\ \E r \in Polled(app[p]) : Set(p, Apply(r.app, r.event))
  /\ UNCHANGED <<Unshared, mail>>

\* A window that cannot be reopened ends the program.
Decide(p) ==
  /\ at[p] = "decide"
  /\ \/ app[p].state = "stopping" /\ Leave(p, app[p])
     \/ app[p].state = "hidden" /\ Goto(p, "top") /\ Set(p, [app[p] EXCEPT !.window = FALSE])
     \/ /\ app[p].state = "visible" /\ Goto(p, "frame")
        /\ Set(p, [app[p] EXCEPT !.window = TRUE, !.raise = FALSE])
     \/ /\ app[p].state = "visible" /\ ~app[p].window /\ Goto(p, "top")
        /\ Set(p, Apply([app[p] EXCEPT !.code = 1, !.failed = TRUE], "quit"))
  /\ UNCHANGED <<Unshared, mail>>

\* WindowShouldClose, or a frame is drawn, in which the user may quit.
Frame(p) ==
  /\ at[p] = "frame" /\ Goto(p, "top")
  /\ \E action \in {"none", "closed", "quit"} : Set(p, Apply(app[p], action))
  /\ UNCHANGED <<Unshared, mail>>

-----------------------------------------------------------------------------
(* shutdown_application and complete_native_shutdown. *)

\* gdox_app_shutdown: TRUE without a runtime, or once it is destroyed; FALSE
\* when it is destroyed with an error, or has to be asked again.
Results(a) == IF a.runtime THEN {"destroyed", "error", "retry"} ELSE {"destroyed"}
Shut(a, result) == [a EXCEPT !.runtime = a.runtime /\ result = "retry",
                             !.failed = a.failed \/ result = "error"]

\* Bug variant: an outer shutdown overwrites what a nested one came to.
ReturnedOver(p, a, ok) ==
  LET b == [a EXCEPT !.success = ok, !.complete = TRUE, !.progress = FALSE]
  IN  /\ Goto(p, IF Posix \/ a.callback = "main" THEN "teardown" ELSE a.callback)
      /\ IF Posix THEN Set(p, [a EXCEPT !.code = IF ok THEN a.code ELSE 1])
         ELSE Set(p, IF a.callback = "main" THEN [b EXCEPT !.code = IF ok THEN a.code ELSE 1]
                     ELSE [b EXCEPT !.slot = "quit", !.callback = "main"])

\* shutdown_application returns ok, to main or to the callback of the
\* session's end, which leaves a quit for the loop.  The outcome of a nested
\* callback stands.
Returned(p, a, ok) ==
  IF Posix
  THEN Goto(p, "teardown") /\ Set(p, [a EXCEPT !.code = IF ok THEN a.code ELSE 1])
  ELSE LET success == IF a.complete THEN a.success ELSE ok
           b == [a EXCEPT !.success = success, !.complete = TRUE, !.progress = FALSE]
       IN  IF a.callback = "main"
           THEN Goto(p, "teardown") /\ Set(p, [b EXCEPT !.code = IF success THEN a.code ELSE 1])
           ELSE Goto(p, a.callback) /\ Set(p, [b EXCEPT !.slot = "quit", !.callback = "main"])

Close(p) ==
  /\ at[p] = "closing"
  /\ \E result \in Results(app[p]) :
       LET a == Shut(app[p], result)
       IN  IF result = "retry" THEN Goto(p, "closePoll") /\ Set(p, a)
           ELSE Returned(p, a, result = "destroyed")
  /\ UNCHANGED <<Unshared, mail>>

\* The event of the poll is ignored; a callback in it may have finished.
ClosePoll(p) ==
  /\ at[p] = "closePoll"
  /\ \E r \in Polled(app[p]) :
       IF ~r.app.runtime THEN Returned(p, r.app, TRUE)
       ELSE /\ Goto(p, IF r.app.window THEN "closeFrame" ELSE "closing")
            /\ \E a \in StatusSet(r.app) : Set(p, a)
  /\ UNCHANGED <<Unshared, mail>>

CloseFrame(p) ==
  /\ at[p] = "closeFrame" /\ Goto(p, "closing")
  /\ UNCHANGED <<Unshared, mail, app>>

\* WM_ENDSESSION.  Windows can end the process as soon as the callback
\* returns: it shuts down itself, or finishes the shutdown it interrupts.
SessionEnds(p) ==
  /\ ~Posix /\ Pumping(p)
  /\ \/ /\ ~app[p].initialized \/ app[p].complete
        /\ Set(p, [app[p] EXCEPT !.slot = "quit"])
        /\ UNCHANGED at
     \/ /\ app[p].initialized /\ ~app[p].complete /\ app[p].progress
        /\ Goto(p, "urgent")
        /\ Set(p, [app[p] EXCEPT !.nested = at[p]])
     \/ /\ app[p].initialized /\ ~app[p].complete /\ ~app[p].progress
        /\ Goto(p, "closing")
        /\ Set(p, [app[p] EXCEPT !.progress = TRUE, !.callback = at[p]])
  /\ UNCHANGED <<Unshared, mail>>

Urgent(p) ==
  /\ at[p] = "urgent"
  /\ \E result \in Results(app[p]) :
       LET a == Shut(app[p], result)
       IN  IF result = "retry" THEN Set(p, a) /\ UNCHANGED at
           ELSE /\ Goto(p, a.nested)
                /\ Set(p, [a EXCEPT !.success = result = "destroyed", !.complete = TRUE,
                                    !.slot = "quit", !.nested = "none"])
  /\ UNCHANGED <<Unshared, mail>>

\* The window is closed, the handlers and the host go.
Teardown(p) ==
  /\ at[p] = "teardown" /\ Goto(p, "leaving")
  /\ Set(p, [Blank EXCEPT !.code = app[p].code, !.failed = app[p].failed])
  /\ UNCHANGED <<Unshared, mail>>

-----------------------------------------------------------------------------
\* A process is killed, or the session is over.
Crash(p) == at[p] # "out" /\ Out(p)

Next == \E p \in Procs :
  \/ Launch(p) \/ LaunchFails(p) \/ TakeLock(p) \/ ClearName(p) \/ BindSocket(p)
  \/ TrustSocket(p) \/ ListenerFails(p) \/ OpenMutex(p) \/ CloseDouble(p)
  \/ OpenEvent(p) \/ LookForName(p) \/ SendRequest(p) \/ OpenOther(p) \/ SetOther(p)
  \/ RemoveName(p) \/ CloseEvent(p) \/ CloseSocket(p)
  \/ ReleaseLock(p) \/ CreateHost(p) \/ StartFails(p) \/ FirstWindow(p)
  \/ Begin(p)
  \/ HostMessage(p) \/ ConnectionLost(p) \/ Terminate(p) \/ Top(p) \/ Poll(p)
  \/ Decide(p) \/ Frame(p) \/ Close(p) \/ ClosePoll(p) \/ CloseFrame(p)
  \/ SessionEnds(p) \/ Urgent(p) \/ Teardown(p) \/ Crash(p)

Spec == Init /\ [][Next]_deskVars

-----------------------------------------------------------------------------
(* Properties. *)

TypeOK == /\ platform \in {"linux", "windows"}
          /\ at \in [Procs -> Places] /\ tries \in [Procs -> 0 .. MaxAttempts]
          /\ holder \in Procs \cup {NoProc} /\ path \in Procs \cup {NoProc, Stale}
          /\ trusted \in BOOLEAN
          /\ handles \subseteq Procs /\ events \subseteq Procs
          /\ mail \subseteq Procs \cup {"event"}
          /\ app \in [Procs -> Apps]

\* Who has a runtime, and may use the drive, is alone and has the guard:
\* whatever is released or dies, no launch comes in before it is gone.
SoleRuntime ==
  \A p \in Procs : app[p].runtime =>
    /\ \A q \in Procs \ {p} : ~app[q].runtime /\ at[q] \notin Owning
    /\ IF Posix THEN holder = p ELSE p \in handles

\* Who serves can be reached: nobody who came before or came too late takes
\* its name away.
KnocksReachIt ==
  \A p \in Procs : at[p] \in Serving =>
    IF Posix THEN path = p /\ trusted ELSE p \in events

\* What main returns is the outcome of the one shutdown there was, however
\* deep the callback that ran it.
ExitIsHonest ==
  \A p \in Procs : at[p] \in Ending \cup {"unnamed", "silent"} =>
    /\ ~app[p].runtime
    /\ app[p].code = 1 <=> app[p].failed

\* One process has the drive, can be found while it does, and says how it
\* ended.
DesktopIsSound == SoleRuntime /\ KnocksReachIt /\ ExitIsHonest
=============================================================================
