----------------------------- MODULE NbdExport -----------------------------
(***************************************************************************)
(* The private NBD export of a mounted disc (src/src/platform/nbd_tcp.c,   *)
(* nbd_protocol.c, nbd_socket.c) over the read-ahead source.  Two threads: *)
(* the server, which serves one client at a time, and the runtime worker,  *)
(* which observes the medium, lends the disc to an inspector and closes    *)
(* the export.  The client, the sockets and the drive below are the        *)
(* environment.                                                            *)
(*                                                                         *)
(* The state mutex is held for longer than a statement only by             *)
(* gdox_nbd_inspect_disc; every other critical section is one action that  *)
(* waits while worker = "inspecting".                                      *)
(***************************************************************************)
EXTENDS FileReadahead

CONSTANTS ExtentLists,     \* extent metadata of the discs considered
          Generations,     \* media generations the tracker can report
          MaxEpoch,        \* bound: invalidations of the cache
          MaxConnections   \* bound: connections made by clients

ASSUME NbdAssumption ==
    /\ ExtentLists # {} /\ \A l \in ExtentLists : ValidExtents(l)
    /\ Generations \subseteq Nat \ {0} /\ Generations # {}
    /\ MaxEpoch \in Nat /\ MaxConnections \in Nat

VARIABLES
    server,       \* what the server thread is doing
    worker,       \* what the runtime worker is doing
    stopping,     \* exported->stopping
    active,       \* is exported->active a client's socket
    failed,       \* exported->runtime_failed
    sock,         \* state of the client's socket
    error,        \* does the socket error of a failed session count as one
    backlog,      \* connections waiting at the listener: clients, then the wake
    connections,  \* clients that have connected so far
    context,      \* the file_readahead_context
    request,      \* the request being served
    reply         \* the last reply sent

threads == <<server, worker>>
export == <<stopping, active, failed>>
client == <<sock, error, backlog, connections>>
vars == <<threads, export, client, context, request, reply>>

NoRequest == [lba |-> 0, blocks |-> 0, since |-> 0, dead |-> FALSE,
              plan |-> [kind |-> "none", blocks |-> 0, extent |-> 0],
              epoch |-> 0, slot |-> 0, out |-> NoData]

\* Server states in which the thread is serving a client.
Serving == {"negotiate", "wait", "gate", "copied", "plan", "reading",
            "judge", "finish", "leave"}
ServerStates == Serving \cup {"loop", "accept", "admit", "ended"}

WorkerStates == {"idle", "observed", "inspecting", "abort", "shut", "wake",
                 "join", "close", "retained", "freed"}

TypeOK ==
    /\ server \in ServerStates /\ worker \in WorkerStates
    /\ stopping \in BOOLEAN /\ active \in BOOLEAN /\ failed \in BOOLEAN
    /\ sock \in {"none", "open", "gone", "shut"}
    /\ error \in {"none", "expected", "unexpected"}
    /\ backlog \in 0 .. MaxConnections + 1
    /\ connections \in 0 .. MaxConnections
    /\ reply \in {"none", "data", "eio", "refused"}
    /\ context.epoch \in 1 .. MaxEpoch + 3
    /\ context.touched \subseteq DOMAIN context.extents

Init ==
    /\ server = "loop" /\ worker = "idle"
    /\ stopping = FALSE /\ active = FALSE /\ failed = FALSE
    /\ sock = "none" /\ error = "none" /\ backlog = 0 /\ connections = 0
    /\ \E extents \in ExtentLists, o \in Observations(Generations) :
           context = NewContext(extents, o)
    /\ request = NoRequest
    /\ reply = "none"

-----------------------------------------------------------------------------
(* Clients.                                                                *)

Connect ==
    /\ connections < MaxConnections
    /\ connections' = connections + 1
    /\ backlog' = backlog + 1
    /\ UNCHANGED <<threads, export, sock, error, context, request, reply>>

Disconnect ==
    /\ sock = "open"
    /\ sock' = "gone"
    /\ UNCHANGED <<threads, export, error, backlog, connections, context, request, reply>>

-----------------------------------------------------------------------------
(* The server thread.                                                      *)

\* The mutex is free: no inspector holds it.
MutexFree == worker # "inspecting"

ServerGoes(s) == server' = s /\ UNCHANGED worker

\* The condition of server_thread's loop.
Loop ==
    /\ server = "loop"
    /\ ServerGoes(IF stopping THEN "ended" ELSE "accept")
    /\ UNCHANGED <<export, client, context, request, reply>>

Accept ==
    /\ server = "accept" /\ backlog > 0
    /\ backlog' = backlog - 1
    /\ sock' = "open"
    /\ ServerGoes("admit")
    /\ UNCHANGED <<export, error, connections, context, request, reply>>

\* The listener fails: the thread ends, with an error unless it is stopping.
AcceptFails ==
    /\ server = "accept" /\ MutexFree
    /\ ServerGoes(IF stopping THEN "loop" ELSE "ended")
    /\ failed' = (failed \/ ~stopping)
    /\ UNCHANGED <<stopping, active, client, context, request, reply>>

\* set_active_client: the client is refused once the export is stopping.
SetActiveClient ==
    /\ server = "admit" /\ MutexFree
    /\ active' = ~stopping
    /\ ServerGoes(IF stopping THEN "loop" ELSE "negotiate")
    /\ sock' = IF stopping THEN "none" ELSE sock
    /\ UNCHANGED <<stopping, failed, error, backlog, connections, context, request, reply>>

\* The handshake and the option haggling succeed and the timeouts are
\* lifted: from here on only the client or a shutdown ends a read.
Negotiate ==
    /\ server = "negotiate" /\ sock = "open"
    /\ ServerGoes("wait")
    /\ UNCHANGED <<export, client, context, request, reply>>

\* A wrong export name, an abort, a malformed message or a reset is the
\* client's business; a socket option, a timeout or memory is the export's.
NegotiationFails ==
    /\ server = "negotiate"
    /\ error' \in (IF sock = "open" THEN {"expected", "unexpected"} ELSE {"expected"})
    /\ ServerGoes("leave")
    /\ UNCHANGED <<export, sock, backlog, connections, context, request, reply>>

\* transmit: the next message is a read of the disc.
ReceiveRead ==
    /\ server = "wait" /\ sock = "open"
    /\ \E lba \in 0 .. Sectors - 1 : \E blocks \in 1 .. Sectors - lba :
           request' = [NoRequest EXCEPT !.lba = lba, !.blocks = blocks,
                                        !.since = context.epoch,
                                        !.dead = RequestCancelled(context)]
    /\ reply' = "none"
    /\ ServerGoes("gate")
    /\ UNCHANGED <<export, client, context>>

\* A write, a read outside the disc or an unknown command is refused without
\* touching the disc.
RefuseOther ==
    /\ server = "wait" /\ sock = "open"
    /\ reply' = "refused"
    /\ UNCHANGED <<threads, export, client, context, request>>

\* The client has disconnected, or says so, or sends nonsense.
ReceiveEnds ==
    /\ server = "wait"
    /\ error' \in (IF sock = "open" THEN {"none", "expected"} ELSE {"none"})
    /\ ServerGoes("leave")
    /\ UNCHANGED <<export, sock, backlog, connections, context, request, reply>>

\* readahead_read's first check.
Gate ==
    /\ server = "gate"
    /\ ServerGoes(IF RequestCancelled(context) THEN "finish" ELSE "copied")
    /\ LET slot == CachedSlot(context, context.epoch, request.lba, request.blocks)
       IN  IF RequestCancelled(context) \/ slot = 0
           THEN UNCHANGED <<context, request>>
           ELSE /\ request' = [request EXCEPT !.epoch = context.epoch, !.slot = slot,
                                  !.out = CopyOf(context.slots[slot], request.lba)]
                /\ context' = Used(context, slot)
    /\ UNCHANGED <<export, client, reply>>

\* copy_cached_request's checks behind the copy: what was copied counts only
\* if the epoch is still the one in which the slot was found.
JudgeCopy ==
    /\ server = "copied"
    /\ IF RequestCancelled(context)
       THEN ServerGoes("finish") /\ UNCHANGED request
       ELSE IF request.slot # 0 /\ request.epoch = context.epoch
            THEN ServerGoes("finish") /\ UNCHANGED request
            ELSE ServerGoes("plan") /\ request' = [request EXCEPT !.slot = 0]
    /\ UNCHANGED <<export, client, context, reply>>

\* The miss: choose between the window and the request, and start the inner
\* read under the epoch of this moment.
StartRead ==
    /\ server = "plan"
    /\ LET plan == ReadPlan(context, request.lba, request.blocks)
           touched == Touched(context, plan.extent)
           slot == IF plan.kind = "window" THEN Victim(context, context.epoch) ELSE 0
       IN  /\ request' = [request EXCEPT !.plan = plan, !.epoch = context.epoch,
                                         !.slot = slot]
           /\ context' = IF slot # 0 THEN ReserveCacheSlot(touched, context.epoch)
                         ELSE touched
    /\ ServerGoes("reading")
    /\ UNCHANGED <<export, client, reply>>

\* The inner read succeeds; the window or the exact read is published, unless
\* the session ended meanwhile.
ReadSucceeds ==
    /\ server = "reading"
    /\ LET plan == request.plan
           filled == IF plan.kind = "window"
                     THEN FillSlot(context, request.slot, request.lba, request.epoch)
                     ELSE context
       IN  context' =
               IF RequestCancelled(context) THEN filled
               ELSE IF plan.kind = "window"
               THEN PublishCacheSlot(filled, request.slot, request.epoch, plan.extent,
                                     request.lba, plan.blocks)
               ELSE IF plan.extent # 0
               THEN RetainExactRead(filled, request.epoch, plan.extent,
                                    request.lba, plan.blocks)
               ELSE filled
    /\ request' = [request EXCEPT !.out = [at |-> request.lba, epoch |-> request.epoch],
                                  !.slot = 1]
    /\ ServerGoes("finish")
    /\ UNCHANGED <<export, client, reply>>

\* The inner read fails.  A window that failed for another reason than a
\* cancellation is looked into before the request alone is tried.
ReadFails ==
    /\ server = "reading"
    /\ request' = [request EXCEPT !.slot = 0]
    /\ \/ /\ request.plan.kind = "exact" \/ context.aborted
          /\ ServerGoes("finish")
       \/ /\ request.plan.kind = "window"
          /\ ServerGoes("judge")
    /\ UNCHANGED <<export, client, context, reply>>

\* media_was_removed: observe, apply, and give up if the medium has gone;
\* otherwise exact_read.
JudgeFailure ==
    /\ server = "judge"
    /\ \E o \in Observations(Generations) :
           /\ Invalidates(context, o) => context.epoch < MaxEpoch
           /\ context' = ApplyMediaObservation(context, o)
           /\ IF InvalidSession(o)
              THEN ServerGoes("finish") /\ UNCHANGED request
              ELSE /\ ServerGoes("reading")
                   /\ request' = [request EXCEPT !.plan.kind = "exact",
                                      !.plan.blocks = request.blocks,
                                      !.epoch = context'.epoch]
    /\ UNCHANGED <<export, client, reply>>

\* readahead_read returns and transmit_read answers.  A failed read is the
\* export's failure, and the client gets an error.
Finish ==
    /\ server = "finish" /\ MutexFree
    /\ LET good == request.slot # 0 /\ ~RequestCancelled(context)
       IN  /\ failed' = (failed \/ ~good)
           /\ reply' = IF good THEN "data" ELSE "eio"
    /\ request' = NoRequest
    /\ \/ sock = "open" /\ ServerGoes("wait") /\ UNCHANGED error
       \/ sock # "open" /\ error' \in {"expected", "unexpected"} /\ ServerGoes("leave")
    /\ UNCHANGED <<stopping, active, sock, backlog, connections, context>>

\* The session is over: the disc is free again, the socket is closed, and an
\* error that is not the client's is recorded unless the export is stopping.
Leave ==
    /\ server = "leave" /\ MutexFree
    /\ active' = FALSE
    /\ failed' = (failed \/ (error = "unexpected" /\ ~stopping))
    /\ sock' = "none" /\ error' = "none"
    /\ ServerGoes("loop")
    /\ UNCHANGED <<stopping, backlog, connections, context, request, reply>>

-----------------------------------------------------------------------------
(* The runtime worker.                                                     *)

WorkerGoes(s) == worker' = s /\ UNCHANGED server

\* gdox_nbd_observe_media, up to the invalidation of the cache.
ObserveMedia ==
    /\ worker = "idle"
    /\ \E o \in Observations(Generations) :
           /\ Invalidates(context, o) => context.epoch < MaxEpoch
           /\ context' = JudgeObservation(context, o)
           /\ WorkerGoes(IF Invalidates(context, o) THEN "observed" ELSE "idle")
    /\ UNCHANGED <<export, client, request, reply>>

ObserveInvalidates ==
    /\ worker = "observed"
    /\ context' = InvalidateCache(context)
    /\ WorkerGoes("idle")
    /\ UNCHANGED <<export, client, request, reply>>

\* A slip: a client being served is no reason to refuse the inspector.
InspectAny ==
    /\ worker = "idle"
    /\ ~failed
    /\ WorkerGoes("inspecting")
    /\ UNCHANGED <<export, client, context, request, reply>>

\* gdox_nbd_inspect_disc: the inspector runs under the mutex.
InspectDisc ==
    /\ worker = "idle"
    /\ ~active /\ ~failed
    /\ WorkerGoes("inspecting")
    /\ UNCHANGED <<export, client, context, request, reply>>

InspectReturns ==
    /\ worker = "inspecting"
    /\ WorkerGoes("idle")
    /\ UNCHANGED <<export, client, context, request, reply>>

\* gdox_nbd_close: the flag, the abort of the disc, the shutdown of the
\* active client, the wake-up of accept, the join and the disc.
Close ==
    /\ worker \in {"idle", "retained"}
    /\ WorkerGoes(IF worker = "idle" THEN "abort" ELSE "close")
    /\ stopping' = TRUE
    /\ UNCHANGED <<active, failed, client, context, request, reply>>

AbortDisc ==
    /\ worker = "abort"
    /\ context' = ReadaheadAbort(context)
    /\ WorkerGoes("shut")
    /\ UNCHANGED <<export, client, request, reply>>

ShutdownClient ==
    /\ worker = "shut"
    /\ sock' = IF active THEN "shut" ELSE sock
    /\ WorkerGoes("wake")
    /\ UNCHANGED <<export, error, backlog, connections, context, request, reply>>

\* A slip: nothing connects to the listener.
NoWake ==
    /\ worker = "wake"
    /\ WorkerGoes("join")
    /\ UNCHANGED <<export, client, context, request, reply>>

WakeLoopback ==
    /\ worker = "wake"
    /\ backlog' = backlog + 1
    /\ WorkerGoes("join")
    /\ UNCHANGED <<export, sock, error, connections, context, request, reply>>

Join ==
    /\ worker = "join" /\ server = "ended"
    /\ WorkerGoes("close")
    /\ UNCHANGED <<export, client, context, request, reply>>

\* gdox_disc_close: the drive below may not be ready to be let go, and then
\* the export stays and can be closed again.
PrepareCloseFails ==
    /\ worker = "close"
    /\ WorkerGoes("retained")
    /\ UNCHANGED <<export, client, context, request, reply>>

CloseDisc ==
    /\ worker = "close"
    /\ context' = ReadaheadPrepareClose(context)
    /\ WorkerGoes("freed")
    /\ UNCHANGED <<export, client, request, reply>>

Closed == worker = "freed" /\ UNCHANGED vars

-----------------------------------------------------------------------------

Environment == Connect \/ Disconnect

Server ==
    \/ Loop \/ Accept \/ AcceptFails \/ SetActiveClient
    \/ Negotiate \/ NegotiationFails
    \/ ReceiveRead \/ RefuseOther \/ ReceiveEnds
    \/ Gate \/ JudgeCopy \/ StartRead \/ ReadSucceeds \/ ReadFails
    \/ JudgeFailure \/ Finish \/ Leave

Worker ==
    \/ ObserveMedia \/ ObserveInvalidates \/ InspectDisc \/ InspectReturns
    \/ Close \/ AbortDisc \/ ShutdownClient \/ WakeLoopback \/ Join
    \/ PrepareCloseFails \/ CloseDisc

Next == Environment \/ Server \/ Worker \/ Closed

\* The steps a thread takes without waiting for a client: its own code, an
\* accept with somebody waiting, a socket that is shut down, and an inner
\* read, which the drive's command timeouts end.
ServerProgress ==
    \/ Loop \/ Accept \/ SetActiveClient
    \/ (sock # "open" /\ (NegotiationFails \/ ReceiveEnds))
    \/ Gate \/ JudgeCopy \/ StartRead \/ ReadSucceeds \/ JudgeFailure
    \/ Finish \/ Leave

WorkerProgress == ObserveInvalidates \/ InspectReturns \/ AbortDisc
                  \/ ShutdownClient \/ WakeLoopback \/ Join

Spec == Init /\ [][Next]_vars
LiveSpec == Spec /\ WF_vars(ServerProgress) /\ WF_vars(WorkerProgress)

-----------------------------------------------------------------------------
(* Properties.                                                             *)

\* The disc below the export has one user at a time: the inspector never
\* runs while a client is served, and once the closing worker has left its
\* critical section no client is served on a socket it did not shut down.
\* (nbd_tcp.c: set_active_client and gdox_nbd_inspect_disc share the mutex,
\* and stopping is looked at again inside it.)
DiscHasOneUser ==
    /\ worker = "inspecting" => server \notin Serving
    /\ worker \in {"wake", "join", "close", "retained", "freed"} =>
           (server \in Serving => sock = "shut")
    /\ worker \in {"close", "retained", "freed"} => server = "ended"

\* A read-ahead window never leaves the file that holds the request, and a
\* request is taken to lie in a file exactly when some file holds it, also
\* when files overlap.  (file_readahead_source.c: find_containing_extent and
\* bounded_window_read.)
WindowsStayInFiles ==
    LET e == context.extents
        within(i, lba, blocks) == e[i].start <= lba /\ lba + blocks <= ExtentEnd(e[i])
    IN  /\ server = "reading" /\ request.plan.kind = "window" =>
               /\ request.plan.extent # 0
               /\ within(request.plan.extent, request.lba, request.plan.blocks)
        /\ server = "plan" =>
               (ContainingExtent(e, request.lba, request.blocks) # 0 <=>
                    \E i \in DOMAIN e : within(i, request.lba, request.blocks))

\* However connections, reads, inspections and the closing of the export meet,
\* only one of them is at the disc, and none reads past the file it is for.
DiscIsUsedInTurn == TypeOK /\ DiscHasOneUser /\ WindowsStayInFiles

\* A reply carries the sectors that were asked for, read in an epoch no
\* older than the one in which the request arrived, and none at all if the
\* session had ended by then: whatever invalidates the cache while a window
\* is read, published or copied, later requests do not see what was read
\* before.  (file_readahead_source.c: copy_cached_request and
\* publish_cache_slot.)
FreshReplies ==
    [][server = "finish" /\ reply # "data" /\ reply' = "data" =>
           /\ request.out.at = request.lba
           /\ request.out.epoch >= request.since
           /\ ~request.dead]_vars

\* A close of the export gets past its join: whoever is connected, whatever
\* the server is doing.
CloseFinishes == (worker = "abort") ~> (worker = "close")
=============================================================================
