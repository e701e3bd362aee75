------------------------------- MODULE UsbBot -------------------------------
(***************************************************************************)
(* The Linux USB Bulk-Only transport (platform/usb_bot_libusb.c), its      *)
(* handoff of the interface from and to the kernel's mass-storage driver   *)
(* (usb_bot_libusb_handoff.c) and the inventory of the drives it can reach *)
(* (usb_bot_linux_devices.c, usb_bot_identity.c).                          *)
(*                                                                         *)
(* The procedures call each other, some of them recursively, so the state  *)
(* holds the call stack: a sequence of frames, of which the last runs, and *)
(* "ret", what the last frame that ended returned to the one below it.     *)
(***************************************************************************)
EXTENDS Naturals, Sequences, SequencesExt, FiniteSets

CONSTANTS Units,            \* the drives
          NoUnit,
          Ports,            \* USB ports
          Out,              \* where a drive is that is in no port
          Identities,       \* the registry of identities, in its order
          Scsi,             \* [Units -> identity]: what INQUIRY reports
          UsbIds,           \* [identity -> the USB identifiers of its bridge]
          Serial,           \* [Units -> the serial number sysfs has of it]
          NoSerial,         \* ... and of a drive that has none
          Home,             \* [Units -> port]: where the drives are at first
          ReopenAttempts,   \* GDOX_USB_REOPEN_ATTEMPTS
          ReattachAttempts, \* GDOX_LIBUSB_REATTACH_ATTEMPTS
          TagLimit,         \* 2^32 in the code
          MaxCommands,      \* bound: calls of the drive's owner
          MaxTroubles       \* bound: failing operations, and drives that are
                            \* plugged, unplugged and reset

ASSUME UsbBotAssumption ==
    /\ NoUnit \notin Units /\ Out \notin Ports
    /\ Identities # <<>> /\ Identities \in Seq(Range(Identities))
    /\ Scsi \in [Units -> Range(Identities)]
    /\ DOMAIN Serial = Units
    /\ Home \in [Units -> Ports \cup {Out}]
    /\ \A u, v \in Units : u # v /\ Home[u] # Out => Home[u] # Home[v]
    /\ ReopenAttempts \in Nat \ {0} /\ ReattachAttempts \in Nat \ {0}
    /\ TagLimit \in Nat \ {0, 1}
    /\ MaxCommands \in Nat /\ MaxTroubles \in Nat

VARIABLES
    at,        \* [Units -> Ports or Out]
    driver,    \* [Units -> who has the interface: "kernel", "none", "usbfs"]
    pipe,      \* [Units -> packets waiting in the bulk-in endpoint]
    usb,       \* the gdox_usb_bot_context, with what libusb and usbfs hold for the
               \* handle, the id first opened, and whether the drive in hand was
               \* recognised and its endpoint emptied
    stack,     \* the frames of the call in progress
    ret,       \* "none", or what the frame that ended returned
    reply,     \* what the last command of the owner that succeeded was told
    abandoned, \* drives whose driver nobody knows to be missing any more
    commands, troubles

world == <<at, driver, pipe>>
bounds == <<commands, troubles>>
vars == <<world, usb, stack, ret, reply, abandoned, bounds>>

\* usb_id: a drive is named by its port and by its serial number if it has
\* one.  Several drives may have none, or the same.
NoId == <<Out, NoSerial>>
DeviceId(u) == <<at[u], Serial[u]>>

\* calloc: the identity is the first of the registry.
NoUsb == [open |-> FALSE, handle |-> NoUnit, live |-> FALSE, claimed |-> FALSE,
          grip |-> "none", owes |-> FALSE, released |-> TRUE, tag |-> 1,
          identity |-> Identities[1], port |-> Out, id |-> NoId, first |-> NoId,
          emptied |-> FALSE]

NoReply == [known |-> FALSE, fresh |-> TRUE, emptied |-> FALSE]

Init ==
    /\ at = Home
    /\ driver = [u \in Units |-> "kernel"] /\ pipe = [u \in Units |-> <<>>]
    /\ usb = NoUsb /\ stack = <<>> /\ ret = "none" /\ reply = NoReply
    /\ abandoned = {}
    /\ commands = 0 /\ troubles = 0

-----------------------------------------------------------------------------
(* Frames.                                                                 *)

Frame(op, step, arg) == [op |-> op, step |-> step, arg |-> arg, tag |-> 0, n |-> 0,
                         got |-> "nothing"]
Top == stack[Len(stack)]
At(op, step) == stack # <<>> /\ Top.op = op /\ Top.step = step /\ ret = "none"
Back(op, step, r) == stack # <<>> /\ Top.op = op /\ Top.step = step /\ ret = r
InStep(s) == [stack EXCEPT ![Len(stack)].step = s]
Go(s) == stack' = InStep(s) /\ ret' = "none"
Call(s, f) == stack' = Append(InStep(s), f) /\ ret' = "none"
Return(r) == stack' = Front(stack) /\ ret' = IF Len(stack) = 1 THEN "none" ELSE r

Trouble == troubles < MaxTroubles /\ troubles' = troubles + 1 /\ UNCHANGED commands

Plugged(u) == u # NoUnit /\ at[u] # Out
Reachable == usb.handle # NoUnit /\ usb.live

\* transport_is_claimed asks the flag alone, which may be left from an earlier
\* handle.  A transfer through a handle that claimed nothing makes usbfs claim
\* the interface if no driver has it, and fails otherwise.
Reaches == Reachable /\ usb.claimed /\ (usb.grip # "none" \/ driver[usb.handle] = "none")
Gripped == [usb EXCEPT !.grip = IF @ = "none" THEN "used" ELSE @]
Grip == driver' = [driver EXCEPT ![usb.handle] = "usbfs"]

-----------------------------------------------------------------------------
(* The inventory (usb_bot_linux_devices.c) and the identities.             *)

\* gdox_usb_bot_recovery_identity: the first entry with the identifiers.
RecoveryIdentity(u) ==
    SelectInSeq(Identities, LAMBDA i : UsbIds[i] = UsbIds[Scsi[u]])

\* describe_block: a drive the kernel has is known by what INQUIRY said.
BlockEntries == {[id |-> DeviceId(u), identity |-> Scsi[u]] :
                     u \in {v \in Units : Plugged(v) /\ driver[v] = "kernel"}}

\* append_unbound: every drive on the bus with a registered bridge.
BusEntries == {[id |-> DeviceId(u), identity |-> Identities[RecoveryIdentity(u)]] :
                   u \in {v \in Units : Plugged(v)}}

\* list_devices, with append_device: the first entry of an id is kept.
Inventory == BlockEntries
             \cup {e \in BusEntries : \A b \in BlockEntries : b.id # e.id}

\* gdox_usb_bot_device_connected.
Connected(id) == \E e \in Inventory : e.id = id

\* linux_identity_location: where the kernel has a drive of the identity.
BlockPorts(identity) == {at[u] : u \in {v \in Units : /\ Plugged(v) /\ driver[v] = "kernel"
                                                      /\ Scsi[v] = identity}}

\* The filter of open_matching_identity, given the expected port.
IsCandidate(u, identity, expected) ==
    /\ Plugged(u) /\ UsbIds[Scsi[u]] = UsbIds[identity]
    /\ usb.id \in {NoId, DeviceId(u)}
    /\ IF expected # Out THEN at[u] = expected
       ELSE usb.id = NoId => driver[u] # "kernel"

\* The port a candidate has to be in, if one is known.
ExpectedPorts(identity) ==
    IF usb.port # Out THEN {usb.port}
    ELSE IF usb.id = NoId /\ BlockPorts(identity) # {} THEN BlockPorts(identity)
    ELSE {Out}

-----------------------------------------------------------------------------
(* usb_bot_libusb_handoff.c                                                *)

\* A slip: what is displaced is not noted down.
ClaimForgetful ==
    /\ At("match", "claim") /\ Reachable /\ driver[usb.handle] # "usbfs"
    /\ driver' = [driver EXCEPT ![usb.handle] = "usbfs"]
    /\ usb' = [usb EXCEPT !.claimed = TRUE, !.grip = "claimed", !.owes = FALSE, !.tag = 1]
    /\ Call("inquired", Frame("command", "cbw", "inquiry"))
    /\ UNCHANGED <<at, pipe, reply, abandoned, bounds>>

\* claim_bot_interface_for_identity, with gdox_libusb_handoff_claim_with_ops:
\* automatic detaching is switched on, or the driver is detached first; what
\* it displaces is to be restored, also if the claim then fails.  A claim that
\* fails leaves "claimed" as an earlier handle had it.
ClaimInterface ==
    /\ At("match", "claim")
    /\ LET u == usb.handle
           had == driver[u] = "kernel"
       IN \/ /\ Reachable /\ driver[u] # "usbfs"
             /\ driver' = [driver EXCEPT ![u] = "usbfs"]
             /\ usb' = [usb EXCEPT !.claimed = TRUE, !.grip = "claimed", !.owes = TRUE,
                                  !.tag = 1]
             /\ abandoned' = abandoned \ {u}
             /\ Call("inquired", Frame("command", "cbw", "inquiry"))
             /\ UNCHANGED bounds
          \/ \* its driver cannot be asked for
             /\ usb' = [usb EXCEPT !.owes = FALSE]
             /\ Go("discard")
             /\ IF Reachable THEN Trouble ELSE UNCHANGED bounds
             /\ UNCHANGED <<driver, abandoned>>
          \/ \* it cannot be detached or claimed, or is detached but not claimed
             /\ Reachable
             /\ IF driver[u] = "usbfs" THEN UNCHANGED bounds ELSE Trouble
             /\ \E d \in {driver[u]} \cup (IF had THEN {"none"} ELSE {}) :
                    driver' = [driver EXCEPT ![u] = d]
             /\ usb' = [usb EXCEPT !.owes = had]
             /\ Go("discard")
             /\ UNCHANGED abandoned
    /\ UNCHANGED <<at, pipe, reply>>

\* gdox_libusb_handoff_restore_with_ops, its first half: the interface is
\* released, with which libusb may attach the driver it detached itself; a
\* drive that has gone is owed nothing.  libusb does not find what the handle
\* did not claim.
Release ==
    /\ At("restore", "release")
    /\ \/ /\ usb.claimed /\ usb.grip = "claimed" /\ usb.live
          /\ \E d \in {"none", "kernel"} : driver' = [driver EXCEPT ![usb.handle] = d]
          /\ usb' = [usb EXCEPT !.claimed = FALSE, !.grip = "none", !.released = TRUE]
          /\ IF usb.owes THEN Go("attach") ELSE Return("ok")
          /\ UNCHANGED bounds
       \/ /\ usb.claimed /\ usb.grip = "claimed" /\ ~usb.live
          /\ usb' = [usb EXCEPT !.claimed = FALSE, !.owes = FALSE]
          /\ Return("ok")
          /\ UNCHANGED <<driver, bounds>>
       \/ /\ usb.claimed
          /\ IF usb.grip = "claimed" THEN Trouble ELSE UNCHANGED bounds
          /\ usb' = [usb EXCEPT !.released = FALSE]
          /\ IF usb.owes THEN Go("attach") ELSE Return("fail")
          /\ UNCHANGED driver
       \/ /\ ~usb.claimed
          /\ usb' = [usb EXCEPT !.released = TRUE]
          /\ IF usb.owes THEN Go("attach") ELSE Return("ok")
          /\ UNCHANGED <<driver, bounds>>
    /\ UNCHANGED <<at, pipe, reply, abandoned>>

\* ... and its second: until the kernel's driver is seen to be active the
\* driver is attached, as often as the attempts allow.
Attach ==
    /\ At("restore", "attach")
    /\ LET u == usb.handle
           Restored == /\ usb' = [usb EXCEPT !.owes = FALSE]
                       /\ Return(IF usb.released THEN "ok" ELSE "fail")
       IN \/ /\ ~usb.live
             /\ usb' = [usb EXCEPT !.claimed = FALSE, !.owes = FALSE]
             /\ Return("ok")
             /\ UNCHANGED <<driver, bounds>>
          \/ /\ usb.live /\ driver[u] \in {"kernel", "none"}
             /\ driver' = [driver EXCEPT ![u] = "kernel"]
             /\ Restored
             /\ UNCHANGED bounds
          \/ \* busy, or not there yet
             /\ usb.live /\ (driver[u] = "usbfs" \/ Top.n > 0 \/ troubles < MaxTroubles)
             /\ IF driver[u] = "usbfs" \/ Top.n > 0 THEN UNCHANGED bounds ELSE Trouble
             /\ IF Top.n + 1 < ReattachAttempts
                THEN stack' = [stack EXCEPT ![Len(stack)].n = @ + 1] /\ UNCHANGED ret
                ELSE Return("fail")
             /\ UNCHANGED <<driver, usb>>
          \/ \* the driver cannot be queried or attached
             /\ usb.live /\ Trouble
             /\ Return("fail")
             /\ UNCHANGED <<driver, usb>>
    /\ UNCHANGED <<at, pipe, reply, abandoned>>

-----------------------------------------------------------------------------
(* Commands.  The drive answers a command wrapper with data and a status,  *)
(* or with a stall and a bad status, or not at all; one that still has     *)
(* packets waiting may answer behind them or ignore the wrapper.           *)

Packet(type, tag, good, kind) ==
    [type |-> type, tag |-> tag, good |-> good, kind |-> kind, fresh |-> TRUE]
Stale(p) == [i \in DOMAIN p |-> [p[i] EXCEPT !.fresh = FALSE]]
Answers(kind, tag) ==
    {<<Packet("csw", tag, FALSE, kind)>>}
    \cup (IF kind \in {"out", "none"} THEN {<<Packet("csw", tag, TRUE, kind)>>}
          ELSE {<<Packet("data", tag, TRUE, kind), Packet("csw", tag, TRUE, kind)>>,
                <<Packet("stall", tag, TRUE, kind), Packet("csw", tag, FALSE, kind)>>})

\* next_tag: zero is skipped.
NextTag(t) == IF (t + 1) % TagLimit = 0 THEN 1 ELSE (t + 1) % TagLimit

\* send_cbw; no failure of it resets the session.
SendCbw ==
    /\ At("command", "cbw")
    /\ \/ /\ Reaches /\ Grip
          /\ usb' = [Gripped EXCEPT !.tag = NextTag(@)]
          /\ \E answer \in Answers(Top.arg, usb.tag) \cup {<<>>} :
                 /\ IF answer = <<>> /\ pipe[usb.handle] = <<>>
                    THEN Trouble ELSE UNCHANGED bounds
                 /\ pipe' = [pipe EXCEPT ![usb.handle] = Stale(@) \o answer]
          /\ stack' = [stack EXCEPT ![Len(stack)] =
                          [@ EXCEPT !.tag = usb.tag,
                                    !.step = IF Top.arg = "none" THEN "csw" ELSE "data"]]
          /\ ret' = "none"
       \/ /\ IF Reaches THEN Trouble ELSE UNCHANGED bounds
          /\ usb' = IF usb.claimed THEN [usb EXCEPT !.tag = NextTag(@)] ELSE usb
          /\ Return("fail")
          /\ UNCHANGED <<driver, pipe>>
    /\ UNCHANGED <<at, reply, abandoned>>

Head1 == IF Reachable THEN pipe[usb.handle] ELSE <<>>
Consume == pipe' = [pipe EXCEPT ![usb.handle] = Tail(@)]
Succeed(fresh) ==
    /\ reply' = IF Top.arg = "inquiry" THEN reply
                ELSE [known |-> TRUE, fresh |-> fresh, emptied |-> usb.emptied]
    /\ Return("ok")

\* The data phase of usb_command_in: anything but the status of this very
\* command counts as data.
DataIn ==
    /\ At("command", "data") /\ Top.arg \in {"in", "inquiry"}
    /\ \/ /\ Head1 # <<>> /\ Head(Head1).type = "csw" /\ Head(Head1).tag = Top.tag
          /\ Consume
          /\ IF Head(Head1).good /\ Top.arg = "in" THEN Succeed(Head(Head1).fresh)
             ELSE Return("fail") /\ UNCHANGED reply
          /\ UNCHANGED bounds
       \/ /\ Head1 # <<>> /\ Head(Head1).type \in {"data", "csw"}
          /\ ~(Head(Head1).type = "csw" /\ Head(Head1).tag = Top.tag)
          /\ Consume
          /\ stack' = [stack EXCEPT ![Len(stack)] =
                          [@ EXCEPT !.step = "csw",
                                    !.got = IF Head(Head1).fresh THEN "own"
                                            ELSE IF Head(Head1).type = "data"
                                                    /\ Head(Head1).kind = Top.arg
                                            THEN "like" ELSE "stale"]]
          /\ ret' = "none"
          /\ UNCHANGED <<reply, bounds>>
       \/ /\ Head1 # <<>> /\ Head(Head1).type = "stall"
          /\ Consume
          /\ \/ Go("csw") /\ UNCHANGED bounds
             \/ Return("fail") /\ Trouble
          /\ UNCHANGED reply
       \/ \* a timeout, or the drive is lost
          /\ IF Head1 = <<>> THEN UNCHANGED bounds ELSE Trouble
          /\ Call("failed", Frame("reset", "begin", "none"))
          /\ UNCHANGED <<pipe, reply>>
    /\ UNCHANGED <<at, driver, usb, abandoned>>

\* The data phase of usb_command_out.
DataOut ==
    /\ At("command", "data") /\ Top.arg = "out"
    /\ \/ Reachable /\ Go("csw") /\ UNCHANGED bounds
       \/ Reachable /\ Return("fail") /\ Trouble
       \/ /\ IF Reachable THEN Trouble ELSE UNCHANGED bounds
          /\ Call("failed", Frame("reset", "begin", "none"))
    /\ UNCHANGED <<world, usb, reply, abandoned>>

\* A slip: any well-formed status is taken for this command's.
StatusAny ==
    /\ At("command", "csw")
    /\ Head1 # <<>> /\ Head(Head1).type = "csw"
    /\ Consume
    /\ IF Head(Head1).good THEN Succeed(Top.got = "own" /\ Head(Head1).fresh)
       ELSE Return("fail") /\ UNCHANGED reply
    /\ UNCHANGED <<at, driver, usb, abandoned, bounds>>

\* receive_csw and validate_csw.  Only a transfer that fails resets.
ReceiveStatus ==
    /\ At("command", "csw")
    /\ \/ /\ Head1 # <<>> /\ Head(Head1).type # "stall"
          /\ Consume
          /\ IF Head(Head1).type = "csw" /\ Head(Head1).tag = Top.tag /\ Head(Head1).good
             THEN IF Top.arg = "inquiry"
                  THEN Return(IF Top.got \in {"own", "like"} THEN "ok" ELSE "fail")
                       /\ UNCHANGED reply
                  ELSE Succeed(/\ Head(Head1).fresh
                               /\ Top.arg = "in" => Top.got = "own")
             ELSE Return("fail") /\ UNCHANGED reply
          /\ UNCHANGED bounds
       \/ /\ IF Head1 = <<>> THEN UNCHANGED bounds ELSE Trouble
          /\ Call("failed", Frame("reset", "begin", "none"))
          /\ UNCHANGED <<pipe, reply>>
    /\ UNCHANGED <<at, driver, usb, abandoned>>

\* A command whose transfer failed fails, whatever the reset has done.
CommandFailed ==
    /\ \E r \in {"ok", "fail"} : Back("command", "failed", r)
    /\ Return("fail")
    /\ UNCHANGED <<world, usb, reply, abandoned, bounds>>

-----------------------------------------------------------------------------
(* Resetting and reopening.                                                *)

\* reset_bot, with reset_claimed_bot: both pipes are emptied; a drive that
\* is lost, or does not let itself be reset, is opened again.
ResetBot ==
    /\ At("reset", "begin")
    /\ \/ /\ Reaches /\ Grip /\ usb' = Gripped
          /\ pipe' = [pipe EXCEPT ![usb.handle] = <<>>]
          /\ Return("ok")
          /\ UNCHANGED bounds
       \/ /\ IF Reaches THEN Trouble ELSE UNCHANGED bounds
          /\ Call("reopened", Frame("reopen", "begin", "none"))
          /\ UNCHANGED <<driver, usb, pipe>>
    /\ UNCHANGED <<at, reply, abandoned>>

ResetReopened ==
    /\ \E r \in {"ok", "fail"} : Back("reset", "reopened", r) /\ Return(r)
    /\ UNCHANGED <<world, usb, reply, abandoned, bounds>>

\* discard_usb_handle: what is released and restored is closed, otherwise
\* the handle is kept.
Discard(s) ==
    IF usb.handle = NoUnit
    THEN usb' = [usb EXCEPT !.claimed = FALSE] /\ stack' = InStep(s) /\ ret' = "ok"
    ELSE Call(s, Frame("restore", "release", "none")) /\ UNCHANGED usb
Discarded == [usb EXCEPT !.handle = NoUnit, !.live = FALSE, !.claimed = FALSE,
                         !.grip = "none", !.owes = FALSE]

\* reopen_bot_interface.
ReopenBegin ==
    /\ At("reopen", "begin")
    /\ Discard("try")
    /\ UNCHANGED <<world, reply, abandoned, bounds>>

\* A slip: the place of the drive is forgotten with its handle.
ReopenAnywhere ==
    /\ Back("reopen", "try", "ok")
    /\ usb' = [Discarded EXCEPT !.port = Out, !.id = NoId]
    /\ Call("tried", Frame("match", "list", usb.identity))
    /\ UNCHANGED <<world, reply, abandoned, bounds>>

ReopenFirst ==
    /\ Back("reopen", "try", "ok")
    /\ usb' = Discarded
    /\ Call("tried", Frame("match", "list", usb.identity))
    /\ UNCHANGED <<world, reply, abandoned, bounds>>

\* What is still held when the next attempt begins is held no more by
\* anybody who knows of it.
ReopenAgain ==
    /\ Back("reopen", "tried", "fail") /\ Top.n + 1 < ReopenAttempts
    /\ stack' = Append([stack EXCEPT ![Len(stack)].n = @ + 1],
                       Frame("match", "list", usb.identity))
    /\ ret' = "none"
    /\ UNCHANGED <<world, usb, reply, abandoned, bounds>>

ReopenEnds ==
    /\ \/ Back("reopen", "tried", "ok") /\ Return("ok")
       \/ Back("reopen", "tried", "fail") /\ Top.n + 1 >= ReopenAttempts /\ Return("fail")
       \/ Back("reopen", "try", "fail") /\ Return("fail")
    /\ UNCHANGED <<world, usb, reply, abandoned, bounds>>

\* open_matching_identity up to libusb_open: the first drive that passes
\* the filter is the only candidate.  A handle that is still held is
\* overwritten.
ChooseCandidate ==
    /\ At("match", "list")
    /\ \E expected \in ExpectedPorts(Top.arg) :
          LET candidates == {u \in Units : IsCandidate(u, Top.arg, expected)}
          IN \/ /\ \E u \in candidates :
                      usb' = [usb EXCEPT !.handle = u, !.live = TRUE, !.grip = "none",
                                         !.released = TRUE, !.emptied = FALSE]
                /\ abandoned' = IF usb.live /\ usb.owes THEN abandoned \cup {usb.handle}
                                ELSE abandoned
                /\ Go("claim")
                /\ UNCHANGED bounds
             \/ /\ IF candidates = {} THEN UNCHANGED bounds ELSE Trouble
                /\ Return("fail")
                /\ UNCHANGED <<usb, abandoned>>
    /\ UNCHANGED <<world, reply>>

\* claimed_candidate_matches and the reset that ends the opening.
CandidateMatches ==
    /\ Back("match", "inquired", "ok")
    /\ \/ /\ Reachable /\ usb.claimed /\ Scsi[usb.handle] = Top.arg
          /\ pipe' = [pipe EXCEPT ![usb.handle] = <<>>]
          /\ usb' = [usb EXCEPT !.identity = Top.arg, !.port = at[usb.handle],
                                !.id = DeviceId(usb.handle), !.emptied = TRUE,
                                !.first = IF @ = NoId THEN DeviceId(usb.handle) ELSE @]
          /\ Return("ok")
          /\ UNCHANGED bounds
       \/ /\ IF Reachable /\ usb.claimed /\ Scsi[usb.handle] = Top.arg
             THEN Trouble ELSE UNCHANGED bounds
          /\ Go("discard")
          /\ UNCHANGED <<pipe, usb>>
    /\ UNCHANGED <<at, driver, reply, abandoned>>

CandidateFails ==
    /\ \/ Back("match", "inquired", "fail") \/ At("match", "discard")
    /\ Discard("discarded")
    /\ UNCHANGED <<world, reply, abandoned, bounds>>

CandidateDiscarded ==
    /\ \E r \in {"ok", "fail"} :
           /\ Back("match", "discarded", r)
           /\ usb' = IF r = "ok" THEN Discarded ELSE usb
    /\ Return("fail")
    /\ UNCHANGED <<world, reply, abandoned, bounds>>

-----------------------------------------------------------------------------
(* The transport's owner.                                                  *)

Owner == stack = <<>> /\ commands < MaxCommands
         /\ commands' = commands + 1 /\ UNCHANGED troubles

\* open_usb_device, by identity or for one drive.
Open ==
    /\ ~usb.open /\ Owner
    /\ \E i \in {Scsi[u] : u \in Units} :
          /\ \E id \in {NoId} \cup {DeviceId(u) : u \in {v \in Units : Plugged(v)}} :
                 usb' = [NoUsb EXCEPT !.open = TRUE, !.id = id]
          /\ stack' = <<Frame("open", "opened", i), Frame("match", "list", i)>>
    /\ reply' = NoReply
    /\ UNCHANGED <<world, ret, abandoned>>

\* A transport that could not be opened is handed over if it still holds a
\* drive, for its owner to close.
Opened ==
    /\ \E r \in {"ok", "fail"} :
          /\ Back("open", "opened", r)
          /\ usb' = IF r = "fail" /\ usb.handle = NoUnit THEN NoUsb ELSE usb
    /\ Return("ok")
    /\ UNCHANGED <<world, reply, abandoned, bounds>>

\* gdox_scsi_command_in, _out and _none; what only waits to be closed gets
\* no commands.
Command(kind) ==
    /\ usb.open /\ usb.port # Out /\ Owner
    /\ stack' = <<Frame("command", "cbw", kind)>>
    /\ UNCHANGED <<world, usb, ret, reply, abandoned>>

\* gdox_scsi_transport_reset.
Reset ==
    /\ usb.open /\ usb.port # Out /\ Owner
    /\ stack' = <<Frame("reset", "begin", "none")>>
    /\ UNCHANGED <<world, usb, ret, reply, abandoned>>

\* gdox_scsi_transport_close: prepared first, and kept if that fails, so
\* that its owner comes again.
Close ==
    /\ usb.open /\ stack = <<>>
    /\ stack' = IF usb.handle = NoUnit THEN <<Frame("close", "prepared", "none")>>
                ELSE <<Frame("close", "prepared", "none"), Frame("restore", "release", "none")>>
    /\ ret' = IF usb.handle = NoUnit THEN "ok" ELSE "none"
    /\ UNCHANGED <<world, usb, reply, abandoned, bounds>>

\* usb_close.
Closed ==
    /\ \E r \in {"ok", "fail"} :
          /\ Back("close", "prepared", r)
          /\ usb' = IF r = "ok" THEN NoUsb ELSE usb
    /\ Return("ok")
    /\ UNCHANGED <<world, reply, abandoned, bounds>>

-----------------------------------------------------------------------------
(* The drives and the machine.                                             *)

Lost(u) == IF usb.handle = u THEN [usb EXCEPT !.live = FALSE] ELSE usb

Unplug(u) ==
    /\ Plugged(u) /\ Trouble
    /\ at' = [at EXCEPT ![u] = Out]
    /\ pipe' = [pipe EXCEPT ![u] = <<>>]
    /\ driver' = [driver EXCEPT ![u] = "kernel"]
    /\ abandoned' = abandoned \ {u}
    /\ usb' = Lost(u)
    /\ UNCHANGED <<stack, ret, reply>>

Plug(u, p) ==
    /\ ~Plugged(u) /\ Trouble
    /\ \A v \in Units : at[v] # p
    /\ at' = [at EXCEPT ![u] = p]
    /\ UNCHANGED <<driver, pipe, abandoned, usb, stack, ret, reply>>

\* The system resumes or resets the port: the drive enumerates again, and
\* the kernel's driver takes it.
Reenumerate(u) ==
    /\ Plugged(u) /\ Trouble
    /\ pipe' = [pipe EXCEPT ![u] = <<>>]
    /\ driver' = [driver EXCEPT ![u] = "kernel"]
    /\ abandoned' = abandoned \ {u}
    /\ usb' = Lost(u)
    /\ UNCHANGED <<at, stack, ret, reply>>

\* GDOX is killed; the next GDOX starts with nothing.
Killed ==
    /\ usb.open /\ Trouble
    /\ driver' = [u \in Units |-> IF driver[u] = "usbfs" THEN "none" ELSE driver[u]]
    /\ abandoned' = abandoned \cup {u \in Units : driver'[u] = "none"}
    /\ usb' = NoUsb /\ stack' = <<>> /\ ret' = "none" /\ reply' = NoReply
    /\ UNCHANGED <<at, pipe>>

Calls == Open \/ Reset \/ Close \/ \E k \in {"in", "out", "none"} : Command(k)

Transport ==
    \/ ClaimInterface \/ Release \/ Attach
    \/ SendCbw \/ DataIn \/ DataOut \/ ReceiveStatus \/ CommandFailed
    \/ ResetBot \/ ResetReopened \/ ReopenBegin \/ ReopenFirst \/ ReopenAgain
    \/ ReopenEnds \/ ChooseCandidate \/ CandidateMatches \/ CandidateFails
    \/ CandidateDiscarded \/ Opened \/ Closed

Environment ==
    \/ \E u \in Units : Unplug(u) \/ Reenumerate(u) \/ \E p \in Ports : Plug(u, p)
    \/ Killed

Next == Calls \/ Transport \/ Environment

Spec == Init /\ [][Next]_vars

-----------------------------------------------------------------------------
(* Properties.                                                             *)

TypeOK ==
    /\ at \in [Units -> Ports \cup {Out}]
    /\ \A u, v \in Units : u # v /\ at[u] # Out => at[u] # at[v]
    /\ driver \in [Units -> {"kernel", "none", "usbfs"}]
    /\ usb.handle \in Units \cup {NoUnit} /\ usb.identity \in Range(Identities)
    /\ ret \in {"none", "ok", "fail"} /\ abandoned \subseteq Units
    /\ usb.claimed => usb.open /\ usb.handle # NoUnit
    /\ ~usb.open => stack = <<>> /\ usb = NoUsb

\* A drive the kernel's driver has been displaced from is held by the
\* transport, which knows that it has to give it back, through every failing
\* claim, reset, reopening and close; only a GDOX that was killed, or a
\* handle that was overwritten, leaves one behind.  (usb_bot_libusb_handoff.c
\* and discard_usb_handle.)
DisplacedIsOwed ==
    /\ TypeOK
    /\ \A u \in Units \ abandoned :
           driver[u] # "kernel" => /\ usb.handle = u /\ usb.live
                                   /\ usb.owes

\* A command that succeeds was told the status, and the data, of that very
\* command, whatever earlier ones have left in the endpoint, on every drive
\* whose endpoint was emptied at the end of its opening.  (A drive that could
\* be neither opened again nor let go of still takes commands, counts its tags
\* from the beginning and keeps what was in the endpoint: nothing is said of
\* it.)  (usb_command_in, validate_csw, open_matching_identity.)
RepliesAreOwn == reply.emptied => reply.fresh

\* A transport that is ready to be used has a drive of the SCSI identity that
\* was asked for, and after every reopening one in the port in which it was
\* first opened, with the serial number, or the lack of one, it had then; and
\* the drive stays in the inventory, once, with or without its kernel driver.
\* That it is the same drive is not said: one without a serial number, or with
\* the number of another, can be exchanged for its twin, in the same port, and
\* the transport goes on with it.  (open_matching_identity, usb_id,
\* list_devices.)
SameDrive ==
    /\ usb.claimed /\ usb.emptied /\ stack = <<>> =>
           /\ Scsi[usb.handle] = usb.identity
           /\ <<usb.port, Serial[usb.handle]>> = usb.first
           /\ usb.live => at[usb.handle] = usb.port
    /\ usb.claimed /\ usb.live =>
           Cardinality({e \in Inventory : e.id = DeviceId(usb.handle)}) = 1
    /\ usb.id # NoId => (Connected(usb.id) <=> usb.id \in {DeviceId(u) : u \in Units})
=============================================================================
