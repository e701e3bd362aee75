---------------------------- MODULE ScsiChannels ----------------------------
(***************************************************************************)
(* The command channels of the systems whose own driver speaks to the      *)
(* drive: Windows (platform/usb_bot_windows.c) and macOS                   *)
(* (usb_bot_macos.c, macos_scsi.c, macos_mount_guard.h).  Windows opens a  *)
(* device by its path and opens it again after an error; macOS takes       *)
(* exclusive access to one entry of the I/O registry, for which it guards  *)
(* the entry against mounts and has a mounted disc unmounted first.        *)
(* Transports are opened by the runtime's worker alone, one at a time; the *)
(* commands of an open one, the answers of Disk Arbitration and the drives *)
(* go on meanwhile.                                                        *)
(***************************************************************************)
EXTENDS Naturals, FiniteSets

CONSTANTS Units,         \* the drives
          NoUnit,
          Ports,         \* where they can be attached
          Out,           \* nowhere
          Scsi,          \* [Units -> identity]: the model
          Home,          \* [Units -> port]: where the drives are at first
          Serial,        \* [Units -> serial number]
          NoSerial,      \* that of a drive which reports none
          Owners,        \* transports
          Nobody,
          Contexts,      \* memory for GdoxMacUnmountContext
          OpenAttempts,  \* GDOX_MACOS_OPEN_ATTEMPTS
          GuardSlots,    \* GDOX_OPTICAL_MAX_DEVICES
          Generations    \* [Units -> bound: how often the drive is attached]

\* Assumed where the constants get their values.
ChannelsAssumption ==
    /\ NoUnit \notin Units /\ Out \notin Ports /\ Nobody \notin Owners
    /\ Home \in [Units -> Ports \cup {Out}]
    /\ \A u, v \in Units : u # v /\ Home[u] # Out => Home[u] # Home[v]
    /\ IsFiniteSet(Owners) /\ IsFiniteSet(Units)
    /\ OpenAttempts \in Nat \ {0} /\ GuardSlots \in Nat \ {0}
    /\ Generations \in [Units -> Nat] /\ \A u \in Units : Home[u] # Out => Generations[u] > 0

VARIABLES
    platform,  \* "windows" or "macos" (or another, that has no such channels)
    seats,     \* [Units -> its port, and how often it has been attached]
    mounted,   \* macOS: the drives with a disc of which a volume is mounted
    channels,  \* [Owners -> the transport's context]
    guards,    \* mount_guards: [registry entry -> references]
    contexts   \* [Contexts -> GdoxMacUnmountContext]

\* A registry entry, or a device behind a path, lives as long as a drive
\* stays attached.
Entries == UNION {[unit : {u}, generation : 1 .. Generations[u]] : u \in Units}
NoEntry == [unit |-> NoUnit, generation |-> 0]
Entry(u) == [unit |-> u, generation |-> seats[u].generation]
Attached(u) == seats[u].port # Out
Live(e) == \E u \in Units : Attached(u) /\ Entry(u) = e

\* copy_device_id and service_device_id: the path of a Windows device names
\* its place and its model, macOS's its place and serial number.
DeviceId(u) == <<seats[u].port, IF platform = "windows" THEN Scsi[u] ELSE Serial[u]>>

\* What the worker is doing with a transport, what it was opened for, the
\* registry_id or serial number that pins it, where its commands go, what
\* the last one came to, and the ghost of the drive first found.
Steps == {"closed", "try", "release", "wait", "failed", "open"}
Outcomes == {"good", "check", "lost"}
Closed == [step |-> "closed", identity |-> NoUnit, id |-> <<Out, NoUnit>>, serial |-> NoSerial,
           entry |-> NoEntry, handle |-> NoEntry, first |-> NoUnit, attempt |-> 0,
           released |-> FALSE, outcome |-> "good", sense |-> FALSE]

FreeContext == [references |-> 0, waiter |-> Nobody, due |-> FALSE, entry |-> NoEntry,
                completed |-> FALSE, dissent |-> FALSE]

Init ==
    /\ seats = [u \in Units |-> [port |-> Home[u],
                               generation |-> IF Home[u] = Out THEN 0 ELSE 1]]
    /\ mounted \in SUBSET {u \in Units : platform = "macos" /\ Attached(u)}
    /\ channels = [o \in Owners |-> Closed]
    /\ guards = [e \in Entries |-> 0]
    /\ contexts = [k \in Contexts |-> FreeContext]

Become(o, c) == channels' = [channels EXCEPT ![o] = c]

-----------------------------------------------------------------------------
(* Commands.                                                               *)

\* A drive that is gone, or has come back, does not answer behind the old
\* handle.
OutcomesOf(c) == IF Live(c.handle) THEN {"good", "check", "lost"} ELSE {"lost"}

\* A slip: what the last command left is kept until there is something new.
CacheSenseKept(c, outcome, valid) ==
    [c EXCEPT !.outcome = outcome, !.sense = IF outcome # "good" /\ valid THEN TRUE ELSE @]

\* cache_command_sense: every command forgets the sense data of the one
\* before; it has its own if it failed and they have a response code.
CacheSense(c, outcome, valid) ==
    [c EXCEPT !.outcome = outcome, !.sense = outcome # "good" /\ valid]

\* execute_command: DeviceIoControl fails, and has no sense data, or the
\* drive reports a status.
WindowsCommand(o) ==
    /\ platform = "windows" /\ channels[o].step = "open"
    /\ \E outcome \in OutcomesOf(channels[o]), valid \in BOOLEAN :
          Become(o, CacheSense(channels[o], outcome, valid /\ outcome = "check"))
    /\ UNCHANGED <<seats, mounted, guards, contexts>>

\* execute: whether the task fails or ends with a bad status, sense data are
\* copied if there are any.
MacCommand(o) ==
    /\ platform = "macos" /\ channels[o].step = "open"
    /\ \E outcome \in OutcomesOf(channels[o]) \ {"check"}, valid \in BOOLEAN :
          Become(o, CacheSense(channels[o], outcome, valid))
    /\ UNCHANGED <<seats, mounted, guards, contexts>>

-----------------------------------------------------------------------------
(* Windows.                                                                *)

\* open_windows_candidate, without an identifier or a serial number to meet:
\* any drive of the identity whose device can be opened.
OpenWindows(o) ==
    /\ platform = "windows" /\ channels[o].step = "closed"
    /\ \E u \in Units :
          /\ Attached(u)
          /\ Become(o, [Closed EXCEPT !.step = "open", !.identity = Scsi[u], !.id = DeviceId(u),
                                      !.serial = Serial[u], !.handle = Entry(u), !.first = u])
    /\ UNCHANGED <<seats, mounted, guards, contexts>>

\* A slip: the serial number is not compared.
SelectedByPath(c, u) == Attached(u) /\ DeviceId(u) = c.id /\ Scsi[u] = c.identity

\* open_windows_candidate and connected_windows_candidate for the instance
\* that was selected: the path, the identity behind it and the serial
\* number, if there was one.
Selected(c, u) ==
    /\ Attached(u) /\ DeviceId(u) = c.id /\ Scsi[u] = c.identity
    /\ c.serial \in {NoSerial, Serial[u]}

\* windows_reset: after an error of the system the device is opened again
\* and the old handle closed; if that fails the old one is kept.  A status
\* of the drive is no such error.
ResetWindows(o) ==
    /\ platform = "windows" /\ channels[o].step = "open" /\ channels[o].outcome = "lost"
    /\ \E u \in Units :
          /\ Selected(channels[o], u)
          /\ Become(o, [channels[o] EXCEPT !.handle = Entry(u), !.outcome = "good",
                                           !.sense = FALSE])
    /\ UNCHANGED <<seats, mounted, guards, contexts>>

\* windows_close.
CloseWindows(o) ==
    /\ platform = "windows" /\ channels[o].step = "open"
    /\ Become(o, Closed)
    /\ UNCHANGED <<seats, mounted, guards, contexts>>

\* windows_device_present.
Present(c) == \E u \in Units : Selected(c, u)

-----------------------------------------------------------------------------
(* The mount guard of macOS.                                               *)

\* gdox_macos_mount_guard_acquire, _release and _contains.
Guarded(e) == guards[e] # 0
CanGuard(e) == Guarded(e) \/ Cardinality({f \in Entries : Guarded(f)}) < GuardSlots
Acquire(e) == [guards EXCEPT ![e] = @ + 1]
\* A slip: the guard goes with the first that lets go of it.
ReleaseAll(e) == IF e = NoEntry THEN guards ELSE [guards EXCEPT ![e] = 0]
ReleaseGuard(e) == IF e = NoEntry \/ ~Guarded(e) THEN guards ELSE [guards EXCEPT ![e] = @ - 1]

\* prevent_supported_mount: Disk Arbitration asks before it mounts a disc,
\* which can have been put in at any time.
Mount(u) ==
    /\ platform = "macos" /\ Attached(u) /\ u \notin mounted /\ ~Guarded(Entry(u))
    /\ mounted' = mounted \cup {u}
    /\ UNCHANGED <<seats, channels, guards, contexts>>

-----------------------------------------------------------------------------
(* Opening on macOS.                                                       *)

\* A slip: any generation of the drive will do.
FoundAgain(c, u) == Attached(u) /\ Scsi[u] = c.identity /\ DeviceId(u) = c.id
\* find_supported_drive.
Found(c, u) == /\ Attached(u) /\ Scsi[u] = c.identity /\ DeviceId(u) = c.id
               /\ c.entry \in {NoEntry, Entry(u)}

\* gdox_usb_bot_open, which takes the first drive of the identity that is
\* listed, or gdox_usb_bot_open_device.
OpenMac(o) ==
    /\ platform = "macos" /\ channels[o].step = "closed"
    /\ \A p \in Owners : channels[p].step \in {"closed", "open"}
    /\ \E u \in Units :
          /\ Attached(u)
          /\ Become(o, [Closed EXCEPT !.step = "try", !.identity = Scsi[u], !.id = DeviceId(u)])
    /\ UNCHANGED <<seats, mounted, guards, contexts>>

\* open_native_device fails: the guard goes, if there is one.
GiveUp(o) == Become(o, Closed) /\ guards' = ReleaseGuard(channels[o].entry)

\* ... or tries again after a pause.
TryAgain(o, c) ==
    IF c.attempt + 1 = OpenAttempts THEN GiveUp(o)
    ELSE Become(o, [c EXCEPT !.step = "try", !.attempt = @ + 1]) /\ UNCHANGED guards

\* gdox_macos_scsi_open, with open_mmc, and what open_native_device does
\* then.  The first attempt finds the registry entry and guards it; the
\* others are for that entry.  The system keeps a disc that is mounted, and
\* for a while one that no longer is: it is made to release it once.
TryMac(o) ==
    LET c == channels[o]
    IN  /\ c.step = "try"
        /\ \/ GiveUp(o)
           \/ \E u \in Units :
                 LET e == Entry(u)
                     kept == IF c.entry = NoEntry THEN [c EXCEPT !.entry = e, !.first = u] ELSE c
                 IN  /\ Found(c, u)
                     /\ IF c.entry = NoEntry THEN CanGuard(e) /\ guards' = Acquire(e)
                        ELSE UNCHANGED guards
                     /\ \/ /\ u \notin mounted /\ \A p \in Owners : channels[p].handle # e
                           /\ Become(o, [kept EXCEPT !.step = "open", !.handle = e])
                        \/ Become(o, [kept EXCEPT !.step = "failed"])
                        \/ ~c.released /\ Become(o, [kept EXCEPT !.step = "release"])
           \/ /\ c.released /\ \E u \in Units : Found(c, u)
              /\ TryAgain(o, c)
        /\ UNCHANGED <<seats, mounted, contexts>>

\* gdox_macos_scsi_release_system_media: the disc of that very entry, if
\* there is one, is to be unmounted; the context is for two.
ReleaseMac(o) ==
    LET c == channels[o]
    IN  /\ c.step = "release"
        /\ \/ GiveUp(o) /\ UNCHANGED contexts
           \/ /\ \A u \in mounted : ~Found(c, u)
              /\ TryAgain(o, [c EXCEPT !.released = TRUE]) /\ UNCHANGED contexts
           \/ /\ \E u \in Units : Found(c, u)
              /\ \E k \in Contexts :
                    /\ contexts[k].references = 0
                    /\ contexts' = [contexts EXCEPT ![k] =
                          [FreeContext EXCEPT !.references = 2, !.waiter = o, !.due = TRUE,
                                              !.entry = c.entry]]
              /\ Become(o, [c EXCEPT !.step = "wait"]) /\ UNCHANGED guards
        /\ UNCHANGED <<seats, mounted>>

\* open_native_device fails when the guard is there already: another
\* transport has the drive, or the system does not let it go.
FailMac(o) ==
    /\ channels[o].step = "failed" /\ GiveUp(o)
    /\ UNCHANGED <<seats, mounted, contexts>>

\* A slip: who gives up takes the context along.
FreedAtOnce(x) == [x EXCEPT !.references = 0]
\* unmount_context_release: the last one frees it.
ContextReleased(x) == IF x.references = 1 THEN FreeContext ELSE [x EXCEPT !.references = @ - 1]

\* The wait ends with the answer, or after kGdoxMacUnmountTimeoutSeconds.
WaitMac(o) ==
    LET c == channels[o]
    IN  /\ c.step = "wait"
        /\ \E k \in Contexts :
              LET x == contexts[k]
              IN  /\ x.waiter = o
                  /\ contexts' = [contexts EXCEPT ![k] = ContextReleased([x EXCEPT !.waiter = Nobody])]
                  /\ IF x.completed /\ ~x.dissent THEN TryAgain(o, [c EXCEPT !.released = TRUE])
                     ELSE GiveUp(o)
        /\ UNCHANGED <<seats, mounted>>

\* unmount_complete, on the queue of Disk Arbitration.
UnmountComplete(k) ==
    LET x == contexts[k]
    IN  /\ x.due
        /\ \E dissent \in BOOLEAN :
              /\ contexts' = [contexts EXCEPT ![k] =
                    ContextReleased([x EXCEPT !.due = FALSE, !.completed = TRUE, !.dissent = dissent])]
              /\ mounted' = IF dissent THEN mounted
                            ELSE {u \in mounted : Entry(u) # x.entry}
        /\ UNCHANGED <<seats, channels, guards>>

\* macos_close: the guard goes first, then the exclusive access.
CloseMac(o) ==
    /\ platform = "macos" /\ channels[o].step = "open"
    /\ Become(o, Closed) /\ guards' = ReleaseGuard(channels[o].entry)
    /\ UNCHANGED <<seats, mounted, contexts>>

-----------------------------------------------------------------------------
(* The drives.                                                             *)

Unplug(u) ==
    /\ platform \in {"windows", "macos"} /\ Attached(u)
    /\ seats' = [seats EXCEPT ![u].port = Out]
    /\ mounted' = mounted \ {u}
    /\ UNCHANGED <<channels, guards, contexts>>

Plug(u, p) ==
    /\ platform \in {"windows", "macos"} /\ ~Attached(u) /\ seats[u].generation < Generations[u]
    /\ \A v \in Units : seats[v].port # p
    /\ seats' = [seats EXCEPT ![u] = [port |-> p, generation |-> @.generation + 1]]
    /\ UNCHANGED <<mounted, channels, guards, contexts>>

\* A disc is taken out.
Eject(u) ==
    /\ u \in mounted /\ mounted' = mounted \ {u}
    /\ UNCHANGED <<seats, channels, guards, contexts>>

Next ==
    \/ \E o \in Owners :
          \/ OpenWindows(o) \/ WindowsCommand(o) \/ ResetWindows(o) \/ CloseWindows(o)
          \/ OpenMac(o) \/ TryMac(o) \/ ReleaseMac(o) \/ WaitMac(o) \/ FailMac(o)
          \/ MacCommand(o) \/ CloseMac(o)
    \/ \E k \in Contexts : UnmountComplete(k)
    \/ \E u \in Units : Mount(u) \/ Eject(u) \/ Unplug(u) \/ \E p \in Ports : Plug(u, p)

-----------------------------------------------------------------------------
TypeOK ==
    /\ seats \in [Units -> [port : Ports \cup {Out}, generation : Nat]]
    /\ \A u \in Units : Attached(u) => Entry(u) \in Entries
    /\ \A u, v \in Units : u # v /\ Attached(u) => seats[u].port # seats[v].port
    /\ mounted \subseteq {u \in Units : Attached(u)}
    /\ guards \in [Entries -> Nat]
    /\ \A o \in Owners : /\ channels[o].step \in Steps /\ channels[o].outcome \in Outcomes
                         /\ channels[o].entry \in Entries \cup {NoEntry}
                         /\ channels[o].handle \in Entries \cup {NoEntry}

\* Whatever fails on the way, every attempt to open and every open transport
\* holds one reference to the guard of its registry entry and nobody else
\* does; so no disc is mounted under a transport that is open; and the
\* memory of an unmount is there as long as the one who waits or the answer
\* that is due need it, and no longer.  (open_native_device,
\* macos_mount_guard.h, unmount_context_release.)
GuardsAreHeld ==
    /\ TypeOK
    /\ \A e \in Entries : guards[e] = Cardinality({o \in Owners : channels[o].entry = e})
    /\ \A o \in Owners, u \in Units :
          channels[o].step = "open" /\ channels[o].entry = Entry(u) => u \notin mounted
    /\ \A k \in Contexts : /\ contexts[k].waiter # Nobody \/ contexts[k].due
                               <=> contexts[k].references > 0
                           /\ contexts[k].waiter # Nobody => channels[contexts[k].waiter].step = "wait"

\* The sense data a transport hands out are those of its last command, which
\* failed.  (cache_command_sense, windows_reset.)
SenseIsOwn == \A o \in Owners : channels[o].sense => channels[o].outcome \in {"check", "lost"}

\* An open transport stays with what it was opened for, through every reset
\* and every attempt: the identity that was asked for; on macOS the entry of
\* the registry, and so the drive, that was found first, which no other
\* transport has; on Windows the serial number, if there was one.  (There a
\* drive that has none, or the number of another, can be exchanged for one of
\* the same model in the same place.)  And a Windows drive that answers is
\* reported to be there.  (open_windows_candidate, find_supported_drive,
\* windows_device_present.)
SelectedIsKept ==
    /\ \A o \in Owners :
          channels[o].step = "open" =>
             /\ channels[o].handle.unit \in Units
             /\ Scsi[channels[o].handle.unit] = channels[o].identity
             /\ platform = "macos" => /\ channels[o].handle = channels[o].entry
                                     /\ channels[o].handle.unit = channels[o].first
             /\ platform = "windows" => channels[o].serial \in {NoSerial, Serial[channels[o].handle.unit]}
             /\ platform = "windows" /\ Live(channels[o].handle) => Present(channels[o])
    /\ platform = "macos" =>
          \A o, p \in Owners : o # p /\ channels[o].step = "open" /\ channels[p].step = "open"
                                  => channels[o].handle # channels[p].handle
=============================================================================
