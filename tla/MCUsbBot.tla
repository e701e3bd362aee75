------------------------------ MODULE MCUsbBot ------------------------------
(***************************************************************************)
(* The SCSI transport of each build (platform/usb_bot.h), for TLC: libusb  *)
(* and the kernel's mass-storage driver on Linux (UsbBot), the system's    *)
(* own driver on Windows and macOS (ScsiChannels).  A build has one of     *)
(* them.                                                                   *)
(***************************************************************************)
EXTENDS UsbBot

CONSTANTS Owners, Nobody, Contexts, OpenAttempts, GuardSlots, Generations

VARIABLES platform, seats, mounted, channels, guards, contexts

Channels == INSTANCE ScsiChannels

ASSUME TransportsAssumption == Channels!ChannelsAssumption

systemVars == <<seats, mounted, channels, guards, contexts>>
transportVars == <<vars, platform, systemVars>>

TransportInit == platform \in {"linux", "windows", "macos"} /\ Init /\ Channels!Init

TransportNext ==
    /\ \/ platform = "linux" /\ Next /\ UNCHANGED systemVars
       \/ platform # "linux" /\ Channels!Next /\ UNCHANGED vars
    /\ UNCHANGED platform

TransportSpec == TransportInit /\ [][TransportNext]_transportVars

-----------------------------------------------------------------------------
\* What the transport takes from the system it gives back, whatever fails:
\* on Linux the driver of the interface, on macOS the mounts of the disc.
TakenIsGivenBack == DisplacedIsOwed /\ Channels!GuardsAreHeld

\* What a transport tells of a command is of that very command: the reply,
\* on Linux, and the sense data, on Windows and macOS.
AnswersAreOwn == RepliesAreOwn /\ Channels!SenseIsOwn

\* A transport that is ready has, through every reset, reopening and retry,
\* what passes for the drive it was opened for: the identity, the place and
\* the serial number if there is one, which on Linux and Windows a twin of the
\* drive can have too; on macOS the very entry of the registry.
OpenedIsKept == SameDrive /\ Channels!SelectedIsKept

-----------------------------------------------------------------------------
(* Two ports and four drives: the one that is wanted, d1; one with the     *)
(* same bridge, another mechanism and no serial number, d2; and, not       *)
(* plugged in at first, one of d1's model that has the same serial number, *)
(* d3, and one that has its own, d4.                                       *)
CONSTANTS d1, d2, d3, d4, p1, p2

MCSymmetry == Permutations(Owners) \cup Permutations(Contexts)

MCIdentities == <<"GP63", "GP65">>
MCScsi == [u \in Units |-> IF u = d2 THEN "GP63" ELSE "GP65"]
MCUsbIds == [i \in {"GP63", "GP65"} |-> "0e8d:1887"]
MCSerial == [u \in Units |-> CASE u \in {d1, d3} -> "1" [] u = d4 -> "4" [] OTHER -> NoSerial]
MCGenerations == [u \in Units |-> CASE u = d1 -> 2 [] u = d3 -> 0 [] OTHER -> 1]
MCHome == [u \in Units |-> CASE u = d1 -> p1 [] u = d2 -> p2 [] OTHER -> Out]
=============================================================================
