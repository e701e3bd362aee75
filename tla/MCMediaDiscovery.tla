-------------------------- MODULE MCMediaDiscovery --------------------------
(***************************************************************************)
(* MediaDiscovery, Desktop and PrivateFiles, what the worker does with an  *)
(* idle drive, what the program around it does and what it keeps for its   *)
(* user, for TLC.  A behaviour is one of discovery, one of the desktop or  *)
(* one of a private file; the others stand at an initial state and stay    *)
(* there.                                                                  *)
(***************************************************************************)
EXTENDS MediaDiscovery, FiniteSets

CONSTANTS Procs, NoProc, Stale, MaxAttempts,
          Inodes, NoFile, Values, Size, MaxEvents

VARIABLES
  part,   \* "discovery", "desktop" or "private"
  platform, at, tries, holder, path, trusted, handles, events, mail, app,
  system, use, file, bound, lasting, task, place, from, inode, text, was, touched, unseen, last,
  disturbed

deskVars == <<platform, at, tries, holder, path, trusted, handles, events, mail, app>>
fileVars == <<system, use, file, bound, lasting, task, place, from, inode, text, was, touched,
              unseen, last, disturbed>>

Desk == INSTANCE Desktop

\* The content that is known; others leave nothing behind, or one value.
Genuine == [i \in 1 .. Size |-> CHOOSE v \in Values : TRUE]
Others == {<<>>} \cup {[i \in 1 .. Size |-> v] : v \in Values}
Private == INSTANCE PrivateFiles WITH at <- place, events <- disturbed

ASSUME DesktopIsBounded == Desk!DesktopAssumption
ASSUME PrivateIsBounded == Private!FilesAssumption

DiscoveryAtRest == Init /\ drive = CHOOSE d \in Drives : ~d.resolvable
DesktopAtRest == Desk!Init /\ platform = "linux"
PrivateAtRest == /\ Private!Init /\ system = "posix" /\ use = "settings"
                 /\ bound.managed = NoFile /\ bound.source = NoFile

AppInit == \/ part = "discovery" /\ Init /\ DesktopAtRest /\ PrivateAtRest
           \/ part = "desktop" /\ DiscoveryAtRest /\ Desk!Init /\ PrivateAtRest
           \/ part = "private" /\ DiscoveryAtRest /\ DesktopAtRest /\ Private!Init

AppNext == \/ part = "discovery" /\ Next /\ UNCHANGED <<part, deskVars, fileVars>>
           \/ part = "desktop" /\ Desk!Next /\ UNCHANGED <<part, vars, fileVars>>
           \/ part = "private" /\ Private!Next /\ UNCHANGED <<part, vars, deskVars>>

\* The worker's cycle is fair, as in MediaDiscovery; nothing else is.
AppSpec == /\ AppInit /\ [][AppNext]_<<part, vars, deskVars, fileVars>>
           /\ WF_<<part, vars, deskVars, fileVars>>(part = "discovery" /\ Observe
                                                    /\ UNCHANGED <<part, deskVars, fileVars>>)

-----------------------------------------------------------------------------
\* The properties of Desktop and of PrivateFiles: one process has the drive,
\* can be found while it does, and says how it ended; what it keeps for its
\* user is whole, and what it says of it is so.
DesktopIsSound == Desk!DesktopIsSound /\ Private!StoredIsWhole /\ Private!CallsKeepTheirWord
=============================================================================
