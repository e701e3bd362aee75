-------------------------- MODULE MCDriveSelection --------------------------
(***************************************************************************)
(* DriveSelection and, behind the registry, the sources of OpticalDrives,  *)
(* for TLC.  A behaviour is one of the selection or one of a source; the   *)
(* other part stands at an initial state and stays there.  The drives of   *)
(* the selection are interchangeable.                                      *)
(***************************************************************************)
EXTENDS DriveSelection, TLC

DriveSymmetry == Permutations(Drives)

CONSTANTS
  Profiles, Order, Requests, RestoreAttempts, ReadAttempts, MaxChanges,
  Addresses, BlockSectors, Sectors, BufferBlocks, Streams, Readahead, MinStart,
  Attempts, Readers, MaxUnplugs

VARIABLES
  part,   \* "selection" or "source"
  family, opened, pc, context, history,
  mechanism, nintendo, work, reader, worker, owner, ghost

sourceVars == <<family, opened, pc, context, history,
                mechanism, nintendo, work, reader, worker, owner, ghost>>

Source == INSTANCE OpticalDrives WITH
            drive <- opened, source <- context, context <- nintendo

ASSUME SourceAssumption == Source!FieldAssumption /\ Source!NintendoAssumption

SelectionAtRest == Init /\ selected = None
SourceAtRest == /\ Source!Init /\ family = "asus" /\ opened.disc = Source!Xgd1
                /\ opened.memory = Source!Stock(Source!Xgd1)

DrivesInit == \/ part = "selection" /\ Init /\ SourceAtRest
              \/ part = "source" /\ SelectionAtRest /\ Source!Init

DrivesNext == \/ part = "selection" /\ Next /\ UNCHANGED <<part, sourceVars>>
              \/ part = "source" /\ Source!Next /\ UNCHANGED <<part, vars>>

DrivesSpec == DrivesInit /\ [][DrivesNext]_<<part, vars, sourceVars>>

-----------------------------------------------------------------------------
(* The properties of OpticalDrives. *)

\* A source owes what it wrote to the drive until it has put it back.
PromiseKept == Source!PromiseKept

\* A source writes memory only in a state that it knows.
OnlyKnownIsWritten == Source!OnlyKnownIsWritten

\* A READ succeeds only while the whole memory is live.
LiveReads == Source!LiveReads

\* No reader of a Nintendo disc waits for speculation.
ReadersComeFirst == Source!ReadersComeFirst

-----------------------------------------------------------------------------
MCProfiles == {"xgd1", "xgd2"}
MCOrder == <<"zone", "capacity">>
MCRequests == {<<0, 2>>, <<1, 3>>}
=============================================================================
