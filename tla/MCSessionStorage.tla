-------------------------- MODULE MCSessionStorage --------------------------
(***************************************************************************)
(* SessionStorage and Preservation, the files GDOX makes beside a disc, for*)
(* TLC.  A behaviour is one of the storage of sessions or one of a         *)
(* preservation; the other stands at an initial state and stays there.     *)
(* Processes and session names are interchangeable.                        *)
(***************************************************************************)
EXTENDS SessionStorage, TLC

Symmetry == Permutations(Procs) \cup Permutations(Names)

CONSTANTS Sectors, BlockSectors, SecurityRanges, Jobs, MaxRequests

VARIABLES
  part,   \* "storage" or "copy"
  disc, job, host, canPreserve, preserving, cancelled, queued, requests, place,
  owned, result, image, whole, synced, partial, final, sidecars, manifest,
  intruders, warned, failures

copyVars == <<disc, job, host, canPreserve, preserving, cancelled, queued, requests, place,
              owned, result, image, whole, synced, partial, final, sidecars, manifest,
              intruders, warned, failures>>

\* The jobs differ in what decides the map and the classification.
Job(f, v, s, e, l) == [format |-> f, verify |-> v, ss |-> s, pfi |-> TRUE,
                       dmi |-> TRUE, external |-> e, listed |-> l]
MCJobs == {Job("xiso", TRUE, "none", "none", FALSE),
           Job("xiso", TRUE, "none", "agrees", FALSE),
           Job("redump", TRUE, "authentic", "none", FALSE),
           Job("redump", FALSE, "authentic", "agrees", FALSE),
           Job("redump", TRUE, "authentic", "differs", FALSE),
           Job("redump", TRUE, "invalid", "differs", FALSE),
           Job("redump", TRUE, "none", "none", TRUE),
           Job("redump", FALSE, "none", "none", FALSE)}

Copy == INSTANCE Preservation WITH
          platform <- host, pc <- place, part <- partial, faults <- failures

ASSUME CopyIsBounded == Copy!PreservationAssumption
ASSUME JobsAreKnown == Copy!JobsAssumption

StorageAtRest == Init /\ platform = "posix"
CopyAtRest == /\ Copy!Init /\ host = "posix" /\ \A d \in Copy!Disc : disc[d] = "good"
              /\ job = Job("xiso", TRUE, "none", "none", FALSE)

FilesInit == \/ part = "storage" /\ Init /\ CopyAtRest
             \/ part = "copy" /\ StorageAtRest /\ Copy!Init

FilesNext == \/ part = "storage" /\ Next /\ UNCHANGED <<part, copyVars>>
             \/ part = "copy" /\ Copy!Next /\ UNCHANGED <<part, vars>>

FilesSpec == FilesInit /\ [][FilesNext]_<<part, vars, copyVars>>

-----------------------------------------------------------------------------
(* The properties of Preservation. *)

\* What a preservation leaves under the final name is a whole image.
CommittedIsWhole == Copy!CommittedIsWhole

\* What it reports is what it found and wrote.
ResultIsHonest == Copy!ResultIsHonest

\* A cancellation that was answered is honoured.
CancelIsHonoured == Copy!CancelIsHonoured
=============================================================================
