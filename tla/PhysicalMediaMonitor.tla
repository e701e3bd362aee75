------------------------ MODULE PhysicalMediaMonitor ------------------------
(***************************************************************************)
(* The latch that turns observations of the disc of a live session into   *)
(* the one event that ends it (src/app/physical_media_monitor.c).  A watch*)
(* is a record; every operator is one function of the C module.           *)
(***************************************************************************)
EXTENDS Naturals

CONSTANTS
  AbsentConfirmations,      \* looks in a row without a disc: it changed
  DisconnectConfirmations,  \* checks in a row without the drive
  FaultConfirmations,       \* looks after a session fault without an answer
  Generations,              \* media generations a source can report
  NoGeneration              \* generation_known is false

ASSUME WatchAssumption ==
  /\ AbsentConfirmations \in Nat \ {0}
  /\ DisconnectConfirmations \in Nat \ {0}
  /\ FaultConfirmations \in Nat \ {0}
  /\ NoGeneration \notin Generations

WatchEvents == {"none", "eject_request", "changed", "disconnected", "session_fault"}
Readiness   == {"present", "absent", "unknown"}
MediaEvents == {"none", "eject_request", "new_media", "removal", "changed"}
Replacing   == {"new_media", "removal", "changed"}

\* gdox_media_observation
Observations == [event : MediaEvents, readiness : Readiness, generation : Generations]

Watches == [event        : WatchEvents,
            generation   : Generations \cup {NoGeneration},
            absent       : 0 .. AbsentConfirmations,
            disconnected : 0 .. DisconnectConfirmations,
            faults       : 0 .. FaultConfirmations,
            sessionFault : BOOLEAN]

FreshWatch == [event |-> "none", generation |-> NoGeneration, absent |-> 0,
               disconnected |-> 0, faults |-> 0, sessionFault |-> FALSE]

\* Bug variant: the request of any disc will do.
EjectRequestPending(observation, generation) ==
  observation.event = "eject_request" /\ observation.readiness = "present"

EjectRequestMatches(observation, generation) ==
  /\ observation.event = "eject_request"
  /\ observation.generation = generation
  /\ observation.readiness = "present"

\* The first event wins: nothing moves a latched watch.
Latched(w, event) == [w EXCEPT !.event = event]

Faulted(w) == IF w.event = "none" THEN [w EXCEPT !.sessionFault = TRUE] ELSE w

IsReplacement(w, o) == /\ w.generation # NoGeneration
                       /\ \/ o.generation # w.generation
                          \/ o.event \in Replacing

BasedOn(w, o) ==
  IF w.generation = NoGeneration THEN [w EXCEPT !.generation = o.generation] ELSE w

\* A fault is reported once the disc answers, or did not often enough.
FaultConfirmed(w, o) ==
  /\ w.sessionFault
  /\ \/ o.readiness = "present"
     \/ w.faults + 1 >= FaultConfirmations

CountedFault(w) == [w EXCEPT !.faults = IF w.sessionFault THEN @ + 1 ELSE 0]

CountedPresence(w, o) ==
  CASE o.readiness = "present" -> [w EXCEPT !.absent = 0]
    [] o.readiness = "absent"  ->
         IF w.absent + 1 >= AbsentConfirmations
           THEN [w EXCEPT !.absent = AbsentConfirmations, !.event = "changed"]
           ELSE [w EXCEPT !.absent = @ + 1]
    [] OTHER -> w

WatchObserved(w, o) ==
  IF w.event # "none" THEN w
  ELSE IF o.event = "eject_request" THEN Latched(w, "eject_request")
  ELSE IF IsReplacement(w, o) THEN Latched(w, "changed")
  ELSE IF FaultConfirmed(w, o) THEN Latched(BasedOn(w, o), "session_fault")
  ELSE CountedPresence(CountedFault(BasedOn(w, o)), o)

\* gdox_physical_media_monitor_connection, when the status is known.
WatchConnection(w, connected) ==
  IF w.event # "none" THEN w
  ELSE IF connected THEN [w EXCEPT !.disconnected = 0]
  ELSE IF w.disconnected + 1 < DisconnectConfirmations
    THEN [w EXCEPT !.disconnected = @ + 1]
    ELSE [w EXCEPT !.disconnected = DisconnectConfirmations, !.event = "disconnected"]
=============================================================================
