------------------------ MODULE MCMt1887Transaction ------------------------
(***************************************************************************)
(* The MT1887 source for TLC: its transaction on the drive's memory, with  *)
(* the bytes of mt1887_media_profile.c and the drives of mt1887_profile.c, *)
(* and its live session, whose disc is exchanged.  A behaviour is one of   *)
(* the transaction or one of the session; the other stands at an initial   *)
(* state and stays there.                                                  *)
(***************************************************************************)
EXTENDS Mt1887Transaction

MCProfiles == {"xgd1", "wave1", "wave2", "xgd3"}

MCStock ==
  [xgd1  |-> [capacity |-> <<3, 27, 79>>,   geometry |-> <<3, 26, 175>>],
   wave1 |-> [capacity |-> <<3, 13, 190>>,  geometry |-> <<3, 10, 143>>],
   wave2 |-> [capacity |-> <<3, 10, 163>>,  geometry |-> <<3, 8, 111>>],
   xgd3  |-> [capacity |-> <<3, 97, 230>>,  geometry |-> <<3, 48, 255>>]]

MCLive ==
  [xgd1  |-> [capacity |-> <<61, 77, 79>>,  geometry |-> <<32, 51, 175>>],
   wave1 |-> [capacity |-> <<61, 95, 222>>, geometry |-> <<32, 51, 159>>],
   wave2 |-> [capacity |-> <<61, 97, 3>>,   geometry |-> <<32, 51, 159>>],
   xgd3  |-> [capacity |-> <<68, 28, 6>>,   geometry |-> <<35, 142, 15>>]]

MCCanonical == <<100, 0, 100>>
MCForeign == [capacity |-> <<3, 1, 1>>, geometry |-> <<3, 1, 1>>, auxiliary |-> MCCanonical]

GP63 == [media |-> MCProfiles, auxiliary |-> "absent", geometryFirst |-> FALSE]
GP65 == [media |-> {"xgd1"}, auxiliary |-> "repaired", geometryFirst |-> FALSE]
MT1862 == [media |-> {"wave2"}, auxiliary |-> "absent", geometryFirst |-> TRUE]
GP57 == [media |-> {"wave2"}, auxiliary |-> "guard", geometryFirst |-> FALSE]

MCHardwares == {GP63, GP65, MT1862, GP57}

-----------------------------------------------------------------------------
CONSTANTS
  MaxGeneration, Generations, NoGeneration, AbsentConfirmations,
  DisconnectConfirmations, FaultConfirmations, MaxInsertions, MaxPresses, MaxEvents

VARIABLES
  part,   \* "transaction" or "session"
  medium, tracker, gate, reader, observer, watch, noticed

sessionVars == <<medium, tracker, gate, reader, observer, watch, noticed>>

Session == INSTANCE LiveMedia WITH drive <- medium, history <- noticed

ASSUME GenerationsAreNatural == Session!GenerationAssumption
ASSUME SessionIsBounded == Session!LiveAssumption
ASSUME ConfirmationsAreCounted ==
  /\ AbsentConfirmations \in Nat \ {0}
  /\ DisconnectConfirmations \in Nat \ {0}
  /\ FaultConfirmations \in Nat \ {0}

\* Every change is counted once, and none can make the generation pass its
\* bound: two initial events, four reports of each other disc (its removal and
\* its insertion, each by an event and by a sense), and the requests to eject.
ASSUME GenerationsSuffice == MaxGeneration >= 2 + 4 * MaxInsertions + MaxPresses

TransactionAtRest == /\ Init /\ hardware = GP57
                     /\ drive.memory = StockMemory("wave2")
SessionAtRest == Session!Init /\ medium.events = <<>>

Mt1887Init == \/ part = "transaction" /\ Init /\ SessionAtRest
              \/ part = "session" /\ TransactionAtRest /\ Session!Init

Mt1887Next == \/ part = "transaction" /\ Next /\ UNCHANGED <<part, sessionVars>>
              \/ part = "session" /\ Session!Next /\ UNCHANGED <<part, vars>>

Mt1887Spec == Mt1887Init /\ [][Mt1887Next]_<<part, vars, sessionVars>>

\* The session does not go on with another disc. (LiveMedia)
ExchangeIsNoticed == Session!ExchangeIsNoticed
=============================================================================
