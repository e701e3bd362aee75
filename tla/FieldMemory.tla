---------------------------- MODULE FieldMemory ----------------------------
(***************************************************************************)
(* A drive whose volatile memory is written field by field, and the state  *)
(* of a source that opens a game disc in it.  Three drives are of this     *)
(* kind: AsusNr09, Gp08 and Ad7701h say what their sources do, this module *)
(* what the drive does and what the three have in common.                  *)
(*                                                                         *)
(* A field holds what the drive derives from a disc ("stock") or what the  *)
(* source writes to reach the game ("live").  Any command can fail, a      *)
(* write also after it landed; a reset may make the drive derive its       *)
(* memory again; the disc can be exchanged, the drive unplugged and the    *)
(* process killed between any two commands.                                *)
(***************************************************************************)
EXTENDS Naturals, Sequences, FiniteSets

CONSTANTS
  Profiles,         \* the discs a source knows
  Order,            \* the fields, in the order they are activated
  RestoreAttempts,  \* guarded restorations of one restoration
  ReadAttempts,     \* READ commands of one request
  MaxChanges,       \* BOUND: discs taken out or put in, drives unplugged
  None

VARIABLES
  family,    \* which of the drives it is, chosen once
  drive,     \* the disc in it, its memory, whether it is connected and answers
  pc,        \* the place in the source's code
  source,    \* the context and the locals of the call under way
  history    \* auxiliary

fieldVars == <<drive, pc, source, history>>

Fields == {Order[i] : i \in DOMAIN Order}
Capacity == Order[Len(Order)]
Discs == Profiles \cup {"foreign"}
Values == [of : Discs, state : {"stock", "live"}]

FieldAssumption ==
  /\ Profiles # {}
  /\ Order \in Seq(Fields) /\ Len(Order) > 1
  /\ \A i, j \in DOMAIN Order : Order[i] = Order[j] => i = j
  /\ RestoreAttempts \in Nat \ {0} /\ ReadAttempts \in Nat \ {0} /\ MaxChanges \in Nat
  /\ None \notin Discs

Stock(d) == [f \in Fields |-> [of |-> d, state |-> "stock"]]
Live(p) == [f \in Fields |-> [of |-> p, state |-> "live"]]

Places == {"closed", "ready", "evidence", "snapshot", "rest", "write", "descriptor",
           "live", "reading", "recover", "reset", "release", "held"}

\* active: the restoration is armed (context->active, context->dirty).  goal:
\* what a restoration is for; purpose: what a snapshot is for, or what is
\* verified after the writes; seen: the first field of a snapshot under way;
\* todo: the writes still to send.
Goals == {"normalize", "rollback", "cleanup", "close", "ensure"}
Purposes == {"select", "guard", "restored", "applied", "ensure"}
Sources == [active : BOOLEAN, media : Profiles \cup {None}, task : {"open", "read", "close"},
            goal : Goals, purpose : Purposes, seen : Values, todo : 0 .. Len(Order),
            failed : BOOLEAN, tries : 0 .. RestoreAttempts + ReadAttempts]
NoSource == [active |-> FALSE, media |-> None, task |-> "close", goal |-> "close",
             purpose |-> "guard", seen |-> [of |-> "foreign", state |-> "stock"], todo |-> 0,
             failed |-> FALSE, tries |-> 0]

\* wrote: the fields in which a live value of this source landed; stale: the
\* memory changed by itself since the last snapshot was begun; gaveup: a
\* recovery failed and reading went on; killed: the last session was; delivered: the memory under which a READ succeeded.
Histories == [wrote : SUBSET Fields, stale : BOOLEAN, gaveup : BOOLEAN, killed : BOOLEAN,
              delivered : {"nothing", "live", "changed", "other"}]
NoHistory == [wrote |-> {}, stale |-> FALSE, gaveup |-> FALSE, killed |-> FALSE, delivered |-> "nothing"]

FieldTypeOK ==
  /\ drive \in [disc : Discs \cup {None}, memory : [Fields -> Values], attached : BOOLEAN,
                answers : BOOLEAN, changes : 0 .. MaxChanges]
  /\ pc \in Places
  /\ source \in Sources
  /\ history \in Histories

-----------------------------------------------------------------------------
Then(place, s) == pc' = place /\ source' = s
TakeSnapshot(s, what) == Then("snapshot", [s EXCEPT !.purpose = what])
StartWrites(s, what) ==
  Then("write", [s EXCEPT !.purpose = what, !.todo = Len(Order), !.failed = FALSE])
BeginRestore(s, goal) == TakeSnapshot([s EXCEPT !.goal = goal, !.tries = 1], "guard")
NextRead(s) == \/ s.tries < ReadAttempts /\ Then("reading", [s EXCEPT !.tries = @ + 1])
               \/ Then("live", s)

\* A new handle.
Handle == /\ drive' = [drive EXCEPT !.answers = TRUE]
          /\ history' = NoHistory

\* What a command can return.
Reply == IF drive.answers THEN BOOLEAN ELSE {FALSE}

\* The field and the value of the next write: activation in the order of the
\* fields, restoration the other way round.
NextField == IF source.purpose = "applied" THEN Order[Len(Order) + 1 - source.todo]
                                           ELSE Order[source.todo]
NextValue == [of |-> source.media, state |-> IF source.purpose = "applied" THEN "live" ELSE "stock"]

\* The drive takes the write or not, whatever it reports.
Landing(ok, lands) ==
  /\ ok => lands
  /\ lands => drive.answers
  /\ drive' = IF lands THEN [drive EXCEPT !.memory[NextField] = NextValue] ELSE drive
  /\ history' = [history EXCEPT !.wrote =
       IF ~lands THEN @ ELSE IF NextValue.state = "live" THEN @ \cup {NextField} ELSE @ \ {NextField}]

\* The recovery of a read ends here without having seen live memory, though
\* not by taking a part of it for the whole.
GivesUp(ok) ==
  LET found == [drive.memory EXCEPT ![Order[1]] = source.seen]
  IN  /\ source.task = "read" /\ pc' \in {"live", "reading"}
      /\ found # Live(source.media)
      /\ source.purpose = "ensure" /\ ok => \E f \in Fields : found[f].of # source.media

\* A snapshot, in two steps so that the memory can change between them; an
\* empty drive has no capacity, and a restoration goes by the fields alone
\* (gdox_optical_restore_read_capacity).
Snapshot(Failed(_), Decide(_, _, _)) ==
  \/ /\ pc = "snapshot"
     /\ \E ok \in Reply : IF ok THEN Then("rest", [source EXCEPT !.seen = drive.memory[Order[1]]])
                                ELSE Failed(source)
     /\ history' = [history EXCEPT !.stale = FALSE, !.gaveup = @ \/ GivesUp(FALSE)]
     /\ UNCHANGED drive
  \/ /\ pc = "rest"
     /\ \E ok \in Reply :
        /\ IF ok /\ (drive.disc # None \/ source.purpose \in {"guard", "restored"})
           THEN Decide(source, [drive.memory EXCEPT ![Order[1]] = source.seen],
                       IF drive.disc # None THEN drive.memory[Capacity]
                                            ELSE Stock(source.media)[Capacity])
           ELSE Failed(source)
        /\ history' = [history EXCEPT !.gaveup = @ \/ GivesUp(ok)]
     /\ UNCHANGED drive

\* A bus reset may make the drive derive its memory again, and finds a drive
\* that was unplugged and is back.
Resets ==
  /\ \E m \in {drive.memory} \cup {Stock(d) : d \in {drive.disc} \ {None}},
        a \in {drive.answers, drive.attached} :
       drive' = [drive EXCEPT !.memory = IF drive.attached THEN m ELSE @, !.answers = a]
  /\ history' = [history EXCEPT !.stale = @ \/ drive'.memory # drive.memory,
                                !.wrote = IF drive'.memory # drive.memory THEN {} ELSE @]

\* READ(10): the game lies beyond the stock capacity.
ReadableState == drive.answers /\ drive.disc # None /\ drive.memory[Capacity].state = "live"
Deliver ==
  history' = [history EXCEPT !.delivered =
    IF drive.memory = Live(source.media) THEN "live" ELSE IF history.stale THEN "changed" ELSE "other"]

-----------------------------------------------------------------------------
(* The world. *)

Kill ==
  /\ pc # "closed"
  /\ Then("closed", NoSource)
  /\ history' = [NoHistory EXCEPT !.killed = TRUE]
  /\ UNCHANGED drive

ChangeDisc ==
  /\ drive.changes < MaxChanges /\ drive.attached
  /\ \/ /\ drive.disc # None
        /\ drive' = [drive EXCEPT !.disc = None, !.changes = @ + 1]
        /\ UNCHANGED history
     \/ /\ drive.disc = None
        /\ \E d \in Discs, m \in {TRUE, FALSE} :
             drive' = [drive EXCEPT !.disc = d, !.changes = @ + 1,
                                    !.memory = IF m THEN Stock(d) ELSE @]
        /\ history' = [history EXCEPT !.stale = TRUE,
                         !.wrote = IF drive'.memory # drive.memory THEN {} ELSE @]
  /\ UNCHANGED <<pc, source>>

\* Unplugging takes the power, and with it the memory and the handle.
Unplug ==
  /\ drive.changes < MaxChanges /\ drive.attached
  /\ drive' = [drive EXCEPT !.attached = FALSE, !.answers = FALSE, !.changes = @ + 1,
                            !.memory = Stock(IF drive.disc = None THEN "foreign" ELSE drive.disc)]
  /\ history' = [history EXCEPT !.stale = TRUE, !.wrote = {}]
  /\ UNCHANGED <<pc, source>>

Plug ==
  /\ ~drive.attached
  /\ drive' = [drive EXCEPT !.attached = TRUE]
  /\ UNCHANGED <<pc, source, history>>

FieldWorld == Kill \/ ChangeDisc \/ Unplug \/ Plug

\* Leftovers of a killed session, of another program, of the disc before.
FieldInit ==
  /\ drive \in [disc : Profiles, attached : {TRUE},
                answers : {FALSE}, changes : {0},
                memory : {Stock(d) : d \in Discs} \cup {Live(p) : p \in Profiles}
                         \cup {[Stock(p) EXCEPT ![Order[1]].state = "live"] : p \in Profiles}]
  /\ pc = "closed"
  /\ source = NoSource
  /\ history = NoHistory
=============================================================================
