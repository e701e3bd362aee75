------------------------------ MODULE LiveMedia ------------------------------
(***************************************************************************)
(* A live session against the disc in its drive: the thread of the export  *)
(* that reads sectors with recovery (read_range_with_recovery and          *)
(* recover_optical in src/platform/mt1887_source.c), the worker that       *)
(* observes the medium (gdox_mmc_observe_media), the media tracker both    *)
(* share under the source's mutex, and the read-ahead source above it      *)
(* whose verdict on the session is read and written without that mutex     *)
(* (src/core/file_readahead_source.c).                                     *)
(*                                                                         *)
(* The disc can be changed between any two commands.  A drive reports a    *)
(* change once, by the sense of whichever command comes next, and perhaps  *)
(* also by an event in its queue; a command that the transport loses does  *)
(* not reach the drive.  What the memory of the drive makes of the sectors *)
(* is Mt1887Transaction's matter; the windows of the read-ahead are left   *)
(* out.                                                                    *)
(***************************************************************************)
EXTENDS Naturals, PhysicalMediaMonitor, Sequences

CONSTANTS
  MaxGeneration,  \* BOUND: the code's generation has 64 bits
  ReadAttempts,   \* READ commands of one range: read_retries + 1
  MaxInsertions,  \* BOUND: how many other discs are put in
  MaxPresses,     \* BOUND: how often the eject button is pressed
  MaxEvents       \* BOUND: the events a drive keeps

LiveAssumption ==
  /\ ReadAttempts \in Nat \ {0} /\ MaxEvents \in Nat \ {0}
  /\ MaxInsertions \in Nat /\ MaxPresses \in Nat
  /\ Generations = 0 .. MaxGeneration

GenerationAssumption == MaxGeneration \in Nat \ {0}

-----------------------------------------------------------------------------
(* What a source remembers of the changes its drive reports                *)
(* (gdox_mmc_media_tracker in src/platform/mmc_commands.c).  A tracker is  *)
(* a record; every operator is one function of the C module.               *)

\* "changed" is noted as "new_media" is.
DriveEvents == {"none", "eject_request", "new_media", "removal"}
Senses == {"none", "no_medium", "changed", "other"}

\* absent, changed: the change that is going on has been counted.
Trackers == [generation : 0 .. MaxGeneration, event : {"none", "eject_request"},
             absent : BOOLEAN, changed : BOOLEAN]

NewTracker == [generation |-> 0, event |-> "none", absent |-> FALSE, changed |-> FALSE]

IsLatched(t) == t.absent \/ t.changed

Noted(t, latch) ==
  [t EXCEPT !.generation = IF IsLatched(t) THEN @ ELSE @ + 1, ![latch] = TRUE, !.event = "none"]

NotedAbsent(t) == Noted(t, "absent")
NotedChanged(t) == Noted(t, "changed")

NotedEvent(t, event) ==
  CASE event = "none"                         -> t
    [] event = "eject_request"                -> [t EXCEPT !.event = event]
    [] event \in {"new_media", "removal"}     -> NotedChanged(t)

NotedSense(t, sense) ==
  CASE sense = "no_medium"         -> NotedAbsent(t)
    [] sense = "changed"           -> NotedChanged(t)
    [] sense \in {"none", "other"} -> t

Transitioned(t, expected) == t.generation # expected \/ t.event # "none"

\* Bug variant: what was counted once is never counted again.
FoundReadyLatched(t) == t
FoundReady(t) == [t EXCEPT !.absent = FALSE, !.changed = FALSE]

-----------------------------------------------------------------------------
VARIABLES
  drive,     \* the disc in it (0: none), its pending unit attention, its events
  tracker,   \* context->media_tracker
  gate,      \* the read-ahead's media_invalid and observed generation
  reader,    \* the call of mt_read that is under way
  observer,  \* the observation that is under way
  watch,     \* the worker's physical media monitor
  history    \* auxiliary

vars == <<drive, tracker, gate, reader, observer, watch, history>>

SessionDisc == 1
Discs == 0 .. MaxInsertions + 1
Drives == [disc : Discs, attention : BOOLEAN, events : Seq(DriveEvents),
           inserted : 0 .. MaxInsertions, pressed : 0 .. MaxPresses]
Gates == [invalid : BOOLEAN, known : BOOLEAN, generation : Generations]

\* sense: what the last READ failed with; got: the disc its sectors are of.
\* disc (of an observation): the one that was found ready.
InSource == {"read", "capture", "reset", "ready", "ensure", "retry"}
Readers == [pc : {"idle", "lock", "deliver"} \cup InSource, expected : Generations,
            tries : 0 .. ReadAttempts, sense : Senses, got : Discs]
Observers == [pc : {"begin", "baseline", "idle", "ready", "apply", "watch"},
              seen : Observations, disc : Discs]
NotReading == [pc |-> "idle", expected |-> 0, tries |-> 0, sense |-> "none", got |-> 0]
Blank == [event |-> "none", readiness |-> "unknown", generation |-> 0]

\* base: the generation of the session's disc; blind: the disc was changed
\* before the session had one; lost: a report was answered to a command whose
\* sense nobody notes.
\* (A missing medium is reported to every command; that cannot be lost.)
Histories == [base : Generations, blind : BOOLEAN, lost : BOOLEAN]

TypeOK ==
  /\ drive \in Drives
  /\ tracker \in Trackers
  /\ gate \in Gates
  /\ reader \in Readers
  /\ observer \in Observers
  /\ watch \in Watches
  /\ history \in Histories

Init ==
  /\ drive \in [disc : {SessionDisc}, attention : {FALSE}, inserted : {0}, pressed : {0},
                events : {<<>>, <<"new_media">>, <<"eject_request">>, <<"new_media", "eject_request">>}]
  /\ tracker = NewTracker
  /\ gate = [invalid |-> FALSE, known |-> FALSE, generation |-> 0]
  /\ reader = NotReading
  /\ observer = [pc |-> "begin", seen |-> Blank, disc |-> 0]
  /\ watch = FreshWatch
  /\ history = [base |-> 0, blind |-> FALSE, lost |-> FALSE]

-----------------------------------------------------------------------------
(* Commands: each is a set of outcomes [tracker, drive]. *)

Report(d) == IF d.disc = 0 THEN "no_medium" ELSE IF d.attention THEN "changed" ELSE "none"
Answered(d) == [d EXCEPT !.attention = FALSE]
Result(t, d) == [tracker |-> t, drive |-> d]

\* REQUEST SENSE, which may fail.
RequestSense(t, d) == {Result(t, d), Result(NotedSense(t, Report(d)), Answered(d))}

\* gdox_mmc_poll_media_event: one event, or the sense of the failure.
Poll(t, d) ==
  RequestSense(t, d) \cup
  {IF d.events = <<>> THEN Result(t, d)
   ELSE Result(NotedEvent(t, Head(d.events)), [d EXCEPT !.events = Tail(@)])}

Effect(result) == tracker' = result.tracker /\ drive' = result.drive

-----------------------------------------------------------------------------
(* The reader. *)

ReaderHolds == reader.pc \in InSource
ObserverHolds == observer.pc = "ready"
SessionIsOpen == watch.event = "none" /\ observer.pc \notin {"begin", "baseline"}

Continue(place) == reader' = [reader EXCEPT !.pc = place]
Return == reader' = NotReading

\* request_cancelled, then the mutex of the source.
StartRead ==
  /\ reader.pc = "idle" /\ SessionIsOpen /\ ~gate.invalid
  /\ Continue("lock")
  /\ UNCHANGED <<drive, tracker, gate, observer, watch, history>>

BeginRange == [reader EXCEPT !.pc = "read", !.expected = tracker.generation, !.tries = 1,
                             !.sense = "none", !.got = 0]

Lock ==
  /\ reader.pc = "lock" /\ ~ObserverHolds
  /\ reader' = BeginRange
  /\ UNCHANGED <<drive, tracker, gate, observer, watch, history>>

AnotherMayBeTried == reader.tries < ReadAttempts

\* A READ that fails is recovered, or given up at the deadline or after the
\* last attempt; then a range of more than one block is read again in halves.
\* After one that succeeds the next half or chunk may follow.
ReadCommand ==
  /\ reader.pc = "read"
  /\ drive' = Answered(drive)
  /\ \E sense \in IF Report(drive) = "none" THEN {"none", "other"} ELSE {Report(drive)} :
       LET isChange == sense = "changed"
       IN \/ /\ sense = "none"
             /\ reader' = [reader EXCEPT !.pc = "deliver", !.got = drive.disc]
             /\ UNCHANGED history
          \/ /\ sense = "none" /\ reader' = BeginRange
             /\ UNCHANGED history
          \/ /\ sense # "none" /\ AnotherMayBeTried
             /\ reader' = [reader EXCEPT !.pc = "capture", !.sense = sense]
             /\ UNCHANGED history
          \/ /\ sense # "none"
             /\ reader' \in {NotReading} \cup IF AnotherMayBeTried THEN {} ELSE {BeginRange}
             /\ history' = [history EXCEPT !.lost = @ \/ isChange]
  /\ UNCHANGED <<tracker, gate, observer, watch>>

\* media_remains_current: poll, then go on or fail.
RemainsCurrent(t, d, place) ==
  \E result \in Poll(t, d) :
    /\ Effect(result)
    /\ IF Transitioned(result.tracker, reader.expected) THEN Return ELSE Continue(place)

Capture ==
  /\ reader.pc = "capture"
  /\ RemainsCurrent(NotedSense(tracker, reader.sense), drive, "reset")
  /\ UNCHANGED <<gate, observer, watch, history>>

\* The bus reset of a recovery, with the REQUEST SENSE that follows it.
ResetBus ==
  /\ reader.pc = "reset"
  /\ \E result \in RequestSense(tracker, drive) :
       RemainsCurrent(result.tracker, result.drive, "ready")
  /\ UNCHANGED <<gate, observer, watch, history>>

\* TEST UNIT READY until it succeeds, or START STOP UNIT, whose sense is noted
\* as well; after the last one the READ is tried all the same.
WaitReady ==
  /\ reader.pc = "ready"
  /\ LET ready == Report(drive) = "none"
         noted == IF ready THEN tracker ELSE NotedSense(tracker, Report(drive))
     IN \/ RemainsCurrent(noted, Answered(drive), IF ready THEN "ensure" ELSE "ready")
        \/ RemainsCurrent(noted, Answered(drive), "retry")
  /\ UNCHANGED <<gate, observer, watch, history>>

\* Neither ensure_xgd nor request_read_speed notes a sense: a unit attention
\* ends with their commands.
EnsureXgd ==
  /\ reader.pc = "ensure"
  /\ Continue("retry")
  /\ drive' = Answered(drive)
  /\ history' = [history EXCEPT !.lost = @ \/ drive.attention]
  /\ UNCHANGED <<tracker, gate, observer, watch>>

RetryRead ==
  /\ reader.pc = "retry"
  /\ \E result \in Poll(tracker, drive) :
       /\ Effect(result)
       /\ reader' = IF Transitioned(result.tracker, reader.expected)
                      THEN NotReading
                      ELSE [reader EXCEPT !.pc = "read", !.tries = @ + 1]
  /\ UNCHANGED <<gate, observer, watch, history>>

\* Whatever a recovery does ends at its deadline.
GiveUp ==
  /\ reader.pc \in InSource \ {"read"}
  /\ Return
  /\ history' = [history EXCEPT !.lost = @ \/ (reader.pc = "capture" /\ reader.sense = "changed")]
  /\ UNCHANGED <<drive, tracker, gate, observer, watch>>

\* request_cancelled once more, without the mutex.
Deliver ==
  /\ reader.pc = "deliver"
  /\ Return
  /\ UNCHANGED <<drive, tracker, gate, observer, watch, history>>

-----------------------------------------------------------------------------
(* The observer. *)

\* gdox_mmc_media_tracker_begin_session: events are dropped up to the first
\* poll that fails, which may note a sense.
BeginSession ==
  /\ observer.pc = "begin"
  /\ \E left \in 0 .. Len(drive.events) :
       LET dropped == SubSeq(drive.events, 1, Len(drive.events) - left)
           rest == SubSeq(drive.events, Len(drive.events) - left + 1, Len(drive.events))
           noted == IF \E i \in 1 .. Len(dropped) : dropped[i] # "eject_request"
                      THEN NotedChanged(tracker) ELSE tracker
       IN \E result \in RequestSense(noted, [drive EXCEPT !.events = rest]) :
            Effect([result EXCEPT !.tracker.event = "none"])
  /\ observer' = [observer EXCEPT !.pc = "baseline"]
  /\ UNCHANGED <<gate, reader, watch, history>>

\* gdox_mmc_observe_media: a poll, then TEST UNIT READY, which may fail.
Readied(t, d) ==
  (IF Report(d) = "none" THEN {[result |-> Result(FoundReady(t), d), readiness |-> "present"]} ELSE {})
  \cup {[result |-> Result(NotedSense(t, Report(d)), Answered(d)),
         readiness |-> IF Report(d) = "no_medium" THEN "absent" ELSE "unknown"]}

Observation(r) == [event |-> r.result.tracker.event, readiness |-> r.readiness,
                   generation |-> r.result.tracker.generation]

\* establish_media_baseline, while the session is being opened.
IsInvalidating(o) == o.readiness = "absent" \/ o.event # "none"

Baseline ==
  /\ observer.pc = "baseline"
  /\ \E polled \in Poll(tracker, drive) : \E r \in Readied(polled.tracker, polled.drive) :
       LET o == Observation(r)
       IN /\ Effect(r.result)
          /\ gate' = [invalid |-> IsInvalidating(o),
                      known |-> o.readiness = "present" /\ ~IsInvalidating(o),
                      generation |-> o.generation]
          /\ history' = [history EXCEPT !.base = o.generation,
                                        !.blind = @ \/ r.readiness # "present"]
  /\ observer' = [observer EXCEPT !.pc = "idle"]
  /\ UNCHANGED <<reader, watch>>

Observe ==
  /\ observer.pc = "idle" /\ watch.event = "none" /\ ~ReaderHolds
  /\ \E result \in Poll(tracker, drive) : Effect(result)
  /\ observer' = [observer EXCEPT !.pc = "ready"]
  /\ UNCHANGED <<gate, reader, watch, history>>

TestReady ==
  /\ observer.pc = "ready"
  /\ \E r \in Readied(tracker, drive) :
       /\ Effect(r.result)
       /\ observer' = [pc |-> "apply", seen |-> Observation(r),
                       disc |-> IF r.readiness = "present" THEN drive.disc ELSE 0]
  /\ UNCHANGED <<gate, reader, watch, history>>

\* apply_media_observation, after the mutex was released.
GateObserved(o) ==
  LET isPresent == o.readiness = "present"
  IN [invalid |-> \/ gate.invalid
                  \/ IsInvalidating(o)
                  \/ isPresent /\ gate.known /\ gate.generation # o.generation,
      known |-> gate.known \/ isPresent,
      generation |-> IF isPresent THEN o.generation ELSE gate.generation]

Apply ==
  /\ observer.pc = "apply"
  /\ gate' = GateObserved(observer.seen)
  /\ observer' = [observer EXCEPT !.pc = "watch"]
  /\ UNCHANGED <<drive, tracker, reader, watch, history>>

Watch ==
  /\ observer.pc = "watch"
  /\ watch' = WatchObserved(watch, observer.seen)
  /\ observer' = [observer EXCEPT !.pc = "idle", !.seen = Blank]
  /\ UNCHANGED <<drive, tracker, gate, reader, history>>

-----------------------------------------------------------------------------
(* The world.  An event may or may not be queued. *)

Queued(event) == {drive.events} \cup
  IF Len(drive.events) < MaxEvents THEN {Append(drive.events, event)} ELSE {}

Remove ==
  /\ drive.disc # 0 /\ drive.inserted < MaxInsertions
  /\ \E events \in Queued("removal") :
       drive' = [drive EXCEPT !.disc = 0, !.attention = FALSE, !.events = events]
  /\ UNCHANGED <<tracker, gate, reader, observer, watch, history>>

Insert ==
  /\ drive.disc = 0
  /\ \E events \in Queued("new_media") :
       drive' = [drive EXCEPT !.disc = SessionDisc + drive.inserted + 1, !.attention = TRUE,
                              !.events = events, !.inserted = @ + 1]
  /\ history' = [history EXCEPT !.blind = @ \/ observer.pc \in {"begin", "baseline"}]
  /\ UNCHANGED <<tracker, gate, reader, observer, watch>>

Press ==
  /\ drive.disc # 0 /\ drive.pressed < MaxPresses /\ Len(drive.events) < MaxEvents
  /\ drive' = [drive EXCEPT !.events = Append(@, "eject_request"), !.pressed = @ + 1]
  /\ UNCHANGED <<tracker, gate, reader, observer, watch, history>>

Reading == \/ StartRead \/ Lock \/ ReadCommand \/ Capture \/ ResetBus \/ WaitReady
           \/ EnsureXgd \/ RetryRead \/ GiveUp \/ Deliver
Observing == BeginSession \/ Baseline \/ Observe \/ TestReady \/ Apply \/ Watch
World == Remove \/ Insert \/ Press

Next == Reading \/ Observing \/ World

Spec == Init /\ [][Next]_vars

-----------------------------------------------------------------------------
(* Properties. *)

\* Until a change is known, no READ returns the sectors of a replacement:
\* the read that meets it notices, unless the disc was changed before the
\* session had a baseline or its report went to a command that notes nothing.
\* (recover_optical, media_remains_current)
ReplacementIsNoticed ==
  reader.got \notin {0, SessionDisc} =>
    \/ reader.expected # history.base
    \/ history.lost
    \/ history.blind

\* Once an observation has found a replacement ready, the session is over: the
\* read-ahead refuses every further read, whatever the worker's watch makes of
\* it.  (The watch alone would not do: its baseline is the first observation
\* after the session was opened, which may be of the replacement.)
\* (gdox_mmc_observe_media, establish_media_baseline, apply_media_observation)
SwapEndsSession ==
  observer.pc = "idle" /\ observer.disc \notin {0, SessionDisc} =>
    \/ gate.invalid
    \/ history.lost
    \/ history.blind

\* Both: whoever meets a replacement of the disc, a read or an observation, the
\* session does not go on with it.
ExchangeIsNoticed == TypeOK /\ ReplacementIsNoticed /\ SwapEndsSession
=============================================================================
