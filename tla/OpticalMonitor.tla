--------------------------- MODULE OpticalMonitor ---------------------------
(***************************************************************************)
(* The pure state machine between passive observation of an optical drive *)
(* and active initialization of the disc in it (src/app/optical_monitor.c).*)
(* A monitor is a record; every operator below is one function of the C   *)
(* module, taking the monitor before the call to the monitor after it.    *)
(***************************************************************************)
EXTENDS Naturals

CONSTANTS
  StableObservations,   \* present observations before an attempt
  RearmObservations,    \* empty observations that confirm a removal
  TransientRetryLimit   \* automatic retries of a transient failure

ASSUME MonitorAssumption ==
  /\ StableObservations \in Nat \ {0}
  /\ RearmObservations \in Nat \ {0}
  /\ TransientRetryLimit \in Nat

Monitors == [stable    : 0 .. StableObservations,
             rearm     : 0 .. RearmObservations,
             transient : 0 .. TransientRetryLimit,
             permitted : BOOLEAN,
             required  : BOOLEAN]

\* What one look at the drive reports (gdox_optical_presence): drive_present,
\* media_status_known and media_present fold to four values.
Presences == {"no_drive", "empty", "disc", "unknown_status"}
ReportsNoMedia(presence) == presence \in {"no_drive", "empty"}

Initialized == [stable |-> 0, rearm |-> 0, transient |-> 0,
                permitted |-> TRUE, required |-> FALSE]

Blocked == [Initialized EXCEPT !.permitted = FALSE]

SessionEnded == Initialized

EjectCompleted(completion) ==
  IF completion = "tray_ejected" THEN SessionEnded ELSE Blocked

Retried == [Initialized EXCEPT !.stable = StableObservations]

\* Bug variant: a failed look does not count.
ObservationIgnored(m) == m

ObservationFailed(m) == [m EXCEPT !.stable = 0]

\* Bug variant: one retry too many.
FailedOnceMore(m, failure) ==
  LET retries == failure = "transient" /\ m.transient <= TransientRetryLimit
  IN  [m EXCEPT !.stable = 0, !.rearm = 0, !.permitted = retries, !.required = ~retries,
                !.transient = IF @ < TransientRetryLimit THEN @ + 1 ELSE @]

Failed(m, failure) ==
  LET retries == failure = "transient" /\ m.transient < TransientRetryLimit
  IN  [stable    |-> 0,
       rearm     |-> 0,
       transient |-> IF retries THEN m.transient + 1 ELSE m.transient,
       permitted |-> retries,
       required  |-> ~retries]

\* Bug variant: a counter never reaches its limit.
SaturatedShort(count, limit) == IF count + 1 < limit THEN count + 1 ELSE count

Saturated(count, limit) == IF count < limit THEN count + 1 ELSE count

\* gdox_optical_monitor_observe returns whether to attempt the disc now.
ObservedEmpty(m) ==
  LET rearm == Saturated(m.rearm, RearmObservations)
  IN  IF rearm = RearmObservations
        THEN [Initialized EXCEPT !.rearm = rearm]
        ELSE [m EXCEPT !.stable = 0, !.rearm = rearm]

Dwelled(m) == Saturated(m.stable, StableObservations)

Attempts(m, presence) ==
  /\ ~ReportsNoMedia(presence)
  /\ m.permitted
  /\ Dwelled(m) = StableObservations

Observed(m, presence) ==
  IF ReportsNoMedia(presence)
    THEN ObservedEmpty(m)
    ELSE [m EXCEPT !.rearm = 0,
                   !.stable = Dwelled(m),
                   !.permitted = m.permitted /\ ~Attempts(m, presence)]

=============================================================================
