------------------------ MODULE MediaDiscoveryProofs ------------------------
(***************************************************************************)
(* The retry budget of a disc, proved of MediaDiscovery for every dwell,   *)
(* rearm and retry threshold and every set of drives; and that one process *)
(* has the drive, can be found and tells how it ended, proved of Desktop   *)
(* for every set of launches.  And that what is kept for the user is whole *)
(* and every call on it keeps its word, proved of PrivateFiles for every   *)
(* size of the files, every content and every number of disturbances.      *)
(***************************************************************************)
EXTENDS MCMediaDiscovery, Integers, SequenceTheorems, TLAPS

\* What a monitor and the record of what happened have in common: the
\* counters of the monitor never run ahead of what really happened, an armed
\* drive has counted every failed attempt, and a latched one is not armed.
Agree(m, h) ==
  /\ m \in Monitors /\ h \in Histories
  /\ m.stable <= h.seen
  /\ m.rearm <= h.gone
  /\ m.permitted => h.tries <= m.transient
  /\ h.tries <= TransientRetryLimit + 1
  /\ h.latched => ~m.permitted

KInv == /\ device \in Devices \cup {NoDevice}
        /\ session \in BOOLEAN
        /\ forceLaunch \in BOOLEAN
        /\ drive \in Drives
        /\ Agree(monitor, history)

-----------------------------------------------------------------------------
\* A counter that was reset or is full is in its range.
LEMMA CountersFit ==
  /\ 0 \in 0 .. StableObservations /\ StableObservations \in 0 .. StableObservations
  /\ 0 \in 0 .. RearmObservations /\ RearmObservations \in 0 .. RearmObservations
  /\ 0 \in 0 .. TransientRetryLimit /\ 0 \in 0 .. TransientRetryLimit + 2
  /\ 0 <= TransientRetryLimit + 1
  BY MonitorAssumption

\* The records a boundary starts from agree with each other.
LEMMA BoundariesAgree ==
  /\ Agree(Initialized, Forgotten)
  /\ Agree(Blocked, [Forgotten EXCEPT !.latched = TRUE])
  /\ Agree(Retried, Commanded)
  <1>1. Initialized \in Monitors /\ Blocked \in Monitors /\ Retried \in Monitors
    BY CountersFit DEF Initialized, Blocked, Retried, Monitors
  <1>2. /\ Forgotten \in Histories /\ Commanded \in Histories
        /\ [Forgotten EXCEPT !.latched = TRUE] \in Histories
    BY CountersFit DEF Forgotten, Commanded, Histories
  <1>3. 0 <= StableObservations /\ StableObservations <= StableObservations
    BY MonitorAssumption
  <1>4. Agree(Initialized, Forgotten)
    BY <1>1, <1>2, CountersFit DEF Agree, Initialized, Forgotten
  <1>5. Agree(Blocked, [Forgotten EXCEPT !.latched = TRUE])
    BY <1>1, <1>2, CountersFit DEF Agree, Blocked, Initialized, Forgotten
  <1>6. Agree(Retried, Commanded)
    BY <1>1, <1>2, <1>3, CountersFit DEF Agree, Retried, Initialized, Commanded, Forgotten
  <1> QED BY <1>4, <1>5, <1>6

\* A failed attempt is counted by both, and latches the disc exactly when it
\* leaves the drive unarmed for good.
LEMMA FailureAgrees ==
  ASSUME NEW m \in Monitors, NEW h \in Histories, NEW failure \in {"transient", "terminal"},
         h.tries <= m.transient
  PROVE  Agree(Failed(m, failure),
               [h EXCEPT !.tries   = @ + 1,
                         !.latched = failure = "terminal" \/ h.tries = TransientRetryLimit,
                         !.seen    = 0,
                         !.gone    = 0])
  <1> DEFINE f == Failed(m, failure)
             latches == failure = "terminal" \/ h.tries = TransientRetryLimit
             g == [h EXCEPT !.tries = @ + 1, !.latched = latches, !.seen = 0, !.gone = 0]
             retries == failure = "transient" /\ m.transient < TransientRetryLimit
  <1>1. m.transient \in 0 .. TransientRetryLimit /\ h.tries \in 0 .. TransientRetryLimit
    BY MonitorAssumption DEF Monitors, Histories
  <1>2. retries \in BOOLEAN /\ latches \in BOOLEAN /\ (latches => ~retries)
    BY <1>1, MonitorAssumption
  <1>3. /\ f.stable = 0 /\ f.rearm = 0 /\ f.permitted = retries /\ f.required = ~retries
        /\ f.transient = IF retries THEN m.transient + 1 ELSE m.transient
    BY DEF Failed
  <1>4. f.transient \in 0 .. TransientRetryLimit
    BY <1>1, <1>3, MonitorAssumption
  <1>5. f \in Monitors
    <2>1. f = [stable |-> 0, rearm |-> 0, transient |-> f.transient,
               permitted |-> retries, required |-> ~retries]
      BY DEF Failed
    <2> HIDE DEF f, retries
    <2>2. (~retries) \in BOOLEAN
      OBVIOUS
    <2>3. \A t \in 0 .. TransientRetryLimit, a \in BOOLEAN, b \in BOOLEAN :
            [stable |-> 0, rearm |-> 0, transient |-> t, permitted |-> a, required |-> b] \in Monitors
      BY CountersFit DEF Monitors
    <2> QED BY <1>2, <1>4, <2>1, <2>2, <2>3
  <1>6. h.tries + 1 \in 0 .. TransientRetryLimit + 2 /\ h.tries + 1 <= TransientRetryLimit + 1
    BY <1>1, MonitorAssumption
  <1>7. g \in Histories
    BY <1>2, <1>6, CountersFit DEF Histories
  <1>8. /\ g.seen = 0 /\ g.gone = 0 /\ g.tries = h.tries + 1 /\ g.latched = latches
    BY DEF Histories
  <1>9. retries => h.tries + 1 <= f.transient
    BY <1>1, <1>3, MonitorAssumption
  <1>10. f.stable <= g.seen /\ f.rearm <= g.gone
    BY <1>3, <1>8
  <1> HIDE DEF f, g, retries, latches
  <1>11. Agree(f, g)
    BY <1>2, <1>3, <1>5, <1>6, <1>7, <1>8, <1>9, <1>10 DEF Agree
  <1> QED BY <1>11 DEF f, g, latches

\* A session that fails at its end latches the disc whatever was counted.
LEMMA EndFailureAgrees ==
  ASSUME NEW m \in Monitors
  PROVE  Agree(Failed(m, "terminal"), [Forgotten EXCEPT !.latched = TRUE])
  <1> DEFINE f == Failed(m, "terminal")
  <1>1. f = [stable |-> 0, rearm |-> 0, transient |-> m.transient,
             permitted |-> FALSE, required |-> TRUE]
    BY DEF Failed
  <1>2. f \in Monitors
    <2>1. m.transient \in 0 .. TransientRetryLimit
      BY DEF Monitors
    <2>2. \A t \in 0 .. TransientRetryLimit, a \in BOOLEAN, b \in BOOLEAN :
            [stable |-> 0, rearm |-> 0, transient |-> t, permitted |-> a, required |-> b] \in Monitors
      BY CountersFit DEF Monitors
    <2> HIDE DEF f
    <2> QED BY <1>1, <2>1, <2>2
  <1>3. [Forgotten EXCEPT !.latched = TRUE] \in Histories
    BY CountersFit DEF Forgotten, Histories
  <1>4. /\ f.stable = 0 /\ f.rearm = 0 /\ ~f.permitted
        /\ [Forgotten EXCEPT !.latched = TRUE].seen = 0
        /\ [Forgotten EXCEPT !.latched = TRUE].gone = 0
        /\ [Forgotten EXCEPT !.latched = TRUE].tries = 0
    BY <1>1 DEF Forgotten
  <1> HIDE DEF f
  <1>5. Agree(f, [Forgotten EXCEPT !.latched = TRUE])
    BY <1>2, <1>3, <1>4, CountersFit DEF Agree
  <1> QED BY <1>5 DEF f

\* What the drive last resolved agrees with what is known of it.
LEMMA ResolvedAgrees == ASSUME KInv PROVE Agree(MonitorAtResolve, HistoryAtResolve)
  BY BoundariesAgree DEF KInv, MonitorAtResolve, HistoryAtResolve

\* A look that does not start an attempt keeps the two in agreement.
LEMMA LookAgrees ==
  ASSUME KInv
  PROVE  /\ HistoryAfterLook \in Histories
         /\ Observed(MonitorAtResolve, drive.presence) \in Monitors
         /\ ~Attempts(MonitorAtResolve, drive.presence)
              => Agree(Observed(MonitorAtResolve, drive.presence), HistoryAfterLook)
  <1> DEFINE m == MonitorAtResolve
             h == HistoryAtResolve
             p == drive.presence
  <1>1. Agree(m, h)
    BY ResolvedAgrees
  <1> HIDE DEF m, h
  <1>2. CASE ReportsNoMedia(p)
    <2>1. /\ Saturated(m.rearm, RearmObservations) \in 0 .. RearmObservations
          /\ Saturated(h.gone, RearmObservations) \in 0 .. RearmObservations
          /\ Saturated(m.rearm, RearmObservations) <= Saturated(h.gone, RearmObservations)
      BY <1>1, MonitorAssumption DEF Agree, Monitors, Histories, Saturated
    <2>2. HistoryAfterLook = IF Saturated(h.gone, RearmObservations) = RearmObservations
                               THEN [Forgotten EXCEPT !.gone = RearmObservations]
                               ELSE [h EXCEPT !.seen = 0, !.gone = Saturated(h.gone, RearmObservations)]
      BY <1>2 DEF HistoryAfterLook, h
    <2>3. Observed(m, p) = ObservedEmpty(m)
      BY <1>2 DEF Observed
    <2>4. Agree(ObservedEmpty(m), HistoryAfterLook)
      <3>1. CASE Saturated(m.rearm, RearmObservations) = RearmObservations
        <4>1. ObservedEmpty(m) = [Initialized EXCEPT !.rearm = RearmObservations]
          BY <3>1 DEF ObservedEmpty
        <4>2. Saturated(h.gone, RearmObservations) = RearmObservations
          BY <2>1, <3>1, MonitorAssumption
        <4>3. HistoryAfterLook = [Forgotten EXCEPT !.gone = RearmObservations]
          BY <2>2, <4>2
        <4>4. RearmObservations <= RearmObservations /\ 0 <= 0
          BY MonitorAssumption
        <4> QED BY <4>1, <4>3, <4>4, CountersFit
                DEF Agree, Initialized, Forgotten, Monitors, Histories
      <3>2. CASE /\ Saturated(m.rearm, RearmObservations) # RearmObservations
                 /\ Saturated(h.gone, RearmObservations) = RearmObservations
        <4> DEFINE r == Saturated(m.rearm, RearmObservations)
        <4>1. ObservedEmpty(m) = [m EXCEPT !.stable = 0, !.rearm = r]
          BY <3>2 DEF ObservedEmpty
        <4>2. HistoryAfterLook = [Forgotten EXCEPT !.gone = RearmObservations]
          BY <2>2, <3>2
        <4>3. [m EXCEPT !.stable = 0, !.rearm = r] \in Monitors
          BY <1>1, <2>1, CountersFit DEF Agree, Monitors
        <4>4. HistoryAfterLook \in Histories
          BY <4>2, CountersFit DEF Forgotten, Histories
        <4>5. r <= RearmObservations /\ 0 <= m.transient
          BY <1>1, <2>1, MonitorAssumption DEF Agree, Monitors
        <4>6. /\ ObservedEmpty(m).stable = 0 /\ ObservedEmpty(m).rearm = r
              /\ ObservedEmpty(m).transient = m.transient
          BY <1>1, <4>1 DEF Agree, Monitors
        <4>7. /\ HistoryAfterLook.seen = 0 /\ HistoryAfterLook.gone = RearmObservations
              /\ HistoryAfterLook.tries = 0 /\ ~HistoryAfterLook.latched
          BY <4>2 DEF Forgotten
        <4> HIDE DEF r
        <4> QED BY <4>1, <4>3, <4>4, <4>5, <4>6, <4>7, CountersFit DEF Agree
      <3>3. CASE /\ Saturated(m.rearm, RearmObservations) # RearmObservations
                 /\ Saturated(h.gone, RearmObservations) # RearmObservations
        <4> DEFINE r == Saturated(m.rearm, RearmObservations)
                   g == Saturated(h.gone, RearmObservations)
        <4>1. ObservedEmpty(m) = [m EXCEPT !.stable = 0, !.rearm = r]
          BY <3>3 DEF ObservedEmpty
        <4>2. HistoryAfterLook = [h EXCEPT !.seen = 0, !.gone = g]
          BY <2>2, <3>3
        <4>3. [m EXCEPT !.stable = 0, !.rearm = r] \in Monitors
          BY <1>1, <2>1, CountersFit DEF Agree, Monitors
        <4>4. [h EXCEPT !.seen = 0, !.gone = g] \in Histories
          BY <1>1, <2>1, CountersFit DEF Agree, Histories
        <4>5. /\ ObservedEmpty(m).stable = 0 /\ ObservedEmpty(m).rearm = r
              /\ ObservedEmpty(m).transient = m.transient
              /\ ObservedEmpty(m).permitted = m.permitted
          BY <1>1, <4>1 DEF Agree, Monitors
        <4>6. /\ HistoryAfterLook.seen = 0 /\ HistoryAfterLook.gone = g
              /\ HistoryAfterLook.tries = h.tries /\ HistoryAfterLook.latched = h.latched
          BY <1>1, <4>2 DEF Agree, Histories
        <4>7. r <= g
          BY <2>1
        <4> HIDE DEF r, g
        <4> QED BY <1>1, <4>1, <4>2, <4>3, <4>4, <4>5, <4>6, <4>7 DEF Agree
      <3> QED BY <3>1, <3>2, <3>3
    <2> QED BY <2>3, <2>4 DEF Agree, m
  <1>3. CASE ~ReportsNoMedia(p)
    <2>1. /\ Dwelled(m) \in 0 .. StableObservations
          /\ Saturated(h.seen, StableObservations) \in 0 .. StableObservations
          /\ Dwelled(m) <= Saturated(h.seen, StableObservations)
      BY <1>1, MonitorAssumption DEF Agree, Monitors, Histories, Saturated, Dwelled
    <2>2. HistoryAfterLook = [h EXCEPT !.gone = 0, !.seen = Saturated(h.seen, StableObservations)]
      BY <1>3 DEF HistoryAfterLook, h
    <2>3. \A permitted \in BOOLEAN :
            [m EXCEPT !.rearm = 0, !.stable = Dwelled(m), !.permitted = permitted] \in Monitors
      BY <1>1, <2>1, CountersFit DEF Agree, Monitors
    <2>4. Observed(m, p) = [m EXCEPT !.rearm = 0, !.stable = Dwelled(m),
                                     !.permitted = m.permitted /\ ~Attempts(m, p)]
      BY <1>3 DEF Observed
    <2>5. (m.permitted /\ ~Attempts(m, p)) \in BOOLEAN
      OBVIOUS
    <2>6. Observed(m, p) \in Monitors
      BY <2>3, <2>4, <2>5
    <2>7. HistoryAfterLook \in Histories
      BY <1>1, <2>1, <2>2, CountersFit DEF Agree, Histories
    <2>8. ASSUME ~Attempts(m, p) PROVE Agree(Observed(m, p), HistoryAfterLook)
      <3>1. Observed(m, p).permitted => m.permitted
        BY <1>1, <2>4 DEF Agree, Monitors
      <3>2. /\ Observed(m, p).stable = Dwelled(m) /\ Observed(m, p).rearm = 0
            /\ Observed(m, p).transient = m.transient
        BY <1>1, <2>4 DEF Agree, Monitors
      <3>3. /\ HistoryAfterLook.seen = Saturated(h.seen, StableObservations)
            /\ HistoryAfterLook.gone = 0
            /\ HistoryAfterLook.tries = h.tries /\ HistoryAfterLook.latched = h.latched
        BY <1>1, <2>2 DEF Agree, Histories
      <3> QED BY <1>1, <2>1, <2>6, <2>7, <3>1, <3>2, <3>3 DEF Agree
    <2> QED BY <2>6, <2>7, <2>8 DEF m
  <1> QED BY <1>2, <1>3

\* A disc that is tried was seen for a full dwell, and an attempt counts on
\* from the failed attempts there were.
LEMMA AttemptIsDue ==
  ASSUME KInv, Attempt
  PROVE  /\ HistoryAfterLook = [HistoryAtResolve EXCEPT !.gone = 0, !.seen = StableObservations]
         /\ HistoryAtResolve \in Histories
         /\ ~HistoryAtResolve.latched
         /\ Observed(MonitorAtResolve, drive.presence).transient = MonitorAtResolve.transient
         /\ HistoryAtResolve.tries <= MonitorAtResolve.transient
  <1> DEFINE m == MonitorAtResolve
             h == HistoryAtResolve
  <1>1. Agree(m, h)
    BY ResolvedAgrees
  <1>2. /\ ~ReportsNoMedia(drive.presence) /\ m.permitted
        /\ Saturated(m.stable, StableObservations) = StableObservations
    BY DEF Attempt, Attempts, Dwelled
  <1>3. HistoryAfterLook = [h EXCEPT !.gone = 0, !.seen = Saturated(h.seen, StableObservations)]
    BY <1>2 DEF HistoryAfterLook
  <1> HIDE DEF m, h
  <1>4. Saturated(h.seen, StableObservations) = StableObservations
    BY <1>1, <1>2, MonitorAssumption DEF Agree, Monitors, Histories, Saturated
  <1>5. Observed(m, drive.presence).transient = m.transient
    BY <1>1, <1>2 DEF Observed, Agree, Monitors
  <1> QED BY <1>1, <1>2, <1>3, <1>4, <1>5 DEF Agree, m, h

-----------------------------------------------------------------------------
\* KInv holds at first and is kept by every step.
THEOREM Discovery == Spec => []KInv
  <1>1. Init => KInv
    BY BoundariesAgree DEF Init, KInv
  <1>2. KInv /\ [Next]_vars => KInv'
    <2> SUFFICES ASSUME KInv, [Next]_vars PROVE KInv'
      OBVIOUS
    <2> USE DEF KInv
    <2>d. drive.device \in Devices
      BY DEF Drives
    <2>1. CASE DriveChanges
      BY <2>1 DEF DriveChanges
    <2>2. CASE ObserveUnresolved
      <3>1. Agree(ObservationFailed(monitor), [history EXCEPT !.seen = 0])
        BY MonitorAssumption DEF Agree, ObservationFailed, Monitors, Histories
      <3> QED BY <2>d, <2>2, <3>1 DEF ObserveUnresolved
    <2>3. CASE ObserveDrive
      BY <2>d, <2>3, LookAgrees DEF ObserveDrive
    <2>4. CASE Prepare
      <3>1. Attempt
        BY <2>4 DEF Prepare
      <3>2. Agree(Observed(MonitorAtResolve, drive.presence), [HistoryAfterLook EXCEPT !.tries = 0])
        <4> DEFINE m == Observed(MonitorAtResolve, drive.presence)
                   h == HistoryAtResolve
        <4>1. m \in Monitors /\ h \in Histories /\ ~h.latched
          BY <3>1, LookAgrees, AttemptIsDue
        <4>2. HistoryAfterLook = [h EXCEPT !.gone = 0, !.seen = StableObservations]
          BY <3>1, AttemptIsDue
        <4>3. m.rearm = 0
          BY <3>1, ResolvedAgrees DEF Attempt, Attempts, Observed, Agree, Monitors
        <4> HIDE DEF m, h
        <4> DEFINE g == [h EXCEPT !.gone = 0, !.seen = StableObservations, !.tries = 0]
        <4>4. [HistoryAfterLook EXCEPT !.tries = 0] = g
          BY <4>1, <4>2 DEF Histories
        <4>5. g \in Histories
          BY <4>1, CountersFit DEF Histories
        <4>6. m.stable <= StableObservations /\ 0 <= m.transient /\ 0 <= 0
          BY <4>1, MonitorAssumption DEF Monitors
        <4>7. g.seen = StableObservations /\ g.gone = 0 /\ g.tries = 0 /\ ~g.latched
          BY <4>1 DEF Histories
        <4> HIDE DEF g
        <4>8. Agree(m, g)
          BY <4>1, <4>3, <4>5, <4>6, <4>7, CountersFit DEF Agree
        <4> QED BY <4>4, <4>8 DEF m
      <3>3. Agree(monitor', history')
        BY <2>4, <3>2 DEF Prepare
      <3>4. session' = TRUE /\ forceLaunch' = FALSE /\ device' = drive.device /\ drive' = drive
        BY <2>4 DEF Prepare, Attempt
      <3> QED BY <2>d, <3>3, <3>4
    <2>5. CASE PrepareFails
      <3>1. PICK failure \in {"transient", "terminal"} : FailToPrepare(failure)
        BY <2>5 DEF PrepareFails
      <3>2. Attempt
        BY <3>1 DEF FailToPrepare
      <3> DEFINE m == Observed(MonitorAtResolve, drive.presence)
                 h == HistoryAfterLook
      <3>3. /\ m \in Monitors /\ h \in Histories
            /\ h.tries <= m.transient
            /\ h.tries = HistoryAtResolve.tries
        BY <3>2, LookAgrees, AttemptIsDue DEF Histories
      <3>4. monitor' = Failed(m, failure)
            /\ history' = [h EXCEPT
                 !.tries   = @ + 1,
                 !.latched = failure = "terminal" \/ HistoryAtResolve.tries = TransientRetryLimit,
                 !.seen    = 0,
                 !.gone    = 0]
        BY <3>1 DEF FailToPrepare
      <3> HIDE DEF m, h
      <3>5. Agree(monitor', history')
        BY <3>3, <3>4, FailureAgrees
      <3>6. forceLaunch' \in BOOLEAN /\ session' = session /\ device' = drive.device /\ drive' = drive
        BY <3>1 DEF FailToPrepare, Attempt
      <3> QED BY <2>d, <3>5, <3>6
    <2>6. CASE SessionEnds
      BY <2>6, BoundariesAgree, EndFailureAgrees DEF SessionEnds, EjectCompleted, SessionEnded, Agree
    <2>7. CASE StartCommand
      BY <2>7, BoundariesAgree DEF StartCommand
    <2>8. CASE SelectPhysical
      BY <2>8, BoundariesAgree DEF SelectPhysical
    <2>9. CASE UNCHANGED vars
      BY <2>9 DEF vars
    <2> QED BY <2>1, <2>2, <2>3, <2>4, <2>5, <2>6, <2>7, <2>8, <2>9 DEF Next, Observe
  <1> QED BY <1>1, <1>2, PTL DEF Spec

\* Every variable keeps its type.
THEOREM DiscoveryIsTyped == Spec => []TypeOK
  <1>1. KInv => TypeOK
    BY DEF KInv, Agree, TypeOK
  <1> QED BY Discovery, <1>1, PTL

\* A disc that keeps failing is initialized at most once more than the limit.
THEOREM RetriesAreBounded == Spec => []RetryBudget
  <1>1. KInv => RetryBudget
    BY DEF KInv, Agree, RetryBudget
  <1> QED BY Discovery, <1>1, PTL

\* A latched disc stays unarmed until a boundary.
THEOREM LatchIsKept == Spec => []LatchedDiscIsLeftAlone
  <1>1. KInv => LatchedDiscIsLeftAlone
    BY DEF KInv, Agree, LatchedDiscIsLeftAlone
  <1> QED BY Discovery, <1>1, PTL

\* A failing disc is tried a bounded number of times and then left alone.
THEOREM FailuresStayLimited == Spec => []FailuresAreLimited
  <1>1. KInv => FailuresAreLimited
    BY DEF KInv, Agree, FailuresAreLimited, RetryBudget, LatchedDiscIsLeftAlone
  <1> QED BY Discovery, <1>1, PTL

\* No attempt without a full dwell of looks that found the disc.
THEOREM DwellIsRespected == Spec => AttemptsFollowADwell
  <1>1. KInv /\ [Next]_vars => [Prepare \/ PrepareFails => HistoryAfterLook.seen = StableObservations]_vars
    <2> SUFFICES ASSUME KInv, Prepare \/ PrepareFails
                 PROVE  HistoryAfterLook.seen = StableObservations
      OBVIOUS
    <2>1. Attempt
      BY DEF Prepare, PrepareFails, FailToPrepare
    <2> QED BY <2>1, AttemptIsDue DEF Histories
  <1> QED BY Discovery, <1>1, PTL DEF Spec, AttemptsFollowADwell

-----------------------------------------------------------------------------
(* The desktop.  What a process has at a place of the code, whatever the   *)
(* others do: a runtime only in the loop and the shutdown, an outcome that *)
(* tells what failed, and a shutdown in progress while the code is in one. *)

Working == Desk!Looping \cup Desk!Closing
Ended   == Desk!Ending \cup {"unnamed", "silent"}

Outcome(a) == IF a.complete THEN ~a.runtime /\ (a.code = 1 \/ ~a.success <=> a.failed)
              ELSE a.code = 1 <=> a.failed

AppFits(x, a) ==
  /\ a.runtime => x \in Working
  /\ a.initialized => x \in Working \cup {"teardown"}
  /\ a.complete \/ x \in Working => a.initialized
  /\ a.progress <=> ~Desk!Posix /\ x \in Desk!Closing
  /\ Desk!Posix => ~a.complete
  /\ Outcome(a)
  /\ x \in Ended => (a.code = 1 <=> a.failed)
  /\ x = "urgent" => ~Desk!Posix /\ ~a.complete /\ a.nested # "none"

\* Who owns is alone, has the lock or the mutex, and is where its name leads.
GuardFits(p) ==
  /\ at[p] \in Desk!Owning => \A q \in Procs : at[q] \in Desk!Owning => q = p
  /\ at[p] \in Desk!Owning /\ Desk!Posix => holder = p
  /\ at[p] \in Desk!Owning \cup {"doubled"} /\ ~Desk!Posix => p \in handles
  /\ at[p] \in {"locked", "cleared", "bound"} => Desk!Posix
  /\ at[p] = "owned" => ~Desk!Posix
  /\ at[p] = "bound" => path = p
  /\ at[p] \in Desk!Serving => IF Desk!Posix THEN path = p /\ trusted ELSE p \in events

DeskInv == /\ at \in [Procs -> Desk!Places]
           /\ app \in [Procs -> Desk!Apps]
           /\ \A p \in Procs : AppFits(at[p], app[p]) /\ GuardFits(p)

\* Two records that differ in the window and the host only.
SameRun(a, b) ==
  /\ b \in Desk!Apps
  /\ b.runtime = a.runtime /\ b.initialized = a.initialized /\ b.progress = a.progress
  /\ b.complete = a.complete /\ b.success = a.success /\ b.callback = a.callback
  /\ b.nested = a.nested /\ b.code = a.code /\ b.failed = a.failed

\* How the parts of the code lie in each other.
LEMMA PlacesAreKnown ==
  /\ Desk!Looping \subseteq Desk!Serving /\ Desk!Closing \subseteq Desk!Serving
  /\ Desk!Starting \subseteq Desk!Serving
  /\ Desk!Serving \subseteq Desk!Owning /\ Desk!Owning \subseteq Desk!Places
  /\ Desk!Knocking \cap Desk!Owning = {} /\ {"out", "start"} \cap Desk!Owning = {}
  /\ Desk!Looping \cap Desk!Closing = {} /\ Working \cap Ended = {}
  BY SMT DEF Desk!Looping, Desk!Closing, Desk!Starting, Desk!Serving, Desk!Owning, Desk!Places,
         Desk!Knocking, Desk!Ending, Desk!Acquiring, Working, Ended

\* The window and the host do not touch the run.
LEMMA UpdatesKeep ==
  ASSUME NEW a \in Desk!Apps, NEW state \in {"visible", "hidden", "stopping"},
         NEW flag \in BOOLEAN, NEW other \in BOOLEAN, NEW event \in Desk!HostEvents
  PROVE  /\ SameRun(a, [a EXCEPT !.state = state])
         /\ SameRun(a, [a EXCEPT !.state = state, !.raise = flag])
         /\ SameRun(a, [a EXCEPT !.available = flag])
         /\ SameRun(a, [a EXCEPT !.available = flag, !.state = state])
         /\ SameRun(a, [a EXCEPT !.menu = event])
         /\ SameRun(a, [a EXCEPT !.slot = event])
         /\ SameRun(a, [a EXCEPT !.icon = flag])
         /\ SameRun(a, [a EXCEPT !.icon = flag, !.slot = event])
         /\ SameRun(a, [a EXCEPT !.icon = flag, !.reconnect = other, !.slot = event])
         /\ SameRun(a, [a EXCEPT !.reconnect = flag])
         /\ SameRun(a, [a EXCEPT !.signalled = flag])
         /\ SameRun(a, [a EXCEPT !.window = flag])
         /\ SameRun(a, [a EXCEPT !.window = flag, !.raise = other])
         /\ SameRun(a, [a EXCEPT !.handlers = flag])
  <1>1. SameRun(a, [a EXCEPT !.state = state])
    BY DEF Desk!Apps, SameRun
  <1>2. SameRun(a, [a EXCEPT !.state = state, !.raise = flag])
    BY DEF Desk!Apps, SameRun
  <1>3. SameRun(a, [a EXCEPT !.available = flag])
    BY DEF Desk!Apps, SameRun
  <1>4. SameRun(a, [a EXCEPT !.available = flag, !.state = state])
    BY DEF Desk!Apps, SameRun
  <1>5. SameRun(a, [a EXCEPT !.menu = event])
    BY DEF Desk!Apps, SameRun
  <1>6. SameRun(a, [a EXCEPT !.slot = event])
    BY DEF Desk!Apps, SameRun
  <1>7. SameRun(a, [a EXCEPT !.icon = flag])
    BY DEF Desk!Apps, SameRun
  <1>8. SameRun(a, [a EXCEPT !.icon = flag, !.slot = event])
    BY DEF Desk!Apps, SameRun
  <1>9. SameRun(a, [a EXCEPT !.icon = flag, !.reconnect = other, !.slot = event])
    BY DEF Desk!Apps, SameRun
  <1>10. SameRun(a, [a EXCEPT !.reconnect = flag])
    BY DEF Desk!Apps, SameRun
  <1>11. SameRun(a, [a EXCEPT !.signalled = flag])
    BY DEF Desk!Apps, SameRun
  <1>12. SameRun(a, [a EXCEPT !.window = flag])
    BY DEF Desk!Apps, SameRun
  <1>13. SameRun(a, [a EXCEPT !.window = flag, !.raise = other])
    BY DEF Desk!Apps, SameRun
  <1>14. SameRun(a, [a EXCEPT !.handlers = flag])
    BY DEF Desk!Apps, SameRun
  <1> QED BY <1>1, <1>2, <1>3, <1>4, <1>5, <1>6, <1>7, <1>8, <1>9, <1>10, <1>11, <1>12, <1>13, <1>14

\* Two updates of the window and the host are one.
LEMMA SameIsKept ==
  ASSUME NEW a, NEW b, NEW c, SameRun(a, b), SameRun(b, c)
  PROVE  SameRun(a, c)
  BY DEF SameRun

\* An action of the lifecycle does not touch the run.
LEMMA ApplyKeeps ==
  ASSUME NEW a \in Desk!Apps, NEW action \in Desk!HostEvents \cup {"closed"}
  PROVE  SameRun(a, Desk!Apply(a, action))
  <1>1. CASE a.state = "stopping"
    BY <1>1 DEF Desk!Apply, SameRun
  <1>2. CASE a.state # "stopping"
    <2>1. SameRun(a, a)
      BY DEF SameRun
    <2>2. a.state \in {"visible", "hidden", "stopping"} /\ a.available \in BOOLEAN
      BY DEF Desk!Apps
    <2>3. CASE action = "none"
      BY <1>2, <2>1, <2>3, Zenon DEF Desk!Apply
    <2>4. CASE action = "closed"
      <3>1. Desk!Apply(a, action)
              = [a EXCEPT !.state = IF a.available THEN "hidden" ELSE "stopping"]
        BY <1>2, <2>4 DEF Desk!Apply
      <3> QED BY <2>2, <3>1, UpdatesKeep DEF Desk!HostEvents
    <2>5. CASE action = "open"
      <3>1. Desk!Apply(a, action) = [a EXCEPT !.state = "visible", !.raise = TRUE]
        BY <1>2, <2>5 DEF Desk!Apply
      <3> QED BY <3>1, UpdatesKeep DEF Desk!HostEvents
    <2>6. CASE action = "quit"
      <3>1. Desk!Apply(a, action) = [a EXCEPT !.state = "stopping", !.raise = FALSE]
        BY <1>2, <2>6 DEF Desk!Apply
      <3> QED BY <3>1, UpdatesKeep DEF Desk!HostEvents
    <2>7. CASE action = "available"
      <3>1. Desk!Apply(a, action) = [a EXCEPT !.available = TRUE]
        BY <1>2, <2>7 DEF Desk!Apply
      <3> QED BY <3>1, UpdatesKeep DEF Desk!HostEvents
    <2>8. CASE action = "unavailable"
      <3>1. Desk!Apply(a, action)
              = [a EXCEPT !.available = FALSE,
                          !.state = IF a.state = "hidden" THEN "visible" ELSE a.state]
        BY <1>2, <2>8 DEF Desk!Apply
      <3>2. (IF a.state = "hidden" THEN "visible" ELSE a.state)
              \in {"visible", "hidden", "stopping"}
        BY <2>2
      <3> QED BY <3>1, <3>2, UpdatesKeep DEF Desk!HostEvents
    <2> QED BY <2>3, <2>4, <2>5, <2>6, <2>7, <2>8 DEF Desk!HostEvents
  <1> QED BY <1>1, <1>2

\* Taking the event of a poll does not touch the run.
LEMMA TakeKeeps ==
  ASSUME NEW a \in Desk!Apps
  PROVE  /\ SameRun(a, Desk!Take(a).app)
         /\ Desk!Take(a).event \in Desk!HostEvents
  <1>1. SameRun(a, [a EXCEPT !.menu = "none"]) /\ SameRun(a, [a EXCEPT !.slot = "none"])
    BY UpdatesKeep DEF Desk!HostEvents
  <1>2. a.menu \in Desk!HostEvents /\ a.slot \in Desk!HostEvents
    BY DEF Desk!Apps
  <1> QED BY <1>1, <1>2 DEF Desk!Take

\* Neither does polling the host, whatever it answers,
LEMMA PolledKeeps ==
  ASSUME NEW a \in Desk!Apps, NEW r \in Desk!Polled(a)
  PROVE  SameRun(a, r.app) /\ r.event \in Desk!HostEvents
  <1>1. SameRun(a, Desk!Registered(a))
    BY UpdatesKeep DEF Desk!Registered, Desk!HostEvents
  <1>2. SameRun(Desk!Registered(a), Desk!Take(Desk!Registered(a)).app)
        /\ Desk!Take(Desk!Registered(a)).event \in Desk!HostEvents
    BY <1>1, TakeKeeps DEF SameRun
  <1>3. SameRun(a, Desk!Take(Desk!Registered(a)).app)
    BY <1>1, <1>2, SameIsKept
  <1>4. CASE a.host = "none"
    <2>1. r = [app |-> a, event |-> "none"]
      BY <1>4 DEF Desk!Polled
    <2> QED BY <2>1 DEF SameRun, Desk!HostEvents
  <1>5. CASE a.host = "cut"
    <2>1. r = [app |-> [a EXCEPT !.icon = FALSE], event |-> "unavailable"]
      BY <1>5 DEF Desk!Polled
    <2>2. SameRun(a, [a EXCEPT !.icon = FALSE])
      BY UpdatesKeep DEF Desk!HostEvents
    <2> QED BY <2>1, <2>2 DEF Desk!HostEvents
  <1>6. CASE a.host = "up"
    <2>1. r = Desk!Take(a) \/ r = Desk!Take(Desk!Registered(a))
      BY <1>6 DEF Desk!Polled
    <2> QED BY <2>1, <1>2, <1>3, TakeKeeps
  <1>7. a.host \in {"none", "up", "cut"}
    BY DEF Desk!Apps
  <1> QED BY <1>4, <1>5, <1>6, <1>7

\* nor telling it the status,
LEMMA StatusKeeps ==
  ASSUME NEW a \in Desk!Apps, NEW b \in Desk!StatusSet(a)
  PROVE  SameRun(a, b)
  <1>1. b = a \/ b = [a EXCEPT !.icon = FALSE, !.slot = "unavailable"]
    BY DEF Desk!StatusSet
  <1>2. SameRun(a, a)
    BY DEF SameRun
  <1> QED BY <1>1, <1>2, UpdatesKeep DEF Desk!HostEvents

\* nor a message it handles on its own.
LEMMA MessagesKeep ==
  ASSUME NEW a \in Desk!Apps, NEW b \in Desk!Messages(a)
  PROVE  SameRun(a, b)
  <1>1. \E e \in Desk!HostEvents, flag \in BOOLEAN, other \in BOOLEAN :
          \/ b = a
          \/ b = [a EXCEPT !.slot = e]
          \/ b = [a EXCEPT !.menu = e]
          \/ b = [a EXCEPT !.icon = flag, !.slot = e]
          \/ b = [a EXCEPT !.icon = flag, !.reconnect = other, !.slot = e]
          \/ b = [a EXCEPT !.reconnect = flag]
    <2>1. a.icon \in BOOLEAN /\ a.reconnect \in BOOLEAN
      BY DEF Desk!Apps
    <2>2. CASE Desk!Posix
      <3>1. CASE b \in Desk!WatcherMessages(a)
        <4>1. \/ b = [a EXCEPT !.icon = FALSE, !.reconnect = FALSE, !.slot = "unavailable"]
              \/ b = [a EXCEPT !.reconnect = ~a.icon \/ a.reconnect]
          BY <3>1 DEF Desk!WatcherMessages
        <4>2. (~a.icon \/ a.reconnect) \in BOOLEAN
          BY <2>1
        <4> QED BY <4>1, <4>2 DEF Desk!HostEvents
      <3>2. CASE b \in Desk!ItemMessages(a)
        <4>1. b = a \/ b = [a EXCEPT !.slot = "open"]
          BY <3>2 DEF Desk!ItemMessages, Desk!ItemCalls, Desk!HandleItem
        <4> QED BY <4>1 DEF Desk!HostEvents
      <3>3. CASE b \in Desk!MenuMessages(a)
        <4>1. PICK m \in Desk!MenuCalls : b = Desk!HandleMenu(a, m)
          BY <3>3 DEF Desk!MenuMessages
        <4>2. m.item \in 0 .. 2
          BY DEF Desk!MenuCalls
        <4>3. \/ b = a
              \/ b = [a EXCEPT !.menu = "open"]
              \/ b = [a EXCEPT !.menu = "quit"]
          BY <4>1, <4>2 DEF Desk!HandleMenu, Desk!MenuEvent
        <4> QED BY <4>3 DEF Desk!HostEvents
      <3>4. \/ b \in Desk!WatcherMessages(a) \/ b \in Desk!ItemMessages(a)
            \/ b \in Desk!MenuMessages(a)
        BY <2>2 DEF Desk!Messages
      <3> QED BY <3>1, <3>2, <3>3, <3>4
    <2>3. CASE ~Desk!Posix
      <3>1. CASE b = Desk!TrayClicked(a) \/ b \in Desk!ShowTrayMenu(a)
        <4>1. b = a \/ \E e \in {"open", "quit"} : b = [a EXCEPT !.slot = e]
          BY <3>1 DEF Desk!TrayClicked, Desk!ShowTrayMenu
        <4> QED BY <4>1 DEF Desk!HostEvents
      <3>2. CASE b \in Desk!TaskbarCreated(a)
        <4>1. PICK installed \in BOOLEAN :
                b = [[a EXCEPT !.icon = installed] EXCEPT
                       !.slot = IF [a EXCEPT !.icon = installed].icon THEN "available"
                                ELSE "unavailable"]
          BY <3>2 DEF Desk!TaskbarCreated, Desk!InstallTrayIcon
        <4> DEFINE e == IF [a EXCEPT !.icon = installed].icon THEN "available"
                        ELSE "unavailable"
        <4>2. e \in Desk!HostEvents
          BY DEF Desk!HostEvents
        <4>3. b = [[a EXCEPT !.icon = installed] EXCEPT !.slot = e]
          BY <4>1
        <4> HIDE DEF e
        <4>4. b = [a EXCEPT !.icon = installed, !.slot = e]
          BY <4>3
        <4> QED BY <4>2, <4>4
      <3>3. b = Desk!TrayClicked(a) \/ b \in Desk!ShowTrayMenu(a) \/ b \in Desk!TaskbarCreated(a)
        BY <2>3 DEF Desk!Messages, Desk!TrayMessages
      <3> QED BY <3>1, <3>2, <3>3
    <2> QED BY <2>2, <2>3
  <1>2. PICK e \in Desk!HostEvents, flag \in BOOLEAN, other \in BOOLEAN :
          \/ b = a
          \/ b = [a EXCEPT !.slot = e]
          \/ b = [a EXCEPT !.menu = e]
          \/ b = [a EXCEPT !.icon = flag, !.slot = e]
          \/ b = [a EXCEPT !.icon = flag, !.reconnect = other, !.slot = e]
          \/ b = [a EXCEPT !.reconnect = flag]
    BY <1>1
  <1>3. "visible" \in {"visible", "hidden", "stopping"}
    OBVIOUS
  <1>4. /\ SameRun(a, [a EXCEPT !.slot = e]) /\ SameRun(a, [a EXCEPT !.menu = e])
        /\ SameRun(a, [a EXCEPT !.icon = flag, !.slot = e])
        /\ SameRun(a, [a EXCEPT !.icon = flag, !.reconnect = other, !.slot = e])
        /\ SameRun(a, [a EXCEPT !.reconnect = flag])
    BY <1>3, UpdatesKeep
  <1>5. SameRun(a, a)
    BY DEF SameRun
  <1> QED BY <1>2, <1>4, <1>5

\* What the code sets of the run, one assignment at a time.
LEMMA CodeIsSet ==
  ASSUME NEW a \in Desk!Apps, NEW n \in 0 .. 1
  PROVE  LET b == [a EXCEPT !.code = n]
         IN  /\ b \in Desk!Apps
             /\ b.runtime = a.runtime /\ b.initialized = a.initialized
             /\ b.progress = a.progress /\ b.complete = a.complete
             /\ b.success = a.success /\ b.failed = a.failed /\ b.code = n
  BY DEF Desk!Apps

\* The code and what it should tell, set together.
LEMMA FailureIsSet ==
  ASSUME NEW a \in Desk!Apps, NEW n \in 0 .. 1, NEW f \in BOOLEAN
  PROVE  LET b == [a EXCEPT !.code = n, !.failed = f]
         IN  /\ b \in Desk!Apps
             /\ b.runtime = a.runtime /\ b.initialized = a.initialized
             /\ b.progress = a.progress /\ b.complete = a.complete
             /\ b.success = a.success /\ b.failed = f /\ b.code = n
  BY DEF Desk!Apps

\* The quit that a callback leaves for the loop.
LEMMA CallbackEnds ==
  ASSUME NEW a \in Desk!Apps
  PROVE  LET b == [a EXCEPT !.slot = "quit", !.callback = "main"]
         IN  /\ b \in Desk!Apps
             /\ b.runtime = a.runtime /\ b.initialized = a.initialized
             /\ b.progress = a.progress /\ b.complete = a.complete
             /\ b.success = a.success /\ b.failed = a.failed /\ b.code = a.code
  <1>1. "quit" \in Desk!HostEvents
    BY DEF Desk!HostEvents
  <1> QED BY <1>1 DEF Desk!Apps

\* What fits a place does so whatever the window and the host do.
LEMMA SameFits ==
  ASSUME NEW a, NEW b, NEW x, SameRun(a, b), AppFits(x, a)
  PROVE  AppFits(x, b)
  BY DEF SameRun, AppFits, Outcome

\* Inside the start, or inside the loop, nothing else is asked of it.
LEMMA PlaceFits ==
  ASSUME NEW a \in Desk!Apps, NEW x, NEW y, AppFits(x, a),
         \/ x \in Desk!Looping /\ y \in Desk!Looping
         \/ x \in Desk!Starting /\ y \in Desk!Starting
  PROVE  AppFits(y, a)
  BY PlacesAreKnown DEF AppFits, Working, Desk!Looping, Desk!Starting, Ended,
                        Desk!Ending, Desk!Closing

\* A step of a serving process that leaves the guard alone.
LEMMA ServingStep ==
  ASSUME DeskInv, NEW p \in Procs, at[p] \in Desk!Serving,
         NEW x \in Desk!Serving, NEW b \in Desk!Apps, AppFits(x, b),
         at' = [at EXCEPT ![p] = x], app' = [app EXCEPT ![p] = b],
         UNCHANGED Desk!Unshared
  PROVE  DeskInv'
  <1>1. at' \in [Procs -> Desk!Places] /\ app' \in [Procs -> Desk!Apps]
    BY PlacesAreKnown DEF DeskInv
  <1>2. \A q \in Procs : /\ at'[q] = IF q = p THEN x ELSE at[q]
                         /\ app'[q] = IF q = p THEN b ELSE app[q]
    BY DEF DeskInv
  <1>3. x \in Desk!Owning /\ at[p] \in Desk!Owning
        /\ x \notin {"locked", "cleared", "bound", "owned", "doubled"}
    BY PlacesAreKnown DEF Desk!Serving, Desk!Starting, Desk!Looping, Desk!Closing, Desk!Ending
  <1>4. platform' = platform /\ holder' = holder /\ path' = path /\ trusted' = trusted
        /\ handles' = handles /\ events' = events
    BY DEF Desk!Unshared
  <1>5. ASSUME NEW q \in Procs PROVE AppFits(at[q], app[q])'
    BY <1>2, <1>4 DEF DeskInv, AppFits, Desk!Posix
  <1>6. ASSUME NEW q \in Procs PROVE GuardFits(q)'
    BY <1>2, <1>3, <1>4 DEF DeskInv, GuardFits, Desk!Posix
  <1> QED BY <1>1, <1>5, <1>6 DEF DeskInv

\* A step that changes the window and the host only.
LEMMA SameStep ==
  ASSUME DeskInv, NEW p \in Procs, NEW b, SameRun(app[p], b),
         app' = [app EXCEPT ![p] = b], UNCHANGED <<at, Desk!Unshared>>
  PROVE  DeskInv'
  <1>1. at' \in [Procs -> Desk!Places] /\ app' \in [Procs -> Desk!Apps]
    BY DEF DeskInv, SameRun
  <1>2. \A q \in Procs : at'[q] = at[q] /\ app'[q] = IF q = p THEN b ELSE app[q]
    BY DEF DeskInv
  <1>3. platform' = platform /\ holder' = holder /\ path' = path /\ trusted' = trusted
        /\ handles' = handles /\ events' = events /\ at' = at
    BY DEF Desk!Unshared
  <1>4. AppFits(at[p], b)
    BY SameFits DEF DeskInv
  <1>5. ASSUME NEW q \in Procs PROVE AppFits(at[q], app[q])'
    BY <1>2, <1>3, <1>4 DEF DeskInv, AppFits, Desk!Posix
  <1>6. ASSUME NEW q \in Procs PROVE GuardFits(q)'
    BY <1>3 DEF DeskInv, GuardFits, Desk!Posix
  <1> QED BY <1>1, <1>5, <1>6 DEF DeskInv

\* The same inside the start or inside the loop, from place to place.
LEMMA MoveStep ==
  ASSUME DeskInv, NEW p \in Procs, NEW y, NEW b, SameRun(app[p], b),
         \/ at[p] \in Desk!Looping /\ y \in Desk!Looping
         \/ at[p] \in Desk!Starting /\ y \in Desk!Starting,
         at' = [at EXCEPT ![p] = y], app' = [app EXCEPT ![p] = b],
         UNCHANGED Desk!Unshared
  PROVE  DeskInv'
  <1>1. b \in Desk!Apps /\ AppFits(at[p], b)
    BY SameFits DEF DeskInv, SameRun
  <1>2. AppFits(y, b)
    BY <1>1, PlaceFits
  <1> QED BY <1>1, <1>2, PlacesAreKnown, ServingStep

\* Leaving the loop, to the shutdown or past it.
LEMMA LeaveStep ==
  ASSUME DeskInv, NEW p \in Procs, at[p] \in Desk!Looping, Desk!Leave(p, app[p]),
         UNCHANGED Desk!Unshared
  PROVE  DeskInv'
  <1> DEFINE a == app[p]
  <1>1. a \in Desk!Apps /\ AppFits(at[p], a) /\ at[p] \in Desk!Serving
    BY PlacesAreKnown DEF DeskInv
  <1>2. at[p] \in Working /\ at[p] \notin Desk!Closing /\ at[p] \notin Ended
    BY PlacesAreKnown DEF Working
  <1>3. CASE ~Desk!Posix /\ a.complete
    <2> DEFINE b == [a EXCEPT !.code = IF a.success THEN a.code ELSE 1]
    <2>1. at' = [at EXCEPT ![p] = "teardown"] /\ app' = [app EXCEPT ![p] = b]
      BY <1>3 DEF Desk!Leave, Desk!Goto, Desk!Set
    <2>2. /\ b \in Desk!Apps
          /\ b.runtime = a.runtime /\ b.initialized = a.initialized
          /\ b.progress = a.progress /\ b.complete = a.complete
          /\ b.success = a.success /\ b.failed = a.failed
          /\ b.code = IF a.success THEN a.code ELSE 1
      BY <1>1 DEF Desk!Apps
    <2>3. "teardown" \in Desk!Serving /\ "teardown" \notin Working
          /\ "teardown" \notin Desk!Closing
      BY DEF Desk!Serving, Desk!Ending, Working, Desk!Looping, Desk!Closing
    <2>4. AppFits("teardown", b)
      BY <1>1, <1>2, <1>3, <2>2, <2>3 DEF AppFits, Outcome
    <2> HIDE DEF b
    <2> QED BY <1>1, <2>1, <2>2, <2>3, <2>4, ServingStep
  <1>4. CASE Desk!Posix \/ ~a.complete
    <2> DEFINE b == [a EXCEPT !.progress = ~Desk!Posix, !.callback = "main"]
    <2>1. at' = [at EXCEPT ![p] = "closing"] /\ app' = [app EXCEPT ![p] = b]
      BY <1>4 DEF Desk!Leave, Desk!Goto, Desk!Set
    <2>2. /\ b \in Desk!Apps
          /\ b.runtime = a.runtime /\ b.initialized = a.initialized
          /\ b.progress = ~Desk!Posix /\ b.complete = a.complete
          /\ b.success = a.success /\ b.failed = a.failed /\ b.code = a.code
      BY <1>1 DEF Desk!Apps, Desk!Posix
    <2>3. "closing" \in Desk!Serving /\ "closing" \in Working /\ "closing" \notin Ended
          /\ "closing" \in Desk!Closing
      BY DEF Desk!Serving, Desk!Ending, Ended, Working, Desk!Looping, Desk!Closing
    <2>4. AppFits("closing", b)
      BY <1>1, <1>2, <1>4, <2>2, <2>3 DEF AppFits, Outcome
    <2> HIDE DEF b
    <2> QED BY <1>1, <2>1, <2>2, <2>3, <2>4, ServingStep
  <1> QED BY <1>3, <1>4

\* The end of shutdown_application: its outcome becomes the exit code, unless a
\* callback nested in it has settled it already.
LEMMA ReturnedStep ==
  ASSUME DeskInv, NEW p \in Procs, at[p] \in {"closing", "closePoll"},
         NEW a \in Desk!Apps, NEW ok \in BOOLEAN, Desk!Returned(p, a, ok),
         ~a.runtime, a.initialized, a.progress <=> ~Desk!Posix,
         Desk!Posix => ~a.complete,
         IF a.complete THEN a.code = 1 \/ ~a.success <=> a.failed
                       ELSE a.code = 1 \/ ~ok <=> a.failed,
         UNCHANGED Desk!Unshared
  PROVE  DeskInv'
  <1>1. at[p] \in Desk!Serving
    BY DEF Desk!Serving, Desk!Closing
  <1>2. "teardown" \in Desk!Serving /\ "teardown" \notin Working
        /\ "teardown" \notin Desk!Closing
    BY DEF Desk!Serving, Desk!Ending, Working, Desk!Looping, Desk!Closing
  <1>3. CASE Desk!Posix
    <2> DEFINE b == [a EXCEPT !.code = IF ok THEN a.code ELSE 1]
    <2>1. at' = [at EXCEPT ![p] = "teardown"] /\ app' = [app EXCEPT ![p] = b]
      BY <1>3 DEF Desk!Returned, Desk!Goto, Desk!Set
    <2>2. /\ b \in Desk!Apps
          /\ b.runtime = a.runtime /\ b.initialized = a.initialized
          /\ b.progress = a.progress /\ b.complete = a.complete
          /\ b.failed = a.failed /\ b.code = IF ok THEN a.code ELSE 1
      <3>1. (IF ok THEN a.code ELSE 1) \in 0 .. 1
        BY DEF Desk!Apps
      <3> QED BY <3>1, CodeIsSet
    <2>3. AppFits("teardown", b)
      BY <1>2, <1>3, <2>2 DEF AppFits, Outcome
    <2> HIDE DEF b
    <2> QED BY <1>1, <1>2, <2>1, <2>2, <2>3, ServingStep
  <1>4. CASE ~Desk!Posix
    <2> DEFINE success == IF a.complete THEN a.success ELSE ok
               b == [a EXCEPT !.success = success, !.complete = TRUE, !.progress = FALSE]
    <2>1. success \in BOOLEAN /\ (a.code = 1 \/ ~success <=> a.failed)
      BY DEF Desk!Apps
    <2> HIDE DEF success
    <2>2. /\ b \in Desk!Apps
          /\ b.runtime = a.runtime /\ b.initialized = a.initialized
          /\ b.progress = FALSE /\ b.complete = TRUE /\ b.success = success
          /\ b.failed = a.failed /\ b.code = a.code /\ b.callback = a.callback
      BY <2>1 DEF Desk!Apps
    <2>3. a.code \in 0 .. 1 /\ a.callback \in {"main", "poll", "frame"}
      BY DEF Desk!Apps
    <2>4. CASE a.callback = "main"
      <3> DEFINE c == [b EXCEPT !.code = IF success THEN a.code ELSE 1]
      <3>1. at' = [at EXCEPT ![p] = "teardown"] /\ app' = [app EXCEPT ![p] = c]
        BY <1>4, <2>4 DEF Desk!Returned, Desk!Goto, Desk!Set, success
      <3> HIDE DEF b
      <3>2. /\ c \in Desk!Apps
            /\ c.runtime = a.runtime /\ c.initialized = a.initialized
            /\ c.progress = FALSE /\ c.complete = TRUE /\ c.success = success
            /\ c.failed = a.failed /\ c.code = IF success THEN a.code ELSE 1
        <4>1. (IF success THEN a.code ELSE 1) \in 0 .. 1
          BY <2>3
        <4> QED BY <4>1, <2>2, CodeIsSet
      <3>3. AppFits("teardown", c)
        BY <1>2, <1>4, <2>1, <3>2 DEF AppFits, Outcome
      <3> HIDE DEF c
      <3> QED BY <1>1, <1>2, <3>1, <3>2, <3>3, ServingStep
    <2>5. CASE a.callback # "main"
      <3> DEFINE c == [b EXCEPT !.slot = "quit", !.callback = "main"]
      <3>1. at' = [at EXCEPT ![p] = a.callback] /\ app' = [app EXCEPT ![p] = c]
        BY <1>4, <2>5 DEF Desk!Returned, Desk!Goto, Desk!Set, success
      <3> HIDE DEF b
      <3>2. /\ c \in Desk!Apps
            /\ c.runtime = a.runtime /\ c.initialized = a.initialized
            /\ c.progress = FALSE /\ c.complete = TRUE /\ c.success = success
            /\ c.failed = a.failed /\ c.code = a.code
        BY <2>2, CallbackEnds
      <3>3. /\ a.callback \in Desk!Looping /\ a.callback \in Working
            /\ a.callback \notin Desk!Closing /\ a.callback \notin Ended
            /\ a.callback # "urgent" /\ a.callback \in Desk!Serving
        BY <2>3, <2>5 DEF Desk!Looping, Working, Desk!Closing, Ended, Desk!Ending,
                          Desk!Serving
      <3>4. AppFits(a.callback, c)
        BY <1>4, <2>1, <3>2, <3>3 DEF AppFits, Outcome
      <3> HIDE DEF c
      <3> QED BY <1>1, <3>1, <3>2, <3>3, <3>4, ServingStep
    <2> QED BY <2>4, <2>5
  <1> QED BY <1>3, <1>4

-----------------------------------------------------------------------------
(* One lemma for each action that leaves the guard alone. *)

\* Creating the host keeps the invariant.
LEMMA CreateHostStep ==
  ASSUME DeskInv, NEW p \in Procs, Desk!CreateHost(p)
  PROVE  DeskInv'
  <1>1. PICK a \in IF Desk!Posix THEN Desk!LinuxHosts(app[p])
                   ELSE Desk!WindowsHosts(app[p]), startHidden \in BOOLEAN :
          app' = [app EXCEPT ![p] = Desk!Initialized(a, startHidden)]
    BY DEF Desk!CreateHost, Desk!Set
  <1>2. app[p] \in Desk!Apps
    BY DEF DeskInv
  <1>3. a \in Desk!Apps /\ SameRun(app[p], a)
    <2>1. \/ a = app[p]
          \/ a = [app[p] EXCEPT !.host = "up", !.icon = TRUE]
          \/ \E installed \in BOOLEAN, e \in Desk!HostEvents :
               a = [[app[p] EXCEPT !.icon = installed] EXCEPT !.host = "up", !.slot = e]
      <3>1. CASE a \in Desk!LinuxHosts(app[p])
        BY <3>1 DEF Desk!LinuxHosts
      <3>2. CASE a \in Desk!WindowsHosts(app[p])
        <4>1. CASE a # app[p]
          <5>1. PICK b \in Desk!InstallTrayIcon(app[p]) :
                  a = [b EXCEPT !.host = "up", !.slot = IF b.icon THEN @ ELSE "unavailable"]
            BY <3>2, <4>1 DEF Desk!WindowsHosts
          <5>2. PICK installed \in BOOLEAN : b = [app[p] EXCEPT !.icon = installed]
            BY DEF Desk!InstallTrayIcon
          <5>3. b.slot \in Desk!HostEvents
            BY <1>2, <5>2 DEF Desk!Apps
          <5> DEFINE e == IF b.icon THEN b.slot ELSE "unavailable"
          <5>4. e \in Desk!HostEvents
            BY <5>3 DEF Desk!HostEvents
          <5>5. a = [b EXCEPT !.host = "up", !.slot = e]
            BY <5>1
          <5> HIDE DEF e
          <5> QED BY <5>2, <5>4, <5>5
        <4> QED BY <4>1
      <3> QED BY <1>1, <3>1, <3>2
    <2>2. SameRun(app[p], app[p])
      BY <1>2 DEF SameRun
    <2>3. SameRun(app[p], [app[p] EXCEPT !.host = "up", !.icon = TRUE])
      BY <1>2 DEF Desk!Apps, SameRun
    <2>4. ASSUME NEW installed \in BOOLEAN, NEW e \in Desk!HostEvents
          PROVE  SameRun(app[p], [[app[p] EXCEPT !.icon = installed] EXCEPT
                                    !.host = "up", !.slot = e])
      BY <1>2 DEF Desk!Apps, SameRun
    <2>5. SameRun(app[p], a)
      BY <2>1, <2>2, <2>3, <2>4, Zenon
    <2> QED BY <2>5 DEF SameRun
  <1>4. SameRun(a, Desk!Initialized(a, startHidden))
    <2> DEFINE state == IF startHidden /\ a.host # "none" THEN "hidden" ELSE "visible"
               flag == a.host # "none"
    <2>1. state \in {"visible", "hidden", "stopping"} /\ flag \in BOOLEAN
      OBVIOUS
    <2>2. Desk!Initialized(a, startHidden)
            = [a EXCEPT !.available = flag, !.state = state]
      BY DEF Desk!Initialized
    <2> HIDE DEF state, flag
    <2>3. SameRun(a, [a EXCEPT !.available = flag, !.state = state])
      BY <1>3, <2>1, UpdatesKeep DEF Desk!HostEvents
    <2> QED BY <2>2, <2>3, Zenon
  <1>5. SameRun(app[p], Desk!Initialized(a, startHidden))
    BY <1>3, <1>4, SameIsKept
  <1>6. at[p] \in Desk!Starting /\ "hosted" \in Desk!Starting
        /\ at' = [at EXCEPT ![p] = "hosted"] /\ UNCHANGED Desk!Unshared
    BY DEF Desk!CreateHost, Desk!Starting, Desk!Goto, Desk!Unshared
  <1> QED BY <1>1, <1>5, <1>6, MoveStep

\* A process with nothing but the outcome left.
LEMMA OnlyOutcome ==
  ASSUME NEW n \in 0 .. 1, NEW f \in BOOLEAN, n = 1 <=> f, NEW x,
         x \notin Working
  PROVE  LET b == [Desk!Blank EXCEPT !.code = n, !.failed = f]
         IN  b \in Desk!Apps /\ AppFits(x, b)
  <1> DEFINE b == [Desk!Blank EXCEPT !.code = n, !.failed = f]
  <1>1. Desk!Blank \in Desk!Apps
    BY DEF Desk!Blank, Desk!Apps, Desk!HostEvents
  <1>2. /\ ~Desk!Blank.runtime /\ ~Desk!Blank.initialized /\ ~Desk!Blank.progress
        /\ ~Desk!Blank.complete
    BY DEF Desk!Blank
  <1>4. /\ b \in Desk!Apps
        /\ b.runtime = Desk!Blank.runtime /\ b.initialized = Desk!Blank.initialized
        /\ b.progress = Desk!Blank.progress /\ b.complete = Desk!Blank.complete
        /\ b.failed = f /\ b.code = n
    BY <1>1 DEF Desk!Apps
  <1>3. x # "urgent" /\ x \notin Desk!Closing
    BY DEF Working, Desk!Closing
  <1> HIDE DEF b
  <1>5. AppFits(x, b)
    BY <1>2, <1>3, <1>4 DEF AppFits, Outcome
  <1> QED BY <1>4, <1>5 DEF b

\* So does ending before there is a runtime,
LEMMA StartFailsStep ==
  ASSUME DeskInv, NEW p \in Procs, Desk!StartFails(p)
  PROVE  DeskInv'
  <1> DEFINE b == [Desk!Blank EXCEPT !.code = 1, !.failed = TRUE]
  <1>1. at' = [at EXCEPT ![p] = "leaving"] /\ app' = [app EXCEPT ![p] = b]
        /\ UNCHANGED Desk!Unshared
    BY DEF Desk!StartFails, Desk!Goto, Desk!Set, Desk!Unshared
  <1>2. "leaving" \in Desk!Serving /\ "leaving" \notin Working /\ at[p] \in Desk!Serving
    BY DEF Desk!StartFails, Desk!Serving, Desk!Ending, Desk!Starting, Working,
           Desk!Looping, Desk!Closing
  <1>3. b \in Desk!Apps /\ AppFits("leaving", b)
    <2>1. 1 \in 0 .. 1 /\ TRUE \in BOOLEAN /\ (1 = 1 <=> TRUE)
      OBVIOUS
    <2> QED BY <1>2, <2>1, OnlyOutcome, Zenon
  <1> HIDE DEF b
  <1> QED BY <1>1, <1>2, <1>3, ServingStep

\* opening the first window,
LEMMA FirstWindowStep ==
  ASSUME DeskInv, NEW p \in Procs, Desk!FirstWindow(p)
  PROVE  DeskInv'
  <1> DEFINE flag == app[p].state = "visible"
             b == [app[p] EXCEPT !.window = flag]
  <1>1. at' = [at EXCEPT ![p] = "windowed"] /\ app' = [app EXCEPT ![p] = b]
        /\ UNCHANGED Desk!Unshared
    BY DEF Desk!FirstWindow, Desk!Goto, Desk!Set, Desk!Unshared
  <1>2. "windowed" \in Desk!Starting /\ at[p] \in Desk!Starting
    BY DEF Desk!FirstWindow, Desk!Starting
  <1>3. SameRun(app[p], b)
    <2>1. flag \in BOOLEAN /\ app[p] \in Desk!Apps
      BY DEF DeskInv
    <2> HIDE DEF flag
    <2> QED BY <2>1, UpdatesKeep DEF Desk!HostEvents
  <1> HIDE DEF b
  <1> QED BY <1>1, <1>2, <1>3, MoveStep

\* and initializing the application: from here on there is a runtime.
LEMMA BeginStep ==
  ASSUME DeskInv, NEW p \in Procs, Desk!Begin(p)
  PROVE  DeskInv'
  <1>1. PICK created \in BOOLEAN :
          app' = [app EXCEPT ![p] = [[app[p] EXCEPT !.runtime = created]
                                       EXCEPT !.handlers = Desk!Posix, !.initialized = TRUE]]
    BY DEF Desk!Begin, Desk!AppInitialized, Desk!Set
  <1> DEFINE a == [app[p] EXCEPT !.runtime = created]
             b == [a EXCEPT !.handlers = Desk!Posix, !.initialized = TRUE]
  <1>2. app[p] \in Desk!Apps /\ AppFits("windowed", app[p]) /\ at[p] = "windowed"
    BY DEF DeskInv, Desk!Begin
  <1>3. /\ a \in Desk!Apps /\ a.runtime = created /\ a.progress = app[p].progress
        /\ a.complete = app[p].complete /\ a.success = app[p].success
        /\ a.code = app[p].code /\ a.failed = app[p].failed
    BY <1>2 DEF Desk!Apps
  <1>4. Desk!Posix \in BOOLEAN
    BY DEF Desk!Posix
  <1> HIDE DEF a
  <1>5. /\ b \in Desk!Apps /\ b.runtime = a.runtime /\ b.progress = a.progress
        /\ b.complete = a.complete /\ b.success = a.success /\ b.initialized = TRUE
        /\ b.code = a.code /\ b.failed = a.failed
    BY <1>3, <1>4 DEF Desk!Apps
  <1>6. /\ "windowed" \notin Working \cup {"teardown"} /\ "windowed" \notin Desk!Closing
        /\ "top" \in Working /\ "top" \notin Desk!Closing /\ "top" \notin Ended
        /\ "top" \in Desk!Serving /\ "windowed" \in Desk!Serving
    BY DEF Working, Desk!Looping, Desk!Closing, Ended, Desk!Ending, Desk!Serving,
           Desk!Starting
  <1>7. AppFits("top", b)
    BY <1>2, <1>3, <1>5, <1>6 DEF AppFits, Outcome
  <1>8. at' = [at EXCEPT ![p] = "top"] /\ app' = [app EXCEPT ![p] = b]
        /\ UNCHANGED Desk!Unshared
    BY <1>1 DEF a, Desk!Begin, Desk!Goto, Desk!Unshared
  <1> HIDE DEF b
  <1> QED BY <1>2, <1>5, <1>6, <1>7, <1>8, ServingStep

\* What reaches the host between two steps of main keeps the invariant,
LEMMA HostMessageStep ==
  ASSUME DeskInv, NEW p \in Procs, Desk!HostMessage(p)
  PROVE  DeskInv'
  <1>1. PICK b \in Desk!Messages(app[p]) : app' = [app EXCEPT ![p] = b]
    BY DEF Desk!HostMessage, Desk!Set
  <1>2. SameRun(app[p], b)
    BY MessagesKeep DEF DeskInv
  <1>3. UNCHANGED <<at, Desk!Unshared>>
    BY DEF Desk!HostMessage, Desk!Unshared
  <1> QED BY <1>1, <1>2, <1>3, SameStep

\* so does losing the bus,
LEMMA ConnectionLostStep ==
  ASSUME DeskInv, NEW p \in Procs, Desk!ConnectionLost(p)
  PROVE  DeskInv'
  <1> DEFINE b == [app[p] EXCEPT !.host = "cut"]
  <1>1. app' = [app EXCEPT ![p] = b] /\ UNCHANGED <<at, Desk!Unshared>>
    BY DEF Desk!ConnectionLost, Desk!Set, Desk!Unshared
  <1>2. app[p] \in Desk!Apps
    BY DEF DeskInv
  <1>3. SameRun(app[p], b)
    BY <1>2 DEF Desk!Apps, SameRun
  <1> HIDE DEF b
  <1> QED BY <1>1, <1>3, SameStep

\* and so does a signal.
LEMMA TerminateStep ==
  ASSUME DeskInv, NEW p \in Procs, Desk!Terminate(p)
  PROVE  DeskInv'
  <1> DEFINE b == [app[p] EXCEPT !.signalled = TRUE]
  <1>1. app' = [app EXCEPT ![p] = b] /\ UNCHANGED <<at, Desk!Unshared>>
    BY DEF Desk!Terminate, Desk!Set, Desk!Unshared
  <1>2. SameRun(app[p], b)
    BY UpdatesKeep DEF DeskInv, Desk!HostEvents
  <1> HIDE DEF b
  <1> QED BY <1>1, <1>2, SameStep

\* The head of the loop: stopping, a signal, a knock or nothing.
LEMMA TopStep ==
  ASSUME DeskInv, NEW p \in Procs, Desk!Top(p)
  PROVE  DeskInv'
  <1>1. /\ at[p] = "top" /\ at[p] \in Desk!Looping /\ UNCHANGED Desk!Unshared
        /\ app[p] \in Desk!Apps
    BY DEF DeskInv, Desk!Top, Desk!Looping, Desk!Unshared
  <1>2. CASE app[p].state = "stopping"
    BY <1>1, <1>2, LeaveStep DEF Desk!Top
  <1>3. CASE app[p].state # "stopping" /\ app[p].signalled
    <2>1. SameRun(app[p], Desk!Apply(app[p], "quit"))
      BY <1>1, ApplyKeeps DEF Desk!HostEvents
    <2>2. app' = [app EXCEPT ![p] = Desk!Apply(app[p], "quit")] /\ at' = at
      BY <1>3 DEF Desk!Top, Desk!Set
    <2> QED BY <1>1, <2>1, <2>2, SameStep
  <1>4. CASE app[p].state # "stopping" /\ ~app[p].signalled
    <2> DEFINE e == IF Desk!Mailbox(p) \in mail THEN "open" ELSE "none"
               a == Desk!Apply(app[p], e)
    <2>1. SameRun(app[p], a)
      <3>1. e \in Desk!HostEvents \cup {"closed"}
        BY DEF Desk!HostEvents
      <3> HIDE DEF e
      <3> QED BY <1>1, <3>1, ApplyKeeps
    <2>2. \E b \in {a} \cup Desk!StatusSet(a), y \in {"decide", "poll"} :
            at' = [at EXCEPT ![p] = y] /\ app' = [app EXCEPT ![p] = b]
      BY <1>4 DEF Desk!Top, Desk!Goto, Desk!Set
    <2> HIDE DEF a
    <2>3. PICK b \in {a} \cup Desk!StatusSet(a), y \in {"decide", "poll"} :
            at' = [at EXCEPT ![p] = y] /\ app' = [app EXCEPT ![p] = b]
      BY <2>2
    <2>4. SameRun(app[p], b)
      <3>1. CASE b = a
        BY <2>1, <3>1
      <3>2. CASE b \in Desk!StatusSet(a)
        <4>1. a \in Desk!Apps
          BY <2>1 DEF SameRun
        <4>2. SameRun(a, b)
          BY <3>2, <4>1, StatusKeeps
        <4> QED BY <2>1, <4>2, SameIsKept
      <3> QED BY <3>1, <3>2
    <2>5. y \in Desk!Looping
      BY DEF Desk!Looping
    <2> QED BY <1>1, <2>3, <2>4, <2>5, MoveStep
  <1> QED BY <1>2, <1>3, <1>4

\* The event of the poll is applied.
LEMMA PollStep ==
  ASSUME DeskInv, NEW p \in Procs, Desk!Poll(p)
  PROVE  DeskInv'
  <1>1. PICK r \in Desk!Polled(app[p]) :
          app' = [app EXCEPT ![p] = Desk!Apply(r.app, r.event)]
    BY DEF Desk!Poll, Desk!Set
  <1>2. SameRun(app[p], r.app) /\ r.event \in Desk!HostEvents
    BY PolledKeeps DEF DeskInv
  <1>3. SameRun(r.app, Desk!Apply(r.app, r.event))
    BY <1>2, ApplyKeeps DEF SameRun
  <1>4. SameRun(app[p], Desk!Apply(r.app, r.event))
    BY <1>2, <1>3, SameIsKept
  <1>5. /\ at[p] \in Desk!Looping /\ "decide" \in Desk!Looping
        /\ at' = [at EXCEPT ![p] = "decide"] /\ UNCHANGED Desk!Unshared
    BY DEF Desk!Poll, Desk!Looping, Desk!Goto, Desk!Unshared
  <1> QED BY <1>1, <1>4, <1>5, MoveStep

\* The loop leaves, hides or shows; a window that cannot be shown is a failure
\* the exit code tells.
LEMMA DecideStep ==
  ASSUME DeskInv, NEW p \in Procs, Desk!Decide(p)
  PROVE  DeskInv'
  <1> DEFINE a == app[p]
  <1>1. /\ at[p] = "decide" /\ at[p] \in Desk!Looping /\ UNCHANGED Desk!Unshared
        /\ a \in Desk!Apps /\ AppFits("decide", a)
    BY DEF DeskInv, Desk!Decide, Desk!Looping, Desk!Unshared
  <1>2. "top" \in Desk!Looping /\ "frame" \in Desk!Looping
    BY DEF Desk!Looping
  <1>3. CASE Desk!Leave(p, app[p])
    BY <1>1, <1>3, LeaveStep
  <1>4. CASE Desk!Goto(p, "top") /\ Desk!Set(p, [app[p] EXCEPT !.window = FALSE])
    <2>1. SameRun(a, [a EXCEPT !.window = FALSE])
      BY <1>1, UpdatesKeep DEF Desk!HostEvents
    <2> QED BY <1>1, <1>2, <1>4, <2>1, MoveStep DEF Desk!Goto, Desk!Set
  <1>5. CASE /\ Desk!Goto(p, "frame")
             /\ Desk!Set(p, [app[p] EXCEPT !.window = TRUE, !.raise = FALSE])
    <2>1. SameRun(a, [a EXCEPT !.window = TRUE, !.raise = FALSE])
      BY <1>1, UpdatesKeep DEF Desk!HostEvents
    <2> QED BY <1>1, <1>2, <1>5, <2>1, MoveStep DEF Desk!Goto, Desk!Set
  <1>6. CASE /\ Desk!Goto(p, "top")
             /\ Desk!Set(p, Desk!Apply([app[p] EXCEPT !.code = 1, !.failed = TRUE], "quit"))
    <2> DEFINE c == [a EXCEPT !.code = 1, !.failed = TRUE]
               b == Desk!Apply(c, "quit")
    <2>1. /\ c \in Desk!Apps
          /\ c.runtime = a.runtime /\ c.initialized = a.initialized
          /\ c.progress = a.progress /\ c.complete = a.complete
          /\ c.success = a.success /\ c.failed = TRUE /\ c.code = 1
      <3>1. 1 \in 0 .. 1 /\ TRUE \in BOOLEAN
        OBVIOUS
      <3> QED BY <1>1, <3>1, FailureIsSet, Zenon
    <2>2. at' = [at EXCEPT ![p] = "top"] /\ app' = [app EXCEPT ![p] = b]
      BY <1>6 DEF Desk!Goto, Desk!Set
    <2> HIDE DEF c
    <2>3. SameRun(c, b)
      BY <2>1, ApplyKeeps DEF Desk!HostEvents
    <2>4. "decide" \in Working /\ "decide" \notin Desk!Closing /\ "decide" \notin Ended
      BY <1>1, PlacesAreKnown DEF Working
    <2>5. AppFits("decide", c)
      BY <1>1, <2>1, <2>4 DEF AppFits, Outcome
    <2>6. AppFits("decide", b) /\ b \in Desk!Apps
      BY <2>3, <2>5, SameFits DEF SameRun
    <2> HIDE DEF b
    <2>7. AppFits("top", b)
      BY <1>1, <1>2, <2>6, PlaceFits
    <2> QED BY <1>1, <1>2, <2>2, <2>6, <2>7, PlacesAreKnown, ServingStep
  <1> QED BY <1>3, <1>4, <1>5, <1>6 DEF Desk!Decide

\* A frame, or the close of the window.
LEMMA FrameStep ==
  ASSUME DeskInv, NEW p \in Procs, Desk!Frame(p)
  PROVE  DeskInv'
  <1>1. PICK action \in {"none", "closed", "quit"} :
          app' = [app EXCEPT ![p] = Desk!Apply(app[p], action)]
    BY DEF Desk!Frame, Desk!Set
  <1>2. SameRun(app[p], Desk!Apply(app[p], action))
    BY ApplyKeeps DEF DeskInv, Desk!HostEvents
  <1>3. /\ at[p] \in Desk!Looping /\ "top" \in Desk!Looping
        /\ at' = [at EXCEPT ![p] = "top"] /\ UNCHANGED Desk!Unshared
    BY DEF Desk!Frame, Desk!Looping, Desk!Goto, Desk!Unshared
  <1> QED BY <1>1, <1>2, <1>3, MoveStep

\* What a call of gdox_app_shutdown leaves.
LEMMA ShutLeaves ==
  ASSUME NEW a \in Desk!Apps, NEW result \in Desk!Results(a)
  PROVE  /\ Desk!Shut(a, result) \in Desk!Apps
         /\ Desk!Shut(a, result).runtime = (a.runtime /\ result = "retry")
         /\ Desk!Shut(a, result).failed = (a.failed \/ result = "error")
         /\ Desk!Shut(a, result).initialized = a.initialized
         /\ Desk!Shut(a, result).progress = a.progress
         /\ Desk!Shut(a, result).complete = a.complete
         /\ Desk!Shut(a, result).success = a.success
         /\ Desk!Shut(a, result).code = a.code
         /\ Desk!Shut(a, result).nested = a.nested
         /\ result \in {"destroyed", "error", "retry"}
         /\ ~a.runtime => result = "destroyed"
  <1> DEFINE flag == a.runtime /\ result = "retry"
             other == a.failed \/ result = "error"
             b == [a EXCEPT !.runtime = flag, !.failed = other]
  <1>1. flag \in BOOLEAN /\ other \in BOOLEAN
    OBVIOUS
  <1>2. Desk!Shut(a, result) = b
    BY DEF Desk!Shut
  <1>3. result \in {"destroyed", "error", "retry"} /\ (~a.runtime => result = "destroyed")
    BY DEF Desk!Results
  <1> HIDE DEF flag, other
  <1>4. /\ b \in Desk!Apps
        /\ b.runtime = flag /\ b.failed = other
        /\ b.initialized = a.initialized /\ b.progress = a.progress
        /\ b.complete = a.complete /\ b.success = a.success /\ b.code = a.code
        /\ b.nested = a.nested
    BY <1>1 DEF Desk!Apps
  <1> HIDE DEF b
  <1> QED BY <1>2, <1>3, <1>4, Zenon DEF flag, other

\* From place to place inside an ordinary shutdown.
LEMMA ClosingFits ==
  ASSUME NEW a \in Desk!Apps, NEW x \in Desk!Closing, AppFits(x, a),
         NEW y \in {"closing", "closePoll", "closeFrame"}
  PROVE  AppFits(y, a)
  <1>1. /\ y \in Desk!Closing /\ y \in Working /\ x \in Working
        /\ y \notin Ended /\ y # "urgent"
    BY DEF Desk!Closing, Working, Ended, Desk!Ending
  <1> QED BY <1>1 DEF AppFits

\* One call of gdox_app_shutdown by the ordinary shutdown.
LEMMA CloseStep ==
  ASSUME DeskInv, NEW p \in Procs, Desk!Close(p)
  PROVE  DeskInv'
  <1>1. /\ at[p] = "closing" /\ UNCHANGED Desk!Unshared
        /\ app[p] \in Desk!Apps /\ AppFits("closing", app[p])
    BY DEF DeskInv, Desk!Close, Desk!Unshared
  <1>2. /\ "closing" \in Desk!Closing /\ "closing" \in Working
        /\ "closing" \in Desk!Serving /\ "closePoll" \in Desk!Serving
    BY DEF Desk!Closing, Working, Desk!Serving
  <1>3. PICK result \in Desk!Results(app[p]) :
          IF result = "retry"
          THEN /\ Desk!Goto(p, "closePoll")
               /\ Desk!Set(p, Desk!Shut(app[p], result))
          ELSE Desk!Returned(p, Desk!Shut(app[p], result), result = "destroyed")
    BY DEF Desk!Close
  <1> DEFINE a == Desk!Shut(app[p], result)
             ok == result = "destroyed"
  <1>4. /\ a \in Desk!Apps
        /\ a.runtime <=> app[p].runtime /\ result = "retry"
        /\ a.failed <=> app[p].failed \/ result = "error"
        /\ a.initialized = app[p].initialized /\ a.progress = app[p].progress
        /\ a.complete = app[p].complete /\ a.success = app[p].success
        /\ a.code = app[p].code
        /\ result \in {"destroyed", "error", "retry"}
        /\ ~app[p].runtime => result = "destroyed"
    BY <1>1, ShutLeaves
  <1> HIDE DEF a
  <1>5. CASE result = "retry"
    <2>1. AppFits("closing", a)
      BY <1>1, <1>2, <1>4, <1>5 DEF AppFits, Outcome, Ended, Desk!Ending
    <2>2. AppFits("closePoll", a)
      BY <1>2, <1>4, <2>1, ClosingFits
    <2>3. at' = [at EXCEPT ![p] = "closePoll"] /\ app' = [app EXCEPT ![p] = a]
      BY <1>3, <1>5 DEF a, Desk!Goto, Desk!Set
    <2> QED BY <1>1, <1>2, <1>4, <2>2, <2>3, ServingStep
  <1>6. CASE result # "retry"
    <2>1. ok \in BOOLEAN /\ (ok <=> result # "error")
      BY <1>4, <1>6
    <2>2. Desk!Returned(p, a, ok)
      BY <1>3, <1>6 DEF a
    <2> HIDE DEF ok
    <2>3. ~a.runtime /\ a.initialized /\ (a.progress <=> ~Desk!Posix)
          /\ (Desk!Posix => ~a.complete)
      BY <1>1, <1>2, <1>4, <1>6 DEF AppFits
    <2>4. IF a.complete THEN a.code = 1 \/ ~a.success <=> a.failed
                        ELSE a.code = 1 \/ ~ok <=> a.failed
      BY <1>1, <1>4, <1>6, <2>1 DEF AppFits, Outcome
    <2> QED BY <1>1, <1>4, <2>1, <2>2, <2>3, <2>4, ReturnedStep
  <1> QED BY <1>5, <1>6

\* The poll between two calls: a callback in it may have finished the shutdown,
\* and then its outcome stands.
LEMMA ClosePollStep ==
  ASSUME DeskInv, NEW p \in Procs, Desk!ClosePoll(p)
  PROVE  DeskInv'
  <1>1. /\ at[p] = "closePoll" /\ UNCHANGED Desk!Unshared
        /\ app[p] \in Desk!Apps /\ AppFits("closePoll", app[p])
    BY DEF DeskInv, Desk!ClosePoll, Desk!Unshared
  <1>2. "closePoll" \in Desk!Closing /\ "closePoll" \in Working
    BY DEF Desk!Closing, Working
  <1>3. PICK r \in Desk!Polled(app[p]) :
          IF ~r.app.runtime THEN Desk!Returned(p, r.app, TRUE)
          ELSE /\ Desk!Goto(p, IF r.app.window THEN "closeFrame" ELSE "closing")
               /\ \E b \in Desk!StatusSet(r.app) : Desk!Set(p, b)
    BY DEF Desk!ClosePoll
  <1> DEFINE a == r.app
  <1>4. SameRun(app[p], a) /\ a \in Desk!Apps /\ AppFits("closePoll", a)
    <2>1. SameRun(app[p], a)
      BY <1>1, PolledKeeps
    <2> QED BY <1>1, <2>1, SameFits DEF SameRun
  <1>5. CASE ~a.runtime
    <2>1. Desk!Returned(p, a, TRUE)
      BY <1>3, <1>5
    <2> HIDE DEF a
    <2>2. a.initialized /\ (a.progress <=> ~Desk!Posix) /\ (Desk!Posix => ~a.complete)
      BY <1>2, <1>4 DEF AppFits
    <2>3. IF a.complete THEN a.code = 1 \/ ~a.success <=> a.failed
                        ELSE a.code = 1 \/ ~TRUE <=> a.failed
      BY <1>4 DEF AppFits, Outcome
    <2> QED BY <1>1, <1>4, <1>5, <2>1, <2>2, <2>3, ReturnedStep
  <1>6. CASE a.runtime
    <2>1. PICK b \in Desk!StatusSet(a) : app' = [app EXCEPT ![p] = b]
      BY <1>3, <1>6 DEF Desk!Set
    <2>2. PICK y \in {"closeFrame", "closing"} : at' = [at EXCEPT ![p] = y]
      BY <1>3, <1>6 DEF Desk!Goto
    <2> HIDE DEF a
    <2>3. SameRun(a, b)
      BY <1>4, StatusKeeps
    <2>4. b \in Desk!Apps /\ AppFits("closePoll", b)
      BY <1>4, <2>3, SameFits DEF SameRun
    <2>5. AppFits(y, b)
      BY <1>2, <2>4, ClosingFits
    <2>6. at[p] \in Desk!Serving /\ y \in Desk!Serving
      BY <1>1 DEF Desk!Serving, Desk!Closing
    <2> QED BY <1>1, <2>1, <2>2, <2>4, <2>5, <2>6, ServingStep
  <1> QED BY <1>5, <1>6

\* The frame between two calls.
LEMMA CloseFrameStep ==
  ASSUME DeskInv, NEW p \in Procs, Desk!CloseFrame(p)
  PROVE  DeskInv'
  <1>1. /\ at[p] = "closeFrame" /\ app[p] \in Desk!Apps /\ AppFits("closeFrame", app[p])
        /\ at' = [at EXCEPT ![p] = "closing"] /\ app' = [app EXCEPT ![p] = app[p]]
        /\ UNCHANGED Desk!Unshared
    BY DEF DeskInv, Desk!CloseFrame, Desk!Goto, Desk!Unshared
  <1>2. /\ "closeFrame" \in Desk!Closing /\ at[p] \in Desk!Serving
        /\ "closing" \in Desk!Serving
    BY <1>1 DEF Desk!Serving, Desk!Closing
  <1>3. AppFits("closing", app[p])
    BY <1>1, <1>2, ClosingFits
  <1> QED BY <1>1, <1>2, <1>3, ServingStep

\* The end of the session: a quit for the loop, the shutdown, or the end of the
\* one it interrupts, in which the process can only be polling or drawing.
LEMMA SessionEndsStep ==
  ASSUME DeskInv, NEW p \in Procs, Desk!SessionEnds(p)
  PROVE  DeskInv'
  <1> DEFINE a == app[p]
  <1>1. /\ a \in Desk!Apps /\ AppFits(at[p], a) /\ ~Desk!Posix
        /\ at[p] \in {"poll", "closePoll", "windowed", "frame", "closeFrame"}
        /\ UNCHANGED Desk!Unshared
    BY DEF DeskInv, Desk!SessionEnds, Desk!Pumping, Desk!Unshared
  <1>2. CASE at' = at /\ Desk!Set(p, [app[p] EXCEPT !.slot = "quit"])
    <2>1. SameRun(a, [a EXCEPT !.slot = "quit"])
      BY <1>1, UpdatesKeep DEF Desk!HostEvents
    <2> QED BY <1>1, <1>2, <2>1, SameStep DEF Desk!Set
  <1>3. CASE /\ a.initialized /\ ~a.complete /\ a.progress
             /\ Desk!Goto(p, "urgent") /\ Desk!Set(p, [app[p] EXCEPT !.nested = at[p]])
    <2> DEFINE x == at[p]
               b == [a EXCEPT !.nested = x]
    <2>1. x \in Desk!Closing /\ x \in {"closePoll", "closeFrame"}
      BY <1>1, <1>3 DEF AppFits, Desk!Closing
    <2>2. at' = [at EXCEPT ![p] = "urgent"] /\ app' = [app EXCEPT ![p] = b]
      BY <1>3 DEF Desk!Goto, Desk!Set
    <2>3. x \in Working /\ "urgent" \in Desk!Closing /\ "urgent" \in Working
          /\ "urgent" \notin Ended /\ x \in Desk!Serving /\ "urgent" \in Desk!Serving
      BY <2>1 DEF Working, Desk!Closing, Ended, Desk!Ending, Desk!Serving
    <2>4. a \in Desk!Apps /\ AppFits(x, a)
      BY <1>1
    <2> HIDE DEF x, a
    <2>5. /\ b \in Desk!Apps
          /\ b.runtime = a.runtime /\ b.initialized = a.initialized
          /\ b.progress = a.progress /\ b.complete = a.complete
          /\ b.success = a.success /\ b.code = a.code /\ b.failed = a.failed
          /\ b.nested = x
      BY <2>1, <2>4 DEF Desk!Apps
    <2> HIDE DEF b
    <2>6. AppFits("urgent", b)
      BY <1>1, <1>3, <2>1, <2>3, <2>4, <2>5 DEF AppFits, Outcome
    <2> QED BY <1>1, <2>2, <2>3, <2>5, <2>6, ServingStep DEF x
  <1>4. CASE /\ a.initialized /\ ~a.complete /\ ~a.progress
             /\ Desk!Goto(p, "closing")
             /\ Desk!Set(p, [app[p] EXCEPT !.progress = TRUE, !.callback = at[p]])
    <2> DEFINE x == at[p]
               b == [a EXCEPT !.progress = TRUE, !.callback = x]
    <2>1. x \in {"poll", "frame"}
      BY <1>1, <1>4 DEF AppFits, Working, Desk!Looping, Desk!Closing
    <2>2. at' = [at EXCEPT ![p] = "closing"] /\ app' = [app EXCEPT ![p] = b]
      BY <1>4 DEF Desk!Goto, Desk!Set
    <2>3. x \in Working /\ "closing" \in Desk!Closing /\ "closing" \in Working
          /\ "closing" \notin Ended /\ x \in Desk!Serving /\ "closing" \in Desk!Serving
      BY <2>1 DEF Working, Desk!Looping, Desk!Closing, Ended, Desk!Ending, Desk!Serving
    <2>4. a \in Desk!Apps /\ AppFits(x, a)
      BY <1>1
    <2> HIDE DEF x, a
    <2>5. /\ b \in Desk!Apps
          /\ b.runtime = a.runtime /\ b.initialized = a.initialized
          /\ b.progress = TRUE /\ b.complete = a.complete
          /\ b.success = a.success /\ b.code = a.code /\ b.failed = a.failed
      BY <2>1, <2>4 DEF Desk!Apps
    <2> HIDE DEF b
    <2>6. AppFits("closing", b)
      BY <1>1, <1>4, <2>1, <2>3, <2>4, <2>5 DEF AppFits, Outcome
    <2> QED BY <1>1, <2>2, <2>3, <2>5, <2>6, ServingStep DEF x
  <1> QED BY <1>2, <1>3, <1>4 DEF Desk!SessionEnds

\* The nested shutdown ends without returning to the outer one before it is done.
LEMMA UrgentStep ==
  ASSUME DeskInv, NEW p \in Procs, Desk!Urgent(p)
  PROVE  DeskInv'
  <1>1. /\ at[p] = "urgent" /\ UNCHANGED Desk!Unshared
        /\ app[p] \in Desk!Apps /\ AppFits("urgent", app[p])
    BY DEF DeskInv, Desk!Urgent, Desk!Unshared
  <1>2. /\ "urgent" \in Desk!Closing /\ "urgent" \in Working /\ "urgent" \in Desk!Serving
        /\ "urgent" \notin Ended
    BY DEF Desk!Closing, Working, Desk!Serving, Ended, Desk!Ending
  <1>3. PICK result \in Desk!Results(app[p]) :
          LET a == Desk!Shut(app[p], result)
          IN  IF result = "retry" THEN Desk!Set(p, a) /\ at' = at
              ELSE /\ Desk!Goto(p, a.nested)
                   /\ Desk!Set(p, [a EXCEPT !.success = result = "destroyed",
                                            !.complete = TRUE,
                                            !.slot = "quit", !.nested = "none"])
    BY DEF Desk!Urgent
  <1> DEFINE a == Desk!Shut(app[p], result)
             ok == result = "destroyed"
             b == [a EXCEPT !.success = ok, !.complete = TRUE, !.slot = "quit",
                            !.nested = "none"]
  <1>4. /\ a \in Desk!Apps
        /\ a.runtime <=> app[p].runtime /\ result = "retry"
        /\ a.failed <=> app[p].failed \/ result = "error"
        /\ a.initialized = app[p].initialized /\ a.progress = app[p].progress
        /\ a.complete = app[p].complete /\ a.success = app[p].success
        /\ a.code = app[p].code /\ a.nested = app[p].nested
        /\ result \in {"destroyed", "error", "retry"}
        /\ ~app[p].runtime => result = "destroyed"
    BY <1>1, ShutLeaves
  <1>5. CASE result = "retry"
    <2>1. app' = [app EXCEPT ![p] = a] /\ at' = [at EXCEPT ![p] = "urgent"]
      BY <1>1, <1>3, <1>5 DEF Desk!Set, DeskInv
    <2> HIDE DEF a
    <2>2. AppFits("urgent", a)
      BY <1>1, <1>2, <1>4, <1>5 DEF AppFits, Outcome
    <2> QED BY <1>1, <1>2, <1>4, <2>1, <2>2, ServingStep
  <1>6. CASE result # "retry"
    <2> DEFINE y == a.nested
    <2>1. app' = [app EXCEPT ![p] = b] /\ at' = [at EXCEPT ![p] = y]
      BY <1>3, <1>6 DEF Desk!Goto, Desk!Set
    <2>2. ok \in BOOLEAN /\ (ok <=> result # "error")
      BY <1>4, <1>6
    <2> HIDE DEF a, ok
    <2>3. y \in {"closePoll", "closeFrame"}
      BY <1>1, <1>4 DEF AppFits, Desk!Apps
    <2>4. /\ b \in Desk!Apps
          /\ b.runtime = a.runtime /\ b.initialized = a.initialized
          /\ b.progress = a.progress /\ b.complete = TRUE
          /\ b.success = ok /\ b.code = a.code /\ b.failed = a.failed
      <3>1. "quit" \in Desk!HostEvents
        BY DEF Desk!HostEvents
      <3> QED BY <1>4, <2>2, <3>1 DEF Desk!Apps
    <2>5. /\ y \in Desk!Closing /\ y \in Working /\ y \notin Ended /\ y # "urgent"
          /\ y \in Desk!Serving
      BY <2>3 DEF Desk!Closing, Working, Ended, Desk!Ending, Desk!Serving
    <2> HIDE DEF b, y
    <2>6. AppFits(y, b)
      BY <1>1, <1>2, <1>4, <1>6, <2>2, <2>4, <2>5 DEF AppFits, Outcome
    <2> QED BY <1>1, <1>2, <2>1, <2>4, <2>5, <2>6, ServingStep
  <1> QED BY <1>5, <1>6

\* Only the outcome outlives the teardown.
LEMMA TeardownStep ==
  ASSUME DeskInv, NEW p \in Procs, Desk!Teardown(p)
  PROVE  DeskInv'
  <1> DEFINE n == app[p].code
             f == app[p].failed
             b == [Desk!Blank EXCEPT !.code = n, !.failed = f]
  <1>1. /\ at[p] = "teardown" /\ app[p] \in Desk!Apps /\ AppFits("teardown", app[p])
        /\ at' = [at EXCEPT ![p] = "leaving"] /\ app' = [app EXCEPT ![p] = b]
        /\ UNCHANGED Desk!Unshared
    BY DEF DeskInv, Desk!Teardown, Desk!Goto, Desk!Set, Desk!Unshared
  <1>2. /\ "teardown" \in Ended /\ at[p] \in Desk!Serving /\ "leaving" \in Desk!Serving
        /\ "leaving" \notin Working
    BY <1>1 DEF Ended, Desk!Ending, Desk!Serving, Working, Desk!Looping, Desk!Closing
  <1>3. n \in 0 .. 1 /\ f \in BOOLEAN /\ (n = 1 <=> f)
    BY <1>1, <1>2 DEF AppFits, Desk!Apps
  <1> HIDE DEF n, f
  <1>4. b \in Desk!Apps /\ AppFits("leaving", b)
    BY <1>2, <1>3, OnlyOutcome
  <1> HIDE DEF b
  <1> QED BY <1>1, <1>2, <1>4, ServingStep

-----------------------------------------------------------------------------
(* One lemma for each action of the guard. *)

\* At the guard a process has an outcome only.
LEMMA GuardPlaceFits ==
  ASSUME NEW a \in Desk!Apps, NEW x, NEW y, AppFits(x, a),
         x \notin Working \cup {"teardown"}, y \notin Working
  PROVE  AppFits(y, a)
  <1>1. y # "urgent" /\ y \notin Desk!Closing /\ x \notin Desk!Closing
    BY DEF Working, Desk!Closing
  <1>2. ~a.complete /\ ~a.initialized
    BY DEF AppFits
  <1>3. a.code = 1 <=> a.failed
    BY <1>2 DEF AppFits, Outcome
  <1> QED BY <1>1, <1>2, <1>3 DEF AppFits, Outcome

\* A process without anything fits everywhere outside the loop and the shutdown.
LEMMA BlankFits ==
  ASSUME NEW x, x \notin Working
  PROVE  Desk!Blank \in Desk!Apps /\ AppFits(x, Desk!Blank)
  <1>1. Desk!Blank \in Desk!Apps
    BY DEF Desk!Blank, Desk!Apps, Desk!HostEvents
  <1>2. /\ ~Desk!Blank.runtime /\ ~Desk!Blank.initialized /\ ~Desk!Blank.progress
        /\ ~Desk!Blank.complete /\ ~Desk!Blank.failed /\ Desk!Blank.code = 0
    BY DEF Desk!Blank
  <1>3. x # "urgent" /\ x \notin Desk!Closing
    BY DEF Working, Desk!Closing
  <1>4. AppFits(x, Desk!Blank)
    BY <1>2, <1>3 DEF AppFits, Outcome
  <1> QED BY <1>1, <1>4

\* A step of one process, the guard of everybody given.
LEMMA GuardStep ==
  ASSUME DeskInv, NEW p \in Procs, NEW y \in Desk!Places, NEW b \in Desk!Apps,
         AppFits(y, b), at' = [at EXCEPT ![p] = y], app' = [app EXCEPT ![p] = b],
         platform' = platform, \A q \in Procs : GuardFits(q)'
  PROVE  DeskInv'
  <1>1. at' \in [Procs -> Desk!Places] /\ app' \in [Procs -> Desk!Apps]
    BY DEF DeskInv
  <1>2. \A q \in Procs : /\ at'[q] = IF q = p THEN y ELSE at[q]
                         /\ app'[q] = IF q = p THEN b ELSE app[q]
    BY DEF DeskInv
  <1>3. ASSUME NEW q \in Procs PROVE AppFits(at[q], app[q])'
    BY <1>2 DEF DeskInv, AppFits, Desk!Posix
  <1> QED BY <1>1, <1>3 DEF DeskInv

\* The same when it does nothing else.
LEMMA GuardMove ==
  ASSUME DeskInv, NEW p \in Procs, NEW y \in Desk!Places,
         at[p] \notin Working \cup {"teardown"}, y \notin Working,
         at' = [at EXCEPT ![p] = y], app' = app,
         platform' = platform, \A q \in Procs : GuardFits(q)'
  PROVE  DeskInv'
  <1>1. app[p] \in Desk!Apps /\ AppFits(at[p], app[p])
        /\ app' = [app EXCEPT ![p] = app[p]]
    BY DEF DeskInv
  <1>2. AppFits(y, app[p])
    BY <1>1, GuardPlaceFits
  <1> HIDE DEF DeskInv
  <1> QED BY <1>1, <1>2, GuardStep

\* Whatever ends a process gives up what is its own and nothing else.
LEMMA OutStep ==
  ASSUME DeskInv, NEW p \in Procs, Desk!Out(p)
  PROVE  DeskInv'
  <1>1. /\ at' = [at EXCEPT ![p] = "out"] /\ app' = [app EXCEPT ![p] = Desk!Blank]
        /\ platform' = platform /\ trusted' = trusted
        /\ holder' = (IF holder = p THEN NoProc ELSE holder)
        /\ path' = (IF path = p THEN Stale ELSE path)
        /\ handles' = handles \ {p} /\ events' = events \ {p}
    BY DEF Desk!Out, Desk!Goto, Desk!Set
  <1>2. "out" \in Desk!Places /\ "out" \notin Working /\ "out" \notin Desk!Owning
        /\ "out" \notin Desk!Serving
    BY PlacesAreKnown DEF Desk!Places, Working, Desk!Looping, Desk!Closing
  <1>3. \A q \in Procs : at'[q] = IF q = p THEN "out" ELSE at[q]
    BY <1>1 DEF DeskInv
  <1>4. ASSUME NEW q \in Procs PROVE GuardFits(q)'
    <2>1. CASE q = p
      BY <1>2, <1>3, <2>1 DEF GuardFits
    <2>2. CASE q # p
      <3>1. GuardFits(q)
        BY DEF DeskInv
      <3> QED BY <1>1, <1>2, <1>3, <2>2, <3>1 DEF GuardFits, Desk!Posix
    <2> QED BY <2>1, <2>2
  <1>5. Desk!Blank \in Desk!Apps /\ AppFits("out", Desk!Blank)
    BY <1>2, BlankFits
  <1> QED BY <1>1, <1>2, <1>4, <1>5, GuardStep

\* Where the guard's steps begin and end.
LEMMA GuardPlaces ==
  /\ \A x \in {"out", "start", "locked", "cleared", "bound", "owned", "guarded",
               "leaving", "unnamed", "silent", "doubled", "knocking", "sending"} :
        x \in Desk!Places /\ x \notin Working \cup {"teardown"}
  /\ \A x \in {"out", "start", "doubled", "knocking", "sending"} :
        x \notin Desk!Owning /\ x \notin Desk!Serving
  /\ \A x \in {"locked", "cleared", "bound", "owned", "unnamed", "silent"} :
        x \in Desk!Owning /\ x \notin Desk!Serving
  /\ \A x \in {"guarded", "leaving"} : x \in Desk!Owning /\ x \in Desk!Serving
  BY SMT DEF Desk!Places, Working, Desk!Looping, Desk!Closing, Desk!Owning, Desk!Acquiring,
         Desk!Serving, Desk!Starting, Desk!Ending, Desk!Knocking

\* A launch has nothing yet.
LEMMA LaunchStep ==
  ASSUME DeskInv, NEW p \in Procs, Desk!Launch(p)
  PROVE  DeskInv'
  <1>1. /\ at[p] = "out" /\ at' = [at EXCEPT ![p] = "start"] /\ app' = app
        /\ platform' = platform /\ trusted' = trusted /\ holder' = holder
        /\ path' = path /\ handles' = handles /\ events' = events
    BY DEF Desk!Launch, Desk!Goto
  <1>2. \A q \in Procs : at'[q] = IF q = p THEN "start" ELSE at[q]
    BY <1>1 DEF DeskInv
  <1>3. ASSUME NEW q \in Procs PROVE GuardFits(q)'
    <2>1. GuardFits(q)
      BY DEF DeskInv
    <2> QED BY <1>1, <1>2, <2>1, GuardPlaces DEF GuardFits, Desk!Posix
  <1> QED BY <1>1, <1>3, GuardPlaces, GuardMove

\* The lock is free only when nobody owns.
LEMMA TakeLockStep ==
  ASSUME DeskInv, NEW p \in Procs, Desk!TakeLock(p)
  PROVE  DeskInv'
  <1>1. /\ at[p] = "start" /\ app' = app /\ Desk!Posix
        /\ platform' = platform /\ trusted' = trusted
        /\ path' = path /\ handles' = handles /\ events' = events
    BY DEF Desk!TakeLock
  <1>2. CASE holder = NoProc
    <2>1. holder' = p /\ at' = [at EXCEPT ![p] = "locked"]
      BY <1>2 DEF Desk!TakeLock, Desk!Goto
    <2>2. \A q \in Procs : at'[q] = IF q = p THEN "locked" ELSE at[q]
      BY <2>1 DEF DeskInv
    <2>3. \A q \in Procs : GuardFits(q) /\ at[q] \notin Desk!Owning
      BY <1>1, <1>2, DesktopIsBounded DEF DeskInv, GuardFits, Desk!DesktopAssumption
    <2>4. ASSUME NEW q \in Procs PROVE GuardFits(q)'
      BY <1>1, <2>1, <2>2, <2>3, GuardPlaces, PlacesAreKnown DEF GuardFits, Desk!Posix
    <2> QED BY <1>1, <2>1, <2>4, GuardPlaces, GuardMove
  <1>3. CASE holder # NoProc
    <2>1. holder' = holder /\ at' = [at EXCEPT ![p] = "knocking"]
      BY <1>3 DEF Desk!TakeLock, Desk!Goto
    <2>2. \A q \in Procs : at'[q] = IF q = p THEN "knocking" ELSE at[q]
      BY <2>1 DEF DeskInv
    <2>3. ASSUME NEW q \in Procs PROVE GuardFits(q)'
      <3>1. GuardFits(q)
        BY DEF DeskInv
      <3> QED BY <1>1, <2>1, <2>2, <3>1, GuardPlaces DEF GuardFits, Desk!Posix
    <2> QED BY <1>1, <2>1, <2>3, GuardPlaces, GuardMove
  <1> QED BY <1>2, <1>3

\* Whoever owns is the only one.
LEMMA OthersDoNotOwn ==
  ASSUME DeskInv, NEW p \in Procs, at[p] \in Desk!Owning, NEW q \in Procs, q # p
  PROVE  /\ GuardFits(q) /\ at[q] \notin Desk!Owning /\ at[q] \notin Desk!Serving
         /\ at[q] \notin {"locked", "cleared", "bound", "owned"}
  <1>1. {"locked", "cleared", "bound", "owned"} \subseteq Desk!Owning
    BY GuardPlaces
  <1> QED BY <1>1, PlacesAreKnown DEF DeskInv, GuardFits

\* Only the owner clears the name,
LEMMA ClearNameStep ==
  ASSUME DeskInv, NEW p \in Procs, Desk!ClearName(p)
  PROVE  DeskInv'
  <1>1. /\ at[p] = "locked" /\ at' = [at EXCEPT ![p] = "cleared"] /\ app' = app
        /\ platform' = platform /\ holder' = holder
        /\ handles' = handles /\ events' = events
    BY DEF Desk!ClearName, Desk!Goto
  <1>2. \A q \in Procs : at'[q] = IF q = p THEN "cleared" ELSE at[q]
    BY <1>1 DEF DeskInv
  <1>3. at[p] \in Desk!Owning /\ GuardFits(p)
    BY <1>1, GuardPlaces DEF DeskInv
  <1>4. ASSUME NEW q \in Procs PROVE GuardFits(q)'
    <2>1. CASE q = p
      BY <1>1, <1>2, <1>3, <2>1, GuardPlaces, OthersDoNotOwn DEF GuardFits, Desk!Posix
    <2>2. CASE q # p
      BY <1>1, <1>2, <1>3, <2>2, OthersDoNotOwn DEF GuardFits, Desk!Posix
    <2> QED BY <2>1, <2>2
  <1> QED BY <1>1, <1>4, GuardPlaces, GuardMove

\* binds its socket to it
LEMMA BindSocketStep ==
  ASSUME DeskInv, NEW p \in Procs, Desk!BindSocket(p)
  PROVE  DeskInv'
  <1>1. /\ at[p] = "cleared" /\ at' = [at EXCEPT ![p] = "bound"] /\ app' = app
        /\ platform' = platform /\ holder' = holder /\ path' = p
        /\ handles' = handles /\ events' = events
    BY DEF Desk!BindSocket, Desk!Goto
  <1>2. \A q \in Procs : at'[q] = IF q = p THEN "bound" ELSE at[q]
    BY <1>1 DEF DeskInv
  <1>3. at[p] \in Desk!Owning /\ GuardFits(p)
    BY <1>1, GuardPlaces DEF DeskInv
  <1>4. ASSUME NEW q \in Procs PROVE GuardFits(q)'
    <2>1. CASE q = p
      BY <1>1, <1>2, <1>3, <2>1, GuardPlaces, OthersDoNotOwn DEF GuardFits, Desk!Posix
    <2>2. CASE q # p
      BY <1>1, <1>2, <1>3, <2>2, OthersDoNotOwn DEF GuardFits, Desk!Posix
    <2> QED BY <2>1, <2>2
  <1> QED BY <1>1, <1>4, GuardPlaces, GuardMove

\* and lets others use it.
LEMMA TrustSocketStep ==
  ASSUME DeskInv, NEW p \in Procs, Desk!TrustSocket(p)
  PROVE  DeskInv'
  <1>1. /\ at[p] = "bound" /\ at' = [at EXCEPT ![p] = "guarded"] /\ app' = app
        /\ platform' = platform /\ holder' = holder /\ path' = path /\ trusted'
        /\ handles' = handles /\ events' = events
    BY DEF Desk!TrustSocket, Desk!Goto
  <1>2. \A q \in Procs : at'[q] = IF q = p THEN "guarded" ELSE at[q]
    BY <1>1 DEF DeskInv
  <1>3. at[p] \in Desk!Owning /\ GuardFits(p)
    BY <1>1, GuardPlaces DEF DeskInv
  <1>4. ASSUME NEW q \in Procs PROVE GuardFits(q)'
    <2>1. CASE q = p
      BY <1>1, <1>2, <1>3, <2>1, GuardPlaces, OthersDoNotOwn DEF GuardFits, Desk!Posix
    <2>2. CASE q # p
      BY <1>1, <1>2, <1>3, <2>2, OthersDoNotOwn DEF GuardFits, Desk!Posix
    <2> QED BY <2>1, <2>2
  <1> QED BY <1>1, <1>4, GuardPlaces, GuardMove

\* An owner that cannot listen is on its way out, with a failure.
LEMMA ListenerFailsStep ==
  ASSUME DeskInv, NEW p \in Procs, Desk!ListenerFails(p)
  PROVE  DeskInv'
  <1> DEFINE a == app[p]
             b == [a EXCEPT !.code = 1, !.failed = TRUE]
  <1>1. /\ at[p] \in {"locked", "cleared", "bound"}
        /\ at' = [at EXCEPT ![p] = "silent"] /\ app' = [app EXCEPT ![p] = b]
        /\ platform' = platform /\ holder' = holder
        /\ handles' = handles /\ events' = events
    BY DEF Desk!ListenerFails, Desk!Goto, Desk!Set
  <1>2. \A q \in Procs : at'[q] = IF q = p THEN "silent" ELSE at[q]
    BY <1>1 DEF DeskInv
  <1>3. at[p] \in Desk!Owning /\ GuardFits(p)
    BY <1>1, GuardPlaces DEF DeskInv
  <1>4. ASSUME NEW q \in Procs PROVE GuardFits(q)'
    <2>1. CASE q = p
      BY <1>1, <1>2, <1>3, <2>1, GuardPlaces, OthersDoNotOwn DEF GuardFits, Desk!Posix
    <2>2. CASE q # p
      BY <1>1, <1>2, <1>3, <2>2, OthersDoNotOwn DEF GuardFits, Desk!Posix
    <2> QED BY <2>1, <2>2
  <1>5. a \in Desk!Apps /\ AppFits("silent", a)
    BY <1>1, GuardPlaces, GuardPlaceFits DEF DeskInv
  <1> HIDE DEF a
  <1>6. /\ b \in Desk!Apps
        /\ b.runtime = a.runtime /\ b.initialized = a.initialized
        /\ b.progress = a.progress /\ b.complete = a.complete
        /\ b.success = a.success /\ b.failed = TRUE /\ b.code = 1
    <2>1. 1 \in 0 .. 1 /\ TRUE \in BOOLEAN
      OBVIOUS
    <2> QED BY <1>5, <2>1, FailureIsSet, Zenon
  <1> HIDE DEF b
  <1>7. AppFits("silent", b)
    <2>1. "silent" \notin Working \cup {"teardown"}
      BY GuardPlaces
    <2> QED BY <1>5, <1>6, <2>1 DEF AppFits, Outcome
  <1> QED BY <1>1, <1>4, <1>6, <1>7, GuardPlaces, GuardStep

\* The mutex is created only when nobody owns or is about to find out.
LEMMA OpenMutexStep ==
  ASSUME DeskInv, NEW p \in Procs, Desk!OpenMutex(p)
  PROVE  DeskInv'
  <1>1. /\ at[p] = "start" /\ app' = app /\ ~Desk!Posix
        /\ platform' = platform /\ holder' = holder /\ path' = path
        /\ trusted' = trusted /\ handles' = handles \cup {p} /\ events' = events
    BY DEF Desk!OpenMutex
  <1>2. CASE handles = {}
    <2>1. at' = [at EXCEPT ![p] = "owned"]
      BY <1>2 DEF Desk!OpenMutex, Desk!Goto
    <2>2. \A q \in Procs : at'[q] = IF q = p THEN "owned" ELSE at[q]
      BY <2>1 DEF DeskInv
    <2>3. \A q \in Procs : GuardFits(q) /\ at[q] \notin Desk!Owning /\ at[q] # "doubled"
      BY <1>1, <1>2 DEF DeskInv, GuardFits
    <2>4. ASSUME NEW q \in Procs PROVE GuardFits(q)'
      BY <1>1, <2>2, <2>3, GuardPlaces, PlacesAreKnown DEF GuardFits, Desk!Posix
    <2> QED BY <1>1, <2>1, <2>4, GuardPlaces, GuardMove
  <1>3. CASE handles # {}
    <2>1. at' = [at EXCEPT ![p] = "doubled"]
      BY <1>3 DEF Desk!OpenMutex, Desk!Goto
    <2>2. \A q \in Procs : at'[q] = IF q = p THEN "doubled" ELSE at[q]
      BY <2>1 DEF DeskInv
    <2>3. ASSUME NEW q \in Procs PROVE GuardFits(q)'
      <3>1. GuardFits(q)
        BY DEF DeskInv
      <3> QED BY <1>1, <2>2, <3>1, GuardPlaces DEF GuardFits, Desk!Posix
    <2> QED BY <1>1, <2>1, <2>3, GuardPlaces, GuardMove
  <1> QED BY <1>2, <1>3

\* A double closes its handle of the mutex, not the owner's.
LEMMA CloseDoubleStep ==
  ASSUME DeskInv, NEW p \in Procs, Desk!CloseDouble(p)
  PROVE  DeskInv'
  <1>1. /\ at[p] = "doubled" /\ at' = [at EXCEPT ![p] = "knocking"] /\ app' = app
        /\ platform' = platform /\ holder' = holder /\ path' = path
        /\ trusted' = trusted /\ handles' = handles \ {p} /\ events' = events
    BY DEF Desk!CloseDouble, Desk!Goto
  <1>2. \A q \in Procs : at'[q] = IF q = p THEN "knocking" ELSE at[q]
    BY <1>1 DEF DeskInv
  <1>3. ASSUME NEW q \in Procs PROVE GuardFits(q)'
    <2>1. GuardFits(q)
      BY DEF DeskInv
    <2> QED BY <1>1, <1>2, <2>1, GuardPlaces DEF GuardFits, Desk!Posix
  <1> QED BY <1>1, <1>3, GuardPlaces, GuardMove

\* The owner opens the event before it serves.
LEMMA OpenEventStep ==
  ASSUME DeskInv, NEW p \in Procs, Desk!OpenEvent(p)
  PROVE  DeskInv'
  <1>1. /\ at[p] = "owned" /\ at' = [at EXCEPT ![p] = "guarded"] /\ app' = app
        /\ platform' = platform /\ holder' = holder /\ path' = path
        /\ trusted' = trusted /\ handles' = handles /\ events' = events \cup {p}
    BY DEF Desk!OpenEvent, Desk!Goto
  <1>2. \A q \in Procs : at'[q] = IF q = p THEN "guarded" ELSE at[q]
    BY <1>1 DEF DeskInv
  <1>3. at[p] \in Desk!Owning /\ GuardFits(p)
    BY <1>1, GuardPlaces DEF DeskInv
  <1>4. ASSUME NEW q \in Procs PROVE GuardFits(q)'
    <2>1. CASE q = p
      BY <1>1, <1>2, <1>3, <2>1, GuardPlaces, OthersDoNotOwn DEF GuardFits, Desk!Posix
    <2>2. CASE q # p
      BY <1>1, <1>2, <1>3, <2>2, OthersDoNotOwn DEF GuardFits, Desk!Posix
    <2> QED BY <2>1, <2>2
  <1> QED BY <1>1, <1>4, GuardPlaces, GuardMove

\* A look or a knock in vain: try again or give up.
LEMMA MissedStep ==
  ASSUME DeskInv, NEW p \in Procs, at[p] \in {"knocking", "sending"}, Desk!Missed(p)
  PROVE  DeskInv'
  <1>1. CASE Desk!Out(p)
    BY <1>1, OutStep
  <1>2. CASE ~Desk!Out(p)
    <2>1. /\ at' = [at EXCEPT ![p] = "knocking"] /\ app' = app
          /\ platform' = platform /\ holder' = holder /\ path' = path
          /\ trusted' = trusted /\ handles' = handles /\ events' = events
      BY <1>2 DEF Desk!Missed, Desk!Goto
    <2>2. \A q \in Procs : at'[q] = IF q = p THEN "knocking" ELSE at[q]
      BY <2>1 DEF DeskInv
    <2>3. ASSUME NEW q \in Procs PROVE GuardFits(q)'
      <3>1. GuardFits(q)
        BY DEF DeskInv
      <3> QED BY <2>1, <2>2, <3>1, GuardPlaces DEF GuardFits, Desk!Posix
    <2> QED BY <2>1, <2>3, GuardPlaces, GuardMove
  <1> QED BY <1>1, <1>2

\* A launch that is not the owner goes on or out; the events it may open or
\* close are its own.
LEMMA KnockStep ==
  ASSUME DeskInv, NEW p \in Procs, at[p] \in {"knocking", "sending"},
         NEW y \in {"out", "sending"}, at' = [at EXCEPT ![p] = y],
         events' \in {events, events \cup {p}, events \ {p}},
         UNCHANGED <<app, platform, holder, path, trusted, handles>>
  PROVE  DeskInv'
  <1>1. \A q \in Procs : at'[q] = IF q = p THEN y ELSE at[q]
    BY DEF DeskInv
  <1>2. \A q \in Procs : q # p /\ q \in events => q \in events'
    OBVIOUS
  <1>3. y \notin Desk!Owning /\ y \notin Desk!Serving
        /\ y \notin {"doubled", "locked", "cleared", "bound", "owned"}
    BY GuardPlaces
  <1>4. ASSUME NEW q \in Procs PROVE GuardFits(q)'
    <2>1. GuardFits(q)
      BY DEF DeskInv
    <2>2. CASE q = p
      BY <1>1, <1>3, <2>2 DEF GuardFits
    <2>3. CASE q # p
      BY <1>1, <1>2, <1>3, <2>1, <2>3 DEF GuardFits, Desk!Posix
    <2> QED BY <2>2, <2>3
  <1> QED BY <1>4, GuardPlaces, GuardMove

\* Looking for the other process keeps the invariant,
LEMMA LookForNameStep ==
  ASSUME DeskInv, NEW p \in Procs, Desk!LookForName(p)
  PROVE  DeskInv'
  <1>1. at[p] \in {"knocking", "sending"}
    BY DEF Desk!LookForName
  <1>2. CASE Desk!Missed(p)
    BY <1>1, <1>2, MissedStep
  <1>3. CASE ~Desk!Missed(p)
    <2>1. /\ at' = [at EXCEPT ![p] = "sending"] /\ events' = events
          /\ UNCHANGED <<app, platform, holder, path, trusted, handles>>
      BY <1>3 DEF Desk!LookForName, Desk!Goto
    <2> QED BY <1>1, <2>1, KnockStep
  <1> QED BY <1>2, <1>3

\* so does sending it a request,
LEMMA SendRequestStep ==
  ASSUME DeskInv, NEW p \in Procs, Desk!SendRequest(p)
  PROVE  DeskInv'
  <1>1. at[p] \in {"knocking", "sending"}
    BY DEF Desk!SendRequest
  <1>2. CASE Desk!Missed(p)
    BY <1>1, <1>2, MissedStep
  <1>3. CASE ~Desk!Missed(p)
    <2>1. /\ at' = [at EXCEPT ![p] = "out"] /\ events' = events
          /\ UNCHANGED <<app, platform, holder, path, trusted, handles>>
      BY <1>3 DEF Desk!SendRequest, Desk!Goto
    <2> QED BY <1>1, <2>1, KnockStep
  <1> QED BY <1>2, <1>3

\* opening its event
LEMMA OpenOtherStep ==
  ASSUME DeskInv, NEW p \in Procs, Desk!OpenOther(p)
  PROVE  DeskInv'
  <1>1. at[p] \in {"knocking", "sending"}
    BY DEF Desk!OpenOther
  <1>2. CASE Desk!Missed(p)
    BY <1>1, <1>2, MissedStep
  <1>3. CASE ~Desk!Missed(p)
    <2>1. /\ at' = [at EXCEPT ![p] = "sending"] /\ events' = events \cup {p}
          /\ UNCHANGED <<app, platform, holder, path, trusted, handles>>
      BY <1>3 DEF Desk!OpenOther, Desk!Goto
    <2> QED BY <1>1, <2>1, KnockStep
  <1> QED BY <1>2, <1>3

\* and setting that.
LEMMA SetOtherStep ==
  ASSUME DeskInv, NEW p \in Procs, Desk!SetOther(p)
  PROVE  DeskInv'
  <1>1. /\ at[p] \in {"knocking", "sending"} /\ at' = [at EXCEPT ![p] = "out"]
        /\ events' = events \ {p}
        /\ UNCHANGED <<app, platform, holder, path, trusted, handles>>
    BY DEF Desk!SetOther, Desk!Goto
  <1> QED BY <1>1, KnockStep

\* The way out of the guard: what the owner gives up is its own.
LEMMA GiveUpStep ==
  ASSUME DeskInv, NEW p \in Procs, at[p] \in {"leaving", "unnamed"},
         NEW y \in {"unnamed", "silent"}, at' = [at EXCEPT ![p] = y],
         UNCHANGED <<app, platform, holder, handles>>
  PROVE  DeskInv'
  <1>1. \A q \in Procs : at'[q] = IF q = p THEN y ELSE at[q]
    BY DEF DeskInv
  <1>2. at[p] \in Desk!Owning /\ GuardFits(p)
    BY GuardPlaces DEF DeskInv
  <1>3. /\ y \in Desk!Owning /\ y \notin Desk!Serving
        /\ y \notin {"doubled", "locked", "cleared", "bound", "owned"}
    BY GuardPlaces
  <1>4. ASSUME NEW q \in Procs PROVE GuardFits(q)'
    <2>1. CASE q = p
      BY <1>1, <1>2, <1>3, <2>1, OthersDoNotOwn DEF GuardFits, Desk!Posix
    <2>2. CASE q # p
      BY <1>1, <1>2, <1>3, <2>2, OthersDoNotOwn DEF GuardFits, Desk!Posix
    <2> QED BY <2>1, <2>2
  <1> QED BY <1>4, GuardPlaces, GuardMove

\* The owner removes its name,
LEMMA RemoveNameStep ==
  ASSUME DeskInv, NEW p \in Procs, Desk!RemoveName(p)
  PROVE  DeskInv'
  BY GiveUpStep DEF Desk!RemoveName, Desk!Goto

\* closes its event
LEMMA CloseEventStep ==
  ASSUME DeskInv, NEW p \in Procs, Desk!CloseEvent(p)
  PROVE  DeskInv'
  BY GiveUpStep DEF Desk!CloseEvent, Desk!Goto

\* and its socket, while it still has the lock.
LEMMA CloseSocketStep ==
  ASSUME DeskInv, NEW p \in Procs, Desk!CloseSocket(p)
  PROVE  DeskInv'
  BY GiveUpStep DEF Desk!CloseSocket, Desk!Goto

-----------------------------------------------------------------------------
(* The invariant, and what it says. *)

\* The invariant holds at first.
LEMMA DeskStarts ==
  ASSUME Desk!Init
  PROVE  DeskInv
  <1>1. \A p \in Procs : at[p] = "out" /\ app[p] = Desk!Blank
    BY DEF Desk!Init
  <1>2. "out" \in Desk!Places /\ "out" \notin Working /\ "out" \notin Desk!Owning
        /\ "out" \notin Desk!Serving
    BY GuardPlaces
  <1>3. Desk!Blank \in Desk!Apps /\ AppFits("out", Desk!Blank)
    BY <1>2, BlankFits
  <1>4. at \in [Procs -> Desk!Places] /\ app \in [Procs -> Desk!Apps]
    BY <1>2, <1>3 DEF Desk!Init
  <1>5. ASSUME NEW p \in Procs PROVE AppFits(at[p], app[p]) /\ GuardFits(p)
    BY <1>1, <1>2, <1>3 DEF GuardFits
  <1> QED BY <1>4, <1>5 DEF DeskInv

\* Every step of every process keeps it.
LEMMA DeskStep ==
  ASSUME DeskInv, Desk!Next
  PROVE  DeskInv'
  <1>1. PICK p \in Procs :
          \/ Desk!Launch(p) \/ Desk!LaunchFails(p) \/ Desk!TakeLock(p)
          \/ Desk!ClearName(p) \/ Desk!BindSocket(p) \/ Desk!TrustSocket(p)
          \/ Desk!ListenerFails(p) \/ Desk!OpenMutex(p) \/ Desk!CloseDouble(p)
          \/ Desk!OpenEvent(p) \/ Desk!LookForName(p) \/ Desk!SendRequest(p)
          \/ Desk!OpenOther(p) \/ Desk!SetOther(p)
          \/ Desk!RemoveName(p) \/ Desk!CloseEvent(p) \/ Desk!CloseSocket(p)
          \/ Desk!ReleaseLock(p) \/ Desk!CreateHost(p) \/ Desk!StartFails(p)
          \/ Desk!FirstWindow(p) \/ Desk!Begin(p)
          \/ Desk!HostMessage(p) \/ Desk!ConnectionLost(p) \/ Desk!Terminate(p)
          \/ Desk!Top(p) \/ Desk!Poll(p) \/ Desk!Decide(p) \/ Desk!Frame(p)
          \/ Desk!Close(p) \/ Desk!ClosePoll(p) \/ Desk!CloseFrame(p)
          \/ Desk!SessionEnds(p) \/ Desk!Urgent(p) \/ Desk!Teardown(p) \/ Desk!Crash(p)
    BY Zenon DEF Desk!Next
  <1>2. CASE Desk!LaunchFails(p) \/ Desk!ReleaseLock(p) \/ Desk!Crash(p)
    BY <1>2, OutStep DEF Desk!LaunchFails, Desk!ReleaseLock, Desk!Crash
  <1>3. CASE \/ Desk!Launch(p) \/ Desk!TakeLock(p) \/ Desk!ClearName(p)
             \/ Desk!BindSocket(p) \/ Desk!TrustSocket(p) \/ Desk!ListenerFails(p)
             \/ Desk!OpenMutex(p) \/ Desk!CloseDouble(p) \/ Desk!OpenEvent(p)
    BY <1>3, LaunchStep, TakeLockStep, ClearNameStep, BindSocketStep, TrustSocketStep,
       ListenerFailsStep, OpenMutexStep, CloseDoubleStep, OpenEventStep
  <1>4. CASE \/ Desk!LookForName(p) \/ Desk!SendRequest(p) \/ Desk!OpenOther(p)
             \/ Desk!SetOther(p) \/ Desk!RemoveName(p) \/ Desk!CloseEvent(p)
             \/ Desk!CloseSocket(p)
    BY <1>4, LookForNameStep, SendRequestStep, OpenOtherStep, SetOtherStep,
       RemoveNameStep, CloseEventStep, CloseSocketStep
  <1>5. CASE \/ Desk!CreateHost(p) \/ Desk!StartFails(p) \/ Desk!FirstWindow(p)
             \/ Desk!Begin(p) \/ Desk!HostMessage(p) \/ Desk!ConnectionLost(p)
             \/ Desk!Terminate(p) \/ Desk!Top(p) \/ Desk!Poll(p) \/ Desk!Decide(p)
             \/ Desk!Frame(p)
    BY <1>5, CreateHostStep, StartFailsStep, FirstWindowStep, BeginStep, HostMessageStep,
       ConnectionLostStep, TerminateStep, TopStep, PollStep, DecideStep, FrameStep
  <1>6. CASE \/ Desk!Close(p) \/ Desk!ClosePoll(p) \/ Desk!CloseFrame(p)
             \/ Desk!SessionEnds(p) \/ Desk!Urgent(p) \/ Desk!Teardown(p)
    BY <1>6, CloseStep, ClosePollStep, CloseFrameStep, SessionEndsStep, UrgentStep,
       TeardownStep
  <1> QED BY <1>1, <1>2, <1>3, <1>4, <1>5, <1>6

\* It says that who works owns and is alone, that who serves is where its name
\* leads, and that the end tells what failed.
LEMMA DeskIsSound ==
  ASSUME DeskInv
  PROVE  Desk!DesktopIsSound
  <1>1. Working \subseteq Desk!Owning /\ Working \cap Ended = {}
        /\ Desk!Ending \cup {"unnamed", "silent"} = Ended
    BY PlacesAreKnown DEF Working, Ended
  <1>2. \A p \in Procs : AppFits(at[p], app[p]) /\ GuardFits(p)
    BY DEF DeskInv
  <1>3. Desk!SoleRuntime
    <2>1. SUFFICES ASSUME NEW p \in Procs, app[p].runtime
                   PROVE  /\ \A q \in Procs \ {p} : ~app[q].runtime /\ at[q] \notin Desk!Owning
                          /\ IF Desk!Posix THEN holder = p ELSE p \in handles
      BY DEF Desk!SoleRuntime
    <2>2. at[p] \in Desk!Owning
      BY <1>1, <1>2, <2>1 DEF AppFits
    <2>3. ASSUME NEW q \in Procs \ {p}
          PROVE  ~app[q].runtime /\ at[q] \notin Desk!Owning
      BY <1>1, <1>2, <2>2 DEF AppFits, GuardFits
    <2> QED BY <1>2, <2>2, <2>3 DEF GuardFits
  <1>4. Desk!KnocksReachIt
    BY <1>2 DEF Desk!KnocksReachIt, GuardFits
  <1>5. Desk!ExitIsHonest
    BY <1>1, <1>2 DEF Desk!ExitIsHonest, AppFits
  <1> QED BY <1>3, <1>4, <1>5 DEF Desk!DesktopIsSound

\* While something else is looked at the desktop stands still.
LEMMA DeskStands ==
  ASSUME DeskInv, UNCHANGED deskVars
  PROVE  DeskInv'
  BY DEF DeskInv, AppFits, GuardFits, Desk!Posix, deskVars

\* So its invariant holds throughout.
LEMMA DeskInvAlways == AppSpec => []DeskInv
  <1>1. AppInit => DeskInv
    BY DeskStarts DEF AppInit, DesktopAtRest
  <1>2. DeskInv /\ [AppNext]_<<part, vars, deskVars, fileVars>> => DeskInv'
    <2> SUFFICES ASSUME DeskInv, [AppNext]_<<part, vars, deskVars, fileVars>> PROVE DeskInv'
      OBVIOUS
    <2>1. CASE part = "desktop" /\ Desk!Next
      BY <2>1, DeskStep
    <2>2. CASE UNCHANGED deskVars
      BY <2>2, DeskStands
    <2> QED BY <2>1, <2>2 DEF AppNext
  <1> QED BY <1>1, <1>2, PTL DEF AppSpec

-----------------------------------------------------------------------------
(* The private files, whatever their size, their contents and what other   *)
(* programs do meanwhile.                                                  *)

\* A file, and what the call under way and its place in the code can be.
FileRecords == [text : Seq(Values), meant : Seq(Values), ours : BOOLEAN, synced : BOOLEAN]
CallTasks == {"none", "load", "save", "import", "adopt", "keep", "remove"}
CallPlaces == {"idle", "stat", "open", "read", "create", "write", "sync", "commit", "linked",
           "verified", "remove"}

\* What the variables of the private files range over.
FileTypes ==
  /\ system \in {"posix", "windows"} /\ use \in Private!Uses
  /\ file \in [Inodes -> FileRecords]
  /\ bound \in [{"managed", "source"} -> Inodes \cup {NoFile}]
  /\ lasting \subseteq Inodes \cup {NoFile}
  /\ task \in CallTasks /\ place \in CallPlaces /\ from \in {"managed", "source"}
  /\ inode \in Inodes \cup {NoFile} /\ text \in Seq(Values) /\ was \in FileRecords
  /\ touched \in BOOLEAN /\ unseen \in BOOLEAN

\* Which calls come to which places, and which of them replace.
CallsHavePlaces ==
  /\ place = "stat" => task = "keep"
  /\ place \in {"open", "read"} => task \in {"load", "import", "adopt", "keep", "remove"}
  /\ place \in {"open", "read"} /\ task \in {"load", "remove"} => from = "managed"
  /\ place \in {"create", "write", "sync", "commit"} =>
        /\ task \in {"save", "import", "adopt", "keep"}
        /\ task = "adopt" => from = "source"
  /\ place = "linked" => task = "keep"
  /\ place \in {"verified", "remove"} => task = "remove"

\* The source is never a file the managed name may lead to.
SourceIsApart ==
  bound.source # NoFile => bound.source \notin lasting \cup {bound.managed}

\* s is a beginning of t.
Begins(s, t) == Len(s) <= Len(t) /\ \A k \in 1 .. Len(s) : s[k] = t[k]

\* What is being written fits, and its file has no name yet.
WritingFits ==
  /\ place \in {"create", "write", "sync", "commit"} => Private!Fits(text)
  /\ place \in {"write", "sync", "commit"} =>
        /\ inode \in Inodes
        /\ inode \notin lasting \cup {bound.managed, bound.source}
        /\ LET f == file[inode]
           IN  /\ f.ours /\ f.meant = text /\ Begins(f.text, text)
               /\ place \in {"sync", "commit"} => f.text = text
               /\ place = "commit" => f.synced

\* What is read is the file as it was opened, unless its times tell.
ReadingFits ==
  place = "read" =>
    /\ inode \in Inodes
    /\ ~touched => file[inode] = was /\ Begins(text, was.text)
    /\ Len(text) <= Len(was.text)
    /\ from = "managed" /\ was.ours =>
          was.text = was.meant /\ Private!Fits(was.text)
    /\ from = "managed" /\ ~unseen => bound.managed = inode /\ ~touched

\* A removal that goes on has seen the known content; on Windows nobody can
\* have changed it since the file was opened.
RemovalFits ==
  /\ place = "verified" =>
        inode \in Inodes /\ (~touched => file[inode].text = Genuine)
  /\ place = "remove" /\ ~unseen =>
        /\ bound.managed = inode /\ inode \in Inodes
        /\ file[inode].text = Genuine
  /\ system = "windows" /\ task = "remove" =>
        /\ place \in {"read", "verified", "remove"} => bound.managed = inode /\ ~touched
        /\ place = "remove" => ~unseen

\* A file is adopted only where there is none of ours, as far as it was seen.
AdoptionFits ==
  task = "adopt" /\ from = "source" /\ ~unseen /\ bound.managed # NoFile =>
    ~file[bound.managed].ours

\* A file without a name is ours alone, so what is committed is what was
\* written; and what was read is current as long as nothing was disturbed.
PrivateInv ==
  /\ FileTypes /\ CallsHavePlaces /\ SourceIsApart /\ Private!StoredIsWhole
  /\ WritingFits /\ ReadingFits /\ RemovalFits /\ AdoptionFits /\ Private!CallsKeepTheirWord

-----------------------------------------------------------------------------
\* What the constants say of contents.
LEMMA ContentsAreSequences ==
  ASSUME Private!FilesAssumption
  PROVE  /\ Private!Texts \subseteq Seq(Values) /\ \A t \in Private!Texts : Len(t) = Size
         /\ Others \subseteq Seq(Values)
         /\ \A t \in Seq(Values) : Len(t) = Size => Private!Settings(t) = t
  <1>1. Size \in Nat
    BY DEF Private!FilesAssumption
  <1>2. ASSUME NEW n \in Nat, NEW t \in [1 .. n -> Values]
        PROVE  t \in Seq(Values)
    BY <1>2, IsASeq
  <1>3. \A t \in Private!Texts : Len(t) = Size
    BY <1>1 DEF Private!Texts
  <1>4. ASSUME NEW t \in Seq(Values), Len(t) = Size
        PROVE  Private!Settings(t) = t
    BY <1>1, <1>4 DEF Private!Settings
  <1>5. Private!Texts \subseteq Seq(Values) /\ Private!Contents \subseteq Seq(Values)
    BY <1>1, <1>2 DEF Private!Texts, Private!Contents
  <1>6. Others \subseteq Private!Contents
    BY DEF Private!FilesAssumption
  <1> QED BY <1>3, <1>4, <1>5, <1>6

\* What is somebody else's is a file.
LEMMA ForeignIsAFile ==
  /\ Private!Foreign \in FileRecords /\ <<>> \in Seq(Values)
  /\ \A t \in Seq(Values) : [Private!Foreign EXCEPT !.text = t] \in FileRecords
  <1>1. Private!Foreign \in FileRecords /\ <<>> \in Seq(Values)
    BY DEF Private!Foreign, FileRecords
  <1> QED BY <1>1 DEF FileRecords

\* A file is exchanged for another.
LEMMA FileSets ==
  ASSUME NEW f \in [Inodes -> FileRecords], NEW i \in Inodes, NEW g \in FileRecords
  PROVE  [f EXCEPT ![i] = g] \in [Inodes -> FileRecords]
  OBVIOUS

\* Every variable keeps its range.
LEMMA FileTypesKeep ==
  ASSUME Private!FilesAssumption, PrivateInv, Private!Next
  PROVE  FileTypes'
  <1> USE DEF FileTypes, PrivateInv, Private!given, Private!names, Private!opened,
         Private!Goto, Private!Return, Private!Ends, Private!Fails, CallTasks, CallPlaces
  <1> USE ForeignIsAFile
  <1>1. CASE Private!Begin
    BY <1>1, ContentsAreSequences DEF Private!Begin, Private!Called,
         Private!Load, Private!Save, Private!Import, Private!Adopt,
         Private!Keep, Private!RemoveExact
  <1>2. CASE Private!Stat
    BY <1>2 DEF Private!Stat
  <1>3. CASE Private!Open
    <2>1. CASE \E e \in BOOLEAN : Private!NothingRead(e)
      BY <1>3, <2>1 DEF Private!Open, Private!NothingRead
    <2>2. CASE Private!Return(Private!Report)
      BY <1>3, <2>2 DEF Private!Open
    <2>3. CASE /\ Private!Exists(from) /\ Private!Goto("read")
               /\ inode' = bound[from] /\ text' = <<>>
               /\ was' = file[bound[from]] /\ touched' = FALSE
               /\ unseen' = (IF from = "managed" THEN FALSE ELSE unseen)
               /\ UNCHANGED <<task, from>>
      <3>1. bound[from] \in Inodes
        BY <2>3 DEF Private!Exists
      <3>2. was' \in FileRecords /\ inode' \in Inodes
        BY <2>3, <3>1
      <3> QED BY <1>3, <2>3, <3>2 DEF Private!Open
    <2> QED BY <1>3, <2>1, <2>2, <2>3 DEF Private!Open, Private!Content
  <1>4. CASE Private!ReadOn
    <2>1. CASE Private!NothingRead(TRUE)
      BY <1>4, <2>1 DEF Private!ReadOn, Private!NothingRead
    <2>2. CASE text' = Append(text, file[inode].text[Len(text) + 1])
      <3>1. place = "read" /\ inode \in Inodes
        BY <1>4 DEF Private!ReadOn, ReadingFits
      <3>2. file[inode].text \in Seq(Values)
        BY <3>1 DEF FileRecords
      <3>3. text' \in Seq(Values)
        <4>1. Len(text) + 1 <= Len(file[inode].text) \/ Private!NothingRead(TRUE)
          BY <1>4 DEF Private!ReadOn
        <4>2. Private!NothingRead(TRUE) => text' = <<>>
          BY DEF Private!NothingRead
        <4>3. ASSUME Len(text) + 1 <= Len(file[inode].text)
              PROVE  file[inode].text[Len(text) + 1] \in Values
          <5>1. Len(text) + 1 \in 1 .. Len(file[inode].text)
            BY <3>2, <4>3
          <5> QED BY <3>2, <5>1, ElementOfSeq
        <4>4. \A v \in Values : Append(text, v) \in Seq(Values)
          BY AppendProperties
        <4> QED BY <2>2, <4>1, <4>2, <4>3, <4>4
      <3> QED BY <1>4, <2>1, <3>3 DEF Private!ReadOn
    <2> QED BY <1>4, <2>1, <2>2 DEF Private!ReadOn
  <1>5. CASE Private!ReadEnds
    BY <1>5 DEF Private!ReadEnds, Private!UseText, Private!NothingRead
  <1>6. CASE Private!Create
    <2>1. file' \in [Inodes -> FileRecords]
      <3>1. [text |-> <<>>, meant |-> text, ours |-> TRUE, synced |-> FALSE] \in FileRecords
        BY DEF FileRecords
      <3> QED BY <1>6, <3>1, FileSets DEF Private!Create, Private!CannotCreate
    <2> QED BY <1>6, <2>1 DEF Private!Create, Private!CannotCreate
  <1>7. CASE Private!Write
    <2>1. place = "write" /\ inode \in Inodes
      BY <1>7 DEF Private!Write, WritingFits
    <2>2. file[inode] \in FileRecords /\ file[inode].text \in Seq(Values)
      BY <2>1 DEF FileRecords
    <2>3. ASSUME Len(file[inode].text) + 1 <= Len(text)
          PROVE  Append(file[inode].text, text[Len(file[inode].text) + 1]) \in Seq(Values)
      BY <2>2, <2>3
    <2>4. file' \in [Inodes -> FileRecords]
      <3>1. file' = file
              \/ /\ file' = [file EXCEPT ![inode].text = Append(@, text[Len(@) + 1])]
                 /\ Len(file[inode].text) + 1 <= Len(text)
        BY <1>7, <2>1 DEF Private!Write
      <3>2. CASE file' = [file EXCEPT ![inode].text = Append(@, text[Len(@) + 1])]
                 /\ Len(file[inode].text) + 1 <= Len(text)
        <4>1. [file[inode] EXCEPT !.text = Append(@, text[Len(@) + 1])] \in FileRecords
          BY <2>2, <2>3, <3>2 DEF FileRecords
        <4>2. file' = [file EXCEPT ![inode] =
                         [file[inode] EXCEPT !.text = Append(@, text[Len(@) + 1])]]
          BY <3>2
        <4> QED BY <2>1, <4>1, <4>2, FileSets
      <3> QED BY <3>1, <3>2
    <2> QED BY <1>7, <2>4 DEF Private!Write
  <1>8. CASE Private!Synchronize
    <2>1. file' \in [Inodes -> FileRecords]
      <3>1. place = "sync" /\ inode \in Inodes
        BY <1>8 DEF Private!Synchronize, WritingFits
      <3>2. [file[inode] EXCEPT !.synced = TRUE] \in FileRecords
        BY <3>1 DEF FileRecords
      <3> QED BY <1>8, <3>1, <3>2, FileSets DEF Private!Synchronize
    <2> QED BY <1>8, <2>1 DEF Private!Synchronize
  <1>9. CASE Private!Commit
    BY <1>9 DEF Private!Commit, Private!Lead
  <1>10. CASE Private!Unlinked
    BY <1>10 DEF Private!Unlinked
  <1>11. CASE Private!LookAgain
    BY <1>11 DEF Private!LookAgain, Private!IsStillThere
  <1>12. CASE Private!Remove
    BY <1>12 DEF Private!Remove
  <1>13. ASSUME NEW n \in {"managed", "source"}, NEW t \in Others, Private!Edit(n, t)
         PROVE  FileTypes'
    BY <1>13, ContentsAreSequences DEF Private!Edit, Private!Disturbs, Private!Exists
  <1>14. ASSUME NEW n \in {"managed", "source"},
               NEW i \in Inodes \cup {NoFile}, Private!Exchange(n, i)
         PROVE  FileTypes'
    BY <1>14, ContentsAreSequences DEF Private!Exchange, Private!Disturbs
  <1>15. CASE Private!Settle
    BY <1>15 DEF Private!Settle
  <1>16. CASE Private!Kill
    BY <1>16 DEF Private!Kill
  <1>17. CASE Private!PowerLoss
    <2>1. PICK i \in lasting, cut \in [Inodes -> 0 .. Size] :
             /\ bound' = [bound EXCEPT !.managed = i] /\ lasting' = {i}
             /\ file' = [j \in Inodes |->
                            IF file[j].synced \/ Len(file[j].text) <= cut[j] THEN file[j]
                            ELSE [file[j] EXCEPT !.text = SubSeq(@, 1, cut[j])]]
      BY <1>17 DEF Private!PowerLoss
    <2>2. ASSUME NEW j \in Inodes
          PROVE  file'[j] \in FileRecords
      <3>1. file[j] \in FileRecords /\ file[j].text \in Seq(Values)
        BY DEF FileRecords
      <3>2. ASSUME ~(Len(file[j].text) <= cut[j])
            PROVE  SubSeq(file[j].text, 1, cut[j]) \in Seq(Values)
        <4>1. cut[j] \in 0 .. Size /\ Size \in Nat
          BY <2>1 DEF Private!FilesAssumption
        <4> QED BY <3>1, <3>2, <4>1, SubSeqProperties
      <3>3. CASE file'[j] = file[j]
        BY <3>1, <3>3
      <3>4. CASE file'[j] = [file[j] EXCEPT !.text = SubSeq(@, 1, cut[j])]
                 /\ ~(Len(file[j].text) <= cut[j])
        BY <3>1, <3>2, <3>4 DEF FileRecords
      <3> QED BY <2>1, <3>3, <3>4
    <2>3. file' \in [Inodes -> FileRecords]
      BY <2>1, <2>2
    <2> QED BY <1>17, <2>1, <2>3 DEF Private!PowerLoss
  <1> QED BY <1>1, <1>2, <1>3, <1>4, <1>5, <1>6, <1>7, <1>8, <1>9, <1>10, <1>11, <1>12, <1>13,
             <1>14, <1>15, <1>16, <1>17 DEF Private!Next

\* A call goes on along its own path.
LEMMA PlacesKeep ==
  ASSUME Private!FilesAssumption, PrivateInv, Private!Next
  PROVE  CallsHavePlaces'
  <1> USE DEF PrivateInv, FileTypes, CallsHavePlaces, CallTasks, CallPlaces, Private!given,
         Private!names, Private!opened, Private!Goto, Private!Return, Private!Ends,
         Private!Fails
  <1>1. CASE Private!Begin
    BY <1>1 DEF Private!Begin, Private!Called,
         Private!Load, Private!Save, Private!Import, Private!Adopt,
         Private!Keep, Private!RemoveExact, Private!Unused
  <1>2. CASE Private!Stat
    BY <1>2 DEF Private!Stat
  <1>3. CASE Private!Open
    BY <1>3 DEF Private!Open, Private!NothingRead, Private!Exists, Private!Content
  <1>4. CASE Private!ReadOn
    BY <1>4 DEF Private!ReadOn, Private!NothingRead
  <1>5. CASE Private!ReadEnds
    BY <1>5 DEF Private!ReadEnds, Private!UseText, Private!NothingRead
  <1>6. CASE Private!Create
    BY <1>6 DEF Private!Create, Private!CannotCreate, Private!Unused
  <1>7. CASE Private!Write
    BY <1>7 DEF Private!Write
  <1>8. CASE Private!Synchronize
    BY <1>8 DEF Private!Synchronize
  <1>9. CASE Private!Commit
    BY <1>9 DEF Private!Commit, Private!Lead, Private!Replaces
  <1>10. CASE Private!Unlinked
    BY <1>10 DEF Private!Unlinked
  <1>11. CASE Private!LookAgain
    BY <1>11 DEF Private!LookAgain, Private!IsStillThere
  <1>12. CASE Private!Remove
    BY <1>12 DEF Private!Remove
  <1>13. ASSUME NEW n \in {"managed", "source"}, NEW t \in Others, Private!Edit(n, t)
         PROVE  CallsHavePlaces'
    BY <1>13 DEF Private!Edit, Private!Disturbs, Private!Exists, Private!Held
  <1>14. ASSUME NEW n \in {"managed", "source"},
               NEW i \in Inodes \cup {NoFile}, Private!Exchange(n, i)
         PROVE  CallsHavePlaces'
    BY <1>14 DEF Private!Exchange, Private!Disturbs, Private!Held, Private!Unused
  <1>15. CASE Private!Settle
    BY <1>15 DEF Private!Settle
  <1>16. CASE Private!Kill
    BY <1>16 DEF Private!Kill
  <1>17. CASE Private!PowerLoss
    BY <1>17 DEF Private!PowerLoss
  <1> QED BY <1>1, <1>2, <1>3, <1>4, <1>5, <1>6, <1>7, <1>8, <1>9, <1>10, <1>11, <1>12, <1>13,
             <1>14, <1>15, <1>16, <1>17 DEF Private!Next

\* No name of the managed file comes to be the source, or the other way round.
LEMMA SourceKeeps ==
  ASSUME Private!FilesAssumption, PrivateInv, Private!Next
  PROVE  SourceIsApart'
  <1> USE DEF PrivateInv, FileTypes, SourceIsApart, WritingFits, Private!given, Private!names,
         Private!opened, Private!Goto, Private!Return, Private!Ends, Private!Fails
  <1>1. CASE Private!Begin
    BY <1>1 DEF Private!Begin, Private!Called,
         Private!Load, Private!Save, Private!Import, Private!Adopt,
         Private!Keep, Private!RemoveExact, Private!Unused
  <1>2. CASE Private!Stat
    BY <1>2 DEF Private!Stat
  <1>3. CASE Private!Open
    BY <1>3 DEF Private!Open, Private!NothingRead, Private!Exists, Private!Content
  <1>4. CASE Private!ReadOn
    BY <1>4 DEF Private!ReadOn, Private!NothingRead
  <1>5. CASE Private!ReadEnds
    BY <1>5 DEF Private!ReadEnds, Private!UseText, Private!NothingRead
  <1>6. CASE Private!Create
    BY <1>6 DEF Private!Create, Private!CannotCreate, Private!Unused
  <1>7. CASE Private!Write
    BY <1>7 DEF Private!Write
  <1>8. CASE Private!Synchronize
    BY <1>8 DEF Private!Synchronize
  <1>9. CASE Private!Commit
    BY <1>9 DEF Private!Commit, Private!Lead, Private!Replaces
  <1>10. CASE Private!Unlinked
    BY <1>10 DEF Private!Unlinked
  <1>11. CASE Private!LookAgain
    BY <1>11 DEF Private!LookAgain, Private!IsStillThere
  <1>12. CASE Private!Remove
    BY <1>12 DEF Private!Remove
  <1>13. ASSUME NEW n \in {"managed", "source"}, NEW t \in Others, Private!Edit(n, t)
         PROVE  SourceIsApart'
    BY <1>13 DEF Private!Edit, Private!Disturbs, Private!Exists, Private!Held
  <1>14. ASSUME NEW n \in {"managed", "source"},
               NEW i \in Inodes \cup {NoFile}, Private!Exchange(n, i)
         PROVE  SourceIsApart'
    BY <1>14 DEF Private!Exchange, Private!Disturbs, Private!Held, Private!Unused
  <1>15. CASE Private!Settle
    BY <1>15 DEF Private!Settle
  <1>16. CASE Private!Kill
    BY <1>16 DEF Private!Kill
  <1>17. CASE Private!PowerLoss
    BY <1>17 DEF Private!PowerLoss
  <1> QED BY <1>1, <1>2, <1>3, <1>4, <1>5, <1>6, <1>7, <1>8, <1>9, <1>10, <1>11, <1>12, <1>13,
             <1>14, <1>15, <1>16, <1>17 DEF Private!Next

\* The managed name is only ever given to a whole file, and what is
\* written under it is somebody else's.
LEMMA StoredKeeps ==
  ASSUME Private!FilesAssumption, PrivateInv, Private!Next
  PROVE  Private!StoredIsWhole'
  <1> USE DEF PrivateInv, FileTypes, Private!StoredIsWhole, WritingFits, Private!Fits,
         Private!Foreign, Private!given, Private!names, Private!opened, Private!Goto,
         Private!Return, Private!Ends, Private!Fails
  <1>1. CASE Private!Begin
    BY <1>1 DEF Private!Begin, Private!Called,
         Private!Load, Private!Save, Private!Import, Private!Adopt,
         Private!Keep, Private!RemoveExact, Private!Unused
  <1>2. CASE Private!Stat
    BY <1>2 DEF Private!Stat
  <1>3. CASE Private!Open
    BY <1>3 DEF Private!Open, Private!NothingRead, Private!Exists, Private!Content
  <1>4. CASE Private!ReadOn
    BY <1>4 DEF Private!ReadOn, Private!NothingRead
  <1>5. CASE Private!ReadEnds
    BY <1>5 DEF Private!ReadEnds, Private!UseText, Private!NothingRead
  <1>6. CASE Private!Create
    <2>1. UNCHANGED <<use, bound, lasting>>
      BY <1>6 DEF Private!Create, Private!CannotCreate, Private!Unused
    <2>2. \A i \in (lasting \cup {bound.managed}) \ {NoFile} : file'[i] = file[i]
      BY <1>6 DEF Private!Create, Private!CannotCreate, Private!Unused
    <2> QED BY <2>1, <2>2
  <1>7. CASE Private!Write
    <2>1. UNCHANGED <<use, bound, lasting>>
      BY <1>7 DEF Private!Write
    <2>2. \A i \in (lasting \cup {bound.managed}) \ {NoFile} : file'[i] = file[i]
      BY <1>7 DEF Private!Write
    <2> QED BY <2>1, <2>2
  <1>8. CASE Private!Synchronize
    <2>1. UNCHANGED <<use, bound, lasting>>
      BY <1>8 DEF Private!Synchronize
    <2>2. \A i \in (lasting \cup {bound.managed}) \ {NoFile} : file'[i] = file[i]
      BY <1>8 DEF Private!Synchronize
    <2> QED BY <2>1, <2>2
  <1>9. CASE Private!Commit
    BY <1>9 DEF Private!Commit, Private!Lead, Private!Replaces
  <1>10. CASE Private!Unlinked
    BY <1>10 DEF Private!Unlinked
  <1>11. CASE Private!LookAgain
    BY <1>11 DEF Private!LookAgain, Private!IsStillThere
  <1>12. CASE Private!Remove
    BY <1>12 DEF Private!Remove
  <1>13. ASSUME NEW n \in {"managed", "source"}, NEW t \in Others, Private!Edit(n, t)
         PROVE  Private!StoredIsWhole'
    BY <1>13 DEF Private!Edit, Private!Disturbs, Private!Exists, Private!Held
  <1>14. ASSUME NEW n \in {"managed", "source"},
               NEW i \in Inodes \cup {NoFile}, Private!Exchange(n, i)
         PROVE  Private!StoredIsWhole'
    BY <1>14 DEF Private!Exchange, Private!Disturbs, Private!Held, Private!Unused
  <1>15. CASE Private!Settle
    BY <1>15 DEF Private!Settle
  <1>16. CASE Private!Kill
    BY <1>16 DEF Private!Kill
  <1>17. CASE Private!PowerLoss
    BY <1>17 DEF Private!PowerLoss
  <1> QED BY <1>1, <1>2, <1>3, <1>4, <1>5, <1>6, <1>7, <1>8, <1>9, <1>10, <1>11, <1>12, <1>13,
             <1>14, <1>15, <1>16, <1>17 DEF Private!Next

\* The new file grows to what it is to be, and nobody else can reach it.
LEMMA WritingFitsKeeps ==
  ASSUME Private!FilesAssumption, PrivateInv, Private!Next
  PROVE  WritingFits'
  <1> USE DEF PrivateInv, FileTypes, CallsHavePlaces, WritingFits, Begins, Private!Fits,
         Private!Foreign, Private!given, Private!names, Private!opened, Private!Goto,
         Private!Return, Private!Ends, Private!Fails
  <1>1. CASE Private!Begin
    BY <1>1, ContentsAreSequences DEF Private!Begin, Private!Called,
         Private!Load, Private!Save, Private!Import, Private!Adopt,
         Private!Keep, Private!RemoveExact
  <1>2. CASE Private!Stat
    BY <1>2 DEF Private!Stat
  <1>3. CASE Private!Open
    BY <1>3 DEF Private!Open, Private!NothingRead, Private!Exists, Private!Content
  <1>4. CASE Private!ReadOn
    BY <1>4 DEF Private!ReadOn, Private!NothingRead
  <1>5. CASE Private!ReadEnds
    BY <1>5 DEF Private!ReadEnds, Private!UseText, Private!NothingRead
  <1>6. CASE Private!Create
    BY <1>6 DEF Private!Create, Private!CannotCreate, Private!Unused
  <1>7. CASE Private!Write
    <2>1. /\ inode \in Inodes /\ file[inode] \in FileRecords /\ Begins(file[inode].text, text)
          /\ place = "write" /\ UNCHANGED <<use, Private!names>>
      BY <1>7 DEF Private!Write
    <2>2. file[inode].text \in Seq(Values)
      BY <2>1 DEF FileRecords
    <2>3. CASE /\ Len(file[inode].text) + 1 <= Len(text)
               /\ UNCHANGED <<task, place, text, Private!opened>>
               /\ file' = [file EXCEPT ![inode].text = Append(@, text[Len(@) + 1])]
      <3> DEFINE s == file[inode].text
                 r == Append(s, text[Len(s) + 1])
      <3>1. file'[inode] = [file[inode] EXCEPT !.text = r]
        BY <2>1, <2>3
      <3>2. file'[inode].text = r /\ file'[inode].ours = file[inode].ours
            /\ file'[inode].meant = file[inode].meant
        BY <2>1, <3>1 DEF FileRecords
      <3>3. Begins(r, text)
        <4>1. text[Len(s) + 1] \in Values
          <5>1. Len(s) + 1 \in 1 .. Len(text)
            BY <2>2, <2>3
          <5> QED BY <5>1, ElementOfSeq
        <4>2. /\ Len(r) = Len(s) + 1 /\ r[Len(s) + 1] = text[Len(s) + 1]
              /\ \A k \in 1 .. Len(s) : r[k] = s[k]
          BY <2>2, <4>1, AppendProperties
        <4>3. /\ Len(s) \in Nat
              /\ \A k \in 1 .. Len(s) : s[k] = text[k]
          BY <2>1, <2>2 DEF Begins
        <4> HIDE DEF s, r
        <4>4. Len(s) + 1 <= Len(text)
          BY <2>3 DEF s
        <4> QED BY <4>2, <4>3, <4>4 DEF Begins
      <3> QED BY <2>1, <2>3, <3>2, <3>3
    <2>4. CASE /\ Len(file[inode].text) + 1 > Len(text) /\ place' = "sync"
               /\ UNCHANGED <<file, task, text, Private!opened>>
      <3>1. file[inode].text = text
        BY <2>1, <2>2, <2>4 DEF Begins
      <3> QED BY <2>1, <2>4, <3>1
    <2>5. CASE Private!Ends
      BY <2>5
    <2> QED BY <1>7, <2>3, <2>4, <2>5 DEF Private!Write
  <1>8. CASE Private!Synchronize
    <2>1. /\ inode \in Inodes /\ file[inode] \in FileRecords
          /\ place = "sync" /\ UNCHANGED <<use, Private!names>>
      BY <1>8 DEF Private!Synchronize
    <2>2. CASE /\ file' = [file EXCEPT ![inode].synced = TRUE]
               /\ UNCHANGED <<task, text, Private!opened>>
      <3>1. /\ file'[inode].text = file[inode].text /\ file'[inode].ours = file[inode].ours
            /\ file'[inode].meant = file[inode].meant /\ file'[inode].synced
        BY <2>1, <2>2 DEF FileRecords
      <3> QED BY <2>1, <2>2, <3>1
    <2>3. CASE Private!Ends
      BY <2>3
    <2> QED BY <1>8, <2>2, <2>3 DEF Private!Synchronize
  <1>9. CASE Private!Commit
    BY <1>9 DEF Private!Commit, Private!Lead, Private!Replaces
  <1>10. CASE Private!Unlinked
    BY <1>10 DEF Private!Unlinked
  <1>11. CASE Private!LookAgain
    BY <1>11 DEF Private!LookAgain, Private!IsStillThere
  <1>12. CASE Private!Remove
    BY <1>12 DEF Private!Remove
  <1>13. ASSUME NEW n \in {"managed", "source"}, NEW t \in Others, Private!Edit(n, t)
         PROVE  WritingFits'
    BY <1>13 DEF Private!Edit, Private!Disturbs, Private!Exists, Private!Held
  <1>14. ASSUME NEW n \in {"managed", "source"},
               NEW i \in Inodes \cup {NoFile}, Private!Exchange(n, i)
         PROVE  WritingFits'
    <2>1. inode \in Inodes /\ inode # i => file'[inode] = file[inode]
      BY <1>14 DEF Private!Exchange
    <2>2. /\ UNCHANGED <<use, task, place, from, inode, text, was>>
          /\ i = NoFile \/ i \notin lasting \cup {bound.managed, bound.source, inode}
          /\ bound' = [bound EXCEPT ![n] = i]
          /\ lasting' \subseteq lasting \cup {i}
      BY <1>14 DEF Private!Exchange, Private!Unused
    <2>3. NoFile \notin Inodes
      BY DEF Private!FilesAssumption
    <2> QED BY <2>1, <2>2, <2>3
  <1>15. CASE Private!Settle
    BY <1>15 DEF Private!Settle
  <1>16. CASE Private!Kill
    BY <1>16 DEF Private!Kill
  <1>17. CASE Private!PowerLoss
    BY <1>17 DEF Private!PowerLoss
  <1> QED BY <1>1, <1>2, <1>3, <1>4, <1>5, <1>6, <1>7, <1>8, <1>9, <1>10, <1>11, <1>12, <1>13,
             <1>14, <1>15, <1>16, <1>17 DEF Private!Next

\* What is read stays the beginning of what was opened.
LEMMA ReadingFitsKeeps ==
  ASSUME Private!FilesAssumption, PrivateInv, Private!Next
  PROVE  ReadingFits'
  <1> USE DEF PrivateInv, FileTypes, CallsHavePlaces, SourceIsApart, Private!StoredIsWhole,
         WritingFits, ReadingFits, Begins, Private!Fits, Private!Foreign, Private!given,
         Private!names, Private!opened, Private!Goto, Private!Return, Private!Ends,
         Private!Fails
  <1>1. CASE Private!Begin
    BY <1>1 DEF Private!Begin, Private!Called,
         Private!Load, Private!Save, Private!Import, Private!Adopt,
         Private!Keep, Private!RemoveExact, Private!Unused
  <1>2. CASE Private!Stat
    BY <1>2 DEF Private!Stat
  <1>3. CASE Private!Open
    BY <1>3 DEF Private!Open, Private!NothingRead, Private!Exists, Private!Content
  <1>4. CASE Private!ReadOn
    BY <1>4 DEF Private!ReadOn, Private!NothingRead
  <1>5. CASE Private!ReadEnds
    BY <1>5 DEF Private!ReadEnds, Private!UseText, Private!NothingRead
  <1>6. CASE Private!Create
    BY <1>6 DEF Private!Create, Private!CannotCreate, Private!Unused
  <1>7. CASE Private!Write
    BY <1>7 DEF Private!Write
  <1>8. CASE Private!Synchronize
    BY <1>8 DEF Private!Synchronize
  <1>9. CASE Private!Commit
    BY <1>9 DEF Private!Commit, Private!Lead, Private!Replaces
  <1>10. CASE Private!Unlinked
    BY <1>10 DEF Private!Unlinked
  <1>11. CASE Private!LookAgain
    BY <1>11 DEF Private!LookAgain, Private!IsStillThere
  <1>12. CASE Private!Remove
    BY <1>12 DEF Private!Remove
  <1>13. ASSUME NEW n \in {"managed", "source"}, NEW t \in Others, Private!Edit(n, t)
         PROVE  ReadingFits'
    BY <1>13 DEF Private!Edit, Private!Disturbs, Private!Exists, Private!Held
  <1>14. ASSUME NEW n \in {"managed", "source"},
               NEW i \in Inodes \cup {NoFile}, Private!Exchange(n, i)
         PROVE  ReadingFits'
    <2>1. inode \in Inodes /\ inode # i => file'[inode] = file[inode]
      BY <1>14 DEF Private!Exchange
    <2>2. /\ UNCHANGED <<use, task, place, from, inode, text, was, touched>>
          /\ i = NoFile \/ i # inode
          /\ bound' = [bound EXCEPT ![n] = i]
          /\ unseen' = IF n = "managed" /\ place # "idle" THEN TRUE ELSE unseen
      BY <1>14 DEF Private!Exchange, Private!Unused, Private!Disturbs
    <2>3. NoFile \notin Inodes
      BY DEF Private!FilesAssumption
    <2> QED BY <2>1, <2>2, <2>3
  <1>15. CASE Private!Settle
    BY <1>15 DEF Private!Settle
  <1>16. CASE Private!Kill
    BY <1>16 DEF Private!Kill
  <1>17. CASE Private!PowerLoss
    BY <1>17 DEF Private!PowerLoss
  <1> QED BY <1>1, <1>2, <1>3, <1>4, <1>5, <1>6, <1>7, <1>8, <1>9, <1>10, <1>11, <1>12, <1>13,
             <1>14, <1>15, <1>16, <1>17 DEF Private!Next

\* A beginning that is as long as the whole is the whole.
LEMMA BeginsWhole ==
  ASSUME NEW s \in Seq(Values), NEW t \in Seq(Values), Begins(s, t), Len(s) = Len(t)
  PROVE  s = t
  BY DEF Begins

\* What was verified stays so until the last look.
LEMMA RemovalFitsKeeps ==
  ASSUME Private!FilesAssumption, PrivateInv, Private!Next
  PROVE  RemovalFits'
  <1> USE DEF PrivateInv, FileTypes, CallsHavePlaces, SourceIsApart, WritingFits, ReadingFits,
         RemovalFits, Begins, Private!Foreign, Private!given, Private!names, Private!opened,
         Private!Goto, Private!Return, Private!Ends, Private!Fails
  <1>1. CASE Private!Begin
    BY <1>1 DEF Private!Begin, Private!Called,
         Private!Load, Private!Save, Private!Import, Private!Adopt,
         Private!Keep, Private!RemoveExact, Private!Unused
  <1>2. CASE Private!Stat
    BY <1>2 DEF Private!Stat
  <1>3. CASE Private!Open
    BY <1>3 DEF Private!Open, Private!NothingRead, Private!Exists, Private!Content
  <1>4. CASE Private!ReadOn
    <2>1. CASE UNCHANGED <<task, place, Private!opened>>
      BY <1>4, <2>1 DEF Private!ReadOn
    <2>2. CASE Private!NothingRead(TRUE)
      BY <1>4, <2>2 DEF Private!ReadOn, Private!NothingRead
    <2> QED BY <1>4, <2>1, <2>2 DEF Private!ReadOn
  <1>5. CASE Private!ReadEnds
    <2>1. CASE place' \notin {"read", "verified", "remove"}
      BY <2>1
    <2>2. CASE /\ place' = "verified" /\ task = "remove" /\ ~touched /\ text = Genuine
               /\ UNCHANGED <<task, text, Private!opened>>
      <3>1. file[inode] = was /\ inode \in Inodes /\ Begins(text,
         was.text) /\ Len(text) = Len(was.text)
        BY <1>5, <2>2 DEF Private!ReadEnds
      <3>2. was.text = text
        <4>1. was.text \in Seq(Values)
          BY DEF FileRecords
        <4> QED BY <3>1, <4>1, BeginsWhole
      <3> QED BY <1>5, <2>2, <3>1, <3>2 DEF Private!ReadEnds
    <2>3. \A e \in BOOLEAN : Private!NothingRead(e) => place' \in {"open", "idle"}
      BY DEF Private!NothingRead
    <2> QED BY <1>5, <2>1, <2>2, <2>3 DEF Private!ReadEnds, Private!UseText
  <1>6. CASE Private!Create
    BY <1>6 DEF Private!Create, Private!CannotCreate, Private!Unused
  <1>7. CASE Private!Write
    BY <1>7 DEF Private!Write
  <1>8. CASE Private!Synchronize
    BY <1>8 DEF Private!Synchronize
  <1>9. CASE Private!Commit
    BY <1>9 DEF Private!Commit, Private!Lead, Private!Replaces
  <1>10. CASE Private!Unlinked
    BY <1>10 DEF Private!Unlinked
  <1>11. CASE Private!LookAgain
    BY <1>11 DEF Private!LookAgain, Private!IsStillThere
  <1>12. CASE Private!Remove
    BY <1>12 DEF Private!Remove
  <1>13. ASSUME NEW n \in {"managed", "source"}, NEW t \in Others, Private!Edit(n, t)
         PROVE  RemovalFits'
    BY <1>13 DEF Private!Edit, Private!Disturbs, Private!Exists, Private!Held
  <1>14. ASSUME NEW n \in {"managed", "source"},
               NEW i \in Inodes \cup {NoFile}, Private!Exchange(n, i)
         PROVE  RemovalFits'
    <2>1. inode \in Inodes /\ inode # i => file'[inode] = file[inode]
      BY <1>14 DEF Private!Exchange
    <2>2. /\ UNCHANGED <<system, task, place, inode, touched>>
          /\ i = NoFile \/ i # inode
          /\ bound' = [bound EXCEPT ![n] = i]
          /\ unseen' = IF n = "managed" /\ place # "idle" THEN TRUE ELSE unseen
      BY <1>14 DEF Private!Exchange, Private!Unused, Private!Disturbs
    <2>3. /\ NoFile \notin Inodes
          /\ ~(/\ system = "windows" /\ place \in {"read", "verified", "remove"}
               /\ bound[n] = inode)
      BY <1>14 DEF Private!FilesAssumption, Private!Exchange, Private!Held
    <2> QED BY <2>1, <2>2, <2>3
  <1>15. CASE Private!Settle
    BY <1>15 DEF Private!Settle
  <1>16. CASE Private!Kill
    BY <1>16 DEF Private!Kill
  <1>17. CASE Private!PowerLoss
    BY <1>17 DEF Private!PowerLoss
  <1> QED BY <1>1, <1>2, <1>3, <1>4, <1>5, <1>6, <1>7, <1>8, <1>9, <1>10, <1>11, <1>12, <1>13,
             <1>14, <1>15, <1>16, <1>17 DEF Private!Next

\* Nothing of ours comes to the managed name during an adoption.
LEMMA AdoptionFitsKeeps ==
  ASSUME Private!FilesAssumption, PrivateInv, Private!Next
  PROVE  AdoptionFits'
  <1> USE DEF PrivateInv, FileTypes, CallsHavePlaces, SourceIsApart, Private!StoredIsWhole,
         ReadingFits, AdoptionFits, Begins, Private!Fits, Private!Foreign, Private!given,
         Private!names, Private!opened, Private!Goto, Private!Return, Private!Ends,
         Private!Fails
  <1>1. CASE Private!Begin
    BY <1>1 DEF Private!Begin, Private!Called,
         Private!Load, Private!Save, Private!Import, Private!Adopt,
         Private!Keep, Private!RemoveExact, Private!Unused
  <1>2. CASE Private!Stat
    BY <1>2 DEF Private!Stat
  <1>3. CASE Private!Open
    BY <1>3 DEF Private!Open, Private!NothingRead, Private!Exists, Private!Content
  <1>4. CASE Private!ReadOn
    <2>1. CASE UNCHANGED <<task, place, Private!opened>>
      BY <1>4, <2>1 DEF Private!ReadOn
    <2>2. CASE Private!NothingRead(TRUE)
      BY <1>4, <2>2 DEF Private!ReadOn, Private!NothingRead
    <2> QED BY <1>4, <2>1, <2>2 DEF Private!ReadOn
  <1>5. CASE Private!ReadEnds
    <2>1. CASE UNCHANGED <<task, from, unseen, bound, file>> \/ Private!Ends
      BY <2>1
    <2>2. CASE Private!NothingRead(TRUE)
      BY <1>5, <2>2 DEF Private!ReadEnds, Private!NothingRead
    <2>3. CASE ~Private!Fits(text) /\ Private!NothingRead(FALSE)
               /\ task = "adopt" /\ from = "managed"
      <3>1. place = "read" /\ Len(text) = Len(was.text) /\ UNCHANGED <<file, Private!names,
         use>>
        BY <1>5 DEF Private!ReadEnds
      <3>2. ASSUME ~unseen, file[bound.managed].ours
            PROVE  FALSE
        <4>1. /\ bound.managed = inode /\ file[inode] = was /\ Begins(text, was.text)
              /\ was.ours => Private!Fits(was.text)
          BY <2>3, <3>1, <3>2
        <4>2. text = was.text
          <5>1. was.text \in Seq(Values)
            BY DEF FileRecords
          <5> QED BY <3>1, <4>1, <5>1, BeginsWhole
        <4> QED BY <2>3, <3>2, <4>1, <4>2
      <3>3. /\ task' = "adopt" /\ from' = "source" /\ unseen' = unseen
        BY <2>3 DEF Private!NothingRead
      <3> QED BY <3>1, <3>2, <3>3
    <2>4. Private!NothingRead(TRUE) \/ Private!UseText
      BY <1>5 DEF Private!ReadEnds
    <2>5. CASE Private!UseText
      <3>1. CASE task = "adopt"
        <4>1. \/ ~Private!Fits(text) /\ Private!NothingRead(FALSE)
              \/ Private!Ends
              \/ UNCHANGED <<task, from, unseen>>
          BY <2>5, <3>1 DEF Private!UseText
        <4>2. UNCHANGED <<file, bound>>
          BY <1>5 DEF Private!ReadEnds
        <4>3. CASE from # "managed" /\ Private!NothingRead(FALSE)
          BY <2>1, <3>1, <4>3 DEF Private!NothingRead
        <4> QED BY <2>1, <2>3, <3>1, <4>1, <4>2, <4>3
      <3>2. CASE task # "adopt"
        <4>1. task' # "adopt"
          BY <2>5, <3>2 DEF Private!UseText, Private!NothingRead
        <4> QED BY <4>1
      <3> QED BY <3>1, <3>2
    <2> QED BY <2>2, <2>4, <2>5
  <1>6. CASE Private!Create
    BY <1>6 DEF Private!Create, Private!CannotCreate, Private!Unused
  <1>7. CASE Private!Write
    <2>1. /\ inode \in Inodes /\ inode # bound.managed
          /\ \A j \in Inodes : j # inode => file'[j] = file[j]
          /\ UNCHANGED bound
      BY <1>7 DEF Private!Write, WritingFits
    <2>2. Private!Ends \/ UNCHANGED <<task, from, unseen>>
      BY <1>7 DEF Private!Write
    <2> QED BY <2>1, <2>2
  <1>8. CASE Private!Synchronize
    <2>1. /\ inode \in Inodes /\ inode # bound.managed
          /\ \A j \in Inodes : j # inode => file'[j] = file[j]
          /\ UNCHANGED bound
      BY <1>8 DEF Private!Synchronize, WritingFits
    <2>2. Private!Ends \/ UNCHANGED <<task, from, unseen>>
      BY <1>8 DEF Private!Synchronize
    <2> QED BY <2>1, <2>2
  <1>9. CASE Private!Commit
    BY <1>9 DEF Private!Commit, Private!Lead, Private!Replaces
  <1>10. CASE Private!Unlinked
    BY <1>10 DEF Private!Unlinked
  <1>11. CASE Private!LookAgain
    BY <1>11 DEF Private!LookAgain, Private!IsStillThere
  <1>12. CASE Private!Remove
    BY <1>12 DEF Private!Remove
  <1>13. ASSUME NEW n \in {"managed", "source"}, NEW t \in Others, Private!Edit(n, t)
         PROVE  AdoptionFits'
    BY <1>13 DEF Private!Edit, Private!Disturbs, Private!Exists, Private!Held
  <1>14. ASSUME NEW n \in {"managed", "source"},
               NEW i \in Inodes \cup {NoFile}, Private!Exchange(n, i)
         PROVE  AdoptionFits'
    BY <1>14 DEF Private!Exchange, Private!Disturbs, Private!Held, Private!Unused
  <1>15. CASE Private!Settle
    BY <1>15 DEF Private!Settle
  <1>16. CASE Private!Kill
    BY <1>16 DEF Private!Kill
  <1>17. CASE Private!PowerLoss
    BY <1>17 DEF Private!PowerLoss
  <1> QED BY <1>1, <1>2, <1>3, <1>4, <1>5, <1>6, <1>7, <1>8, <1>9, <1>10, <1>11, <1>12, <1>13,
             <1>14, <1>15, <1>16, <1>17 DEF Private!Next

\* A result that tells of nothing used, put or taken.
Plain(r) == /\ r.task = task /\ ~r.read /\ ~r.put /\ ~r.there
            /\ task \in {"save", "import"} => ~r.ok

\* Such a result keeps every word.
LEMMA PlainKeepsWord ==
  ASSUME Plain(last') \/ last' = Private!NoResult \/ UNCHANGED last,
  Private!CallsKeepTheirWord, UNCHANGED system
  PROVE  Private!CallsKeepTheirWord'
  <1>1. CASE Plain(last')
    BY <1>1 DEF Plain, Private!CallsKeepTheirWord
  <1>2. CASE last' = Private!NoResult
    BY <1>2 DEF Private!NoResult, Private!CallsKeepTheirWord
  <1>3. CASE UNCHANGED last
    BY <1>3 DEF Private!CallsKeepTheirWord
  <1> QED BY <1>1, <1>2, <1>3

\* A report tells of the task alone.
LEMMA ReportIsPlain ==
  /\ Private!Report.task = task /\ Private!Report.ok = TRUE
  /\ ~Private!Report.read /\ ~Private!Report.put /\ ~Private!Report.there
  /\ \A b : LET r == [Private!Report EXCEPT !.ok = b]
            IN  r.task = task /\ ~r.read /\ ~r.put /\ ~r.there /\ r.ok = b
  BY DEF Private!Report, Private!NoResult

\* A failure tells of nothing else.
LEMMA FailsPlainly ==
  ASSUME Private!Fails
  PROVE  Plain(last')
  BY ReportIsPlain DEF Private!Fails, Private!Return, Plain

\* Nothing was read: for a configured source that is no error.
LEMMA NothingReadIsPlain ==
  ASSUME NEW error \in BOOLEAN, Private!NothingRead(error), task # "save",
  task = "import" => error
  PROVE  Plain(last') \/ last' = Private!NoResult
  <1>1. CASE last' = Private!NoResult
    BY <1>1
  <1>2. CASE last' = [Private!Report EXCEPT !.ok = ~error \/ task \in {"adopt", "keep"}]
    <2>1. last'.task = task /\ ~last'.read /\ ~last'.put /\ ~last'.there
      BY <1>2, ReportIsPlain
    <2>2. last'.ok = (~error \/ task \in {"adopt", "keep"})
      BY <1>2, ReportIsPlain
    <2> QED BY <2>1, <2>2 DEF Plain
  <1> QED BY <1>1, <1>2 DEF Private!NothingRead, Private!Goto, Private!Return

\* Every result keeps its word.
LEMMA WordKeeps ==
  ASSUME Private!FilesAssumption, PrivateInv, Private!Next
  PROVE  Private!CallsKeepTheirWord'
  <1> USE DEF PrivateInv, Private!given, Private!names, Private!opened, Private!Goto,
         Private!Return
  <1>1. CASE Private!Begin
    BY <1>1, PlainKeepsWord, FailsPlainly DEF Private!Begin, Private!Called,
         Private!Load, Private!Save, Private!Import, Private!Adopt,
         Private!Keep, Private!RemoveExact
  <1>2. CASE Private!Stat
    <2>1. task = "keep" /\ UNCHANGED system
      BY <1>2 DEF Private!Stat, CallsHavePlaces
    <2>2. CASE last' = [Private!Report EXCEPT !.ok = Private!Fits(Private!Content("managed").text)]
      BY <2>1, <2>2, ReportIsPlain, PlainKeepsWord DEF Plain
    <2> QED BY <1>2, <2>1, <2>2, PlainKeepsWord DEF Private!Stat
  <1>3. CASE Private!Open
    <2>1. task # "save" /\ UNCHANGED system
      BY <1>3 DEF Private!Open, CallsHavePlaces
    <2>2. CASE Private!NothingRead(task = "import") \/ Private!NothingRead(TRUE)
      BY <2>1, <2>2, NothingReadIsPlain, PlainKeepsWord
    <2>3. CASE task = "remove" /\ last' = Private!Report
      BY <2>1, <2>3, ReportIsPlain, PlainKeepsWord DEF Plain
    <2> QED BY <1>3, <2>1, <2>2, <2>3, PlainKeepsWord DEF Private!Open
  <1>4. CASE Private!ReadOn
    <2>1. task # "save" /\ UNCHANGED system
      BY <1>4 DEF Private!ReadOn, CallsHavePlaces
    <2>2. CASE Private!NothingRead(TRUE)
      BY <2>1, <2>2, NothingReadIsPlain, PlainKeepsWord
    <2> QED BY <1>4, <2>1, <2>2, PlainKeepsWord DEF Private!ReadOn
  <1>5. CASE Private!ReadEnds
    <2>1. task # "save" /\ UNCHANGED system /\ place = "read"
      BY <1>5 DEF Private!ReadEnds, CallsHavePlaces
    <2>2. CASE Private!NothingRead(task = "import") \/ Private!NothingRead(TRUE)
      BY <2>1, <2>2, NothingReadIsPlain, PlainKeepsWord
    <2>3. CASE task = "load" /\ Private!UseText
      <3>1. PICK valid \in Private!Decodes(text, was.ours) :
               last' = [Private!WhatIsRead EXCEPT !.ok = valid, !.text = Private!Settings(text)]
        BY <2>3 DEF Private!UseText
      <3>2. /\ last'.task = "load" /\ ~last'.put /\ ~last'.there /\ last'.ok = valid
            /\ last'.text = Private!Settings(text) /\ last'.was = was /\ last'.touched = touched
        BY <2>3, <3>1 DEF Private!WhatIsRead, Private!Report, Private!NoResult
      <3>3. ASSUME was.ours, ~touched
            PROVE  valid /\ Private!Settings(text) = was.meant
        <4>1. from = "managed" /\ Begins(text,
           was.text) /\ was.text = was.meant /\ Private!Fits(was.text)
          BY <2>1, <2>3, <3>3 DEF CallsHavePlaces, ReadingFits
        <4>2. text \in Seq(Values) /\ was.text \in Seq(Values) /\ Len(text) = Len(was.text)
          BY <1>5 DEF FileTypes, FileRecords, Private!ReadEnds
        <4>3. text = was.text
          BY <4>1, <4>2, BeginsWhole
        <4>4. Len(text) = Size
          BY <4>1, <4>2, <4>3, ContentsAreSequences DEF Private!Fits, Private!FilesAssumption
        <4>5. Private!Settings(text) = text /\ text # <<>>
          BY <4>2, <4>4, ContentsAreSequences DEF Private!FilesAssumption
        <4> QED BY <3>1, <3>3, <4>1, <4>3, <4>5 DEF Private!Decodes
      <3> QED BY <3>2, <3>3 DEF Private!CallsKeepTheirWord
    <2>4. CASE task = "adopt" /\ last' = Private!WhatIsRead
      <3>1. last'.task = "adopt" /\ ~last'.put /\ ~last'.there
        BY <2>4 DEF Private!WhatIsRead, Private!Report, Private!NoResult
      <3> QED BY <3>1 DEF Private!CallsKeepTheirWord
    <2>5. CASE task = "remove" /\ last' = Private!Report
      BY <2>1, <2>5, ReportIsPlain, PlainKeepsWord DEF Plain
    <2> QED BY <1>5, <2>1, <2>2, <2>3, <2>4, <2>5, PlainKeepsWord,
               FailsPlainly DEF Private!ReadEnds, Private!UseText
  <1>6. CASE Private!Create
    BY <1>6, PlainKeepsWord, FailsPlainly DEF Private!Create, Private!CannotCreate
  <1>7. CASE Private!Write
    BY <1>7, PlainKeepsWord, FailsPlainly DEF Private!Write
  <1>8. CASE Private!Synchronize
    BY <1>8, PlainKeepsWord, FailsPlainly DEF Private!Synchronize
  <1>9. CASE Private!Commit
    <2>1. place = "commit" /\ UNCHANGED system
      BY <1>9 DEF Private!Commit
    <2>2. CASE /\ last' = [Private!Taken EXCEPT !.put = TRUE]
               /\ Private!Replaces \/ (system = "windows" /\ ~Private!Exists("managed"))
      <3>1. /\ last'.task = task /\ last'.ok /\ last'.put /\ ~last'.read
            /\ last'.there = Private!Exists("managed") /\ last'.unseen = unseen
            /\ last'.lost = IF Private!Exists("managed") THEN Private!Content("managed")
                            ELSE Private!Foreign
        BY <2>2 DEF Private!Taken, Private!Report, Private!NoResult
      <3>2. task = "keep" => ~Private!Exists("managed")
        BY <2>2 DEF Private!Replaces
      <3>3. ASSUME task = "adopt", last'.lost.ours
            PROVE  unseen
        <4>1. Private!Exists("managed") /\ file[bound.managed].ours
          BY <3>1, <3>3 DEF Private!Foreign, Private!Content
        <4> QED BY <2>1, <3>3, <4>1 DEF AdoptionFits, CallsHavePlaces, Private!Exists
      <3>4. task # "remove" /\ task # "load"
        BY <2>1 DEF CallsHavePlaces
      <3> QED BY <3>1, <3>2, <3>3, <3>4 DEF Private!CallsKeepTheirWord
    <2> QED BY <1>9, <2>1, <2>2, PlainKeepsWord, FailsPlainly DEF Private!Commit
  <1>10. CASE Private!Unlinked
    <2>1. task = "keep"
      BY <1>10 DEF Private!Unlinked, CallsHavePlaces
    <2>2. PICK ok \in BOOLEAN : last' = [Private!Report EXCEPT !.ok = ok, !.put = TRUE]
      BY <1>10 DEF Private!Unlinked
    <2>3. last'.task = "keep" /\ ~last'.there
      BY <2>1, <2>2 DEF Private!Report, Private!NoResult
    <2> QED BY <2>3 DEF Private!CallsKeepTheirWord
  <1>11. CASE Private!LookAgain
    BY <1>11, PlainKeepsWord, FailsPlainly DEF Private!LookAgain, Private!IsStillThere
  <1>12. CASE Private!Remove
    <2>1. place = "remove" /\ task = "remove" /\ UNCHANGED system
      BY <1>12 DEF Private!Remove, CallsHavePlaces
    <2>2. ASSUME NEW ok \in BOOLEAN, last' = [Private!Taken EXCEPT !.ok = ok],
                 Private!Exists("managed")
          PROVE  Private!CallsKeepTheirWord'
      <3>1. /\ last'.task = "remove" /\ last'.unseen = unseen
            /\ last'.lost = Private!Content("managed")
        BY <2>1, <2>2 DEF Private!Taken, Private!Report, Private!NoResult
      <3>2. ~unseen => Private!Content("managed").text = Genuine
        BY <2>1 DEF RemovalFits, Private!Content
      <3>3. unseen => system = "posix"
        BY <2>1 DEF RemovalFits, FileTypes
      <3> QED BY <2>1, <3>1, <3>2, <3>3 DEF Private!CallsKeepTheirWord
    <2> QED BY <1>12, <2>1, <2>2, PlainKeepsWord, FailsPlainly DEF Private!Remove
  <1>13. ASSUME NEW n \in {"managed", "source"}, NEW t \in Others, Private!Edit(n, t)
         PROVE  Private!CallsKeepTheirWord'
    BY <1>13, PlainKeepsWord, FailsPlainly DEF Private!Edit
  <1>14. ASSUME NEW n \in {"managed", "source"},
               NEW i \in Inodes \cup {NoFile}, Private!Exchange(n, i)
         PROVE  Private!CallsKeepTheirWord'
    BY <1>14, PlainKeepsWord, FailsPlainly DEF Private!Exchange
  <1>15. CASE Private!Settle
    BY <1>15, PlainKeepsWord, FailsPlainly DEF Private!Settle
  <1>16. CASE Private!Kill
    BY <1>16, PlainKeepsWord, FailsPlainly DEF Private!Kill
  <1>17. CASE Private!PowerLoss
    BY <1>17, PlainKeepsWord, FailsPlainly DEF Private!PowerLoss
  <1> QED BY <1>1, <1>2, <1>3, <1>4, <1>5, <1>6, <1>7, <1>8, <1>9, <1>10, <1>11, <1>12, <1>13,
             <1>14, <1>15, <1>16, <1>17 DEF Private!Next

\* Every step of the private files keeps their invariant.
LEMMA PrivateInvKeeps ==
  ASSUME Private!FilesAssumption, PrivateInv, Private!Next \/ UNCHANGED fileVars
  PROVE  PrivateInv'
  <1>1. CASE Private!Next
    BY <1>1, FileTypesKeep, PlacesKeep, SourceKeeps, StoredKeeps, WritingFitsKeeps,
       ReadingFitsKeeps, RemovalFitsKeeps, AdoptionFitsKeeps, WordKeeps DEF PrivateInv
  <1>2. CASE UNCHANGED fileVars
    <2> USE DEF fileVars, PrivateInv
    <2>1. FileTypes' /\ CallsHavePlaces' /\ SourceIsApart'
      BY <1>2 DEF FileTypes, CallsHavePlaces, SourceIsApart
    <2>2. Private!StoredIsWhole' /\ WritingFits' /\ ReadingFits'
      BY <1>2 DEF Private!StoredIsWhole, WritingFits, ReadingFits, Private!Fits
    <2>3. RemovalFits' /\ AdoptionFits' /\ Private!CallsKeepTheirWord'
      BY <1>2 DEF RemovalFits, AdoptionFits, Private!CallsKeepTheirWord
    <2> QED BY <2>1, <2>2, <2>3
  <1> QED BY <1>1, <1>2

\* It holds at the start.
LEMMA PrivateInitFits ==
  ASSUME Private!FilesAssumption, Private!Init
  PROVE  PrivateInv
  <1>0. \A i \in Inodes : \E t \in Others : file[i] = [Private!Foreign EXCEPT !.text = t]
    <2> DEFINE S == {[Private!Foreign EXCEPT !.text = t] : t \in Others}
    <2>1. file \in [Inodes -> S]
      BY DEF Private!Init
    <2> HIDE DEF S
    <2>2. \A i \in Inodes : file[i] \in S
      BY <2>1
    <2> QED BY <2>2 DEF S
  <1>1. FileTypes
    <2>1. \A i \in Inodes : file[i] \in FileRecords
      BY <1>0, ContentsAreSequences, ForeignIsAFile
    <2>2. file \in [Inodes -> FileRecords]
      BY <2>1 DEF Private!Init
    <2> QED BY <2>2, ForeignIsAFile DEF Private!Init, FileTypes, CallTasks, CallPlaces
  <1>2. CallsHavePlaces /\ WritingFits /\ ReadingFits /\ RemovalFits /\ AdoptionFits
    BY DEF Private!Init, CallsHavePlaces, WritingFits, ReadingFits, RemovalFits, AdoptionFits
  <1>3. SourceIsApart
    BY DEF Private!Init, SourceIsApart
  <1>4. Private!StoredIsWhole
    <2>1. \A i \in Inodes : ~file[i].ours
      BY <1>0 DEF Private!Foreign
    <2> QED BY <2>1 DEF Private!Init, Private!StoredIsWhole
  <1>5. Private!CallsKeepTheirWord
    BY DEF Private!Init, Private!NoResult, Private!CallsKeepTheirWord
  <1> QED BY <1>1, <1>2, <1>3, <1>4, <1>5 DEF PrivateInv

\* So it holds throughout.
LEMMA PrivateInvAlways == AppSpec => []PrivateInv
  <1>1. AppInit => PrivateInv
    BY PrivateIsBounded, PrivateInitFits DEF AppInit, PrivateAtRest
  <1>2. PrivateInv /\ [AppNext]_<<part, vars, deskVars, fileVars>> => PrivateInv'
    BY PrivateIsBounded, PrivateInvKeeps DEF AppNext
  <1> QED BY <1>1, <1>2, PTL DEF AppSpec

-----------------------------------------------------------------------------
\* For every set of launches, every size and content of the private files and
\* every disturbance: whoever has a runtime is alone and has the guard, whoever
\* serves can be reached, and the exit code is the outcome of the one shutdown
\* (the guards, background hosts and run_application); what GDOX put under a
\* managed name is whole, also after a power loss, and what a call on it says is
\* what it did (gdox_storage_write_private, gdox_storage_remove_exact_file and
\* their callers).
THEOREM DesktopStaysSound == AppSpec => []DesktopIsSound
  <1>1. DeskInv /\ PrivateInv => DesktopIsSound
    BY DeskIsSound DEF PrivateInv, DesktopIsSound
  <1> QED BY <1>1, DeskInvAlways, PrivateInvAlways, PTL
=============================================================================
