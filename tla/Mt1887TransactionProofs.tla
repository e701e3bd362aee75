----------------------- MODULE Mt1887TransactionProofs -----------------------
(***************************************************************************)
(* The MT1887 source.  The volatile memory of the drive, proved of         *)
(* Mt1887Transaction for every set of drives and profiles, every number of *)
(* attempts and of changes of disc: what was written can be taken back,    *)
(* nothing is written over an unknown state, and the memory is let go as   *)
(* the drive itself made it.  Then the live session, proved of LiveMedia   *)
(* for every number of discs, requests, events and confirmations: another  *)
(* disc is noticed, because every change is counted or still reported.     *)
(***************************************************************************)
EXTENDS MCMt1887Transaction, Integers, FiniteSetTheorems, SequenceTheorems, TLAPS

\* A byte that belongs to the stock or to the live state of p, or one of the
\* auxiliary bytes of a drive whose auxiliary bytes are put right.
Planned(p, write) ==
  IF write.field \in Volatile
    THEN write.value \in {Stock[p][write.field][write.index], Live[p][write.field][write.index]}
    ELSE /\ write.field = "auxiliary" /\ hardware.auxiliary = "repaired"
         /\ write.value = Canonical[write.index]

IsReading(place) == place \in {"snapshot", "rest"}

\* From the places behind the first live byte the way leads over a
\* restoration; a drive is released only when none is owed.
OwesAtPlace(place, s) ==
  /\ place \in {"geometry", "write", "descriptor", "live", "reading", "recover", "reset"}
       => s.required
  /\ IsReading(place) /\ s.purpose # "normalize" => s.required
  /\ place \in {"identify", "release"} => ~s.required
  /\ s.required \/ IsReading(place) => s.media \in hardware.media

\* What the source is doing, by the place it is at.
TaskFits(place, s) ==
  /\ place \in {"identify", "descriptor"} => s.task = "open"
  /\ place \in {"reading", "recover"} => s.task = "read"
  /\ place \in {"geometry", "reset"} => s.task = "close"
  /\ IsReading(place) =>
       CASE s.purpose = "normalize" -> s.task = "open"
         [] s.purpose \in {"ensure", "repair"} -> s.task = "read"
         [] s.purpose = "guard" -> s.task = "close"
         [] s.purpose = "restored" -> TRUE
         [] s.purpose = "applied" -> s.task # "close"
  /\ place = "write" => \/ s.purpose = "restored"
                        \/ s.purpose = "applied" /\ s.task # "close"

\* An attempt is under way only if another one may follow.
AttemptsAreLeft(place, s) ==
  /\ place \in {"recover", "snapshot", "rest", "write"} /\ s.task = "read"
       => s.tries < ReadAttempts
  /\ place = "reset" => s.tries < RestoreAttempts

WritesArePlanned(place, s) ==
  place = "write" => \A i \in 1 .. Len(s.writes) : Planned(s.media, s.writes[i])

Fits(place, s) ==
  /\ place \in Places /\ s \in Sources
  /\ OwesAtPlace(place, s) /\ TaskFits(place, s)
  /\ AttemptsAreLeft(place, s) /\ WritesArePlanned(place, s)

OwnMemories == {Natural(d) : d \in Discs}

DiscIsTheOne == ~history.moved /\ source.media # None => drive.disc = source.media

\* Between the two steps of a snapshot the capacity bytes are those that were
\* read, unless the drive has read a disc again.
SeenIsCapacity ==
  pc = "rest" =>
    \/ source.seen = drive.memory.capacity
    \/ /\ history.stale /\ drive.memory \in OwnMemories
       /\ ~history.moved => drive.memory = StockMemory(source.media)

OwnIsTransition ==
  source.required /\ ~history.moved /\ ~history.retarget =>
    IsTransition(source.media, drive.memory)

GuardedIsKnown ==
  pc = "geometry" /\ ~history.stale => IsTransition(source.media, drive.memory)

\* What was written and is no longer owed is gone.
GivenBack ==
  pc # "closed" /\ history.wrote /\ ~source.required => drive.memory \in OwnMemories

IInv ==
  /\ TypeOK /\ Fits(pc, source)
  /\ DiscIsTheOne /\ SeenIsCapacity
  /\ RestorationIsArmed /\ OwnIsTransition /\ GuardedIsKnown /\ GivenBack

-----------------------------------------------------------------------------
(* The profiles and the plans. *)

\* The bytes of a profile are memories.
LEMMA ProfileMemories ==
  ASSUME NEW p \in Profiles
  PROVE  /\ Stock[p].capacity \in Triplets /\ Stock[p].geometry \in Triplets
         /\ Live[p].capacity \in Triplets /\ Live[p].geometry \in Triplets
         /\ StockMemory(p) \in Memories /\ LiveMemory(p) \in Memories
         /\ Natural(p) = StockMemory(p)
         /\ p \in Discs /\ Natural(p) \in OwnMemories
  <1>1. /\ Stock[p].capacity \in Triplets /\ Stock[p].geometry \in Triplets
        /\ Live[p].capacity \in Triplets /\ Live[p].geometry \in Triplets
    BY ProfileAssumption DEF Volatile
  <1>2. p # "foreign"
    BY ProfileAssumption
  <1> QED BY <1>1, <1>2, ProfileAssumption DEF StockMemory, LiveMemory, Memories, Natural,
        Discs, OwnMemories

\* The memory that the drive makes of a disc is a memory.
LEMMA NaturalIsMemory ==
  ASSUME NEW d \in Discs
  PROVE  Natural(d) \in Memories /\ Natural(d) \in OwnMemories
  BY ProfileMemories, ProfileAssumption DEF Natural, Discs, OwnMemories

\* The drive is one of those that the assumption describes.
LEMMA HardwareIsKnown ==
  ASSUME hardware \in Hardwares
  PROVE  /\ hardware.media \subseteq Profiles
         /\ hardware.auxiliary \in {"absent", "repaired", "guard"}
  BY HardwareAssumption

\* The stock state and the live state are states of the transition.
LEMMA WholeIsTransition ==
  ASSUME hardware \in Hardwares, NEW p \in Profiles
  PROVE  IsTransition(p, StockMemory(p)) /\ IsTransition(p, LiveMemory(p))
  <1>1. AuxiliaryIsTransition(p, Canonical)
    BY HardwareIsKnown DEF AuxiliaryIsTransition
  <1>2. ASSUME NEW f \in Volatile
        PROVE  TripletIsTransition(p, f, StockMemory(p)[f])
               /\ TripletIsTransition(p, f, LiveMemory(p)[f])
    BY DEF TripletIsTransition, StockMemory, LiveMemory, Volatile
  <1>3. StockMemory(p).auxiliary = Canonical /\ LiveMemory(p).auxiliary = Canonical
    BY DEF StockMemory, LiveMemory
  <1> QED BY <1>1, <1>2, <1>3 DEF IsTransition

\* What a class says of the memory it was found for.
LEMMA ClassesMean ==
  ASSUME hardware \in Hardwares, NEW p \in hardware.media, NEW found, NEW extent
  PROVE  /\ Classify(p, found, extent) \in {"stock", "live", "transition", "unknown"}
         /\ Classify(p, found, extent) = "unknown" <=> ~IsTransition(p, found)
         /\ Classify(p, found, extent) = "stock" <=>
              (found = StockMemory(p) /\ extent = Stock[p].capacity)
  <1>1. p \in Profiles /\ Stock[p].capacity # Live[p].capacity
    BY HardwareIsKnown, ProfileAssumption
  <1>2. found \in {StockMemory(p), LiveMemory(p)} => IsTransition(p, found)
    BY <1>1, WholeIsTransition
  <1> HIDE DEF IsTransition
  <1>3. CASE found = StockMemory(p) /\ extent = Stock[p].capacity
    <2>1. Classify(p, found, extent) = "stock"
      BY <1>1, <1>3 DEF Classify
    <2>2. IsTransition(p, found)
      BY <1>2, <1>3
    <2> QED BY <1>3, <2>1, <2>2
  <1>4. CASE ~(found = StockMemory(p) /\ extent = Stock[p].capacity)
    <2>1. CASE found = LiveMemory(p) /\ extent = Live[p].capacity
      <3>1. Classify(p, found, extent) = "live"
        BY <1>4, <2>1 DEF Classify
      <3> QED BY <1>2, <1>4, <2>1, <3>1
    <2>2. CASE ~(found = LiveMemory(p) /\ extent = Live[p].capacity)
      <3>1. Classify(p, found, extent) = IF IsTransition(p, found) THEN "transition" ELSE "unknown"
        BY <1>4, <2>2 DEF Classify
      <3> QED BY <1>4, <3>1
    <2> QED BY <2>1, <2>2
  <1> QED BY <1>3, <1>4

\* A memory that exactly one profile knows is known to one.
LEMMA KnownToSomeone ==
  ASSUME NEW found, NEW extent, BelongsToAnother(found, extent)
  PROVE  KnownTo(found, extent) # {}
  <1> DEFINE known == KnownTo(found, extent)
  <1>1. Cardinality(known) = 1
    BY DEF BelongsToAnother
  <1> HIDE DEF known
  <1>2. known = {} => Cardinality(known) = Cardinality({})
    BY Zenon
  <1>3. Cardinality({}) = 0
    BY FS_EmptySet
  <1>4. known # {}
    BY <1>1, <1>2, <1>3
  <1> QED BY <1>4 DEF known

\* A triplet is written with its own bytes.
LEMMA TripletIsPlanned ==
  ASSUME NEW p \in Profiles, NEW field \in {"capacity", "geometry", "auxiliary"},
         NEW values \in Triplets,
         field \in Volatile => values \in {Stock[p][field], Live[p][field]},
         field = "auxiliary" => hardware.auxiliary = "repaired" /\ values = Canonical
  PROVE  /\ Triplet(field, values) \in Seq(Writes) /\ Len(Triplet(field, values)) = 3
         /\ \A i \in 1 .. 3 : Planned(p, Triplet(field, values)[i])
  <1>1. ASSUME NEW i \in 1 .. 3
        PROVE  Triplet(field, values)[i] = [field |-> field, index |-> i, value |-> values[i]]
    BY DEF Triplet
  <1>2. ASSUME NEW i \in 1 .. 3
        PROVE  [field |-> field, index |-> i, value |-> values[i]] \in Writes
    BY DEF Writes, Triplets
  <1>3. Triplet(field, values) \in [1 .. 3 -> Writes]
    BY <1>2 DEF Triplet
  <1>4. ASSUME NEW i \in 1 .. 3 PROVE Planned(p, Triplet(field, values)[i])
    BY <1>1 DEF Planned, Volatile
  <1> DEFINE triplet == Triplet(field, values)
  <1> HIDE DEF triplet
  <1>5. \A n \in Nat : triplet \in [1 .. n -> Writes] => triplet \in Seq(Writes) /\ Len(triplet) = n
    OBVIOUS
  <1> QED BY <1>3, <1>4, <1>5 DEF triplet

\* Two planned sequences after each other are one.
LEMMA PlansJoin ==
  ASSUME NEW p, NEW one \in Seq(Writes), NEW other \in Seq(Writes),
         \A i \in 1 .. Len(one) : Planned(p, one[i]),
         \A i \in 1 .. Len(other) : Planned(p, other[i])
  PROVE  /\ one \o other \in Seq(Writes)
         /\ \A i \in 1 .. Len(one \o other) : Planned(p, (one \o other)[i])
  <1>1. /\ one \o other \in Seq(Writes) /\ Len(one \o other) = Len(one) + Len(other)
        /\ \A i \in 1 .. Len(one) + Len(other) :
             (one \o other)[i] = IF i <= Len(one) THEN one[i] ELSE other[i - Len(one)]
    BY ConcatProperties
  <1>2. Len(one) \in Nat /\ Len(other) \in Nat
    OBVIOUS
  <1>3. ASSUME NEW i \in 1 .. Len(one) + Len(other) PROVE Planned(p, (one \o other)[i])
    <2>1. CASE i <= Len(one)
      <3>1. i \in 1 .. Len(one)
        BY <1>2, <2>1
      <3> QED BY <1>1, <2>1, <3>1
    <2>2. CASE ~(i <= Len(one))
      <3>1. i - Len(one) \in 1 .. Len(other)
        BY <1>2, <2>2
      <3> QED BY <1>1, <2>2, <3>1
    <2> QED BY <2>1, <2>2
  <1> QED BY <1>1, <1>3

\* A restoration and an activation write bytes of the profile only.
LEMMA PlansArePlanned ==
  ASSUME NEW p \in Profiles
  PROVE  /\ RestorePlan(p) \in Seq(Writes)
         /\ \A i \in 1 .. Len(RestorePlan(p)) : Planned(p, RestorePlan(p)[i])
         /\ ApplyPlan(p) \in Seq(Writes)
         /\ \A i \in 1 .. Len(ApplyPlan(p)) : Planned(p, ApplyPlan(p)[i])
  <1> DEFINE Good(plan) == plan \in Seq(Writes) /\ \A i \in 1 .. Len(plan) : Planned(p, plan[i])
             stock(f) == Triplet(f, Stock[p][f])
             live(f) == Triplet(f, Live[p][f])
             rest == IF hardware.auxiliary = "repaired" THEN Triplet("auxiliary", Canonical)
                                                        ELSE <<>>
  <1>1. Good(stock("capacity")) /\ Good(stock("geometry"))
        /\ Good(live("capacity")) /\ Good(live("geometry"))
    BY TripletIsPlanned, ProfileMemories DEF Volatile
  <1>2. Good(rest)
    <2>1. CASE hardware.auxiliary = "repaired"
      BY <2>1, TripletIsPlanned, ProfileAssumption DEF Volatile
    <2>2. CASE hardware.auxiliary # "repaired"
      BY <2>2
    <2> QED BY <2>1, <2>2
  <1>3. ASSUME NEW one, NEW other, Good(one), Good(other) PROVE Good(one \o other)
    BY <1>3, PlansJoin
  <1>4. RestorePlan(p) = (IF hardware.geometryFirst THEN stock("capacity") \o stock("geometry")
                                                    ELSE stock("geometry") \o stock("capacity"))
                           \o rest
    BY DEF RestorePlan
  <1>5. ApplyPlan(p) = IF hardware.geometryFirst THEN live("geometry") \o live("capacity")
                                                 ELSE live("capacity") \o live("geometry")
    BY DEF ApplyPlan
  <1> HIDE DEF Good, stock, live, rest
  <1>6. Good(RestorePlan(p)) /\ Good(ApplyPlan(p))
    BY <1>1, <1>2, <1>3, <1>4, <1>5
  <1> QED BY <1>6 DEF Good

-----------------------------------------------------------------------------
(* How the code goes on, by the places it goes to. *)

\* A source that owes a restoration and may try again.
Owing(s) == /\ s \in Sources /\ s.required /\ s.media \in hardware.media
            /\ s.task = "read" => s.tries < ReadAttempts

\* The source goes on to a place of its kind and owes what it owed.
GoesOn(s) == /\ Fits(pc', source')
             /\ source'.media = s.media /\ source'.required = s.required
             /\ pc' \notin {"closed", "rest", "write", "geometry"}

\* The source begins to write.
Writing(s, what) == /\ Fits(pc', source')
                    /\ source'.media = s.media /\ source'.required
                    /\ pc' = "write" /\ source'.purpose = what

\* Whoever writes, verifies or guards owes a restoration.
LEMMA OwingAtPlace ==
  ASSUME NEW place, NEW s, Fits(place, s),
         \/ place \in {"write", "geometry"}
         \/ IsReading(place) /\ s.purpose # "normalize"
  PROVE  Owing(s)
  BY DEF Owing, Fits, OwesAtPlace, TaskFits, AttemptsAreLeft, IsReading

\* A close begins with the guard, or without one when nothing is owed.
LEMMA CloseGoesOn ==
  ASSUME NEW s \in Sources, s.required => s.media \in hardware.media, BeginClose(s)
  PROVE  GoesOn(s)
  <1>1. CASE s.required
    <2>1. /\ pc' = "snapshot"
          /\ source' = [s EXCEPT !.task = "close", !.tries = 1, !.purpose = "guard"]
      BY <1>1 DEF BeginClose, TakeSnapshot, Then, Sources
    <2>2. 1 \in 0 .. RestoreAttempts + ReadAttempts
      BY LimitAssumption
    <2>3. source' \in Sources
      BY <2>1, <2>2 DEF Sources, Purposes
    <2> QED BY <1>1, <2>1, <2>3 DEF GoesOn, Fits, OwesAtPlace, TaskFits, AttemptsAreLeft,
          WritesArePlanned, IsReading, Places, Sources
  <1>2. CASE ~s.required
    <2>1. pc' = "release" /\ source' = [s EXCEPT !.task = "close"]
      BY <1>2 DEF BeginClose, Then
    <2>2. source' \in Sources
      BY <2>1 DEF Sources
    <2> QED BY <1>2, <2>1, <2>2 DEF GoesOn, Fits, OwesAtPlace, TaskFits, AttemptsAreLeft,
          WritesArePlanned, IsReading, Places, Sources
  <1> QED BY <1>1, <1>2

\* A recovery that failed goes on to the next READ or gives the request up.
LEMMA NextReadGoesOn ==
  ASSUME NEW s, Owing(s), s.task = "read", NextRead(s)
  PROVE  GoesOn(s)
  <1>1. CASE Then("reading", [s EXCEPT !.tries = @ + 1])
    <2>1. pc' = "reading" /\ source' = [s EXCEPT !.tries = s.tries + 1]
      BY <1>1 DEF Then
    <2>2. s.tries + 1 \in 0 .. RestoreAttempts + ReadAttempts
      BY LimitAssumption DEF Owing, Sources
    <2>3. source' \in Sources
      BY <2>1, <2>2 DEF Sources, Owing
    <2> QED BY <2>1, <2>3 DEF GoesOn, Fits, OwesAtPlace, TaskFits, AttemptsAreLeft,
          WritesArePlanned, IsReading, Places, Sources, Owing
  <1>2. CASE Then("live", s)
    BY <1>2 DEF Then, GoesOn, Fits, OwesAtPlace, TaskFits, AttemptsAreLeft,
          WritesArePlanned, IsReading, Places, Owing
  <1> QED BY <1>1, <1>2 DEF NextRead

\* A restoration that failed is tried again, or still owed.
LEMMA FailedRestoreGoesOn ==
  ASSUME NEW s, Owing(s), RestoreFails(s)
  PROVE  GoesOn(s)
  <1>1. s.task \in {"open", "read", "close"}
    BY DEF Owing, Sources
  <1>2. CASE s.task = "open"
    <2>1. BeginClose(s)
      BY <1>2 DEF RestoreFails
    <2> QED BY <2>1, CloseGoesOn DEF Owing
  <1>3. CASE s.task = "read"
    <2>1. NextRead(s)
      BY <1>3 DEF RestoreFails
    <2> QED BY <1>3, <2>1, NextReadGoesOn
  <1>4. CASE s.task = "close"
    <2>1. /\ source' = s
          /\ (pc' = "reset" /\ s.tries < RestoreAttempts) \/ pc' = "held"
      BY <1>4 DEF RestoreFails, Then
    <2> QED BY <1>4, <2>1 DEF GoesOn, Fits, OwesAtPlace, TaskFits, AttemptsAreLeft,
          WritesArePlanned, IsReading, Places, Owing
  <1> QED BY <1>1, <1>2, <1>3, <1>4

\* An activation that failed closes the source, or leaves it to the next READ.
LEMMA FailedApplyGoesOn ==
  ASSUME NEW s, Owing(s), s.task # "close", ApplyFails(s)
  PROVE  GoesOn(s)
  <1>1. s.task \in {"open", "read"}
    BY DEF Owing, Sources
  <1>2. CASE s.task = "open"
    BY <1>2, CloseGoesOn DEF ApplyFails, Owing
  <1>3. CASE s.task = "read"
    BY <1>3, NextReadGoesOn DEF ApplyFails
  <1> QED BY <1>1, <1>2, <1>3

\* An activation that succeeded goes on to the descriptor, or to the next READ.
LEMMA SuccessfulApplyGoesOn ==
  ASSUME NEW s, Owing(s), s.task # "close", ApplySucceeds(s)
  PROVE  GoesOn(s)
  <1>1. s.task \in {"open", "read"}
    BY DEF Owing, Sources
  <1>2. CASE s.task = "open"
    BY <1>2 DEF ApplySucceeds, Then, GoesOn, Fits, OwesAtPlace, TaskFits, AttemptsAreLeft,
          WritesArePlanned, IsReading, Places, Owing
  <1>3. CASE s.task = "read"
    <2>1. NextRead(s)
      BY <1>3 DEF ApplySucceeds, NextRead
    <2> QED BY <1>3, <2>1, NextReadGoesOn
  <1> QED BY <1>1, <1>2, <1>3

\* A snapshot of a purpose that fits the task is a place to go to.
LEMMA SnapshotGoesOn ==
  ASSUME NEW s, Owing(s), NEW what \in {"guard", "ensure", "repair", "restored", "applied"},
         what \in {"ensure", "repair"} => s.task = "read",
         what = "guard" => s.task = "close",
         what = "applied" => s.task # "close",
         TakeSnapshot(s, what)
  PROVE  GoesOn(s)
  <1>1. pc' = "snapshot" /\ source' = [s EXCEPT !.purpose = what]
    BY DEF TakeSnapshot, Then
  <1>2. source' \in Sources /\ source'.purpose = what
    BY <1>1 DEF Sources, Purposes, Owing
  <1>3. /\ source'.media = s.media /\ source'.required = s.required
        /\ source'.task = s.task /\ source'.tries = s.tries
    BY <1>1 DEF Owing, Sources
  <1>4. OwesAtPlace(pc', source') /\ TaskFits(pc', source')
    BY <1>1, <1>2, <1>3 DEF OwesAtPlace, TaskFits, IsReading, Owing
  <1> QED BY <1>1, <1>2, <1>3, <1>4 DEF GoesOn, Fits, AttemptsAreLeft,
        WritesArePlanned, Places, Owing

\* A restoration or an activation begins with the plan of the profile.
LEMMA WritesBegin ==
  ASSUME hardware \in Hardwares, NEW s, Owing(s)
  PROVE  /\ StartRestore(s) => Writing(s, "restored")
         /\ s.task # "close" /\ StartApply(s) => Writing(s, "applied")
  <1>1. s.media \in Profiles
    BY HardwareIsKnown DEF Owing
  <1>2. ASSUME NEW what \in {"restored", "applied"}, NEW plan \in Seq(Writes),
               \A i \in 1 .. Len(plan) : Planned(s.media, plan[i]),
               what = "applied" => s.task # "close", StartWrites(s, what, plan)
        PROVE  Writing(s, what)
    <2>1. /\ pc' = "write"
          /\ source' = [s EXCEPT !.purpose = what, !.writes = plan, !.failed = FALSE]
      BY <1>2 DEF StartWrites, Then
    <2>2. source' \in Sources /\ source'.purpose = what /\ source'.writes = plan
      BY <2>1 DEF Sources, Purposes, Owing
    <2>3. /\ source'.media = s.media /\ source'.required = s.required
          /\ source'.task = s.task /\ source'.tries = s.tries
      BY <2>1 DEF Owing, Sources
    <2>4. OwesAtPlace(pc', source') /\ TaskFits(pc', source') /\ AttemptsAreLeft(pc', source')
      BY <1>2, <2>1, <2>2, <2>3 DEF OwesAtPlace, TaskFits, AttemptsAreLeft, IsReading, Owing
    <2>5. WritesArePlanned(pc', source')
      BY <1>2, <2>2, <2>3 DEF WritesArePlanned
    <2> QED BY <2>1, <2>2, <2>3, <2>4, <2>5 DEF Writing, Fits, Places, Owing
  <1>3. StartRestore(s) => Writing(s, "restored")
    BY <1>1, <1>2, PlansArePlanned DEF StartRestore
  <1>4. s.task # "close" /\ StartApply(s) => Writing(s, "applied")
    BY <1>1, <1>2, PlansArePlanned DEF StartApply
  <1> QED BY <1>3, <1>4

\* The activation arms the restoration before its first byte.
LEMMA ActivationIsArmed ==
  ASSUME hardware \in Hardwares, NEW s \in Sources, s.media \in hardware.media,
         s.task = "open", Activate(s)
  PROVE  Writing(s, "applied")
  <1> DEFINE armed == [s EXCEPT !.required = TRUE]
  <1>1. armed \in Sources /\ armed.required /\ armed.task = "open" /\ armed.media = s.media
    BY DEF Sources
  <1>2. StartApply(armed)
    BY DEF Activate
  <1>3. Owing(armed)
    BY <1>1 DEF Owing
  <1> HIDE DEF armed
  <1>4. Writing(armed, "applied")
    BY <1>1, <1>2, <1>3, WritesBegin
  <1> QED BY <1>1, <1>4 DEF Writing

\* After a restoration the source is released, or the game is laid over it again.
LEMMA RestorationIsDone ==
  ASSUME hardware \in Hardwares, NEW s, Owing(s), RestoreSucceeds(s)
  PROVE  \/ Writing(s, "applied")
         \/ /\ Fits(pc', source') /\ source'.media = s.media
            /\ pc' = "release" /\ ~source'.required
  <1>1. s.task \in {"open", "read", "close"}
    BY DEF Owing, Sources
  <1>2. CASE s.task = "open"
    BY <1>2, ActivationIsArmed DEF RestoreSucceeds, Owing
  <1>3. CASE s.task = "read"
    BY <1>3, WritesBegin DEF RestoreSucceeds
  <1>4. CASE s.task = "close"
    <2>1. pc' = "release" /\ source' = [s EXCEPT !.required = FALSE]
      BY <1>4 DEF RestoreSucceeds, Then
    <2>2. source' \in Sources
      BY <2>1 DEF Sources, Owing
    <2> QED BY <1>4, <2>1, <2>2 DEF Fits, OwesAtPlace, TaskFits, AttemptsAreLeft,
          WritesArePlanned, IsReading, Places, Owing, Sources
  <1> QED BY <1>1, <1>2, <1>3, <1>4

-----------------------------------------------------------------------------
(* What a snapshot decides. *)

\* A snapshot that could not be taken begins no writes and checks no geometry.
LEMMA FailedSnapshotGoesOn ==
  ASSUME NEW place, NEW s, Fits(place, s), IsReading(place), SnapshotFails(s)
  PROVE  GoesOn(s)
  <1>1. /\ s \in Sources /\ s.purpose \in Purposes
        /\ s.media \in hardware.media
    BY DEF Fits, Sources, OwesAtPlace
  <1>2. CASE s.purpose = "normalize"
    BY <1>1, <1>2, CloseGoesOn DEF SnapshotFails
  <1>3. CASE s.purpose # "normalize"
    <2>1. Owing(s)
      BY <1>3, OwingAtPlace
    <2>2. TaskFits(place, s)
      BY DEF Fits
    <2>3. CASE s.purpose = "ensure"
      <3>1. TakeSnapshot(s, "repair") \/ Then("live", s)
        BY <2>3 DEF SnapshotFails
      <3>2. s.task = "read"
        BY <2>2, <2>3 DEF TaskFits
      <3>3. CASE TakeSnapshot(s, "repair")
        BY <2>1, <3>2, <3>3, SnapshotGoesOn
      <3>4. CASE Then("live", s)
        BY <2>1, <3>2, <3>4, NextReadGoesOn DEF NextRead
      <3> QED BY <3>1, <3>3, <3>4
    <2>4. CASE s.purpose = "repair"
      BY <2>1, <2>2, <2>4, NextReadGoesOn DEF SnapshotFails, TaskFits
    <2>5. CASE s.purpose \in {"guard", "restored"}
      BY <2>1, <2>5, FailedRestoreGoesOn DEF SnapshotFails
    <2>6. CASE s.purpose = "applied"
      BY <2>1, <2>2, <2>6, FailedApplyGoesOn DEF SnapshotFails, TaskFits
    <2> QED BY <1>1, <1>3, <2>3, <2>4, <2>5, <2>6 DEF Purposes
  <1> QED BY <1>2, <1>3

\* What may follow a snapshot, by the class of the memory it found.
Decided(s, class, others) ==
  /\ Fits(pc', source') /\ source'.media = s.media
  /\ pc' \notin {"closed", "rest"}
  /\ s.required /\ ~source'.required => class = "stock" /\ s.purpose \in {"guard", "restored"}
  /\ ~s.required /\ source'.required =>
       \/ class # "unknown"
       \/ s.purpose = "normalize"
  /\ pc' = "geometry" => class # "unknown"
  /\ pc' = "write" =>
       IF source'.purpose = "applied" THEN class = "stock"
                                      ELSE \/ class # "unknown"
                                           \/ s.purpose = "normalize" /\ others

LEMMA GoingOnIsDecided ==
  ASSUME NEW s, GoesOn(s), NEW class, NEW others
  PROVE  Decided(s, class, others)
  BY DEF GoesOn, Decided

LEMMA ApplyingIsDecided ==
  ASSUME NEW s, Writing(s, "applied"), NEW class, class = "stock", NEW others
  PROVE  Decided(s, class, others)
  BY DEF Writing, Decided

LEMMA NormalizeDecides ==
  ASSUME hardware \in Hardwares, NEW place, NEW s, Fits(place, s), IsReading(place),
         s.purpose = "normalize",
         NEW class \in {"stock", "live", "transition", "unknown"}, NEW others \in BOOLEAN,
         Normalize(s, class, others)
  PROVE  Decided(s, class, others)
  <1>1. s \in Sources /\ s.media \in hardware.media /\ s.task = "open"
    BY DEF Fits, OwesAtPlace, TaskFits
  <1>2. CASE class = "stock"
    <2>1. Writing(s, "applied")
      BY <1>1, <1>2, ActivationIsArmed DEF Normalize
    <2> QED BY <1>2, <2>1, ApplyingIsDecided
  <1>3. CASE class \in {"live", "transition"} \/ (class = "unknown" /\ others)
    <2> DEFINE armed == [s EXCEPT !.required = TRUE]
    <2>1. Owing(armed) /\ armed.media = s.media
      BY <1>1 DEF Owing, Sources
    <2>2. StartRestore(armed)
      BY <1>3 DEF Normalize
    <2> HIDE DEF armed
    <2>3. Writing(armed, "restored")
      BY <2>1, <2>2, WritesBegin
    <2> QED BY <1>3, <2>1, <2>3 DEF Writing, Decided
  <1>4. CASE class = "unknown" /\ ~others
    <2>1. BeginClose(s)
      BY <1>4 DEF Normalize
    <2> QED BY <1>1, <2>1, CloseGoesOn, GoingOnIsDecided
  <1> QED BY <1>2, <1>3, <1>4

LEMMA GuardDecides ==
  ASSUME hardware \in Hardwares, NEW place, NEW s, Fits(place, s), IsReading(place),
         s.purpose = "guard",
         NEW class \in {"stock", "live", "transition", "unknown"}, NEW others,
         Guard(s, class)
  PROVE  Decided(s, class, others)
  <1>1. Owing(s) /\ s.task = "close"
    BY OwingAtPlace DEF Fits, TaskFits
  <1>2. CASE class = "stock"
    <2>1. pc' = "release" /\ source' = [s EXCEPT !.required = FALSE] /\ RestoreSucceeds(s)
      BY <1>1, <1>2 DEF Guard, RestoreSucceeds, Then
    <2> QED BY <1>1, <1>2, <2>1, RestorationIsDone DEF Decided, Writing
  <1>3. CASE class = "unknown"
    BY <1>1, <1>3, FailedRestoreGoesOn, GoingOnIsDecided DEF Guard
  <1>4. CASE class \in {"live", "transition"}
    <2>1. pc' = "geometry" /\ source' = s
      BY <1>4 DEF Guard, Then
    <2>2. Fits(pc', source')
      BY <1>1, <2>1 DEF Fits, OwesAtPlace, TaskFits, AttemptsAreLeft, WritesArePlanned,
         IsReading, Places, Owing
    <2> QED BY <1>4, <2>1, <2>2 DEF Decided
  <1> QED BY <1>2, <1>3, <1>4

LEMMA RepairDecides ==
  ASSUME hardware \in Hardwares, NEW place, NEW s, Fits(place, s), IsReading(place),
         s.purpose = "repair",
         NEW class \in {"stock", "live", "transition", "unknown"}, NEW others,
         Repair(s, class)
  PROVE  Decided(s, class, others)
  <1>1. Owing(s) /\ s.task = "read"
    BY OwingAtPlace DEF Fits, TaskFits
  <1>2. CASE class = "stock"
    <2>1. Writing(s, "applied")
      BY <1>1, <1>2, WritesBegin DEF Repair
    <2> QED BY <1>2, <2>1, ApplyingIsDecided
  <1>3. CASE class = "unknown"
    BY <1>1, <1>3, NextReadGoesOn, GoingOnIsDecided DEF Repair
  <1>4. CASE class \in {"live", "transition"}
    <2>1. Writing(s, "restored")
      BY <1>1, <1>4, WritesBegin DEF Repair
    <2> QED BY <1>1, <1>4, <2>1 DEF Writing, Decided, Owing
  <1> QED BY <1>2, <1>3, <1>4

\* A snapshot arms a restoration only for a state it knows, writes the game
\* over the stock state only, and gives a restoration up only for the stock
\* state.
LEMMA SnapshotDecides ==
  ASSUME hardware \in Hardwares, NEW place, NEW s, Fits(place, s), IsReading(place),
         NEW class \in {"stock", "live", "transition", "unknown"}, NEW others \in BOOLEAN,
         Decide(s, class, others)
  PROVE  Decided(s, class, others)
  <1>1. s.purpose \in Purposes /\ TaskFits(place, s)
    BY DEF Fits, Sources
  <1>2. CASE s.purpose = "normalize"
    BY <1>2, NormalizeDecides DEF Decide
  <1>3. CASE s.purpose = "guard"
    BY <1>3, GuardDecides DEF Decide
  <1>4. CASE s.purpose = "repair"
    BY <1>4, RepairDecides DEF Decide
  <1>5. CASE s.purpose = "ensure"
    <2>1. Owing(s) /\ s.task = "read"
      BY <1>1, <1>5, OwingAtPlace DEF TaskFits
    <2>2. IF class = "live" THEN ApplySucceeds(s) ELSE TakeSnapshot(s, "repair")
      BY <1>5 DEF Decide
    <2>3. GoesOn(s)
      <3>1. CASE class = "live"
        BY <2>1, <2>2, <3>1, SuccessfulApplyGoesOn
      <3>2. CASE class # "live"
        BY <2>1, <2>2, <3>2, SnapshotGoesOn
      <3> QED BY <3>1, <3>2
    <2> QED BY <2>3, GoingOnIsDecided
  <1>6. CASE s.purpose = "restored"
    <2>1. Owing(s)
      BY <1>6, OwingAtPlace
    <2>2. CASE class = "stock"
      <3>1. RestoreSucceeds(s)
        BY <1>6, <2>2 DEF Decide
      <3> QED BY <1>6, <2>1, <2>2, <3>1, RestorationIsDone, ApplyingIsDecided DEF Decided
    <2>3. CASE class # "stock"
      BY <1>6, <2>1, <2>3, FailedRestoreGoesOn, GoingOnIsDecided DEF Decide
    <2> QED BY <2>2, <2>3
  <1>7. CASE s.purpose = "applied"
    <2>1. Owing(s) /\ s.task # "close"
      BY <1>1, <1>7, OwingAtPlace DEF TaskFits
    <2>2. IF class = "live" THEN ApplySucceeds(s) ELSE ApplyFails(s)
      BY <1>7 DEF Decide
    <2>3. GoesOn(s)
      BY <2>1, <2>2, SuccessfulApplyGoesOn, FailedApplyGoesOn
    <2> QED BY <2>3, GoingOnIsDecided
  <1> QED BY <1>1, <1>2, <1>3, <1>4, <1>5, <1>6, <1>7 DEF Purposes

-----------------------------------------------------------------------------
(* The drive. *)

\* The disc stays, and the memory too unless the drive reads its disc again.
Kept == /\ drive' \in Drives /\ drive'.disc = drive.disc
        /\ \/ drive'.memory = drive.memory
           \/ drive.disc # None /\ drive'.memory = Natural(drive.disc)

\* No command but a write changes the memory, and a reset only into that of
\* the disc.
LEMMA CommandsKeep ==
  ASSUME TypeOK
  PROVE  /\ drive' = drive => Kept /\ drive'.memory = drive.memory
         /\ drive' = Answered => Kept /\ drive'.memory = drive.memory
         /\ drive' \in AfterReset => Kept
  <1>1. drive \in Drives
    BY DEF TypeOK
  <1>2. drive' = Answered => Kept /\ drive'.memory = drive.memory
    BY <1>1 DEF Answered, Kept, Drives
  <1>3. ASSUME drive' \in AfterReset PROVE Kept
    <2>1. CASE drive' = Answered
      BY <1>2, <2>1
    <2>2. CASE drive' # Answered
      <3>1. PICK d \in {drive.disc} \ {None} : drive' = [Answered EXCEPT !.memory = Natural(d)]
        BY <1>3, <2>2 DEF AfterReset
      <3>2. d = drive.disc /\ d \in Discs /\ d # None
        BY <1>1, <3>1 DEF Drives
      <3>3. Natural(d) \in Memories
        BY <3>2, NaturalIsMemory
      <3> QED BY <1>1, <3>1, <3>2, <3>3 DEF Kept, Answered, Drives
    <2> QED BY <2>1, <2>2
  <1> QED BY <1>1, <1>2, <1>3 DEF Kept

\* Which drive it is does not change, so neither does what fits it.
LEMMA HardwareStays ==
  ASSUME hardware' = hardware
  PROVE  /\ Fits(pc, source)' <=> Fits(pc', source')
         /\ IsTransition(source.media, drive.memory)'
              <=> IsTransition(source'.media, drive'.memory)
  <1>1. Fits(pc, source)' <=> Fits(pc', source')
    BY DEF Fits, OwesAtPlace, WritesArePlanned, Planned
  <1>2. IsTransition(source.media, drive.memory)'
          <=> IsTransition(source'.media, drive'.memory)
    BY DEF IsTransition, AuxiliaryIsTransition
  <1> QED BY <1>1, <1>2

\* What the invariant says of the disc in the drive.
LEMMA DiscOfSource ==
  ASSUME IInv, source.media \in hardware.media, ~history.moved
  PROVE  drive.disc = source.media /\ Natural(drive.disc) = StockMemory(source.media)
  <1>1. source.media \in Profiles /\ source.media # None
    BY HardwareIsKnown, ProfileAssumption DEF IInv, TypeOK
  <1>2. drive.disc = source.media
    BY <1>1 DEF IInv, DiscIsTheOne
  <1> QED BY <1>1, <1>2, ProfileMemories

-----------------------------------------------------------------------------
(* Each step keeps the invariant. *)

\* A step that does not end a snapshot and keeps what it owes.
LEMMA QuietStep ==
  ASSUME IInv, hardware' = hardware, Kept, Fits(pc', source'),
         source'.required = source.required,
         source.required => source'.media = source.media,
         source'.media \in {source.media, drive.disc},
         pc # "closed", pc' \notin {"closed", "rest", "geometry"},
         history' \in Histories, history'.moved = history.moved,
         history'.dirty = history.dirty, history'.wrote = history.wrote,
         history'.retarget = history.retarget
  PROVE  IInv'
  <1>1. /\ TypeOK /\ Fits(pc, source) /\ DiscIsTheOne
        /\ RestorationIsArmed /\ OwnIsTransition /\ GivenBack
    BY DEF IInv
  <1>2. TypeOK'
    BY <1>1 DEF TypeOK, Fits, Kept
  <1>3. Fits(pc, source)'
    BY HardwareStays
  <1>4. DiscIsTheOne'
    BY <1>1 DEF DiscIsTheOne, Kept
  <1>5. SeenIsCapacity' /\ GuardedIsKnown'
    BY DEF SeenIsCapacity, GuardedIsKnown
  <1>6. RestorationIsArmed'
    BY <1>1 DEF RestorationIsArmed
  <1>7. OwnIsTransition'
    <2> SUFFICES ASSUME source'.required, ~history'.moved, ~history'.retarget
                 PROVE  IsTransition(source'.media, drive'.memory)
      BY HardwareStays DEF OwnIsTransition
    <2>1. source'.media = source.media /\ source.media \in hardware.media
      BY <1>1 DEF Fits, OwesAtPlace
    <2>2. source.media \in Profiles
      BY <1>1, <2>1, HardwareIsKnown DEF TypeOK
    <2>3. IsTransition(source.media, drive.memory)
      BY <1>1 DEF OwnIsTransition
    <2>4. IsTransition(source.media, StockMemory(source.media))
      BY <1>1, <2>2, WholeIsTransition DEF TypeOK
    <2>5. drive'.memory \in {drive.memory, StockMemory(source.media)}
      BY <2>1, DiscOfSource DEF Kept
    <2> QED BY <2>1, <2>3, <2>4, <2>5
  <1>8. GivenBack'
    <2> SUFFICES ASSUME history'.wrote, ~source'.required PROVE drive'.memory \in OwnMemories
      BY DEF GivenBack, OwnMemories
    <2>1. drive.memory \in OwnMemories
      BY <1>1 DEF GivenBack
    <2>2. drive.disc # None => Natural(drive.disc) \in OwnMemories
      BY <1>1, NaturalIsMemory DEF TypeOK, Drives
    <2> QED BY <2>1, <2>2 DEF Kept
  <1> QED BY <1>2, <1>3, <1>4, <1>5, <1>6, <1>7, <1>8 DEF IInv

LEMMA NoSourceIsOne == NoSource \in Sources
  <1>1. 0 \in 0 .. RestoreAttempts + ReadAttempts
    BY LimitAssumption
  <1> QED BY <1>1, ProfileAssumption DEF Sources, NoSource, Purposes

\* The steps that leave the source as it was when nothing is open.
LEMMA ClosedStep ==
  ASSUME IInv, hardware' = hardware, drive' = drive, history' = history,
         pc' = "closed", source' = NoSource
  PROVE  IInv'
  <1>1. TypeOK
    BY DEF IInv
  <1>2. NoSource \in Sources
    BY NoSourceIsOne
  <1>3. TypeOK'
    BY <1>1, <1>2 DEF TypeOK, Places
  <1>4. Fits(pc', source')
    BY <1>2 DEF Fits, OwesAtPlace, TaskFits, AttemptsAreLeft, WritesArePlanned, Places,
       IsReading, NoSource
  <1>5. /\ DiscIsTheOne' /\ SeenIsCapacity' /\ RestorationIsArmed' /\ OwnIsTransition'
        /\ GuardedIsKnown' /\ GivenBack'
    BY DEF DiscIsTheOne, SeenIsCapacity, RestorationIsArmed, OwnIsTransition,
       GuardedIsKnown, GivenBack, NoSource
  <1> QED BY <1>3, <1>4, <1>5, HardwareStays DEF IInv

\* An opening owes nothing yet.
LEMMA OpenKeeps ==
  ASSUME IInv, Open
  PROVE  IInv'
  <1>1. TypeOK
    BY DEF IInv
  <1>2. /\ hardware' = hardware /\ drive' = drive /\ pc' = "identify"
        /\ source' = [NoSource EXCEPT !.task = "open"] /\ history' = NoHistory
    BY DEF Open, Then
  <1>3. /\ source' \in Sources /\ ~source'.required /\ source'.media = None
        /\ source'.task = "open"
    BY <1>2, NoSourceIsOne DEF Sources, NoSource
  <1>4. TypeOK'
    BY <1>1, <1>2, <1>3 DEF TypeOK, Places, Histories, NoHistory
  <1>5. Fits(pc', source')
    BY <1>2, <1>3 DEF Fits, OwesAtPlace, TaskFits, AttemptsAreLeft, WritesArePlanned, Places,
       IsReading
  <1>6. /\ DiscIsTheOne' /\ SeenIsCapacity' /\ RestorationIsArmed' /\ OwnIsTransition'
        /\ GuardedIsKnown' /\ GivenBack'
    BY <1>2, <1>3 DEF DiscIsTheOne, SeenIsCapacity, RestorationIsArmed, OwnIsTransition,
       GuardedIsKnown, GivenBack, NoHistory
  <1> QED BY <1>2, <1>4, <1>5, <1>6, HardwareStays DEF IInv

LEMMA IdentifyKeeps ==
  ASSUME IInv, Identify
  PROVE  IInv'
  <1>1. /\ TypeOK /\ Fits(pc, source) /\ pc = "identify" /\ hardware' = hardware
        /\ history' = history /\ Kept /\ history \in Histories
    BY CommandsKeep DEF IInv, Identify, TypeOK
  <1>2. source \in Sources /\ source.task = "open" /\ ~source.required
    BY <1>1 DEF Fits, OwesAtPlace, TaskFits
  <1>3. CASE BeginClose(source)
    <2>1. GoesOn(source)
      BY <1>2, <1>3, CloseGoesOn
    <2> QED BY <1>1, <2>1, QuietStep DEF GoesOn
  <1>4. CASE /\ drive.disc \in hardware.media
             /\ TakeSnapshot([source EXCEPT !.media = drive.disc], "normalize")
    <2>1. drive.disc \in Profiles
      BY <1>1, <1>4, HardwareIsKnown DEF TypeOK
    <2>2. /\ pc' = "snapshot"
          /\ source' = [source EXCEPT !.media = drive.disc, !.purpose = "normalize"]
      BY <1>2, <1>4 DEF TakeSnapshot, Then, Sources
    <2>3. /\ source' \in Sources /\ source'.media = drive.disc
          /\ source'.purpose = "normalize" /\ source'.task = "open"
          /\ source'.required = source.required
      BY <1>2, <2>1, <2>2 DEF Sources, Purposes
    <2>4. Fits(pc', source')
      BY <1>4, <2>2, <2>3 DEF Fits, OwesAtPlace, TaskFits, AttemptsAreLeft,
         WritesArePlanned, Places, IsReading
    <2> QED BY <1>1, <1>2, <2>2, <2>3, <2>4, QuietStep
  <1> QED BY <1>3, <1>4 DEF Identify

\* The first step of a snapshot: if the drive reads its disc again meanwhile,
\* its memory is that of the disc.
LEMMA ReadCapacityBytesKeeps ==
  ASSUME IInv, ReadCapacityBytes
  PROVE  IInv'
  <1>1. /\ TypeOK /\ Fits(pc, source) /\ pc = "snapshot" /\ hardware' = hardware
        /\ history' = [history EXCEPT !.stale = drive'.memory # drive.memory]
        /\ history \in Histories
    BY DEF IInv, ReadCapacityBytes, TypeOK
  <1>2. drive' \in AfterReset
    BY DEF ReadCapacityBytes, AfterBytes, AfterReset
  <1>3. Kept
    BY <1>1, <1>2, CommandsKeep
  <1>4. /\ history' \in Histories /\ history'.moved = history.moved
        /\ history'.dirty = history.dirty /\ history'.wrote = history.wrote
        /\ history'.retarget = history.retarget
        /\ history'.stale <=> drive'.memory # drive.memory
    BY <1>1 DEF Histories
  <1>5. PICK ok \in Answers(IsRetried), from \in {drive, drive'} :
          IF ok THEN Then("rest", [source EXCEPT !.seen = from.memory.capacity])
                ELSE SnapshotFails(source)
    BY DEF ReadCapacityBytes
  <1>6. CASE ~ok
    <2>1. GoesOn(source)
      BY <1>1, <1>5, <1>6, FailedSnapshotGoesOn DEF IsReading
    <2> QED BY <1>1, <1>3, <1>4, <2>1, QuietStep DEF GoesOn
  <1>7. CASE ok
    <2>1. pc' = "rest" /\ source' = [source EXCEPT !.seen = from.memory.capacity]
      BY <1>5, <1>7 DEF Then
    <2>2. from.memory.capacity \in Triplets
      BY <1>1, <1>3 DEF Kept, TypeOK, Drives, Memories
    <2>3. /\ source' \in Sources /\ source'.seen = from.memory.capacity
          /\ source'.media = source.media /\ source'.required = source.required
          /\ source'.task = source.task /\ source'.purpose = source.purpose
          /\ source'.tries = source.tries
      BY <1>1, <2>1, <2>2 DEF TypeOK, Sources
    <2>4. Fits(pc', source')
      BY <1>1, <2>1, <2>3 DEF Fits, OwesAtPlace, TaskFits, AttemptsAreLeft,
         WritesArePlanned, Places, IsReading
    <2>5. source.media \in hardware.media /\ source.media \in Profiles
      BY <1>1, HardwareIsKnown DEF Fits, OwesAtPlace, IsReading, TypeOK
    <2>6. ~history.moved => drive.disc = source.media /\ Natural(drive.disc) = StockMemory(source.media)
      BY <2>5, DiscOfSource
    <2>7. drive'.memory # drive.memory =>
            /\ drive'.memory \in OwnMemories
            /\ ~history.moved => drive'.memory = StockMemory(source.media)
      BY <1>1, <1>3, <2>6, NaturalIsMemory DEF Kept, TypeOK, Drives
    <2>8. SeenIsCapacity'
      <3> SUFFICES \/ source'.seen = drive'.memory.capacity
                   \/ /\ history'.stale /\ drive'.memory \in OwnMemories
                      /\ ~history'.moved => drive'.memory = StockMemory(source'.media)
        BY DEF SeenIsCapacity, OwnMemories, StockMemory
      <3> QED BY <1>4, <2>3, <2>7
    <2>9. OwnIsTransition'
      <3> SUFFICES ASSUME source'.required, ~history'.moved, ~history'.retarget
                   PROVE  IsTransition(source'.media, drive'.memory)
        BY <1>1, HardwareStays DEF OwnIsTransition
      <3>1. IsTransition(source.media, drive.memory)
        BY <1>4, <2>3 DEF IInv, OwnIsTransition
      <3>2. IsTransition(source.media, StockMemory(source.media))
        BY <1>1, <2>5, WholeIsTransition DEF TypeOK
      <3> QED BY <1>4, <2>3, <2>7, <3>1, <3>2
    <2>10. GivenBack'
      <3>1. history'.wrote /\ ~source'.required => drive.memory \in OwnMemories
        BY <1>1, <1>4, <2>3 DEF IInv, GivenBack
      <3>2. history'.wrote /\ ~source'.required => drive'.memory \in OwnMemories
        BY <2>7, <3>1
      <3> QED BY <3>2 DEF GivenBack, OwnMemories
    <2>11. TypeOK' /\ DiscIsTheOne' /\ RestorationIsArmed' /\ GuardedIsKnown'
      BY <1>1, <1>3, <1>4, <2>1, <2>3, <2>4
         DEF TypeOK, Fits, Kept, IInv, DiscIsTheOne, RestorationIsArmed, GuardedIsKnown
    <2> QED BY <1>1, <2>4, <2>8, <2>9, <2>10, <2>11, HardwareStays DEF IInv
  <1> QED BY <1>6, <1>7

\* What the snapshot put together is what the drive holds after it, or the
\* drive has read its disc again meanwhile.
SnapshotIsOf(found) ==
  \/ drive'.memory = drive.memory /\ source.seen = drive.memory.capacity /\ found = drive.memory
  \/ /\ history.stale \/ drive'.memory # drive.memory
     /\ ~history.moved => drive'.memory = StockMemory(source.media)

LEMMA SnapshotIsOfMemory ==
  ASSUME IInv, pc = "rest", Kept, NEW from \in {drive, drive'}
  PROVE  SnapshotIsOf([from.memory EXCEPT !.capacity = source.seen])
  <1>1. /\ SeenIsCapacity /\ TypeOK /\ source.media \in hardware.media
    BY DEF IInv, Fits, OwesAtPlace, IsReading
  <1>2. ~history.moved => Natural(drive.disc) = StockMemory(source.media)
    BY <1>1, DiscOfSource
  <1>3. CASE drive'.memory = drive.memory
    <2>1. CASE source.seen = drive.memory.capacity
      <3>1. [from.memory EXCEPT !.capacity = source.seen] = drive.memory
        BY <1>1, <1>3, <2>1 DEF TypeOK, Drives, Memories
      <3> QED BY <1>3, <2>1, <3>1 DEF SnapshotIsOf
    <2>2. CASE source.seen # drive.memory.capacity
      BY <1>1, <1>3, <2>2 DEF SeenIsCapacity, SnapshotIsOf
    <2> QED BY <2>1, <2>2
  <1>4. CASE drive'.memory # drive.memory
    BY <1>2, <1>4 DEF Kept, SnapshotIsOf
  <1> QED BY <1>3, <1>4

\* The steps of a snapshot that ended, by what it decided.
LEMMA ReadRestKeeps ==
  ASSUME IInv, ReadRest
  PROVE  IInv'
  <1>1. /\ TypeOK /\ Fits(pc, source) /\ pc = "rest" /\ hardware' = hardware
        /\ history \in Histories /\ hardware \in Hardwares
    BY DEF IInv, ReadRest, TypeOK
  <1>2. drive' \in AfterReset /\ (~IsRetried => drive' = Answered)
    BY DEF ReadRest, AfterBytes, AfterReset
  <1>3. Kept /\ (~IsRetried => drive'.memory = drive.memory)
    BY <1>1, <1>2, CommandsKeep
  <1>4. PICK ok \in Answers(IsRetried), from \in {drive, drive'} :
          LET found == [from.memory EXCEPT !.capacity = source.seen]
              class == Classify(source.media, found, Extent)
          IN  IF ok /\ (drive.disc # None \/ ~IsRetried)
                THEN /\ Decide([source EXCEPT !.noMedium = (drive.disc = None)], class,
                               BelongsToAnother(found, Extent))
                     /\ history' = [history EXCEPT
                          !.stale = @ \/ drive'.memory # drive.memory,
                          !.dirty = @ /\ class # "stock",
                          !.retarget = class # "stock"
                            /\ (@ \/ (source.purpose = "normalize" /\ class = "unknown"))]
                ELSE SnapshotFails(source) /\ UNCHANGED history
    BY <1>1 DEF ReadRest
  <1> DEFINE found == [from.memory EXCEPT !.capacity = source.seen]
             class == Classify(source.media, found, Extent)
             others == BelongsToAnother(found, Extent)
             here == [source EXCEPT !.noMedium = (drive.disc = None)]
  <1>5. CASE ~(ok /\ (drive.disc # None \/ ~IsRetried))
    <2>1. SnapshotFails(source) /\ history' = history
      BY <1>4, <1>5
    <2>2. GoesOn(source)
      BY <1>1, <2>1, FailedSnapshotGoesOn DEF IsReading
    <2> QED BY <1>1, <1>3, <2>1, <2>2, QuietStep DEF GoesOn
  <1>6. CASE ok /\ (drive.disc # None \/ ~IsRetried)
    <2>1. /\ Decide(here, class, others)
          /\ history' = [history EXCEPT
               !.stale = @ \/ drive'.memory # drive.memory,
               !.dirty = @ /\ class # "stock",
               !.retarget = class # "stock"
                 /\ (@ \/ (source.purpose = "normalize" /\ class = "unknown"))]
      BY <1>4, <1>6
    <2>2. /\ here \in Sources /\ here.media = source.media /\ here.required = source.required
          /\ here.task = source.task /\ here.purpose = source.purpose
          /\ here.tries = source.tries
      BY <1>1 DEF TypeOK, Sources
    <2>3. Fits("rest", here)
      BY <1>1, <2>2 DEF Fits, OwesAtPlace, TaskFits, AttemptsAreLeft, WritesArePlanned, IsReading
    <2>4. source.media \in hardware.media /\ source.media \in Profiles
      BY <1>1, HardwareIsKnown DEF Fits, OwesAtPlace, IsReading
    <2>5. SnapshotIsOf(found)
      BY <1>1, <1>3, SnapshotIsOfMemory
    <2> HIDE DEF found, here, others
    <2>6. /\ class \in {"stock", "live", "transition", "unknown"}
          /\ class = "unknown" <=> ~IsTransition(source.media, found)
          /\ class = "stock" <=>
               (found = StockMemory(source.media) /\ Extent = Stock[source.media].capacity)
      BY <1>1, <2>4, ClassesMean
    <2>7. others \in BOOLEAN
      BY DEF others, BelongsToAnother
    <2> HIDE DEF class
    <2>8. Decided(here, class, others)
      BY <1>1, <2>1, <2>3, <2>6, <2>7, SnapshotDecides DEF IsReading
    <2>9. Decided(source, class, others)
      BY <2>2, <2>8 DEF Decided
    <2>10. /\ history' \in Histories /\ history'.moved = history.moved
           /\ history'.wrote = history.wrote
           /\ history'.stale <=> history.stale \/ drive'.memory # drive.memory
           /\ history'.dirty <=> history.dirty /\ class # "stock"
           /\ history'.retarget <=>
                /\ class # "stock"
                /\ history.retarget \/ (source.purpose = "normalize" /\ class = "unknown")
      BY <1>1, <2>1 DEF Histories
    <2>11. TypeOK' /\ SeenIsCapacity'
      BY <1>1, <1>3, <2>9, <2>10 DEF TypeOK, Fits, Kept, Decided, SeenIsCapacity
    <2>12. DiscIsTheOne'
      BY <1>3, <2>9, <2>10 DEF IInv, DiscIsTheOne, Kept, Decided
    <2>13. RestorationIsArmed'
      <3> SUFFICES ASSUME history'.dirty PROVE source'.required
        BY DEF RestorationIsArmed
      <3>1. source.required
        BY <1>1, <2>10 DEF IInv, RestorationIsArmed
      <3> QED BY <2>9, <2>10, <3>1 DEF Decided
    <2>14. OwnIsTransition'
      <3> SUFFICES ASSUME source'.required, ~history'.moved, ~history'.retarget
                   PROVE  IsTransition(source.media, drive'.memory)
        BY <1>1, <2>9, HardwareStays DEF OwnIsTransition, Decided
      <3>1. IsTransition(source.media, StockMemory(source.media))
        BY <1>1, <2>4, WholeIsTransition
      <3>2. CASE drive'.memory = StockMemory(source.media)
        BY <3>1, <3>2
      <3>3. CASE drive'.memory # StockMemory(source.media)
        <4>1. drive'.memory = drive.memory /\ found = drive.memory
          BY <2>5, <2>10, <3>3 DEF SnapshotIsOf
        <4>2. CASE class # "unknown"
          BY <2>6, <4>1, <4>2
        <4>3. CASE class = "unknown"
          <5>1. ~history.retarget /\ source.purpose # "normalize"
            BY <2>10, <4>3
          <5>2. source.required
            BY <2>9, <4>3, <5>1 DEF Decided
          <5> QED BY <2>10, <4>1, <5>1, <5>2 DEF IInv, OwnIsTransition
        <4> QED BY <4>2, <4>3
      <3> QED BY <3>2, <3>3
    <2>15. GuardedIsKnown'
      <3> SUFFICES ASSUME pc' = "geometry", ~history'.stale
                   PROVE  IsTransition(source.media, drive'.memory)
        BY <1>1, <2>9, HardwareStays DEF GuardedIsKnown, Decided
      <3>1. drive'.memory = drive.memory /\ found = drive.memory
        BY <2>5, <2>10 DEF SnapshotIsOf
      <3> QED BY <2>6, <2>9, <3>1 DEF Decided
    <2>16. GivenBack'
      <3> SUFFICES ASSUME history'.wrote, ~source'.required PROVE drive'.memory \in OwnMemories
        BY DEF GivenBack, OwnMemories
      <3>1. CASE ~source.required
        <4>1. drive.memory \in OwnMemories
          BY <1>1, <2>10, <3>1 DEF IInv, GivenBack
        <4>2. drive.disc # None => Natural(drive.disc) \in OwnMemories
          BY <1>1, NaturalIsMemory DEF TypeOK, Drives
        <4> QED BY <1>3, <4>1, <4>2 DEF Kept
      <3>2. CASE source.required
        <4>1. class = "stock" /\ source.purpose \in {"guard", "restored"}
          BY <2>9, <3>2 DEF Decided
        <4>2. drive'.memory = drive.memory
          BY <1>3, <4>1 DEF IsRetried
        <4>3. found = StockMemory(source.media)
          BY <2>6, <4>1
        <4>4. CASE source.seen = drive.memory.capacity
          <5>1. found = drive.memory
            BY <1>1, <4>2, <4>4 DEF found, TypeOK, Drives, Memories
          <5> QED BY <2>4, <4>2, <4>3, <5>1, ProfileMemories
        <4>5. CASE source.seen # drive.memory.capacity
          BY <1>1, <4>2, <4>5 DEF IInv, SeenIsCapacity
        <4> QED BY <4>4, <4>5
      <3> QED BY <3>1, <3>2
    <2> QED BY <1>1, <2>9, <2>11, <2>12, <2>13, <2>14, <2>15, <2>16, HardwareStays
          DEF IInv, Decided
  <1> QED BY <1>5, <1>6

LEMMA CheckGeometryKeeps ==
  ASSUME IInv, CheckGeometry
  PROVE  IInv'
  <1>1. /\ TypeOK /\ Fits(pc, source) /\ pc = "geometry" /\ hardware' = hardware
        /\ history' = history /\ history \in Histories /\ hardware \in Hardwares
    BY DEF IInv, CheckGeometry, TypeOK
  <1>2. /\ drive' = drive \/ drive' = Answered
        /\ StartRestore(source) \/ RestoreFails(source)
    BY DEF CheckGeometry
  <1>3. Kept
    BY <1>1, <1>2, CommandsKeep
  <1>4. Owing(source)
    BY <1>1, OwingAtPlace
  <1>5. Writing(source, "restored") \/ GoesOn(source)
    BY <1>1, <1>2, <1>4, WritesBegin, FailedRestoreGoesOn
  <1>6. /\ Fits(pc', source') /\ source'.media = source.media
        /\ source'.required = source.required /\ pc' \notin {"closed", "rest", "geometry"}
    BY <1>4, <1>5 DEF Writing, GoesOn, Fits, Owing, Sources
  <1> QED BY <1>1, <1>3, <1>6, QuietStep

\* One byte of a plan on its way into the memory.
Landed(memory, write) == [memory EXCEPT ![write.field][write.index] = write.value]

\* A planned byte leaves a memory of the transition one of the transition.
LEMMA PlannedBytesKeepTransition ==
  ASSUME hardware \in Hardwares, NEW p \in Profiles, NEW memory \in Memories,
         NEW write \in Writes, Planned(p, write)
  PROVE  /\ Landed(memory, write) \in Memories
         /\ IsTransition(p, memory) => IsTransition(p, Landed(memory, write))
  <1> DEFINE after == Landed(memory, write)
  <1>1. after \in Memories
    BY DEF Landed, Memories, Writes, Triplets
  <1>2. write.field \in {"capacity", "geometry", "auxiliary"} /\ write.index \in 1 .. 3
    BY DEF Writes
  <1>3. ASSUME NEW f \in {"capacity", "geometry", "auxiliary"}, NEW i \in 1 .. 3
        PROVE  after[f][i] = IF f = write.field /\ i = write.index THEN write.value
                                                                  ELSE memory[f][i]
    BY <1>2 DEF Landed, Memories, Triplets
  <1>4. ASSUME write.field # "auxiliary" PROVE after.auxiliary = memory.auxiliary
    BY <1>2, <1>4 DEF Landed, Memories
  <1> HIDE DEF after
  <1>5. ASSUME IsTransition(p, memory) PROVE IsTransition(p, after)
    <2>1. ASSUME NEW f \in Volatile PROVE TripletIsTransition(p, f, after[f])
      <3>1. f \in {"capacity", "geometry", "auxiliary"} /\ f # "auxiliary"
        BY DEF Volatile
      <3>2. \A i \in 1 .. 3 : memory[f][i] \in {Stock[p][f][i], Live[p][f][i]}
        BY <1>5 DEF IsTransition, TripletIsTransition
      <3>3. write.field = f => write.value \in {Stock[p][f][write.index], Live[p][f][write.index]}
        BY DEF Planned
      <3>4. ASSUME NEW i \in 1 .. 3 PROVE after[f][i] \in {Stock[p][f][i], Live[p][f][i]}
        <4>1. CASE f = write.field /\ i = write.index
          BY <1>3, <3>1, <3>3, <4>1
        <4>2. CASE ~(f = write.field /\ i = write.index)
          BY <1>3, <3>1, <3>2, <4>2
        <4> QED BY <4>1, <4>2
      <3> QED BY <3>4 DEF TripletIsTransition
    <2>2. AuxiliaryIsTransition(p, after.auxiliary)
      <3>1. AuxiliaryIsTransition(p, memory.auxiliary)
        BY <1>5 DEF IsTransition
      <3>2. CASE write.field # "auxiliary"
        BY <1>4, <3>1, <3>2
      <3>3. CASE write.field = "auxiliary"
        <4>1. hardware.auxiliary = "repaired" /\ write.value = Canonical[write.index]
          BY <3>3 DEF Planned, Volatile
        <4>2. \A i \in 1 .. 3 :
                memory.auxiliary[i] \in {Canonical[i], Stock[p].capacity[i], Live[p].capacity[i]}
          BY <3>1, <4>1 DEF AuxiliaryIsTransition
        <4>3. \A i \in 1 .. 3 :
                after.auxiliary[i] = IF i = write.index THEN write.value ELSE memory.auxiliary[i]
          BY <1>3, <3>3
        <4>4. \A i \in 1 .. 3 :
                after.auxiliary[i] \in {Canonical[i], Stock[p].capacity[i], Live[p].capacity[i]}
          BY <4>1, <4>2, <4>3
        <4> QED BY <4>1, <4>4 DEF AuxiliaryIsTransition
      <3> QED BY <3>2, <3>3
    <2> QED BY <2>1, <2>2 DEF IsTransition
  <1> QED BY <1>1, <1>5 DEF after

LEMMA SendWriteKeeps ==
  ASSUME IInv, SendWrite
  PROVE  IInv'
  <1> DEFINE write == Head(source.writes)
  <1>1. /\ TypeOK /\ Fits(pc, source) /\ pc = "write" /\ hardware' = hardware
        /\ source.writes # <<>> /\ hardware \in Hardwares /\ history \in Histories
        /\ drive \in Drives /\ source \in Sources
    BY DEF IInv, SendWrite, TypeOK
  <1>2. PICK ok \in Answers(FALSE), lands \in BOOLEAN :
          /\ drive' = IF lands THEN [Answered EXCEPT !.memory[write.field][write.index] = write.value]
                               ELSE Answered
          /\ Then("write", [source EXCEPT
                 !.writes = IF ok \/ source.purpose = "restored" THEN Tail(@) ELSE <<>>,
                 !.failed = @ \/ ~ok])
          /\ history' = [history EXCEPT !.dirty = @ \/ lands, !.wrote = @ \/ lands]
    BY DEF SendWrite
  <1>3. /\ source.required /\ source.media \in hardware.media /\ source.media \in Profiles
    BY <1>1, HardwareIsKnown DEF Fits, OwesAtPlace
  <1>4. /\ source.writes \in Seq(Writes) /\ write \in Writes
        /\ Tail(source.writes) \in Seq(Writes)
        /\ Len(source.writes) \in Nat /\ Len(source.writes) > 0
        /\ Len(Tail(source.writes)) = Len(source.writes) - 1
        /\ \A i \in 1 .. Len(source.writes) - 1 : Tail(source.writes)[i] = source.writes[i + 1]
        /\ write = source.writes[1]
    BY <1>1 DEF Sources
  <1>5. \A i \in 1 .. Len(source.writes) : Planned(source.media, source.writes[i])
    BY <1>1 DEF Fits, WritesArePlanned
  <1>6. Planned(source.media, write)
    BY <1>4, <1>5
  <1> DEFINE rest == IF ok \/ source.purpose = "restored" THEN Tail(source.writes) ELSE <<>>
  <1>7. rest \in Seq(Writes) /\ \A i \in 1 .. Len(rest) : Planned(source.media, rest[i])
    <2>1. CASE ok \/ source.purpose = "restored"
      <3>1. \A i \in 1 .. Len(source.writes) - 1 : i + 1 \in 1 .. Len(source.writes)
        BY <1>4
      <3> QED BY <1>4, <1>5, <2>1, <3>1
    <2>2. CASE ~(ok \/ source.purpose = "restored")
      BY <2>2
    <2> QED BY <2>1, <2>2
  <1>8. pc' = "write" /\ source' = [source EXCEPT !.writes = rest, !.failed = @ \/ ~ok]
    BY <1>2 DEF Then
  <1> HIDE DEF rest
  <1>9. /\ source' \in Sources /\ source'.writes = rest
        /\ source'.media = source.media /\ source'.required = source.required
        /\ source'.task = source.task /\ source'.purpose = source.purpose
        /\ source'.tries = source.tries
    BY <1>1, <1>7, <1>8 DEF Sources, Answers
  <1>10. Fits(pc', source')
    BY <1>1, <1>7, <1>8, <1>9 DEF Fits, OwesAtPlace, TaskFits, AttemptsAreLeft,
       WritesArePlanned, IsReading
  <1> HIDE DEF write
  <1>11. /\ drive'.disc = drive.disc /\ drive'.attention = FALSE
         /\ drive'.changes = drive.changes
         /\ drive'.memory \in {drive.memory, Landed(drive.memory, write)}
         /\ drive' \in [disc : Discs \cup {None}, memory : {drive'.memory},
                        attention : BOOLEAN, changes : 0 .. MaxChanges]
    BY <1>1, <1>2 DEF Answered, Drives, Landed
  <1>12. /\ drive.memory \in Memories /\ drive'.memory \in Memories
         /\ IsTransition(source.media, drive.memory) => IsTransition(source.media, drive'.memory)
    BY <1>1, <1>3, <1>4, <1>6, <1>11, PlannedBytesKeepTransition DEF Drives
  <1>13. drive' \in Drives
    BY <1>11, <1>12 DEF Drives
  <1>14. /\ history' \in Histories /\ history'.moved = history.moved
         /\ history'.retarget = history.retarget
    BY <1>1, <1>2 DEF Histories
  <1>15. TypeOK' /\ DiscIsTheOne' /\ SeenIsCapacity' /\ GuardedIsKnown'
    BY <1>1, <1>8, <1>9, <1>11, <1>13, <1>14
       DEF TypeOK, IInv, DiscIsTheOne, SeenIsCapacity, GuardedIsKnown
  <1>16. RestorationIsArmed' /\ GivenBack'
    BY <1>3, <1>9 DEF RestorationIsArmed, GivenBack
  <1>17. OwnIsTransition'
    <2> SUFFICES ASSUME ~history'.moved, ~history'.retarget
                 PROVE  IsTransition(source'.media, drive'.memory)
      BY <1>1, HardwareStays DEF OwnIsTransition
    <2>1. IsTransition(source.media, drive.memory)
      BY <1>3, <1>14 DEF IInv, OwnIsTransition
    <2> QED BY <1>9, <1>12, <2>1
  <1> QED BY <1>1, <1>10, <1>15, <1>16, <1>17, HardwareStays DEF IInv

LEMMA FinishWritesKeeps ==
  ASSUME IInv, FinishWrites
  PROVE  IInv'
  <1>1. /\ TypeOK /\ Fits(pc, source) /\ pc = "write" /\ hardware' = hardware
        /\ history' = history /\ history \in Histories /\ drive' = drive
    BY DEF IInv, FinishWrites, TypeOK
  <1>2. Kept
    BY <1>1, CommandsKeep
  <1>3. Owing(source)
    BY <1>1, OwingAtPlace
  <1>4. /\ source.failed \in BOOLEAN
        /\ \/ source.purpose = "restored"
           \/ source.purpose = "applied" /\ source.task # "close"
    BY <1>1 DEF Fits, TaskFits, Sources
  <1>5. GoesOn(source)
    <2>1. CASE ~source.failed
      <3>1. TakeSnapshot(source, source.purpose)
        BY <2>1 DEF FinishWrites
      <3> QED BY <1>3, <1>4, <3>1, SnapshotGoesOn
    <2>2. CASE source.failed
      BY <1>3, <1>4, <2>2, FailedRestoreGoesOn, FailedApplyGoesOn DEF FinishWrites
    <2> QED BY <2>1, <2>2
  <1> QED BY <1>1, <1>2, <1>5, QuietStep DEF GoesOn

LEMMA ValidateDescriptorKeeps ==
  ASSUME IInv, ValidateDescriptor
  PROVE  IInv'
  <1>1. /\ TypeOK /\ Fits(pc, source) /\ pc = "descriptor" /\ hardware' = hardware
        /\ history' = history /\ history \in Histories /\ drive' = Answered
        /\ Then("live", source) \/ BeginClose(source)
    BY DEF IInv, ValidateDescriptor, TypeOK
  <1>2. Kept
    BY <1>1, CommandsKeep
  <1>3. /\ source \in Sources /\ source.required /\ source.media \in hardware.media
    BY <1>1 DEF Fits, OwesAtPlace
  <1>4. CASE BeginClose(source)
    <2>1. GoesOn(source)
      BY <1>3, <1>4, CloseGoesOn
    <2> QED BY <1>1, <1>2, <2>1, QuietStep DEF GoesOn
  <1>5. CASE Then("live", source)
    <2>1. pc' = "live" /\ source' = source
      BY <1>5 DEF Then
    <2>2. Fits(pc', source')
      BY <1>3, <2>1 DEF Fits, OwesAtPlace, TaskFits, AttemptsAreLeft, WritesArePlanned,
         IsReading, Places
    <2> QED BY <1>1, <1>2, <2>1, <2>2, QuietStep
  <1> QED BY <1>1, <1>4, <1>5

LEMMA StartReadKeeps ==
  ASSUME IInv, StartRead
  PROVE  IInv'
  <1>1. /\ TypeOK /\ Fits(pc, source) /\ pc = "live" /\ hardware' = hardware
        /\ history' = history /\ history \in Histories /\ drive' = drive
        /\ pc' = "reading" /\ source' = [source EXCEPT !.task = "read", !.tries = 1]
    BY DEF IInv, StartRead, TypeOK, Then
  <1>2. Kept
    BY <1>1, CommandsKeep
  <1>3. 1 \in 0 .. RestoreAttempts + ReadAttempts
    BY LimitAssumption
  <1>4. /\ source \in Sources /\ source.required /\ source.media \in hardware.media
    BY <1>1 DEF Fits, OwesAtPlace
  <1>5. /\ source' \in Sources /\ source'.media = source.media
        /\ source'.required = source.required /\ source'.task = "read"
    BY <1>1, <1>3, <1>4 DEF Sources
  <1>6. Fits(pc', source')
    BY <1>1, <1>4, <1>5 DEF Fits, OwesAtPlace, TaskFits, AttemptsAreLeft, WritesArePlanned,
         IsReading, Places
  <1> QED BY <1>1, <1>2, <1>5, <1>6, QuietStep

\* A READ that fails is given up, or recovered if another may follow.
LEMMA ReadSectorsKeeps ==
  ASSUME IInv, ReadSectors
  PROVE  IInv'
  <1>1. /\ TypeOK /\ Fits(pc, source) /\ pc = "reading" /\ hardware' = hardware
        /\ history \in Histories /\ drive' = Answered
        /\ \/ Then("live", source)
           \/ source.tries < ReadAttempts /\ Then("recover", source)
        /\ \/ history' = history
           \/ \E what \in {"live", "other"} : history' = [history EXCEPT !.delivered = what]
    BY DEF IInv, ReadSectors, TypeOK
  <1>2. Kept
    BY <1>1, CommandsKeep
  <1>3. /\ history' \in Histories /\ history'.moved = history.moved
        /\ history'.dirty = history.dirty /\ history'.wrote = history.wrote
        /\ history'.retarget = history.retarget
    BY <1>1 DEF Histories
  <1>4. /\ source' = source
        /\ pc' = "live" \/ (pc' = "recover" /\ source.tries < ReadAttempts)
    BY <1>1 DEF Then
  <1>5. Fits(pc', source')
    BY <1>1, <1>4 DEF Fits, OwesAtPlace, TaskFits, AttemptsAreLeft, WritesArePlanned,
         IsReading, Places
  <1> QED BY <1>1, <1>2, <1>3, <1>4, <1>5, QuietStep

LEMMA RecoverKeeps ==
  ASSUME IInv, Recover
  PROVE  IInv'
  <1>1. /\ TypeOK /\ Fits(pc, source) /\ pc = "recover" /\ hardware' = hardware
        /\ history' = history /\ history \in Histories /\ drive' \in AfterReset
        /\ TakeSnapshot(source, "ensure") \/ NextRead(source)
    BY DEF IInv, Recover, TypeOK
  <1>2. Kept
    BY <1>1, CommandsKeep
  <1>3. Owing(source) /\ source.task = "read"
    BY <1>1 DEF Owing, Fits, OwesAtPlace, TaskFits, AttemptsAreLeft
  <1>4. GoesOn(source)
    BY <1>1, <1>3, SnapshotGoesOn, NextReadGoesOn
  <1> QED BY <1>1, <1>2, <1>4, QuietStep DEF GoesOn

LEMMA CloseKeeps ==
  ASSUME IInv, Close
  PROVE  IInv'
  <1>1. /\ TypeOK /\ Fits(pc, source) /\ pc \in {"live", "held"} /\ hardware' = hardware
        /\ history' = history /\ history \in Histories /\ drive' = drive
        /\ BeginClose(source)
    BY DEF IInv, Close, TypeOK
  <1>2. Kept
    BY <1>1, CommandsKeep
  <1>3. source \in Sources /\ (source.required => source.media \in hardware.media)
    BY <1>1 DEF Fits, OwesAtPlace
  <1>4. GoesOn(source)
    BY <1>1, <1>3, CloseGoesOn
  <1> QED BY <1>1, <1>2, <1>4, QuietStep DEF GoesOn

LEMMA ResetDriveKeeps ==
  ASSUME IInv, ResetDrive
  PROVE  IInv'
  <1>1. /\ TypeOK /\ Fits(pc, source) /\ pc = "reset" /\ hardware' = hardware
        /\ history' = history /\ history \in Histories /\ drive' \in AfterReset
        /\ TakeSnapshot([source EXCEPT !.tries = @ + 1], "guard")
    BY DEF IInv, ResetDrive, TypeOK
  <1>2. Kept
    BY <1>1, CommandsKeep
  <1> DEFINE again == [source EXCEPT !.tries = source.tries + 1]
  <1>3. /\ source \in Sources /\ source.required /\ source.media \in hardware.media
        /\ source.task = "close" /\ source.tries < RestoreAttempts
    BY <1>1 DEF Fits, OwesAtPlace, TaskFits, AttemptsAreLeft
  <1>4. source.tries + 1 \in 0 .. RestoreAttempts + ReadAttempts
    BY <1>3, LimitAssumption DEF Sources
  <1>5. Owing(again) /\ again.media = source.media /\ again.required = source.required
        /\ again.task = "close"
    BY <1>3, <1>4 DEF Owing, Sources
  <1>6. TakeSnapshot(again, "guard")
    BY <1>1
  <1> HIDE DEF again
  <1>7. GoesOn(again)
    BY <1>5, <1>6, SnapshotGoesOn
  <1> QED BY <1>1, <1>2, <1>5, <1>7, QuietStep DEF GoesOn

LEMMA ReleaseKeeps ==
  ASSUME IInv, Release
  PROVE  IInv'
  <1>1. /\ TypeOK /\ Fits(pc, source) /\ pc = "release" /\ hardware' = hardware
        /\ history' = history /\ history \in Histories /\ drive' = drive
        /\ Then("closed", NoSource) \/ Then("held", source)
    BY DEF IInv, Release, TypeOK
  <1>2. CASE Then("closed", NoSource)
    BY <1>1, <1>2, ClosedStep DEF Then
  <1>3. CASE Then("held", source)
    <2>1. pc' = "held" /\ source' = source
      BY <1>3 DEF Then
    <2>2. Fits(pc', source')
      BY <1>1, <2>1 DEF Fits, OwesAtPlace, TaskFits, AttemptsAreLeft, WritesArePlanned,
         IsReading, Places
    <2>3. Kept
      BY <1>1, CommandsKeep
    <2> QED BY <1>1, <2>1, <2>2, <2>3, QuietStep
  <1> QED BY <1>1, <1>2, <1>3

LEMMA KillKeeps ==
  ASSUME IInv, Kill
  PROVE  IInv'
  BY ClosedStep DEF Kill, Then

\* Another disc may leave the memory as it was or bring its own.
LEMMA ChangeDiscKeeps ==
  ASSUME IInv, ChangeDisc
  PROVE  IInv'
  <1>1. /\ TypeOK /\ Fits(pc, source) /\ hardware' = hardware /\ pc' = pc /\ source' = source
        /\ history' = [history EXCEPT !.moved = TRUE, !.stale = TRUE]
        /\ drive \in Drives /\ history \in Histories /\ hardware \in Hardwares
        /\ drive.changes < MaxChanges
    BY DEF IInv, ChangeDisc, TypeOK
  <1>2. /\ history' \in Histories /\ history'.moved /\ history'.stale
        /\ history'.dirty = history.dirty /\ history'.wrote = history.wrote
    BY <1>1 DEF Histories
  <1>3. drive.changes + 1 \in 0 .. MaxChanges
    BY <1>1, LimitAssumption DEF Drives
  <1>4. /\ drive' \in Drives
        /\ drive'.memory = drive.memory \/ drive'.memory \in OwnMemories
    <2>1. CASE drive' = [drive EXCEPT !.disc = None, !.changes = @ + 1]
      BY <1>1, <1>3, <2>1 DEF Drives
    <2>2. ASSUME NEW d \in hardware.media \cup {"foreign"},
                 NEW m \in {drive.memory, Natural(d)},
                 drive' = [disc |-> d, memory |-> m, attention |-> TRUE,
                           changes |-> drive.changes + 1]
          PROVE  /\ drive' \in Drives
                 /\ drive'.memory = drive.memory \/ drive'.memory \in OwnMemories
      <3>1. d \in Discs
        BY <1>1, HardwareIsKnown DEF Discs
      <3>2. Natural(d) \in Memories /\ Natural(d) \in OwnMemories
        BY <3>1, NaturalIsMemory
      <3> QED BY <1>1, <1>3, <2>2, <3>1, <3>2 DEF Drives
    <2> QED BY <2>1, <2>2 DEF ChangeDisc
  <1>5. TypeOK' /\ DiscIsTheOne' /\ RestorationIsArmed' /\ OwnIsTransition' /\ GuardedIsKnown'
    BY <1>1, <1>2, <1>4 DEF IInv, TypeOK, DiscIsTheOne, RestorationIsArmed, OwnIsTransition,
       GuardedIsKnown
  <1>6. SeenIsCapacity'
    <2> SUFFICES ASSUME pc = "rest"
                 PROVE  \/ source.seen = drive'.memory.capacity
                        \/ drive'.memory \in OwnMemories
      BY <1>1, <1>2 DEF SeenIsCapacity, OwnMemories
    <2>1. source.seen = drive.memory.capacity \/ drive.memory \in OwnMemories
      BY DEF IInv, SeenIsCapacity
    <2> QED BY <1>4, <2>1
  <1>7. GivenBack'
    <2> SUFFICES ASSUME pc # "closed", history.wrote, ~source.required
                 PROVE  drive'.memory \in OwnMemories
      BY <1>1, <1>2 DEF GivenBack, OwnMemories
    <2> QED BY <1>4 DEF IInv, GivenBack
  <1> QED BY <1>1, <1>5, <1>6, <1>7, HardwareStays DEF IInv

\* Every session begins with nothing open and a memory of the leftovers.
LEMMA InitKeeps ==
  ASSUME Init
  PROVE  IInv
  <1>1. /\ hardware \in Hardwares /\ pc = "closed" /\ source = NoSource /\ history = NoHistory
        /\ drive \in [disc : hardware.media, attention : {FALSE}, changes : {0},
                      memory : {m \in Leftovers : hardware.auxiliary = "absent"
                                                    => m.auxiliary = Canonical}]
    BY DEF Init
  <1>2. ASSUME NEW m \in Leftovers PROVE m \in Memories
    <2>1. ASSUME NEW p \in Profiles
          PROVE  /\ [StockMemory(p) EXCEPT !.capacity[1] = Live[p].capacity[1]] \in Memories
                 /\ [StockMemory(p) EXCEPT !.auxiliary = Stock[p].capacity] \in Memories
      BY ProfileMemories DEF Memories, Triplets
    <2> QED BY <2>1, ProfileMemories, ProfileAssumption DEF Leftovers
  <1>3. drive \in Drives
    <2>1. hardware.media \subseteq Discs
      BY <1>1, HardwareIsKnown DEF Discs
    <2>2. 0 \in 0 .. MaxChanges
      BY LimitAssumption
    <2> QED BY <1>1, <1>2, <2>1, <2>2 DEF Drives
  <1>4. TypeOK
    BY <1>1, <1>3, NoSourceIsOne DEF TypeOK, Places, Histories, NoHistory
  <1>5. Fits(pc, source)
    BY <1>1, NoSourceIsOne DEF Fits, OwesAtPlace, TaskFits, AttemptsAreLeft, WritesArePlanned,
       Places, IsReading, NoSource
  <1> QED BY <1>1, <1>4, <1>5 DEF IInv, DiscIsTheOne, SeenIsCapacity, RestorationIsArmed,
        OwnIsTransition, GuardedIsKnown, GivenBack, NoSource, NoHistory

LEMMA NextKeeps ==
  ASSUME IInv, [Next]_vars
  PROVE  IInv'
  <1>1. CASE UNCHANGED vars
    <2>1. Fits(pc, source)' /\ TypeOK'
      BY <1>1, HardwareStays DEF vars, IInv, TypeOK
    <2>2. OwnIsTransition' /\ GuardedIsKnown'
      BY <1>1, HardwareStays DEF vars, IInv, OwnIsTransition, GuardedIsKnown
    <2> QED BY <1>1, <2>1, <2>2 DEF vars, IInv, DiscIsTheOne, SeenIsCapacity,
          RestorationIsArmed, GivenBack
  <1> QED BY <1>1, OpenKeeps, IdentifyKeeps, ReadCapacityBytesKeeps, ReadRestKeeps,
        CheckGeometryKeeps, SendWriteKeeps, FinishWritesKeeps, ValidateDescriptorKeeps,
        StartReadKeeps, ReadSectorsKeeps, RecoverKeeps, CloseKeeps, ResetDriveKeeps,
        ReleaseKeeps, KillKeeps, ChangeDiscKeeps DEF Next, Program

LEMMA TransactionInvariant == Spec => []IInv
  <1> QED BY InitKeeps, NextKeeps, PTL DEF Spec

-----------------------------------------------------------------------------
(* The properties. *)

\* RestorationIsSure: from the first byte that lands until the memory was
\* found to be stock the restoration is owed, and on one disc it meets only
\* memory that it accepts, whatever fails and however often
\* (context->restoration_required, guarded_restore_stock).
THEOREM WritesCanBeTakenBack == Spec => []RestorationIsSure
  <1>1. ASSUME IInv PROVE RestorationIsSure
    <2>1. ASSUME source.required, ~history.moved, ~history.retarget
          PROVE  Class(source.media, drive.memory) # "unknown"
      <3>1. source.media \in hardware.media /\ hardware \in Hardwares
        BY <1>1, <2>1 DEF IInv, Fits, OwesAtPlace, TypeOK
      <3>2. IsTransition(source.media, drive.memory)
        BY <1>1, <2>1 DEF IInv, OwnIsTransition
      <3> QED BY <3>1, <3>2, ClassesMean DEF Class
    <2>2. OwnStateIsKnown
      BY <2>1 DEF OwnStateIsKnown
    <2> QED BY <1>1, <2>2 DEF RestorationIsSure, IInv
  <1> QED BY <1>1, TransactionInvariant, PTL

\* Writes begin only behind a snapshot or the check of the geometry.
LEMMA WritesBeginBehind ==
  ASSUME IInv, Next, pc # "write", pc' = "write"
  PROVE  ReadRest \/ CheckGeometry
  <1>1. /\ source \in Sources /\ Fits(pc, source) /\ TypeOK
    BY DEF IInv, TypeOK
  <1>2. ASSUME NEW s \in Sources, BeginClose(s) PROVE pc' # "write"
    BY <1>2 DEF BeginClose, TakeSnapshot, Then
  <1>3. ~Open /\ ~StartRead /\ ~ReadSectors /\ ~Release /\ ~Kill /\ ~ResetDrive
    BY DEF Open, StartRead, ReadSectors, Release, Kill, ResetDrive, Then, TakeSnapshot
  <1>4. ~Identify /\ ~ValidateDescriptor /\ ~Close /\ ~Recover
    BY <1>1, <1>2 DEF Identify, ValidateDescriptor, Close, Recover, TakeSnapshot, NextRead, Then
  <1>5. ~ReadCapacityBytes
    <2> SUFFICES ASSUME ReadCapacityBytes PROVE FALSE
      OBVIOUS
    <2>1. SnapshotFails(source) /\ pc = "snapshot"
      BY DEF ReadCapacityBytes, Then
    <2> QED BY <1>1, <2>1, FailedSnapshotGoesOn DEF IsReading, GoesOn
  <1>6. ~SendWrite /\ ~FinishWrites /\ ~ChangeDisc
    BY DEF SendWrite, FinishWrites, ChangeDisc
  <1> QED BY <1>3, <1>4, <1>5, <1>6 DEF Next, Program

\* A snapshot during which the disc stayed begins only writes that its own
\* memory allows.
LEMMA SnapshotAllowsWrites ==
  ASSUME IInv, ReadRest, pc' = "write", ~history'.stale
  PROVE  IF source'.purpose = "applied"
           THEN Class(source.media, drive.memory)' = "stock"
           ELSE KnownTo(drive'.memory, drive'.memory.capacity) # {}
  <1>1. /\ TypeOK /\ Fits(pc, source) /\ pc = "rest" /\ hardware' = hardware
        /\ history \in Histories /\ hardware \in Hardwares
    BY DEF IInv, ReadRest, TypeOK
  <1>2. drive' \in AfterReset
    BY DEF ReadRest, AfterBytes, AfterReset
  <1>3. Kept
    BY <1>1, <1>2, CommandsKeep
  <1>4. PICK ok \in Answers(IsRetried), from \in {drive, drive'} :
          LET found == [from.memory EXCEPT !.capacity = source.seen]
              class == Classify(source.media, found, Extent)
          IN  IF ok /\ (drive.disc # None \/ ~IsRetried)
                THEN /\ Decide([source EXCEPT !.noMedium = (drive.disc = None)], class,
                               BelongsToAnother(found, Extent))
                     /\ history' = [history EXCEPT
                          !.stale = @ \/ drive'.memory # drive.memory,
                          !.dirty = @ /\ class # "stock",
                          !.retarget = class # "stock"
                            /\ (@ \/ (source.purpose = "normalize" /\ class = "unknown"))]
                ELSE SnapshotFails(source) /\ UNCHANGED history
    BY <1>1 DEF ReadRest
  <1> DEFINE found == [from.memory EXCEPT !.capacity = source.seen]
             class == Classify(source.media, found, Extent)
             others == BelongsToAnother(found, Extent)
             here == [source EXCEPT !.noMedium = (drive.disc = None)]
  <1>5. ok /\ (drive.disc # None \/ ~IsRetried)
    <2>1. SnapshotFails(source) => GoesOn(source)
      BY <1>1, FailedSnapshotGoesOn DEF IsReading
    <2> QED BY <1>4, <2>1 DEF GoesOn
  <1>6. /\ Decide(here, class, others)
        /\ history'.stale <=> history.stale \/ drive'.memory # drive.memory
    BY <1>1, <1>4, <1>5 DEF Histories
  <1>7. /\ here.media = source.media /\ here.purpose = source.purpose /\ here \in Sources
        /\ here.required = source.required /\ here.task = source.task
        /\ here.tries = source.tries
    BY <1>1 DEF TypeOK, Sources
  <1>8. Fits("rest", here)
    BY <1>1, <1>7 DEF Fits, OwesAtPlace, TaskFits, AttemptsAreLeft, WritesArePlanned, IsReading
  <1>9. source.media \in hardware.media /\ source.media \in Profiles
    BY <1>1, HardwareIsKnown DEF Fits, OwesAtPlace, IsReading
  <1>10. drive'.memory = drive.memory /\ found = drive'.memory
    <2>1. SnapshotIsOf(found)
      BY <1>1, <1>3, SnapshotIsOfMemory
    <2> QED BY <1>6, <2>1 DEF SnapshotIsOf
  <1> HIDE DEF found, here, others
  <1>11. /\ class \in {"stock", "live", "transition", "unknown"}
         /\ class = "unknown" <=> ~IsTransition(source.media, found)
         /\ class = "stock" <=>
              (found = StockMemory(source.media) /\ Extent = Stock[source.media].capacity)
    BY <1>1, <1>9, ClassesMean
  <1>12. others \in BOOLEAN
    BY DEF others, BelongsToAnother
  <1> HIDE DEF class
  <1>13. Decided(here, class, others)
    BY <1>1, <1>6, <1>8, <1>11, <1>12, SnapshotDecides DEF IsReading
  <1>14. CASE source'.purpose = "applied"
    <2>1. found = StockMemory(source.media)
      BY <1>11, <1>13, <1>14 DEF Decided
    <2>2. source'.media = source.media
      BY <1>7, <1>13 DEF Decided
    <2>3. Class(source.media, drive.memory)'
            = Classify(source.media, drive'.memory, drive'.memory.capacity)
      BY <1>1, <2>2 DEF Class, Classify, IsTransition, AuxiliaryIsTransition
    <2>4. drive'.memory.capacity = Stock[source.media].capacity
      BY <1>10, <2>1 DEF StockMemory
    <2>5. Classify(source.media, drive'.memory, drive'.memory.capacity) = "stock"
      BY <1>1, <1>9, <1>10, <2>1, <2>4, ClassesMean
    <2> QED BY <1>14, <2>3, <2>5
  <1>15. CASE source'.purpose # "applied"
    <2>1. CASE class # "unknown"
      <3>1. IsTransition(source.media, drive'.memory)
        BY <1>10, <1>11, <2>1
      <3>2. Classify(source.media, drive'.memory, drive'.memory.capacity) # "unknown"
        BY <1>1, <1>9, <3>1, ClassesMean
      <3> QED BY <1>9, <1>15, <3>2 DEF KnownTo
    <2>2. CASE class = "unknown"
      <3>1. source.purpose = "normalize" /\ others
        BY <1>7, <1>13, <1>15, <2>2 DEF Decided
      <3>2. drive'.disc # None
        BY <1>3, <1>5, <3>1 DEF IsRetried, Kept
      <3>3. Extent = drive'.memory.capacity
        BY <3>2 DEF Extent
      <3>4. KnownTo(found, Extent) # {}
        BY <3>1, KnownToSomeone DEF others
      <3> QED BY <1>10, <1>15, <3>3, <3>4
    <2> QED BY <2>1, <2>2
  <1> QED BY <1>14, <1>15

\* The check of the geometry lets writes begin only for the memory that the
\* guard has found.
LEMMA GeometryAllowsWrites ==
  ASSUME IInv, CheckGeometry, pc' = "write", ~history'.stale
  PROVE  /\ source'.purpose # "applied"
         /\ KnownTo(drive'.memory, drive'.memory.capacity) # {}
  <1>1. /\ TypeOK /\ Fits(pc, source) /\ pc = "geometry" /\ history' = history
        /\ hardware \in Hardwares
        /\ drive' = drive \/ drive' = Answered
        /\ StartRestore(source) \/ RestoreFails(source)
    BY DEF IInv, CheckGeometry, TypeOK
  <1>2. Owing(source)
    BY <1>1, OwingAtPlace
  <1>3. source'.purpose = "restored"
    BY <1>1, <1>2, WritesBegin, FailedRestoreGoesOn DEF GoesOn, Writing
  <1>4. drive'.memory = drive.memory
    BY <1>1, CommandsKeep
  <1>5. IsTransition(source.media, drive.memory)
    BY <1>1 DEF IInv, GuardedIsKnown
  <1>6. source.media \in hardware.media /\ source.media \in Profiles
    BY <1>1, <1>2, HardwareIsKnown DEF Owing
  <1>7. Classify(source.media, drive'.memory, drive'.memory.capacity) # "unknown"
    BY <1>1, <1>4, <1>5, <1>6, ClassesMean
  <1> QED BY <1>3, <1>6, <1>7 DEF KnownTo

\* MemoryIsTakenBack: every volatile write begins over memory that was found
\* in a state of a validated profile, the game's bytes over the stock state
\* only, and the drive is let go with the memory that it made of a disc itself
\* (normalize_detected_media, guarded_restore_stock, mt_prepare_close).
THEOREM MemoryIsWrittenAndTakenBack == Spec => MemoryIsTakenBack
  <1> DEFINE Known == pc # "write" /\ pc' = "write" /\ ~history'.stale =>
                        IF source'.purpose = "applied"
                          THEN Class(source.media, drive.memory)' = "stock"
                          ELSE KnownTo(drive'.memory, drive'.memory.capacity) # {}
             Released == pc = "release" /\ pc' = "closed" /\ history.wrote =>
                           drive.memory \in {Natural(d) : d \in Discs}
  <1>1. IInv /\ [Next]_vars => [Known]_vars
    <2> SUFFICES ASSUME IInv, Next, pc # "write", pc' = "write", ~history'.stale
                 PROVE  IF source'.purpose = "applied"
                          THEN Class(source.media, drive.memory)' = "stock"
                          ELSE KnownTo(drive'.memory, drive'.memory.capacity) # {}
      OBVIOUS
    <2> QED BY WritesBeginBehind, SnapshotAllowsWrites, GeometryAllowsWrites
  <1>2. IInv => [Released]_vars
    BY DEF IInv, Fits, OwesAtPlace, GivenBack, OwnMemories
  <1>3. Spec => [][Known]_vars
    BY <1>1, TransactionInvariant, PTL DEF Spec
  <1>4. Spec => [][Released]_vars
    BY <1>2, TransactionInvariant, PTL
  <1> QED BY <1>3, <1>4, PTL DEF MemoryIsTakenBack, WritesOnlyKnownState, ReleasedIsStock

-----------------------------------------------------------------------------
(* The session: what a command tells the tracker.                          *)

\* A tracker whose generation is not yet known to be within its bound.
Counting == [generation : Nat, event : {"none", "eject_request"},
             absent : BOOLEAN, changed : BOOLEAN]

One(b) == IF b THEN 1 ELSE 0

\* How often the generation can still grow without anything more happening to
\* the disc, added to how often it has.
Counted(t, d) == t.generation + Len(d.events) + One(d.attention)
                 + One(~Session!IsLatched(t) /\ d.disc = 0)

SameDisc(d, e) == e.disc = d.disc /\ e.inserted = d.inserted /\ e.pressed = d.pressed

\* The generation grows when a change is noted that no latch hides.
Advances(t, u) ==
  /\ u \in Counting
  /\ Session!IsLatched(t) => Session!IsLatched(u) /\ u.generation = t.generation
  /\ ~Session!IsLatched(t) /\ Session!IsLatched(u) => u.generation = t.generation + 1
  /\ ~Session!IsLatched(u) => u.generation = t.generation

\* A command whose answer is noted: no report of the drive gets lost by it.
Tells(t, d, u, e) ==
  /\ Advances(t, u)
  /\ e \in Session!Drives /\ SameDisc(d, e)
  /\ e.attention => d.attention
  /\ d.attention /\ ~e.attention /\ d.disc # 0 => Session!IsLatched(u)
  /\ Counted(u, e) <= Counted(t, d)

\* A noted change advances the tracker.
LEMMA NotedAdvances ==
  ASSUME NEW t \in Counting, NEW latch \in {"absent", "changed"}
  PROVE  Advances(t, Session!Noted(t, latch)) /\ Session!IsLatched(Session!Noted(t, latch))
  <1> DEFINE n == IF Session!IsLatched(t) THEN t.generation ELSE t.generation + 1
  <1>1. n \in Nat
    BY DEF Counting
  <1> HIDE DEF n
  <1>2. \A l \in {"absent", "changed"} :
          Session!Noted(t, l) = [t EXCEPT !.generation = n, ![l] = TRUE, !.event = "none"]
    BY DEF n, Session!Noted
  <1>3. CASE latch = "absent"
    <2>1. PICK u : u = [t EXCEPT !.generation = n, !.absent = TRUE, !.event = "none"]
      OBVIOUS
    <2>2. u \in Counting /\ u.absent /\ u.generation = n
      BY <1>1, <2>1 DEF Counting
    <2>3. Session!Noted(t, latch) = u
      BY <1>2, <1>3, <2>1 DEF Counting
    <2> QED BY <2>2, <2>3 DEF n, Advances, Session!IsLatched
  <1>4. CASE latch = "changed"
    <2>1. PICK u : u = [t EXCEPT !.generation = n, !.changed = TRUE, !.event = "none"]
      OBVIOUS
    <2>2. u \in Counting /\ u.changed /\ u.generation = n
      BY <1>1, <2>1 DEF Counting
    <2>3. Session!Noted(t, latch) = u
      BY <1>2, <1>4, <2>1 DEF Counting
    <2> QED BY <2>2, <2>3 DEF n, Advances, Session!IsLatched
  <1> QED BY <1>3, <1>4

\* So does, at most, an event or a sense.
LEMMA NotedEventAdvances ==
  ASSUME NEW t \in Counting, NEW event \in Session!DriveEvents
  PROVE  /\ Advances(t, Session!NotedEvent(t, event))
         /\ event \in {"new_media", "removal"} => Session!IsLatched(Session!NotedEvent(t, event))
         /\ event \notin {"new_media", "removal"} =>
              Session!IsLatched(Session!NotedEvent(t, event)) = Session!IsLatched(t)
  <1>1. CASE event = "none"
    BY <1>1 DEF Session!NotedEvent, Advances, Session!IsLatched, Counting
  <1>2. CASE event = "eject_request"
    BY <1>2 DEF Session!NotedEvent, Advances, Session!IsLatched, Counting
  <1>3. CASE event \in {"new_media", "removal"}
    BY <1>3, NotedAdvances DEF Session!NotedEvent, Session!NotedChanged
  <1> QED BY <1>1, <1>2, <1>3 DEF Session!DriveEvents

LEMMA NotedSenseAdvances ==
  ASSUME NEW t \in Counting, NEW sense \in Session!Senses
  PROVE  /\ Advances(t, Session!NotedSense(t, sense))
         /\ sense \in {"no_medium", "changed"} => Session!IsLatched(Session!NotedSense(t, sense))
         /\ sense \notin {"no_medium", "changed"} => Session!NotedSense(t, sense) = t
  <1>1. CASE sense \in {"none", "other"}
    BY <1>1 DEF Session!NotedSense, Advances, Session!IsLatched, Counting
  <1>2. CASE sense = "no_medium"
    BY <1>2, NotedAdvances DEF Session!NotedSense, Session!NotedAbsent
  <1>3. CASE sense = "changed"
    BY <1>3, NotedAdvances DEF Session!NotedSense, Session!NotedChanged
  <1> QED BY <1>1, <1>2, <1>3 DEF Session!Senses

\* The count is a number, and it covers the generation.
LEMMA CountedIsNatural ==
  ASSUME NEW t \in Counting, NEW d \in Session!Drives
  PROVE  Counted(t, d) \in Nat /\ t.generation <= Counted(t, d)
  <1>1. \A b : One(b) \in Nat
    BY DEF One
  <1>2. d.events \in Seq(Session!DriveEvents)
    BY DEF Session!Drives
  <1>3. Len(d.events) \in Nat
    BY <1>2, LenProperties
  <1>4. t.generation \in Nat
    BY DEF Counting
  <1> QED BY <1>1, <1>3, <1>4 DEF Counted

\* Telling is transitive, and silence tells.
LEMMA TellsAgain ==
  ASSUME NEW t \in Counting, NEW u \in Counting, NEW v \in Counting,
         NEW d \in Session!Drives, NEW e \in Session!Drives, NEW f \in Session!Drives,
         Tells(t, d, u, e), Tells(u, e, v, f)
  PROVE  Tells(t, d, v, f)
  <1>1. Advances(t, v)
    BY DEF Tells, Advances, Counting
  <1>2. Counted(v, f) <= Counted(t, d)
    <2>1. /\ Counted(t, d) \in Nat /\ Counted(u, e) \in Nat /\ Counted(v, f) \in Nat
      BY CountedIsNatural
    <2>2. Counted(u, e) <= Counted(t, d) /\ Counted(v, f) <= Counted(u, e)
      BY DEF Tells
    <2> QED BY <2>1, <2>2
  <1> QED BY <1>1, <1>2 DEF Tells, SameDisc, Advances, Session!Drives

LEMMA SilenceTells ==
  ASSUME NEW t \in Counting, NEW d \in Session!Drives
  PROVE  Tells(t, d, t, d)
  BY DEF Tells, Advances, Counted, One, SameDisc, Counting, Session!Drives

\* The sense of the drive's report, noted.
LEMMA ReportTells ==
  ASSUME NEW t \in Counting, NEW d \in Session!Drives
  PROVE  Tells(t, d, Session!NotedSense(t, Session!Report(d)), Session!Answered(d))
  <1> DEFINE u == Session!NotedSense(t, Session!Report(d))
             e == Session!Answered(d)
  <1>1. Session!Report(d) \in Session!Senses
    BY DEF Session!Report, Session!Senses
  <1>2. /\ e \in Session!Drives /\ SameDisc(d, e) /\ ~e.attention /\ e.events = d.events
    BY DEF Session!Answered, Session!Drives, SameDisc
  <1>3. Advances(t, u)
    BY <1>1, NotedSenseAdvances
  <1>4. d.disc = 0 \/ d.attention => Session!IsLatched(u)
    BY <1>1, NotedSenseAdvances DEF Session!Report
  <1>5. d.disc # 0 /\ ~d.attention => u = t
    BY <1>1, NotedSenseAdvances DEF Session!Report
  <1>6. /\ t.generation \in Nat /\ u.generation \in Nat /\ Len(d.events) \in Nat
        /\ d.attention \in BOOLEAN
    BY <1>3 DEF Counting, Advances, Session!Drives
  <1>7. Counted(u, e) <= Counted(t, d)
    <2>1. CASE d.disc = 0
      <3>1. Session!IsLatched(u)
        BY <1>4, <2>1
      <3> QED BY <1>2, <1>3, <1>6, <2>1, <3>1 DEF Counted, One, SameDisc, Advances
    <2>2. CASE d.disc # 0 /\ d.attention
      <3>1. Session!IsLatched(u)
        BY <1>4, <2>2
      <3> QED BY <1>2, <1>3, <1>6, <2>2, <3>1 DEF Counted, One, SameDisc, Advances
    <2>3. CASE d.disc # 0 /\ ~d.attention
      BY <1>2, <1>5, <1>6, <2>3 DEF Counted, One, SameDisc
    <2> QED BY <1>6, <2>1, <2>2, <2>3
  <1> HIDE DEF u, e
  <1>8. Tells(t, d, u, e)
    BY <1>2, <1>3, <1>4, <1>7 DEF Tells
  <1> QED BY <1>8 DEF u, e

\* An event, taken from the queue of the drive.
LEMMA EventTells ==
  ASSUME NEW t \in Counting, NEW d \in Session!Drives, d.events # <<>>
  PROVE  Tells(t, d, Session!NotedEvent(t, Head(d.events)), [d EXCEPT !.events = Tail(@)])
  <1> DEFINE u == Session!NotedEvent(t, Head(d.events))
             e == [d EXCEPT !.events = Tail(@)]
  <1>0. d.events \in Seq(Session!DriveEvents)
    BY DEF Session!Drives
  <1>1. Head(d.events) \in Session!DriveEvents /\ Tail(d.events) \in Seq(Session!DriveEvents)
        /\ Len(Tail(d.events)) = Len(d.events) - 1 /\ Len(d.events) \in Nat
    BY <1>0, HeadTailProperties
  <1>2. /\ e \in Session!Drives /\ SameDisc(d, e) /\ e.attention = d.attention
        /\ e.events = Tail(d.events)
    BY <1>1 DEF Session!Drives, SameDisc
  <1>3. Advances(t, u)
    BY <1>1, NotedEventAdvances
  <1>4. /\ t.generation \in Nat /\ u.generation \in Nat /\ d.attention \in BOOLEAN
    BY <1>3 DEF Counting, Advances, Session!Drives
  <1>5. u.generation <= t.generation + 1
    BY <1>3, <1>4 DEF Advances
  <1>6. One(~Session!IsLatched(u) /\ e.disc = 0) <= One(~Session!IsLatched(t) /\ d.disc = 0)
    BY <1>2, <1>3 DEF One, SameDisc, Advances
  <1>7. One(~Session!IsLatched(u) /\ e.disc = 0) \in Nat /\ One(~Session!IsLatched(t) /\ d.disc = 0) \in Nat
        /\ One(d.attention) \in Nat
    BY DEF One
  <1>8. Counted(u, e) <= Counted(t, d)
    BY <1>1, <1>2, <1>4, <1>5, <1>6, <1>7 DEF Counted
  <1> HIDE DEF u, e
  <1>9. Tells(t, d, u, e)
    BY <1>2, <1>3, <1>8 DEF Tells
  <1> QED BY <1>9 DEF u, e

\* REQUEST SENSE and the polling of an event tell.
LEMMA PollTells ==
  ASSUME NEW t \in Counting, NEW d \in Session!Drives, NEW r,
         r \in Session!Poll(t, d) \/ r \in Session!RequestSense(t, d)
  PROVE  Tells(t, d, r.tracker, r.drive)
  <1>1. CASE r = Session!Result(t, d)
    BY <1>1, SilenceTells DEF Session!Result
  <1>2. CASE r = Session!Result(Session!NotedSense(t, Session!Report(d)), Session!Answered(d))
    BY <1>2, ReportTells DEF Session!Result
  <1>3. CASE d.events # <<>> /\ r = Session!Result(Session!NotedEvent(t, Head(d.events)),
                                                  [d EXCEPT !.events = Tail(@)])
    BY <1>3, EventTells DEF Session!Result
  <1> QED BY <1>1, <1>2, <1>3 DEF Session!Poll, Session!RequestSense

-----------------------------------------------------------------------------
(* The session: its invariant.                                             *)

HasBase == observer.pc \notin {"begin", "baseline"}
Sure == ~noticed.blind /\ ~noticed.lost
IsOther(disc) == disc \notin {0, Session!SessionDisc}
Captures(sense) == reader.pc = "capture" /\ reader.sense = sense

\* The two reports that a read has taken from the drive but not noted yet.
Carried == One(Captures("changed"))
           + One(Captures("no_medium") /\ ~Session!IsLatched(tracker) /\ medium.disc # 0)

GenerationIsCounted ==
  /\ Counted(tracker, medium) + Carried
       <= 2 + 4 * medium.inserted + 2 * One(medium.disc = 0) + medium.pressed
  /\ medium.disc = 0 => medium.inserted < MaxInsertions

\* A read is under way only in a session, has the mutex for itself, and sees
\* the generation it began with as long as it is in the source.
ReadIsInTurn ==
  /\ Session!ObserverHolds => ~Session!ReaderHolds
  /\ ~HasBase => reader.pc = "idle" /\ observer.disc = 0
  /\ reader.pc # "deliver" => reader.got = 0
  /\ Session!ReaderHolds => /\ reader.expected = tracker.generation
                            /\ reader.pc # "read" => reader.tries < ReadAttempts

\* Before the session has its base, an exchange makes it blind; from then on
\* what has been counted is behind the base.
BaseIsOfDisc ==
  ~noticed.blind =>
    IF HasBase
      THEN /\ tracker.generation >= noticed.base
           /\ Session!IsLatched(tracker) => tracker.generation > noticed.base
      ELSE ~IsOther(medium.disc)

\* Another disc is counted, or the drive or the read will still report it.
OtherIsReported ==
  HasBase /\ Sure /\ IsOther(medium.disc) =>
    medium.attention \/ tracker.generation > noticed.base \/ Captures("changed")

\* A verdict that lets reads through has the session's generation.
GateHasBase ==
  HasBase /\ ~noticed.blind /\ ~gate.invalid => gate.known /\ gate.generation = noticed.base

\* Another disc that was found ready is on its way to the verdict.
OtherIsJudged ==
  HasBase /\ Sure /\ IsOther(observer.disc) =>
    /\ observer.pc = "apply" => /\ observer.seen.readiness = "present"
                                /\ observer.seen.generation # noticed.base
    /\ observer.pc \in {"watch", "idle"} => gate.invalid

OtherIsNotExpected ==
  Sure /\ IsOther(reader.got) => reader.expected # noticed.base

LiveInv ==
  /\ Session!TypeOK /\ GenerationIsCounted /\ ReadIsInTurn /\ BaseIsOfDisc
  /\ OtherIsReported /\ GateHasBase /\ OtherIsJudged /\ OtherIsNotExpected

-----------------------------------------------------------------------------
(* The session: a command.                                                 *)

\* The tracker counts.
LEMMA TrackerCounts ==
  ASSUME Session!TypeOK
  PROVE  tracker \in Counting /\ medium \in Session!Drives
  BY GenerationsAreNatural DEF Session!TypeOK, Session!Trackers, Counting, Session!GenerationAssumption

\* What is counted within the bound leaves the generation within its own.
LEMMA CountIsBounded ==
  ASSUME NEW t \in Counting, NEW d \in Session!Drives, NEW c \in Nat,
         Counted(t, d) + c <= 2 + 4 * d.inserted + 2 * One(d.disc = 0) + d.pressed,
         d.disc = 0 => d.inserted < MaxInsertions
  PROVE  t \in Session!Trackers
  <1>1. /\ t.generation \in Nat /\ Len(d.events) \in Nat
        /\ d.inserted \in Nat /\ d.inserted <= MaxInsertions
        /\ d.pressed \in Nat /\ d.pressed <= MaxPresses
    <2>1. d.events \in Seq(Session!DriveEvents)
      BY DEF Session!Drives
    <2> QED BY <2>1, LenProperties, SessionIsBounded DEF Counting, Session!Drives, Session!LiveAssumption
  <1>2. 4 * d.inserted + 2 * One(d.disc = 0) <= 4 * MaxInsertions
    <2>1. CASE d.disc = 0
      <3>1. d.inserted + 1 <= MaxInsertions
        BY <1>1, <2>1, SessionIsBounded DEF Session!LiveAssumption
      <3> QED BY <1>1, <2>1, <3>1, SessionIsBounded DEF One, Session!LiveAssumption
    <2>2. CASE d.disc # 0
      BY <1>1, <2>2, SessionIsBounded DEF One, Session!LiveAssumption
    <2> QED BY <2>1, <2>2
  <1>3. t.generation <= 2 + 4 * MaxInsertions + MaxPresses
    <2>1. One(d.disc = 0) \in Nat
      BY DEF One
    <2>2. t.generation <= Counted(t, d) /\ Counted(t, d) \in Nat
      BY CountedIsNatural
    <2>3. /\ MaxInsertions \in Nat /\ MaxPresses \in Nat
          /\ 4 * d.inserted + 2 * One(d.disc = 0) \in Nat
      BY <1>1, <2>1, SessionIsBounded DEF Session!LiveAssumption
    <2>4. Counted(t, d) + c <= 2 + (4 * d.inserted + 2 * One(d.disc = 0)) + d.pressed
      BY <1>1, <2>1
    <2> QED BY <1>1, <1>2, <2>2, <2>3, <2>4
  <1>4. t.generation \in 0 .. MaxGeneration
    BY <1>1, <1>3, GenerationsSuffice, SessionIsBounded, GenerationsAreNatural
    DEF Session!LiveAssumption, Session!GenerationAssumption
  <1> QED BY <1>4 DEF Counting, Session!Trackers

\* The tracker and the drive after a command whose answer is noted, possibly
\* after the report that a read carried.
CommandNoted(t) ==
  /\ t \in Counting /\ Advances(tracker, t)
  /\ Captures("changed") => Session!IsLatched(t)
  /\ Counted(t, medium) <= Counted(tracker, medium) + Carried
  /\ Tells(t, medium, tracker', medium')
  /\ Carried' = 0

\* Carried reports are counted.
LEMMA CarriedIsNatural == Carried \in Nat
  BY DEF Carried, One

\* What does not grow stays within the bound.
LEMMA CountStays ==
  ASSUME LiveInv, tracker' \in Counting, medium' \in Session!Drives, SameDisc(medium, medium'),
         Counted(tracker', medium') + Carried' <= Counted(tracker, medium) + Carried
  PROVE  GenerationIsCounted' /\ tracker' \in Session!Trackers
  <1>1. Carried \in Nat /\ Carried' \in Nat
    BY DEF Carried, One
  <1>2. /\ Counted(tracker, medium) + Carried \in Nat
        /\ Counted(tracker', medium') + Carried' \in Nat
    BY <1>1, TrackerCounts, CountedIsNatural DEF LiveInv
  <1>3. 2 + 4 * medium.inserted + 2 * One(medium.disc = 0) + medium.pressed \in Nat
    BY SessionIsBounded DEF LiveInv, Session!TypeOK, Session!Drives, One, Session!LiveAssumption
  <1>4. Counted(tracker, medium) + Carried
          <= 2 + 4 * medium.inserted + 2 * One(medium.disc = 0) + medium.pressed
    BY DEF LiveInv, GenerationIsCounted
  <1>5. Counted(tracker', medium') + Carried'
          <= 2 + 4 * medium.inserted + 2 * One(medium.disc = 0) + medium.pressed
    BY <1>2, <1>3, <1>4
  <1>6. GenerationIsCounted'
    BY <1>5 DEF LiveInv, GenerationIsCounted, SameDisc
  <1> QED BY <1>1, <1>6, CountIsBounded DEF GenerationIsCounted

\* Whatever is noted is counted, and no report gets lost.
LEMMA CommandKeeps ==
  ASSUME LiveInv, NEW t, CommandNoted(t), noticed' = noticed, HasBase' <=> HasBase
  PROVE  /\ tracker' \in Session!Trackers /\ medium' \in Session!Drives
         /\ SameDisc(medium, medium')
         /\ GenerationIsCounted' /\ BaseIsOfDisc' /\ OtherIsReported'
  <1>1. /\ t \in Counting /\ tracker \in Counting /\ tracker' \in Counting
        /\ medium \in Session!Drives /\ medium' \in Session!Drives
        /\ SameDisc(medium, medium') /\ Advances(tracker, t) /\ Advances(t, tracker')
        /\ Counted(t, medium) <= Counted(tracker, medium) + Carried
        /\ Counted(tracker', medium') <= Counted(t, medium)
    <2>1. tracker \in Counting
      BY GenerationsAreNatural DEF LiveInv, Session!TypeOK, Session!Trackers, Counting, Session!GenerationAssumption
    <2> QED BY <2>1 DEF CommandNoted, Tells, Advances, LiveInv, Session!TypeOK
  <1>2. Counted(tracker', medium') + Carried' <= Counted(tracker, medium) + Carried
    <2>1. /\ Counted(tracker, medium) \in Nat /\ Counted(t, medium) \in Nat
          /\ Counted(tracker', medium') \in Nat /\ Carried \in Nat /\ Carried' = 0
      BY <1>1, CountedIsNatural, CarriedIsNatural DEF CommandNoted
    <2> QED BY <1>1, <2>1
  <1>3. GenerationIsCounted' /\ tracker' \in Session!Trackers
    BY <1>1, <1>2, CountStays
  <1>4. noticed.base \in Nat /\ tracker.generation \in Nat /\ t.generation \in Nat /\ tracker'.generation \in Nat
    BY <1>1, SessionIsBounded, GenerationsAreNatural
    DEF LiveInv, Session!TypeOK, Session!Histories, Session!LiveAssumption, Session!GenerationAssumption, Counting
  <1>5. tracker'.generation >= t.generation /\ t.generation >= tracker.generation
    BY <1>1, <1>4 DEF Advances
  <1>6. BaseIsOfDisc'
    <2>1. CASE HasBase
      <3>1. ~noticed.blind => /\ tracker.generation >= noticed.base
                              /\ Session!IsLatched(tracker) => tracker.generation > noticed.base
        BY <2>1 DEF LiveInv, BaseIsOfDisc
      <3>2. ~noticed.blind => /\ t.generation >= noticed.base
                              /\ Session!IsLatched(t) => t.generation > noticed.base
        BY <1>1, <1>4, <3>1 DEF Advances
      <3>3. ~noticed.blind => /\ tracker'.generation >= noticed.base
                              /\ Session!IsLatched(tracker') => tracker'.generation > noticed.base
        BY <1>1, <1>4, <3>2 DEF Advances
      <3> QED BY <2>1, <3>3 DEF BaseIsOfDisc
    <2>2. CASE ~HasBase
      BY <1>1, <2>2 DEF LiveInv, BaseIsOfDisc, SameDisc
    <2> QED BY <2>1, <2>2
  <1>7. OtherIsReported'
    <2> SUFFICES ASSUME HasBase', Sure', IsOther(medium'.disc), ~medium'.attention
                 PROVE  tracker'.generation > noticed'.base
      BY DEF OtherIsReported
    <2>1. HasBase /\ Sure /\ IsOther(medium.disc)
      BY <1>1 DEF Sure, SameDisc
    <2>2. CASE tracker.generation > noticed.base
      BY <1>4, <1>5, <2>2
    <2>3. CASE Captures("changed") \/ medium.attention
      <3>1. Session!IsLatched(t) \/ Session!IsLatched(tracker')
        BY <2>3, <2>1 DEF CommandNoted, Tells, IsOther
      <3>2. Session!IsLatched(tracker')
        BY <1>1, <3>1 DEF Advances
      <3> QED BY <1>6, <2>1, <3>2 DEF BaseIsOfDisc, Sure
    <2> QED BY <2>1, <2>2, <2>3 DEF LiveInv, OtherIsReported
  <1> QED BY <1>1, <1>3, <1>6, <1>7

-----------------------------------------------------------------------------
(* The session: the reader.                                                *)

\* A command of a read: the read ends, or goes on with the generation it has.
LEMMA ReaderKeeps ==
  ASSUME LiveInv, NEW t, CommandNoted(t), UNCHANGED <<gate, observer, watch, noticed>>,
         Session!ReaderHolds,
         \/ reader' = Session!NotReading
         \/ /\ reader' \in Session!Readers /\ reader'.pc \in Session!InSource
            /\ reader'.expected = reader.expected /\ reader'.got = reader.got
            /\ tracker'.generation = reader.expected
            /\ reader'.pc # "read" => reader'.tries < ReadAttempts
  PROVE  LiveInv'
  <1>1. HasBase
    BY DEF LiveInv, ReadIsInTurn, Session!ReaderHolds, Session!InSource
  <1>2. HasBase' /\ (Sure' <=> Sure)
    BY <1>1 DEF HasBase, Sure
  <1>3. /\ tracker' \in Session!Trackers /\ medium' \in Session!Drives
        /\ GenerationIsCounted' /\ BaseIsOfDisc' /\ OtherIsReported'
    BY <1>1, <1>2, CommandKeeps
  <1>4. Session!NotReading \in Session!Readers
    BY SessionIsBounded, GenerationsAreNatural
    DEF Session!NotReading, Session!Readers, Session!Senses, Session!Discs, Session!LiveAssumption,
        Session!GenerationAssumption
  <1>5. Session!TypeOK'
    BY <1>3, <1>4 DEF LiveInv, Session!TypeOK
  <1>6. ReadIsInTurn'
    BY <1>1, <1>2 DEF LiveInv, ReadIsInTurn, Session!ReaderHolds, Session!ObserverHolds,
          Session!InSource, Session!NotReading, Session!Readers
  <1>7. OtherIsNotExpected'
    BY <1>2, <1>6 DEF LiveInv, OtherIsNotExpected, ReadIsInTurn, IsOther, Session!SessionDisc, Session!NotReading,
          Session!InSource
  <1>8. GateHasBase' /\ OtherIsJudged'
    BY <1>1, <1>2 DEF LiveInv, GateHasBase, OtherIsJudged, Sure
  <1> QED BY <1>3, <1>5, <1>6, <1>7, <1>8 DEF LiveInv

\* media_remains_current.
LEMMA RemainsCurrentKeeps ==
  ASSUME LiveInv, Session!ReaderHolds, reader.pc # "read",
         UNCHANGED <<gate, observer, watch, noticed>>,
         NEW t \in Counting, Advances(tracker, t),
         Captures("changed") => Session!IsLatched(t),
         Counted(t, medium) <= Counted(tracker, medium) + Carried,
         NEW u \in Counting, NEW e \in Session!Drives, Tells(t, medium, u, e),
         NEW place \in {"reset", "ready", "ensure", "retry"}, Session!RemainsCurrent(u, e, place)
  PROVE  LiveInv'
  <1>1. PICK r \in Session!Poll(u, e) :
          /\ Session!Effect(r)
          /\ IF Session!Transitioned(r.tracker, reader.expected)
               THEN Session!Return ELSE Session!Continue(place)
    BY DEF Session!RemainsCurrent
  <1>2. tracker' = r.tracker /\ medium' = r.drive
    BY <1>1 DEF Session!Effect
  <1>3. Tells(u, e, tracker', medium')
    BY <1>2, PollTells
  <1>4. tracker' \in Counting /\ medium' \in Session!Drives
    BY <1>3 DEF Tells, Advances
  <1>5. Tells(t, medium, tracker', medium')
    BY <1>3, <1>4, TellsAgain, TrackerCounts DEF LiveInv
  <1>6. reader \in Session!Readers /\ reader.tries < ReadAttempts
    BY DEF LiveInv, Session!TypeOK, ReadIsInTurn
  <1>7. \/ reader' = Session!NotReading
        \/ /\ reader' = [reader EXCEPT !.pc = place]
           /\ tracker'.generation = reader.expected
    BY <1>1, <1>2 DEF Session!Transitioned, Session!Return, Session!Continue
  <1>8. \/ reader' = Session!NotReading
        \/ /\ reader' \in Session!Readers /\ reader'.pc = place
           /\ reader'.expected = reader.expected /\ reader'.got = reader.got
           /\ tracker'.generation = reader.expected /\ reader'.tries < ReadAttempts
    BY <1>6, <1>7 DEF Session!Readers, Session!InSource
  <1>9. Carried' = 0
    BY <1>8 DEF Carried, Captures, One, Session!NotReading
  <1>10. CommandNoted(t)
    BY <1>5, <1>9 DEF CommandNoted
  <1> QED BY <1>8, <1>10, ReaderKeeps DEF Session!InSource

\* What is carried is noted by the first command of the recovery.
LEMMA CaptureKeeps ==
  ASSUME LiveInv, Session!Capture
  PROVE  LiveInv'
  <1> DEFINE t == Session!NotedSense(tracker, reader.sense)
  <1>1. /\ tracker \in Counting /\ medium \in Session!Drives
        /\ reader.sense \in Session!Senses /\ reader.pc = "capture"
    BY TrackerCounts DEF LiveInv, Session!TypeOK, Session!Readers, Session!Capture
  <1>2. /\ t \in Counting /\ Advances(tracker, t)
        /\ Captures("changed") => Session!IsLatched(t)
        /\ Captures("no_medium") => Session!IsLatched(t)
        /\ ~Captures("changed") /\ ~Captures("no_medium") => t = tracker
    BY <1>1, NotedSenseAdvances DEF Captures, Advances
  <1> HIDE DEF t
  <1>3. Counted(t, medium) <= Counted(tracker, medium) + Carried
    <2>1. /\ tracker.generation \in Nat /\ t.generation \in Nat /\ Len(medium.events) \in Nat
          /\ One(medium.attention) \in Nat
      <3>1. medium.events \in Seq(Session!DriveEvents)
        BY <1>1 DEF Session!Drives
      <3> QED BY <1>1, <1>2, <3>1, LenProperties DEF Counting, One
    <2>2. CASE Session!IsLatched(tracker)
      <3>1. Session!IsLatched(t) /\ t.generation = tracker.generation
        BY <1>2, <2>2 DEF Advances
      <3>2. Counted(t, medium) = Counted(tracker, medium)
        BY <2>2, <3>1 DEF Counted, One
      <3> QED BY <1>1, <3>2, CountedIsNatural, CarriedIsNatural
    <2>3. CASE ~Session!IsLatched(tracker) /\ ~Session!IsLatched(t)
      <3>1. t = tracker
        BY <1>2, <2>3
      <3> QED BY <1>1, <3>1, CountedIsNatural, CarriedIsNatural
    <2>4. CASE ~Session!IsLatched(tracker) /\ Session!IsLatched(t)
      <3>1. t.generation = tracker.generation + 1
        BY <1>2, <2>4 DEF Advances
      <3>2. Captures("changed") \/ Captures("no_medium")
        BY <1>2, <2>4
      <3>3. CASE Captures("changed")
        BY <2>1, <2>4, <3>1, <3>3 DEF Counted, Carried, One
      <3>4. CASE Captures("no_medium")
        BY <2>1, <2>4, <3>1, <3>4 DEF Counted, Carried, One
      <3> QED BY <3>2, <3>3, <3>4
    <2> QED BY <2>2, <2>3, <2>4
  <1>4. Session!RemainsCurrent(t, medium, "reset") /\ UNCHANGED <<gate, observer, watch, noticed>>
    BY DEF Session!Capture, t
  <1>5. Session!ReaderHolds
    BY <1>1 DEF Session!ReaderHolds, Session!InSource
  <1>6. Tells(t, medium, t, medium)
    BY <1>1, <1>2, SilenceTells
  <1> QED BY <1>1, <1>2, <1>3, <1>4, <1>5, <1>6, RemainsCurrentKeeps

\* Nothing is carried elsewhere.
LEMMA NothingCarried ==
  ASSUME LiveInv, reader.pc # "capture"
  PROVE  /\ Carried = 0 /\ ~Captures("changed")
         /\ Advances(tracker, tracker) /\ Counted(tracker, medium) <= Counted(tracker, medium) + Carried
         /\ tracker \in Counting /\ medium \in Session!Drives
         /\ Tells(tracker, medium, tracker, medium)
  <1>1. tracker \in Counting /\ medium \in Session!Drives
    BY TrackerCounts DEF LiveInv
  <1>2. Carried = 0 /\ ~Captures("changed")
    BY DEF Carried, Captures, One
  <1>3. Tells(tracker, medium, tracker, medium)
    BY <1>1, SilenceTells
  <1> QED BY <1>1, <1>2, <1>3, CountedIsNatural DEF Tells

LEMMA ResetBusKeeps ==
  ASSUME LiveInv, Session!ResetBus
  PROVE  LiveInv'
  <1>1. PICK r \in Session!RequestSense(tracker, medium) :
          Session!RemainsCurrent(r.tracker, r.drive, "ready")
    BY DEF Session!ResetBus
  <1>2. reader.pc = "reset" /\ UNCHANGED <<gate, observer, watch, noticed>> /\ Session!ReaderHolds
    BY DEF Session!ResetBus, Session!ReaderHolds, Session!InSource
  <1>3. Tells(tracker, medium, r.tracker, r.drive)
    BY <1>2, NothingCarried, PollTells
  <1>4. r.tracker \in Counting /\ r.drive \in Session!Drives
    BY <1>3 DEF Tells, Advances
  <1> QED BY <1>1, <1>2, <1>3, <1>4, NothingCarried, RemainsCurrentKeeps

LEMMA WaitReadyKeeps ==
  ASSUME LiveInv, Session!WaitReady
  PROVE  LiveInv'
  <1> DEFINE u == IF Session!Report(medium) = "none" THEN tracker
                  ELSE Session!NotedSense(tracker, Session!Report(medium))
             e == Session!Answered(medium)
  <1>1. \E place \in {"ensure", "ready", "retry"} : Session!RemainsCurrent(u, e, place)
    BY DEF Session!WaitReady
  <1>2. reader.pc = "ready" /\ UNCHANGED <<gate, observer, watch, noticed>> /\ Session!ReaderHolds
    BY DEF Session!WaitReady, Session!ReaderHolds, Session!InSource
  <1>3. u = Session!NotedSense(tracker, Session!Report(medium))
    BY DEF Session!NotedSense
  <1> HIDE DEF u, e
  <1>4. Tells(tracker, medium, u, e)
    BY <1>2, <1>3, NothingCarried, ReportTells DEF e
  <1>5. u \in Counting /\ e \in Session!Drives
    BY <1>4 DEF Tells, Advances
  <1> QED BY <1>1, <1>2, <1>4, <1>5, NothingCarried, RemainsCurrentKeeps

LEMMA RetryReadKeeps ==
  ASSUME LiveInv, Session!RetryRead
  PROVE  LiveInv'
  <1>1. PICK r \in Session!Poll(tracker, medium) :
          /\ Session!Effect(r)
          /\ reader' = IF Session!Transitioned(r.tracker, reader.expected)
                         THEN Session!NotReading
                         ELSE [reader EXCEPT !.pc = "read", !.tries = @ + 1]
    BY DEF Session!RetryRead
  <1>2. reader.pc = "retry" /\ UNCHANGED <<gate, observer, watch, noticed>> /\ Session!ReaderHolds
    BY DEF Session!RetryRead, Session!ReaderHolds, Session!InSource
  <1>3. tracker' = r.tracker /\ medium' = r.drive
    BY <1>1 DEF Session!Effect
  <1>4. Tells(tracker, medium, tracker', medium')
    BY <1>2, <1>3, NothingCarried, PollTells
  <1>5. reader \in Session!Readers /\ reader.tries < ReadAttempts
    BY <1>2 DEF LiveInv, Session!TypeOK, ReadIsInTurn
  <1>6. \/ reader' = Session!NotReading
        \/ /\ reader' \in Session!Readers /\ reader'.pc = "read"
           /\ reader'.expected = reader.expected /\ reader'.got = reader.got
           /\ tracker'.generation = reader.expected
    <2>1. reader.tries + 1 \in 0 .. ReadAttempts
      BY <1>5, LimitAssumption DEF Session!Readers
    <2>2. PICK k : k = reader.tries + 1
      OBVIOUS
    <2>3. PICK q : q = [reader EXCEPT !.pc = "read", !.tries = k]
      OBVIOUS
    <2>4. /\ q \in Session!Readers /\ q.pc = "read"
          /\ q.expected = reader.expected /\ q.got = reader.got
      BY <1>5, <2>1, <2>2, <2>3 DEF Session!Readers, Session!InSource
    <2> QED BY <1>1, <1>3, <2>2, <2>3, <2>4 DEF Session!Transitioned
  <1>7. Carried' = 0
    BY <1>6 DEF Carried, Captures, One, Session!NotReading
  <1>8. CommandNoted(tracker)
    BY <1>2, <1>4, <1>7, NothingCarried DEF CommandNoted
  <1> QED BY <1>2, <1>6, <1>8, ReaderKeeps DEF Session!InSource

\* What a command of the reader that notes nothing leaves is typed.
LEMMA ReaderStaysTyped ==
  ASSUME LiveInv, UNCHANGED <<tracker, gate, observer, watch>>,
         medium' = medium \/ medium' = Session!Answered(medium),
         reader' \in Session!Readers,
         noticed'.base = noticed.base /\ noticed'.blind = noticed.blind,
         noticed' \in Session!Histories
  PROVE  Session!TypeOK'
  <1>1. Session!Answered(medium) \in Session!Drives
    BY DEF LiveInv, Session!TypeOK, Session!Answered, Session!Drives
  <1> QED BY <1>1 DEF LiveInv, Session!TypeOK

\* A step that hears no report, or the only one: it is carried, or lost.
LEMMA HearingKeeps ==
  ASSUME LiveInv, UNCHANGED <<tracker, gate, observer, watch>>,
         medium' = medium \/ medium' = Session!Answered(medium),
         reader' \in Session!Readers, noticed' \in Session!Histories,
         noticed'.base = noticed.base, noticed'.blind = noticed.blind,
         noticed.lost => noticed'.lost,
         HasBase \/ reader'.pc = "idle",
         medium.disc # 0 /\ (medium.attention \/ Captures("changed")) =>
            medium'.attention \/ Captures("changed")' \/ noticed'.lost,
         Carried' + One(medium'.attention) <= Carried + One(medium.attention),
         Session!ObserverHolds => reader'.pc \notin Session!InSource,
         reader'.pc # "deliver" => reader'.got = 0,
         reader'.pc \in Session!InSource =>
            /\ reader'.expected = tracker.generation
            /\ reader'.pc # "read" => reader'.tries < ReadAttempts,
         OtherIsNotExpected'
  PROVE  LiveInv'
  <1>1. Session!TypeOK'
    BY ReaderStaysTyped
  <1>2. /\ tracker \in Counting /\ medium \in Session!Drives /\ medium' \in Session!Drives
        /\ medium'.disc = medium.disc /\ medium'.events = medium.events
        /\ medium'.inserted = medium.inserted /\ medium'.pressed = medium.pressed
    BY <1>1, TrackerCounts DEF LiveInv, Session!TypeOK, Session!Answered, Session!Drives
  <1>3. GenerationIsCounted'
    <2> DEFINE rest(d) == tracker.generation + Len(d.events) + One(~Session!IsLatched(tracker) /\ d.disc = 0)
    <2>1. /\ Counted(tracker, medium) = rest(medium) + One(medium.attention)
          /\ Counted(tracker, medium') = rest(medium') + One(medium'.attention)
          /\ rest(medium) \in Nat /\ rest(medium') \in Nat
      <3>1. \A d \in Session!Drives : Len(d.events) \in Nat
        <4>1. \A d \in Session!Drives : d.events \in Seq(Session!DriveEvents)
          BY DEF Session!Drives
        <4> QED BY <4>1, LenProperties
      <3>2. \A b : One(b) \in Nat
        BY DEF One
      <3>3. tracker.generation \in Nat
        BY <1>2 DEF Counting
      <3> QED BY <1>2, <3>1, <3>2, <3>3 DEF Counted
    <2>2. rest(medium') = rest(medium)
      BY <1>2
    <2> HIDE DEF rest
    <2>3. Carried \in Nat /\ Carried' \in Nat /\ One(medium.attention) \in Nat /\ One(medium'.attention) \in Nat
      BY DEF Carried, One
    <2>4. Counted(tracker', medium') + Carried' <= Counted(tracker, medium) + Carried
      BY <2>1, <2>2, <2>3
    <2> QED BY <1>2, <2>4, CountStays DEF SameDisc
  <1>4. ReadIsInTurn'
    BY DEF LiveInv, ReadIsInTurn, Session!ReaderHolds, Session!ObserverHolds, HasBase
  <1>5. BaseIsOfDisc'
    BY <1>2 DEF LiveInv, BaseIsOfDisc, HasBase
  <1>6. OtherIsReported'
    BY <1>2 DEF LiveInv, OtherIsReported, HasBase, Sure, IsOther
  <1>7. GateHasBase' /\ OtherIsJudged'
    BY DEF LiveInv, GateHasBase, OtherIsJudged, HasBase, Sure
  <1> QED BY <1>1, <1>3, <1>4, <1>5, <1>6, <1>7 DEF LiveInv

LEMMA NotReadingIsTyped ==
  /\ Session!NotReading \in Session!Readers
  /\ Session!NotReading.pc = "idle" /\ Session!NotReading.got = 0
  BY SessionIsBounded, GenerationsAreNatural
  DEF Session!NotReading, Session!Readers, Session!Senses, Session!Discs, Session!LiveAssumption,
      Session!GenerationAssumption

\* The range begins with the tracker's generation.
LEMMA BeginRangeIsTyped ==
  ASSUME LiveInv
  PROVE  /\ Session!BeginRange \in Session!Readers
         /\ Session!BeginRange.pc = "read" /\ Session!BeginRange.got = 0
         /\ Session!BeginRange.expected = tracker.generation
  <1>1. reader \in Session!Readers /\ tracker.generation \in Generations
    BY SessionIsBounded DEF LiveInv, Session!TypeOK, Session!Trackers, Session!LiveAssumption
  <1>2. 1 \in 0 .. ReadAttempts /\ 0 \in Session!Discs
    BY LimitAssumption, SessionIsBounded DEF Session!Discs, Session!LiveAssumption
  <1> QED BY <1>1, <1>2 DEF Session!BeginRange, Session!Readers, Session!InSource, Session!Senses

\* Steps that send no command.
LEMMA QuietReaderKeeps ==
  ASSUME LiveInv, Session!StartRead \/ Session!Lock \/ Session!Deliver
  PROVE  LiveInv'
  <1>1. /\ UNCHANGED <<tracker, medium, gate, observer, watch, noticed>>
        /\ reader.pc \in {"idle", "lock", "deliver"}
    BY DEF Session!StartRead, Session!Lock, Session!Deliver
  <1>2. reader' \in Session!Readers /\ reader'.pc \in {"lock", "read", "idle"} /\ reader'.got = 0
    <2>1. CASE Session!StartRead
      BY <2>1 DEF Session!StartRead, Session!Continue, LiveInv, Session!TypeOK, ReadIsInTurn, Session!Readers
    <2>2. CASE Session!Lock
      BY <2>2, BeginRangeIsTyped DEF Session!Lock
    <2>3. CASE Session!Deliver
      BY <2>3, NotReadingIsTyped DEF Session!Deliver, Session!Return
    <2> QED BY <2>1, <2>2, <2>3
  <1>3. /\ HasBase \/ reader'.pc = "idle"
        /\ Session!ObserverHolds => reader'.pc # "read"
        /\ reader'.pc = "read" => reader'.expected = tracker.generation
    <2>1. CASE Session!StartRead
      BY <2>1 DEF Session!StartRead, Session!SessionIsOpen, HasBase, Session!Continue, LiveInv, Session!TypeOK, Session!Readers
    <2>2. CASE Session!Lock
      BY <2>2, BeginRangeIsTyped DEF Session!Lock, LiveInv, ReadIsInTurn
    <2>3. CASE Session!Deliver
      BY <2>3, NotReadingIsTyped DEF Session!Deliver, Session!Return
    <2> QED BY <2>1, <2>2, <2>3
  <1>4. Carried = 0 /\ Carried' = 0 /\ ~Captures("changed")
    BY <1>1, <1>2 DEF Carried, Captures, One
  <1>5. Carried' + One(medium'.attention) <= Carried + One(medium.attention)
    BY <1>1, <1>4 DEF One
  <1>6. OtherIsNotExpected'
    BY <1>2 DEF OtherIsNotExpected, IsOther
  <1>7. noticed' \in Session!Histories
    BY <1>1 DEF LiveInv, Session!TypeOK
  <1> QED BY <1>1, <1>2, <1>3, <1>4, <1>5, <1>6, <1>7, HearingKeeps DEF Session!InSource

\* Neither ensure_xgd nor the end of a recovery notes a sense.
LEMMA UnnotedKeeps ==
  ASSUME LiveInv, Session!EnsureXgd \/ Session!GiveUp
  PROVE  LiveInv'
  <1>1. /\ UNCHANGED <<tracker, gate, observer, watch>>
        /\ medium' = medium \/ medium' = Session!Answered(medium)
        /\ reader.pc \in Session!InSource \ {"read"}
    BY DEF Session!EnsureXgd, Session!GiveUp, Session!InSource
  <1>2. /\ reader \in Session!Readers /\ noticed \in Session!Histories /\ medium \in Session!Drives
        /\ reader.tries < ReadAttempts /\ reader.got = 0 /\ reader.expected = tracker.generation
        /\ HasBase /\ ~Session!ObserverHolds
    BY <1>1 DEF LiveInv, Session!TypeOK, ReadIsInTurn, Session!ReaderHolds, Session!InSource
  <1>3. /\ reader' \in Session!Readers /\ reader'.pc \in {"idle", "retry"} /\ reader'.got = 0
        /\ reader'.pc = "retry" => /\ reader'.expected = reader.expected
                                   /\ reader'.tries = reader.tries
    <2>1. CASE Session!EnsureXgd
      BY <1>2, <2>1 DEF Session!EnsureXgd, Session!Continue, Session!Readers, Session!InSource
    <2>2. CASE Session!GiveUp
      BY <2>2, NotReadingIsTyped DEF Session!GiveUp, Session!Return
    <2> QED BY <2>1, <2>2
  <1>4. PICK b \in BOOLEAN : noticed' = [noticed EXCEPT !.lost = noticed.lost \/ b]
    <2>1. CASE Session!EnsureXgd
      BY <1>2, <2>1 DEF Session!EnsureXgd, Session!Drives
    <2>2. CASE Session!GiveUp
      BY <2>2 DEF Session!GiveUp
    <2> QED BY <2>1, <2>2
  <1>5. /\ noticed' \in Session!Histories /\ noticed'.base = noticed.base
        /\ noticed'.blind = noticed.blind
        /\ noticed.lost => noticed'.lost
    BY <1>2, <1>4 DEF Session!Histories
  <1>6. medium.attention \/ Captures("changed") => medium'.attention \/ noticed'.lost
    <2>1. CASE Session!EnsureXgd
      <3>1. noticed' = [noticed EXCEPT !.lost = noticed.lost \/ medium.attention]
        BY <2>1 DEF Session!EnsureXgd
      <3>2. ~Captures("changed")
        BY <2>1 DEF Session!EnsureXgd, Captures
      <3> QED BY <1>2, <3>1, <3>2 DEF Session!Histories
    <2>2. CASE Session!GiveUp
      <3>1. noticed' = [noticed EXCEPT !.lost = noticed.lost \/ (reader.pc = "capture" /\ reader.sense = "changed")]
        BY <2>2 DEF Session!GiveUp
      <3>2. medium' = medium
        BY <2>2 DEF Session!GiveUp
      <3> QED BY <1>2, <3>1, <3>2 DEF Session!Histories, Captures
    <2> QED BY <2>1, <2>2
  <1>7. Carried' + One(medium'.attention) <= Carried + One(medium.attention)
    <2>1. Carried' = 0 /\ Carried \in Nat
      BY <1>3 DEF Carried, Captures, One
    <2>2. One(medium'.attention) <= One(medium.attention) /\ One(medium'.attention) \in Nat
          /\ One(medium.attention) \in Nat
      BY <1>1, <1>2 DEF One, Session!Answered, Session!Drives
    <2> QED BY <2>1, <2>2
  <1>8. OtherIsNotExpected'
    BY <1>3 DEF OtherIsNotExpected, IsOther
  <1> QED BY <1>1, <1>2, <1>3, <1>5, <1>6, <1>7, <1>8, HearingKeeps DEF Session!InSource

\* A READ: its sectors are of another disc only if that is counted; a report
\* it fails with is carried, or given up with the read.
LEMMA ReadCommandKeeps ==
  ASSUME LiveInv, Session!ReadCommand
  PROVE  LiveInv'
  <1>1. /\ UNCHANGED <<tracker, gate, observer, watch>> /\ medium' = Session!Answered(medium)
        /\ reader.pc = "read"
    BY DEF Session!ReadCommand
  <1>2. /\ reader \in Session!Readers /\ noticed \in Session!Histories /\ medium \in Session!Drives
        /\ reader.got = 0 /\ reader.expected = tracker.generation
        /\ HasBase /\ ~Session!ObserverHolds
    BY <1>1 DEF LiveInv, Session!TypeOK, ReadIsInTurn, Session!ReaderHolds, Session!InSource
  <1>3. Carried = 0 /\ ~Captures("changed") /\ medium'.attention = FALSE /\ One(medium'.attention) = 0
    BY <1>1, <1>2 DEF Carried, Captures, One, Session!Answered, Session!Drives
  <1>4. PICK sense \in IF Session!Report(medium) = "none" THEN {"none", "other"}
                       ELSE {Session!Report(medium)} :
          \/ /\ sense = "none"
             /\ reader' = [reader EXCEPT !.pc = "deliver", !.got = medium.disc]
             /\ noticed' = noticed
          \/ /\ sense = "none" /\ reader' = Session!BeginRange
             /\ noticed' = noticed
          \/ /\ sense # "none" /\ Session!AnotherMayBeTried
             /\ reader' = [reader EXCEPT !.pc = "capture", !.sense = sense]
             /\ noticed' = noticed
          \/ /\ sense # "none"
             /\ reader' = Session!NotReading \/ reader' = Session!BeginRange
             /\ noticed' = [noticed EXCEPT !.lost = noticed.lost \/ sense = "changed"]
    BY DEF Session!ReadCommand
  <1>5. /\ sense \in Session!Senses
        /\ sense = "none" => medium.disc # 0 /\ ~medium.attention
        /\ sense = "changed" <=> medium.disc # 0 /\ medium.attention
        /\ sense = "no_medium" <=> medium.disc = 0
    BY <1>2, <1>4 DEF Session!Report, Session!Senses
  <1>6. medium.disc \in Session!Discs
    BY <1>2 DEF Session!Drives
  <1>7. ASSUME sense = "none", reader' = [reader EXCEPT !.pc = "deliver", !.got = medium.disc],
               noticed' = noticed
        PROVE  LiveInv'
    <2>1. /\ reader' \in Session!Readers /\ reader'.pc = "deliver" /\ reader'.got = medium.disc
          /\ reader'.expected = tracker.generation
      BY <1>2, <1>6, <1>7 DEF Session!Readers
    <2>2. Carried' = 0
      BY <2>1 DEF Carried, Captures, One
    <2>3. OtherIsNotExpected'
      <3> SUFFICES ASSUME Sure', IsOther(reader'.got) PROVE reader'.expected # noticed'.base
        BY DEF OtherIsNotExpected
      <3>1. tracker.generation > noticed.base
        BY <1>2, <1>3, <1>5, <1>7, <2>1 DEF LiveInv, OtherIsReported, Sure, IsOther
      <3>2. tracker.generation \in Nat /\ noticed.base \in Nat
        BY <1>2, TrackerCounts, SessionIsBounded, GenerationsAreNatural
        DEF LiveInv, Counting, Session!Histories, Session!LiveAssumption, Session!GenerationAssumption
      <3> QED BY <1>7, <2>1, <3>1, <3>2
    <2>4. Carried' + One(medium'.attention) <= Carried + One(medium.attention)
      BY <1>3, <2>2 DEF One
    <2> QED BY <1>1, <1>2, <1>3, <1>5, <1>7, <2>1, <2>3, <2>4, HearingKeeps DEF Session!InSource
  <1>8. ASSUME sense # "none", Session!AnotherMayBeTried,
               reader' = [reader EXCEPT !.pc = "capture", !.sense = sense], noticed' = noticed
        PROVE  LiveInv'
    <2>1. /\ reader' \in Session!Readers /\ reader'.pc = "capture" /\ reader'.got = 0
          /\ reader'.expected = tracker.generation /\ reader'.tries < ReadAttempts
          /\ reader'.sense = sense
      BY <1>2, <1>5, <1>8 DEF Session!Readers, Session!AnotherMayBeTried, Session!InSource
    <2>2. Captures("changed")' <=> sense = "changed"
      BY <2>1 DEF Captures
    <2>3. Carried' + One(medium'.attention) <= Carried + One(medium.attention)
      <3>1. medium'.disc = medium.disc
        BY <1>1, <1>2 DEF Session!Answered, Session!Drives
      <3>2. Carried' = One(sense = "changed")
        BY <1>5, <2>1, <3>1 DEF Carried, Captures, One
      <3> QED BY <1>2, <1>3, <1>5, <3>2 DEF One, Session!Drives
    <2>4. OtherIsNotExpected'
      BY <2>1 DEF OtherIsNotExpected, IsOther
    <2> QED BY <1>1, <1>2, <1>3, <1>5, <1>8, <2>1, <2>2, <2>3, <2>4, HearingKeeps DEF Session!InSource
  <1>9. ASSUME reader' = Session!NotReading \/ reader' = Session!BeginRange,
               NEW b \in BOOLEAN, noticed' = [noticed EXCEPT !.lost = noticed.lost \/ b],
               medium.disc # 0 /\ medium.attention => b
        PROVE  LiveInv'
    <2>1. /\ reader' \in Session!Readers /\ reader'.pc \in {"idle", "read"} /\ reader'.got = 0
          /\ reader'.pc = "read" => reader'.expected = tracker.generation
      BY <1>9, NotReadingIsTyped, BeginRangeIsTyped
    <2>2. /\ noticed' \in Session!Histories /\ noticed'.base = noticed.base
          /\ noticed'.blind = noticed.blind
          /\ noticed.lost => noticed'.lost
          /\ b => noticed'.lost
      BY <1>2, <1>9 DEF Session!Histories
    <2>3. Carried' = 0
      BY <2>1 DEF Carried, Captures, One
    <2>4. Carried' + One(medium'.attention) <= Carried + One(medium.attention)
      BY <1>3, <2>3 DEF One
    <2>5. OtherIsNotExpected'
      BY <2>1 DEF OtherIsNotExpected, IsOther
    <2> QED BY <1>1, <1>2, <1>3, <1>9, <2>1, <2>2, <2>4, <2>5, HearingKeeps DEF Session!InSource
  <1>10. ASSUME sense = "none", reader' = Session!BeginRange, noticed' = noticed
         PROVE  LiveInv'
    <2>1. noticed' = [noticed EXCEPT !.lost = noticed.lost \/ FALSE]
      BY <1>2, <1>10 DEF Session!Histories
    <2> QED BY <1>5, <1>9, <1>10, <2>1
  <1>11. ASSUME reader' = Session!NotReading \/ reader' = Session!BeginRange,
                noticed' = [noticed EXCEPT !.lost = noticed.lost \/ sense = "changed"]
         PROVE  LiveInv'
    <2>1. PICK b \in BOOLEAN : b = (sense = "changed")
      OBVIOUS
    <2> QED BY <1>5, <1>9, <1>11, <2>1
  <1> QED BY <1>4, <1>7, <1>8, <1>10, <1>11

-----------------------------------------------------------------------------
(* The session: the observer.                                              *)

\* What TEST UNIT READY finds.
LEMMA ReadiedCounts ==
  ASSUME NEW t \in Counting, NEW d \in Session!Drives, NEW r \in Session!Readied(t, d)
  PROVE  /\ r.result.tracker \in Counting /\ r.result.drive \in Session!Drives
         /\ r.readiness \in {"present", "absent", "unknown"}
         /\ SameDisc(d, r.result.drive)
         /\ Counted(r.result.tracker, r.result.drive) <= Counted(t, d)
         /\ r.readiness # "present" => Tells(t, d, r.result.tracker, r.result.drive)
         /\ r.readiness = "present" =>
              /\ d.disc # 0 /\ ~d.attention /\ r.result.drive = d
              /\ ~Session!IsLatched(r.result.tracker)
              /\ r.result.tracker.generation = t.generation
  <1>1. CASE /\ Session!Report(d) = "none"
             /\ r = [result |-> Session!Result(Session!FoundReady(t), d), readiness |-> "present"]
    <2>1. d.disc # 0 /\ ~d.attention
      BY <1>1 DEF Session!Report
    <2>2. PICK u : u = Session!FoundReady(t)
      OBVIOUS
    <2>3. u \in Counting /\ ~Session!IsLatched(u) /\ u.generation = t.generation
      BY <2>2 DEF Session!FoundReady, Counting, Session!IsLatched
    <2>4. r.result.tracker = u /\ r.result.drive = d /\ r.readiness = "present"
      BY <1>1, <2>2 DEF Session!Result
    <2>5. Counted(u, d) = Counted(t, d)
      BY <2>1, <2>3 DEF Counted, One
    <2>6. Counted(u, d) \in Nat
      BY <2>3, CountedIsNatural
    <2> QED BY <2>1, <2>3, <2>4, <2>5, <2>6 DEF SameDisc
  <1>2. CASE r = [result |-> Session!Result(Session!NotedSense(t, Session!Report(d)), Session!Answered(d)),
                  readiness |-> IF Session!Report(d) = "no_medium" THEN "absent" ELSE "unknown"]
    <2>1. Tells(t, d, r.result.tracker, r.result.drive)
      BY <1>2, ReportTells DEF Session!Result
    <2> QED BY <1>2, <2>1 DEF Tells, Advances
  <1> QED BY <1>1, <1>2 DEF Session!Readied

\* An observation is typed when the tracker is.
LEMMA ObservationIsTyped ==
  ASSUME NEW r, r.result.tracker \in Session!Trackers, r.readiness \in {"present", "absent", "unknown"}
  PROVE  Session!Observation(r) \in Session!Observations
  BY SessionIsBounded DEF Session!Observation, Session!Observations, Session!Trackers,
     Session!MediaEvents, Session!Readiness, Session!LiveAssumption

\* A queue that is dropped in part tells, if what was dropped is noted.
LEMMA DroppingTells ==
  ASSUME NEW t \in Counting, NEW d \in Session!Drives, NEW q \in Seq(Session!DriveEvents), NEW u,
         \/ u = t /\ Len(q) <= Len(d.events)
         \/ u = Session!NotedChanged(t) /\ Len(q) + 1 <= Len(d.events)
  PROVE  Tells(t, d, u, [d EXCEPT !.events = q])
  <1>1. PICK e : e = [d EXCEPT !.events = q]
    OBVIOUS
  <1>2. /\ e \in Session!Drives /\ SameDisc(d, e) /\ e.attention = d.attention /\ e.events = q
    BY <1>1 DEF Session!Drives, SameDisc
  <1>3. d.events \in Seq(Session!DriveEvents)
    BY DEF Session!Drives
  <1>4. Len(d.events) \in Nat /\ Len(q) \in Nat
    BY <1>3, LenProperties
  <1>5. Advances(t, u) /\ u.generation + Len(q) <= t.generation + Len(d.events)
    <2>1. CASE u = t /\ Len(q) <= Len(d.events)
      BY <1>4, <2>1 DEF Advances, Counting
    <2>2. CASE u = Session!NotedChanged(t) /\ Len(q) + 1 <= Len(d.events)
      <3>1. Advances(t, u)
        BY <2>2, NotedAdvances DEF Session!NotedChanged
      <3>2. u.generation \in Nat /\ t.generation \in Nat /\ u.generation <= t.generation + 1
        BY <3>1 DEF Advances, Counting
      <3> QED BY <1>4, <2>2, <3>1, <3>2
    <2> QED BY <2>1, <2>2
  <1>6. t.generation \in Nat /\ u.generation \in Nat
    BY <1>5 DEF Advances, Counting
  <1>7. One(~Session!IsLatched(u) /\ e.disc = 0) <= One(~Session!IsLatched(t) /\ d.disc = 0)
    BY <1>2, <1>5 DEF One, SameDisc, Advances
  <1>8. One(~Session!IsLatched(u) /\ e.disc = 0) \in Nat /\ One(~Session!IsLatched(t) /\ d.disc = 0) \in Nat
        /\ One(d.attention) \in Nat
    BY DEF One
  <1>9. Counted(u, e) <= Counted(t, d)
    BY <1>2, <1>4, <1>5, <1>6, <1>7, <1>8 DEF Counted
  <1> QED BY <1>1, <1>2, <1>5, <1>9 DEF Tells

\* The events of before the session are dropped.
LEMMA BeginSessionKeeps ==
  ASSUME LiveInv, Session!BeginSession
  PROVE  LiveInv'
  <1>1. /\ observer.pc = "begin" /\ observer' = [observer EXCEPT !.pc = "baseline"]
        /\ UNCHANGED <<gate, reader, watch, noticed>> /\ ~HasBase
        /\ reader.pc = "idle" /\ observer.disc = 0 /\ observer \in Session!Observers
    BY DEF Session!BeginSession, HasBase, LiveInv, ReadIsInTurn, Session!TypeOK
  <1>2. /\ observer' \in Session!Observers /\ observer'.pc = "baseline" /\ observer'.disc = 0
        /\ ~HasBase'
    BY <1>1 DEF Session!Observers, HasBase
  <1>3. PICK left \in 0 .. Len(medium.events) :
          LET dropped == SubSeq(medium.events, 1, Len(medium.events) - left)
              noted == IF \E i \in 1 .. Len(dropped) : dropped[i] # "eject_request"
                         THEN Session!NotedChanged(tracker) ELSE tracker
          IN \E r \in Session!RequestSense(noted,
                     [medium EXCEPT !.events = SubSeq(medium.events, Len(medium.events) - left + 1,
                                                      Len(medium.events))]) :
               Session!Effect([r EXCEPT !.tracker.event = "none"])
    BY DEF Session!BeginSession
  <1> DEFINE front == SubSeq(medium.events, 1, Len(medium.events) - left)
             rest == SubSeq(medium.events, Len(medium.events) - left + 1, Len(medium.events))
             u == IF \E i \in 1 .. Len(front) : front[i] # "eject_request"
                    THEN Session!NotedChanged(tracker) ELSE tracker
             d == [medium EXCEPT !.events = rest]
  <1>4. medium.events \in Seq(Session!DriveEvents) /\ tracker \in Counting /\ medium \in Session!Drives
    BY TrackerCounts DEF LiveInv, Session!Drives
  <1>5. /\ Len(medium.events) \in Nat /\ Len(rest) = left /\ rest \in Seq(Session!DriveEvents)
        /\ Len(front) = Len(medium.events) - left
    <2>1. PICK n \in Nat : n = Len(medium.events)
      BY <1>4, LenProperties
    <2>2. \A i \in 1 .. n : medium.events[i] \in Session!DriveEvents
      BY <1>4, <2>1, ElementOfSeq
    <2>3. left \in 0 .. n
      BY <2>1
    <2>4. \A i \in n - left + 1 .. n : medium.events[i] \in Session!DriveEvents
      BY <2>2, <2>3
    <2>5. \A i \in 1 .. n - left : medium.events[i] \in Session!DriveEvents
      BY <2>2, <2>3
    <2>6. /\ SubSeq(medium.events, n - left + 1, n) \in Seq(Session!DriveEvents)
          /\ Len(SubSeq(medium.events, n - left + 1, n)) = IF n - left + 1 <= n THEN n - (n - left + 1) + 1 ELSE 0
      BY <2>3, <2>4, SubSeqProperties
    <2>7. Len(SubSeq(medium.events, 1, n - left)) = IF 1 <= n - left THEN (n - left) - 1 + 1 ELSE 0
      BY <2>3, <2>5, SubSeqProperties
    <2> QED BY <2>1, <2>3, <2>6, <2>7
  <1>6. Tells(tracker, medium, u, d)
    <2>1. u = tracker \/ (u = Session!NotedChanged(tracker) /\ Len(front) >= 1)
      BY <1>5
    <2>2. left <= Len(medium.events) /\ left \in Nat
      BY <1>5
    <2> HIDE DEF u, rest, front
    <2> QED BY <1>4, <1>5, <2>1, <2>2, DroppingTells
  <1>7. u \in Counting /\ d \in Session!Drives
    BY <1>6 DEF Tells, Advances
  <1>8. PICK r \in Session!RequestSense(u, d) : Session!Effect([r EXCEPT !.tracker.event = "none"])
    BY <1>3
  <1> HIDE DEF u, d, front, rest
  <1>9. Tells(u, d, r.tracker, r.drive)
    BY <1>7, <1>8, PollTells
  <1>10. r.tracker \in Counting /\ r.drive \in Session!Drives
    BY <1>9 DEF Tells, Advances
  <1>11. Tells(tracker, medium, r.tracker, r.drive)
    BY <1>4, <1>6, <1>7, <1>9, <1>10, TellsAgain
  <1>12. tracker' = [r.tracker EXCEPT !.event = "none"] /\ medium' = r.drive
    <2>1. PICK v, e : r = [tracker |-> v, drive |-> e]
      BY <1>8 DEF Session!RequestSense, Session!Result
    <2>2. [r EXCEPT !.tracker.event = "none"] = [tracker |-> [v EXCEPT !.event = "none"], drive |-> e]
      BY <2>1
    <2> QED BY <1>8, <2>1, <2>2 DEF Session!Effect
  <1>13. Tells(tracker, medium, tracker', medium')
    <2>1. /\ tracker' \in Counting /\ tracker'.generation = r.tracker.generation
          /\ Session!IsLatched(tracker') = Session!IsLatched(r.tracker)
      BY <1>10, <1>12 DEF Counting, Session!IsLatched
    <2>2. Counted(tracker', medium') = Counted(r.tracker, r.drive)
      BY <1>12, <2>1 DEF Counted
    <2> QED BY <1>11, <1>12, <2>1, <2>2 DEF Tells, Advances
  <1>14. CommandNoted(tracker)
    <2>1. Carried' = 0
      BY <1>1 DEF Carried, Captures, One
    <2> QED BY <1>1, <1>13, <2>1, NothingCarried DEF CommandNoted
  <1>15. /\ tracker' \in Session!Trackers /\ medium' \in Session!Drives
         /\ GenerationIsCounted' /\ BaseIsOfDisc' /\ OtherIsReported'
    BY <1>1, <1>2, <1>14, CommandKeeps
  <1>16. Session!TypeOK'
    BY <1>1, <1>2, <1>15 DEF LiveInv, Session!TypeOK
  <1>17. ReadIsInTurn'
    BY <1>1, <1>2 DEF LiveInv, ReadIsInTurn, Session!ReaderHolds, Session!ObserverHolds, Session!InSource
  <1>18. GateHasBase' /\ OtherIsJudged' /\ OtherIsNotExpected'
    BY <1>1, <1>2 DEF LiveInv, GateHasBase, OtherIsJudged, OtherIsNotExpected, Sure
  <1> QED BY <1>15, <1>16, <1>17, <1>18 DEF LiveInv

\* The base is of the disc that was found ready, or the session is blind.
LEMMA BaselineKeeps ==
  ASSUME LiveInv, Session!Baseline
  PROVE  LiveInv'
  <1>1. /\ observer.pc = "baseline" /\ observer' = [observer EXCEPT !.pc = "idle"]
        /\ UNCHANGED <<reader, watch>> /\ ~HasBase
        /\ reader.pc = "idle" /\ reader.got = 0 /\ observer.disc = 0
        /\ observer \in Session!Observers /\ noticed \in Session!Histories
    BY DEF Session!Baseline, HasBase, LiveInv, ReadIsInTurn, Session!TypeOK
  <1>2. /\ observer' \in Session!Observers /\ observer'.pc = "idle" /\ observer'.disc = 0
        /\ HasBase'
    BY <1>1 DEF Session!Observers, HasBase
  <1>3. PICK polled \in Session!Poll(tracker, medium) :
          \E r \in Session!Readied(polled.tracker, polled.drive) :
            /\ Session!Effect(r.result)
            /\ gate' = [invalid |-> Session!IsInvalidating(Session!Observation(r)),
                        known |-> /\ Session!Observation(r).readiness = "present"
                                  /\ ~Session!IsInvalidating(Session!Observation(r)),
                        generation |-> Session!Observation(r).generation]
            /\ noticed' = [noticed EXCEPT !.base = Session!Observation(r).generation,
                                          !.blind = noticed.blind \/ r.readiness # "present"]
    BY DEF Session!Baseline
  <1>4. PICK r \in Session!Readied(polled.tracker, polled.drive) :
            /\ Session!Effect(r.result)
            /\ gate' = [invalid |-> Session!IsInvalidating(Session!Observation(r)),
                        known |-> /\ Session!Observation(r).readiness = "present"
                                  /\ ~Session!IsInvalidating(Session!Observation(r)),
                        generation |-> Session!Observation(r).generation]
            /\ noticed' = [noticed EXCEPT !.base = Session!Observation(r).generation,
                                          !.blind = noticed.blind \/ r.readiness # "present"]
    BY <1>3
  <1>5. tracker' = r.result.tracker /\ medium' = r.result.drive
    BY <1>4 DEF Session!Effect
  <1>6. /\ tracker \in Counting /\ medium \in Session!Drives
        /\ Tells(tracker, medium, polled.tracker, polled.drive)
        /\ polled.tracker \in Counting /\ polled.drive \in Session!Drives
    BY TrackerCounts, PollTells DEF LiveInv, Tells, Advances
  <1>7. /\ tracker' \in Counting /\ medium' \in Session!Drives
        /\ SameDisc(medium, medium')
        /\ Counted(tracker', medium') <= Counted(polled.tracker, polled.drive)
        /\ r.readiness \in {"present", "absent", "unknown"}
        /\ r.readiness = "present" => ~Session!IsLatched(tracker')
    BY <1>4, <1>5, <1>6, ReadiedCounts DEF Tells, SameDisc
  <1>8. GenerationIsCounted' /\ tracker' \in Session!Trackers
    <2>1. Carried = 0 /\ Carried' = 0
      BY <1>1 DEF Carried, Captures, One
    <2>2. /\ Counted(tracker, medium) \in Nat /\ Counted(polled.tracker, polled.drive) \in Nat
          /\ Counted(tracker', medium') \in Nat
          /\ Counted(polled.tracker, polled.drive) <= Counted(tracker, medium)
      BY <1>6, <1>7, CountedIsNatural DEF Tells
    <2>3. Counted(tracker', medium') + Carried' <= Counted(tracker, medium) + Carried
      BY <1>7, <2>1, <2>2
    <2> QED BY <1>7, <2>3, CountStays
  <1> DEFINE o == Session!Observation(r)
  <1>9. /\ o \in Session!Observations /\ o.generation = tracker'.generation
        /\ o.readiness = r.readiness
    <2>1. o \in Session!Observations
      BY <1>5, <1>7, <1>8, ObservationIsTyped
    <2> QED BY <1>5, <2>1 DEF Session!Observation
  <1> HIDE DEF o
  <1>10. /\ gate' \in Session!Gates
         /\ ~gate'.invalid => gate'.known \/ o.readiness # "present"
         /\ gate'.generation = o.generation
    <2>1. Session!IsInvalidating(o) \in BOOLEAN
      BY DEF Session!IsInvalidating
    <2> QED BY <1>4, <1>9, <2>1 DEF o, Session!Gates, Session!Observations
  <1>11. /\ noticed' \in Session!Histories /\ noticed'.base = o.generation
         /\ noticed'.blind <=> (noticed.blind \/ r.readiness # "present")
    BY <1>1, <1>4, <1>9 DEF o, Session!Histories, Session!Observations
  <1>12. Session!TypeOK'
    BY <1>1, <1>2, <1>7, <1>8, <1>10, <1>11 DEF LiveInv, Session!TypeOK
  <1>13. ReadIsInTurn'
    BY <1>1, <1>2 DEF LiveInv, ReadIsInTurn, Session!ReaderHolds, Session!ObserverHolds, Session!InSource
  <1>14. BaseIsOfDisc'
    <2>1. tracker'.generation \in Nat
      BY <1>7 DEF Counting
    <2> QED BY <1>2, <1>7, <1>9, <1>11, <2>1 DEF BaseIsOfDisc
  <1>15. OtherIsReported'
    BY <1>1, <1>7, <1>11 DEF OtherIsReported, LiveInv, BaseIsOfDisc, Sure, SameDisc
  <1>16. GateHasBase'
    BY <1>9, <1>10, <1>11 DEF GateHasBase
  <1>17. OtherIsJudged' /\ OtherIsNotExpected'
    BY <1>1, <1>2 DEF OtherIsJudged, OtherIsNotExpected, IsOther
  <1> QED BY <1>8, <1>12, <1>13, <1>14, <1>15, <1>16, <1>17 DEF LiveInv

\* A poll of the observer.
LEMMA ObserveKeeps ==
  ASSUME LiveInv, Session!Observe
  PROVE  LiveInv'
  <1>1. /\ observer.pc = "idle" /\ observer' = [observer EXCEPT !.pc = "ready"]
        /\ UNCHANGED <<gate, reader, watch, noticed>> /\ ~Session!ReaderHolds
        /\ observer \in Session!Observers
    BY DEF Session!Observe, LiveInv, Session!TypeOK
  <1>2. observer' \in Session!Observers /\ observer'.pc = "ready" /\ HasBase /\ HasBase'
    BY <1>1 DEF Session!Observers, HasBase
  <1>3. PICK r \in Session!Poll(tracker, medium) : Session!Effect(r)
    BY DEF Session!Observe
  <1>4. tracker \in Counting /\ medium \in Session!Drives /\ reader.pc # "capture"
    BY <1>1, TrackerCounts DEF LiveInv, Session!ReaderHolds, Session!InSource
  <1>5. Tells(tracker, medium, tracker', medium')
    BY <1>3, <1>4, PollTells DEF Session!Effect
  <1>6. CommandNoted(tracker)
    <2>1. Carried' = 0
      BY <1>1, <1>4 DEF Carried, Captures, One
    <2> QED BY <1>4, <1>5, <2>1, NothingCarried DEF CommandNoted
  <1>7. /\ tracker' \in Session!Trackers /\ medium' \in Session!Drives
        /\ GenerationIsCounted' /\ BaseIsOfDisc' /\ OtherIsReported'
    BY <1>1, <1>2, <1>6, CommandKeeps
  <1>8. Session!TypeOK'
    BY <1>1, <1>2, <1>7 DEF LiveInv, Session!TypeOK
  <1>9. ReadIsInTurn'
    BY <1>1, <1>2 DEF LiveInv, ReadIsInTurn, Session!ReaderHolds, Session!ObserverHolds
  <1>10. GateHasBase' /\ OtherIsJudged' /\ OtherIsNotExpected'
    BY <1>1, <1>2 DEF LiveInv, GateHasBase, OtherIsJudged, OtherIsNotExpected, Sure
  <1> QED BY <1>7, <1>8, <1>9, <1>10 DEF LiveInv

\* TEST UNIT READY of the observer: another disc that is ready is counted.
LEMMA TestReadyKeeps ==
  ASSUME LiveInv, Session!TestReady
  PROVE  LiveInv'
  <1>1. /\ observer.pc = "ready" /\ UNCHANGED <<gate, reader, watch, noticed>>
        /\ ~Session!ReaderHolds /\ observer \in Session!Observers /\ HasBase
    BY DEF Session!TestReady, LiveInv, Session!TypeOK, ReadIsInTurn, Session!ObserverHolds, HasBase
  <1>2. PICK r \in Session!Readied(tracker, medium) :
          /\ Session!Effect(r.result)
          /\ observer' = [pc |-> "apply", seen |-> Session!Observation(r),
                          disc |-> IF r.readiness = "present" THEN medium.disc ELSE 0]
    BY DEF Session!TestReady
  <1>3. tracker' = r.result.tracker /\ medium' = r.result.drive
    BY <1>2 DEF Session!Effect
  <1>4. /\ tracker \in Counting /\ medium \in Session!Drives /\ reader.pc # "capture"
        /\ Carried = 0 /\ Carried' = 0 /\ ~Captures("changed")
    BY <1>1, TrackerCounts DEF LiveInv, Session!ReaderHolds, Session!InSource, Carried, Captures, One
  <1>5. /\ tracker' \in Counting /\ medium' \in Session!Drives
        /\ SameDisc(medium, medium')
        /\ Counted(tracker', medium') <= Counted(tracker, medium)
        /\ r.readiness \in {"present", "absent", "unknown"}
        /\ r.readiness # "present" => Tells(tracker, medium, tracker', medium')
        /\ r.readiness = "present" =>
             /\ ~medium.attention /\ medium' = medium
             /\ ~Session!IsLatched(tracker') /\ tracker'.generation = tracker.generation
    BY <1>2, <1>3, <1>4, ReadiedCounts
  <1>6. GenerationIsCounted' /\ tracker' \in Session!Trackers
    <2>1. Counted(tracker', medium') + Carried' <= Counted(tracker, medium) + Carried
      BY <1>4, <1>5, CountedIsNatural
    <2> QED BY <1>5, <2>1, CountStays
  <1> DEFINE o == Session!Observation(r)
  <1>7. /\ o \in Session!Observations /\ o.generation = tracker'.generation
        /\ o.readiness = r.readiness
    <2>1. o \in Session!Observations
      BY <1>3, <1>5, <1>6, ObservationIsTyped
    <2> QED BY <1>3, <2>1 DEF Session!Observation
  <1>8. /\ observer'.pc = "apply" /\ observer'.seen = o
        /\ observer'.disc = IF r.readiness = "present" THEN medium.disc ELSE 0
    BY <1>2
  <1>9. observer' \in Session!Observers /\ HasBase'
    <2>1. medium.disc \in Session!Discs /\ 0 \in Session!Discs
      BY <1>4, SessionIsBounded DEF Session!Drives, Session!Discs, Session!LiveAssumption
    <2> QED BY <1>2, <1>7, <2>1 DEF Session!Observers, HasBase
  <1> HIDE DEF o
  <1>10. Session!TypeOK'
    BY <1>1, <1>5, <1>6, <1>9 DEF LiveInv, Session!TypeOK
  <1>11. ReadIsInTurn'
    BY <1>1, <1>8, <1>9 DEF LiveInv, ReadIsInTurn, Session!ReaderHolds, Session!ObserverHolds
  <1>12. BaseIsOfDisc' /\ OtherIsReported'
    <2>1. CASE r.readiness = "present"
      BY <1>1, <1>4, <1>5, <1>9, <2>1
      DEF LiveInv, BaseIsOfDisc, OtherIsReported, Sure, SameDisc
    <2>2. CASE r.readiness # "present"
      <3>1. CommandNoted(tracker)
        BY <1>4, <1>5, <2>2, NothingCarried DEF CommandNoted
      <3> QED BY <1>1, <1>9, <3>1, CommandKeeps
    <2> QED BY <2>1, <2>2
  <1>13. OtherIsJudged'
    <2> SUFFICES ASSUME Sure', IsOther(observer'.disc)
                 PROVE  o.readiness = "present" /\ o.generation # noticed.base
      BY <1>1, <1>8 DEF OtherIsJudged
    <2>1. r.readiness = "present" /\ IsOther(medium.disc)
      BY <1>8 DEF IsOther
    <2>2. tracker.generation > noticed.base
      BY <1>1, <1>4, <1>5, <2>1 DEF LiveInv, OtherIsReported, Sure
    <2>3. tracker.generation \in Nat /\ noticed.base \in Nat
      BY <1>4, SessionIsBounded, GenerationsAreNatural
      DEF LiveInv, Session!TypeOK, Counting, Session!Histories, Session!LiveAssumption, Session!GenerationAssumption
    <2> QED BY <1>5, <1>7, <2>1, <2>2, <2>3
  <1>14. GateHasBase' /\ OtherIsNotExpected'
    BY <1>1, <1>9 DEF LiveInv, GateHasBase, OtherIsNotExpected, Sure
  <1> QED BY <1>6, <1>10, <1>11, <1>12, <1>13, <1>14 DEF LiveInv

\* The watch stays typed.
LEMMA WatchObservedIsTyped ==
  ASSUME NEW w \in Session!Watches, NEW o \in Session!Observations
  PROVE  Session!WatchObserved(w, o) \in Session!Watches
  <1>1. \A e \in Session!WatchEvents : Session!Latched(w, e) \in Session!Watches
    BY DEF Session!Latched, Session!Watches
  <1>2. PICK b : b = Session!BasedOn(w, o)
    OBVIOUS
  <1>3. b \in Session!Watches /\ b.event = w.event /\ b.faults = w.faults /\ b.sessionFault = w.sessionFault
    BY <1>2 DEF Session!BasedOn, Session!Watches, Session!Observations
  <1>4. Session!Latched(b, "session_fault") \in Session!Watches
    BY <1>3 DEF Session!Latched, Session!Watches, Session!WatchEvents
  <1>5. PICK n : n = IF b.sessionFault THEN b.faults + 1 ELSE 0
    OBVIOUS
  <1>6. PICK c : c = [b EXCEPT !.faults = n]
    OBVIOUS
  <1>7. Session!CountedFault(b) = c
    BY <1>5, <1>6 DEF Session!CountedFault
  <1>8. ASSUME w.event = "none", ~Session!FaultConfirmed(w, o)
        PROVE  Session!CountedPresence(c, o) \in Session!Watches
    <2>1. n \in 0 .. FaultConfirmations
      <3>1. b.faults \in 0 .. FaultConfirmations /\ b.sessionFault \in BOOLEAN
        BY <1>3 DEF Session!Watches
      <3>2. b.sessionFault => ~(b.faults + 1 >= FaultConfirmations)
        BY <1>3, <1>8 DEF Session!FaultConfirmed
      <3> QED BY <1>5, <3>1, <3>2, ConfirmationsAreCounted
    <2>2. c \in Session!Watches
      BY <1>3, <1>6, <2>1 DEF Session!Watches
    <2>3. CASE o.readiness = "present"
      <3>1. 0 \in 0 .. AbsentConfirmations
        BY ConfirmationsAreCounted
      <3> QED BY <2>2, <2>3, <3>1 DEF Session!CountedPresence, Session!Watches
    <2>4. CASE o.readiness = "absent" /\ c.absent + 1 >= AbsentConfirmations
      <3>1. AbsentConfirmations \in 0 .. AbsentConfirmations
        BY ConfirmationsAreCounted
      <3>2. Session!CountedPresence(c, o) = [c EXCEPT !.absent = AbsentConfirmations, !.event = "changed"]
        BY <2>4 DEF Session!CountedPresence
      <3> QED BY <2>2, <3>1, <3>2 DEF Session!Watches, Session!WatchEvents
    <2>5. CASE o.readiness = "absent" /\ ~(c.absent + 1 >= AbsentConfirmations)
      <3>1. c.absent + 1 \in 0 .. AbsentConfirmations
        BY <2>2, <2>5, ConfirmationsAreCounted DEF Session!Watches
      <3>2. PICK k : k = c.absent + 1
        OBVIOUS
      <3>3. Session!CountedPresence(c, o) = [c EXCEPT !.absent = k]
        BY <2>5, <3>2 DEF Session!CountedPresence
      <3> QED BY <2>2, <3>1, <3>2, <3>3 DEF Session!Watches
    <2>6. CASE o.readiness = "unknown"
      BY <2>2, <2>6 DEF Session!CountedPresence
    <2> QED BY <2>3, <2>4, <2>5, <2>6 DEF Session!Observations, Session!Readiness
  <1> QED BY <1>1, <1>2, <1>4, <1>7, <1>8 DEF Session!WatchObserved, Session!WatchEvents

\* The verdict, and the watch.
LEMMA JudgingKeeps ==
  ASSUME LiveInv, Session!Apply \/ Session!Watch
  PROVE  LiveInv'
  <1>1. /\ UNCHANGED <<medium, tracker, reader, noticed>> /\ observer \in Session!Observers
        /\ gate \in Session!Gates /\ watch \in Session!Watches
        /\ HasBase /\ ~Session!ObserverHolds
    BY DEF Session!Apply, Session!Watch, LiveInv, Session!TypeOK, HasBase, Session!ObserverHolds
  <1>2. /\ observer' \in Session!Observers /\ observer'.disc = observer.disc
        /\ observer'.pc \in {"watch", "idle"} /\ HasBase' /\ ~Session!ObserverHolds'
    <2>1. CASE Session!Apply
      BY <1>1, <2>1 DEF Session!Apply, Session!Observers, HasBase, Session!ObserverHolds
    <2>2. CASE Session!Watch
      <3>1. Session!Blank \in Session!Observations
        BY SessionIsBounded, GenerationsAreNatural
        DEF Session!Blank, Session!Observations, Session!MediaEvents, Session!Readiness,
            Session!LiveAssumption, Session!GenerationAssumption
      <3> QED BY <1>1, <2>2, <3>1 DEF Session!Watch, Session!Observers, HasBase, Session!ObserverHolds
    <2> QED BY <2>1, <2>2
  <1>3. /\ gate' \in Session!Gates /\ watch' \in Session!Watches
        /\ GateHasBase' /\ OtherIsJudged'
    <2>1. CASE Session!Apply
      <3> DEFINE o == observer.seen
      <3>1. o \in Session!Observations /\ watch' = watch /\ observer.pc = "apply"
        BY <1>1, <2>1 DEF Session!Apply, Session!Observers
      <3>2. PICK i \in BOOLEAN : i = \/ gate.invalid
                                     \/ Session!IsInvalidating(o)
                                     \/ /\ o.readiness = "present" /\ gate.known
                                        /\ gate.generation # o.generation
        OBVIOUS
      <3>3. PICK k \in BOOLEAN : k = (gate.known \/ o.readiness = "present")
        OBVIOUS
      <3>4. PICK g \in Generations :
              g = IF o.readiness = "present" THEN o.generation ELSE gate.generation
        BY <1>1, <3>1 DEF Session!Gates, Session!Observations
      <3>5. gate' = [invalid |-> i, known |-> k, generation |-> g]
        BY <2>1, <3>2, <3>3, <3>4 DEF Session!Apply, Session!GateObserved
      <3>6. gate' \in Session!Gates /\ gate'.invalid = i /\ gate'.known = k /\ gate'.generation = g
        BY <3>5 DEF Session!Gates
      <3>7. GateHasBase'
        BY <1>1, <3>2, <3>3, <3>4, <3>6 DEF LiveInv, GateHasBase
      <3>8. OtherIsJudged'
        BY <1>1, <1>2, <3>1, <3>2, <3>6 DEF LiveInv, GateHasBase, OtherIsJudged, Sure
      <3> QED BY <1>1, <3>1, <3>6, <3>7, <3>8
    <2>2. CASE Session!Watch
      <3>1. gate' = gate /\ watch' \in Session!Watches /\ observer.pc = "watch"
        BY <1>1, <2>2, WatchObservedIsTyped DEF Session!Watch, Session!Observers
      <3> QED BY <1>1, <1>2, <3>1 DEF LiveInv, GateHasBase, OtherIsJudged, Sure
    <2> QED BY <2>1, <2>2
  <1>4. Session!TypeOK'
    BY <1>1, <1>2, <1>3 DEF LiveInv, Session!TypeOK
  <1>5. GenerationIsCounted' /\ OtherIsNotExpected'
    BY <1>1 DEF LiveInv, GenerationIsCounted, OtherIsNotExpected, Sure, Carried, Captures
  <1>6. ReadIsInTurn' /\ BaseIsOfDisc' /\ OtherIsReported'
    BY <1>1, <1>2 DEF LiveInv, ReadIsInTurn, BaseIsOfDisc, OtherIsReported, Sure, Captures,
       Session!ReaderHolds
  <1> QED BY <1>3, <1>4, <1>5, <1>6 DEF LiveInv

-----------------------------------------------------------------------------
(* The session: the world, and the theorem.                                *)

\* What is queued may grow the queue by one.
LEMMA QueuedIsTyped ==
  ASSUME medium \in Session!Drives, NEW event \in Session!DriveEvents, NEW q \in Session!Queued(event)
  PROVE  q \in Seq(Session!DriveEvents) /\ Len(q) \in Nat /\ Len(medium.events) \in Nat
         /\ Len(q) <= Len(medium.events) + 1
  <1>1. medium.events \in Seq(Session!DriveEvents)
    BY DEF Session!Drives
  <1>2. Len(medium.events) \in Nat
    BY <1>1, LenProperties
  <1>3. CASE q = medium.events
    BY <1>1, <1>2, <1>3
  <1>4. CASE q = Append(medium.events, event)
    BY <1>1, <1>2, <1>4, AppendProperties
  <1> QED BY <1>3, <1>4 DEF Session!Queued

\* A change of the disc or the queue, paid for by what the bound allows.
LEMMA WorldKeeps ==
  ASSUME LiveInv, UNCHANGED <<tracker, gate, reader, observer, watch>>,
         noticed' \in Session!Histories, noticed'.base = noticed.base, noticed'.lost = noticed.lost,
         noticed.blind => noticed'.blind,
         medium' \in Session!Drives, GenerationIsCounted',
         ~HasBase /\ ~noticed'.blind => ~IsOther(medium'.disc),
         HasBase /\ IsOther(medium'.disc) =>
            medium'.attention \/ (medium'.disc = medium.disc /\ medium'.attention = medium.attention)
  PROVE  LiveInv'
  <1>1. Session!TypeOK'
    BY DEF LiveInv, Session!TypeOK
  <1>2. ReadIsInTurn' /\ BaseIsOfDisc' /\ OtherIsReported'
    BY DEF LiveInv, ReadIsInTurn, BaseIsOfDisc, OtherIsReported, HasBase, Sure, Captures,
       Session!ReaderHolds, Session!ObserverHolds
  <1>3. GateHasBase' /\ OtherIsJudged' /\ OtherIsNotExpected'
    BY DEF LiveInv, GateHasBase, OtherIsJudged, OtherIsNotExpected, HasBase, Sure
  <1> QED BY <1>1, <1>2, <1>3 DEF LiveInv

\* The parts of the count.
LEMMA CountParts ==
  ASSUME LiveInv, medium' \in Session!Drives, tracker' = tracker, reader' = reader
  PROVE  \E n \in Nat, l \in Nat, m \in Nat : \E x \in 0 .. 1, y \in 0 .. 1 :
           /\ l = Len(medium.events) /\ m = Len(medium'.events)
           /\ Counted(tracker, medium) + Carried = n + l + One(medium.attention) + x
           /\ Counted(tracker', medium') + Carried' = n + m + One(medium'.attention) + y
           /\ medium.disc = 0 => y <= x
           /\ medium'.disc = medium.disc => y = x
  <1> DEFINE late(d) == One(~Session!IsLatched(tracker) /\ d.disc = 0)
             held(d) == One(Captures("no_medium") /\ ~Session!IsLatched(tracker) /\ d.disc # 0)
  <1>1. PICK g \in Nat : g = tracker.generation
    BY TrackerCounts DEF LiveInv, Counting
  <1>2. PICK c \in Nat, a \in Nat, b \in Nat :
          c = One(Captures("changed")) /\ a = One(medium.attention) /\ b = One(medium'.attention)
    BY DEF One
  <1>3. PICK w \in Nat, h \in Nat, v \in Nat, k \in Nat :
          /\ w = late(medium) /\ h = held(medium) /\ v = late(medium') /\ k = held(medium')
          /\ w + h \in 0 .. 1 /\ v + k \in 0 .. 1 /\ (medium.disc = 0 => v + k <= w + h)
          /\ medium'.disc = medium.disc => v + k = w + h
    BY DEF One
  <1>4. PICK l \in Nat, m \in Nat : l = Len(medium.events) /\ m = Len(medium'.events)
    <2>1. medium.events \in Seq(Session!DriveEvents) /\ medium'.events \in Seq(Session!DriveEvents)
      BY TrackerCounts DEF LiveInv, Session!Drives
    <2> QED BY <2>1, LenProperties
  <1>5. Counted(tracker, medium) = g + l + a + w /\ Carried = c + h
    BY <1>1, <1>2, <1>3, <1>4 DEF Counted, Carried
  <1>6. Counted(tracker', medium') = g + m + b + v /\ Carried' = c + k
    <2>1. Captures("changed")' = Captures("changed") /\ Captures("no_medium")' = Captures("no_medium")
      BY DEF Captures
    <2> QED BY <1>1, <1>2, <1>3, <1>4, <2>1 DEF Counted, Carried
  <1>7. /\ Counted(tracker, medium) + Carried = (g + c) + l + a + (w + h)
        /\ Counted(tracker', medium') + Carried' = (g + c) + m + b + (v + k)
    <2>1. /\ g + l + a + w + (c + h) = (g + c) + l + a + (w + h)
          /\ g + m + b + v + (c + k) = (g + c) + m + b + (v + k)
      OBVIOUS
    <2> QED BY <1>5, <1>6, <2>1
  <1>8. PICK n \in Nat, x \in 0 .. 1, y \in 0 .. 1 : n = g + c /\ x = w + h /\ y = v + k
    <2>1. g + c \in Nat /\ w + h \in 0 .. 1 /\ v + k \in 0 .. 1
      BY <1>3
    <2> QED BY <2>1, Zenon
  <1>9. /\ Counted(tracker, medium) + Carried = n + l + One(medium.attention) + x
        /\ Counted(tracker', medium') + Carried' = n + m + One(medium'.attention) + y
    BY <1>2, <1>7, <1>8
  <1>10. (medium.disc = 0 => y <= x) /\ (medium'.disc = medium.disc => y = x)
    BY <1>3, <1>8
  <1> WITNESS n \in Nat, l \in Nat, m \in Nat
  <1> WITNESS x \in 0 .. 1, y \in 0 .. 1
  <1> QED BY <1>4, <1>9, <1>10

\* What the bound allows for a removal, an insertion and a request.
Allowed(d) == 2 + 4 * d.inserted + 2 * One(d.disc = 0) + d.pressed

LEMMA WorldCounts ==
  ASSUME LiveInv, medium' \in Session!Drives, tracker' = tracker, reader' = reader,
         Len(medium'.events) <= Len(medium.events) + 1,
         \/ /\ medium.disc # 0 /\ medium'.disc = 0 /\ ~medium'.attention
            /\ medium'.inserted = medium.inserted /\ medium'.pressed = medium.pressed
         \/ /\ medium.disc = 0 /\ medium'.disc # 0
            /\ medium'.inserted = medium.inserted + 1 /\ medium'.pressed = medium.pressed
         \/ /\ medium'.disc = medium.disc /\ medium'.attention = medium.attention
            /\ medium'.inserted = medium.inserted /\ medium'.pressed = medium.pressed + 1,
         medium'.disc = 0 => medium'.inserted < MaxInsertions
  PROVE  GenerationIsCounted'
  <1>1. PICK n \in Nat, l \in Nat, m \in Nat : \E x \in 0 .. 1, y \in 0 .. 1 :
          /\ l = Len(medium.events) /\ m = Len(medium'.events)
          /\ Counted(tracker, medium) + Carried = n + l + One(medium.attention) + x
          /\ Counted(tracker', medium') + Carried' = n + m + One(medium'.attention) + y
          /\ medium.disc = 0 => y <= x
          /\ medium'.disc = medium.disc => y = x
    BY CountParts
  <1>2. PICK x \in 0 .. 1, y \in 0 .. 1 :
          /\ l = Len(medium.events) /\ m = Len(medium'.events)
          /\ Counted(tracker, medium) + Carried = n + l + One(medium.attention) + x
          /\ Counted(tracker', medium') + Carried' = n + m + One(medium'.attention) + y
          /\ medium.disc = 0 => y <= x
          /\ medium'.disc = medium.disc => y = x
    BY <1>1
  <1>3. PICK a \in 0 .. 1, b \in 0 .. 1 : a = One(medium.attention) /\ b = One(medium'.attention)
    BY DEF One
  <1>4. PICK i \in Nat, p \in Nat : i = medium.inserted /\ p = medium.pressed
    BY TrackerCounts, SessionIsBounded DEF LiveInv, Session!Drives, Session!LiveAssumption
  <1>5. n + l + a + x <= Allowed(medium)
    BY <1>2, <1>3 DEF LiveInv, GenerationIsCounted, Allowed
  <1>6. m <= l + 1
    BY <1>2
  <1>7. n + m + b + y <= Allowed(medium')
    <2>1. CASE /\ medium.disc # 0 /\ medium'.disc = 0 /\ ~medium'.attention
               /\ medium'.inserted = medium.inserted /\ medium'.pressed = medium.pressed
      <3>1. One(medium.disc = 0) = 0 /\ One(medium'.disc = 0) = 1 /\ b = 0
        BY <1>3, <2>1 DEF One
      <3>2. Allowed(medium) = 2 + 4 * i + p /\ Allowed(medium') = 2 + 4 * i + 2 + p
        BY <1>4, <2>1, <3>1 DEF Allowed
      <3> QED BY <1>5, <1>6, <3>1, <3>2
    <2>2. CASE /\ medium.disc = 0 /\ medium'.disc # 0
               /\ medium'.inserted = medium.inserted + 1 /\ medium'.pressed = medium.pressed
      <3>1. Allowed(medium) = 2 + 4 * i + 2 + p /\ Allowed(medium') = 2 + 4 * i + 4 + p
        BY <1>4, <2>2 DEF Allowed, One
      <3>2. y <= x
        BY <1>2, <2>2
      <3> QED BY <1>5, <1>6, <3>1, <3>2
    <2>3. CASE /\ medium'.disc = medium.disc /\ medium'.attention = medium.attention
               /\ medium'.inserted = medium.inserted /\ medium'.pressed = medium.pressed + 1
      <3>1. PICK z \in 0 .. 2 : z = 2 * One(medium.disc = 0)
        BY DEF One
      <3>2. Allowed(medium) = 2 + 4 * i + z + p /\ Allowed(medium') = 2 + 4 * i + z + (p + 1)
        BY <1>4, <2>3, <3>1 DEF Allowed
      <3>3. y = x /\ a = b
        BY <1>2, <1>3, <2>3
      <3> QED BY <1>5, <1>6, <3>2, <3>3
    <2> QED BY <2>1, <2>2, <2>3
  <1>8. Counted(tracker', medium') + Carried' <= Allowed(medium')
    BY <1>2, <1>3, <1>7
  <1> QED BY <1>8 DEF GenerationIsCounted, Allowed

\* The disc taken out, another put in, the button pressed.
LEMMA WorldActionKeeps ==
  ASSUME LiveInv, Session!World
  PROVE  LiveInv'
  <1>1. /\ medium \in Session!Drives /\ noticed \in Session!Histories
        /\ medium.events \in Seq(Session!DriveEvents) /\ Len(medium.events) \in Nat
        /\ medium.inserted \in 0 .. MaxInsertions /\ medium.pressed \in 0 .. MaxPresses
        /\ medium.attention \in BOOLEAN
    <2>1. medium \in Session!Drives /\ noticed \in Session!Histories
      BY DEF LiveInv, Session!TypeOK
    <2>2. medium.events \in Seq(Session!DriveEvents)
      BY <2>1 DEF Session!Drives
    <2> QED BY <2>1, <2>2, LenProperties DEF Session!Drives
  <1>2. UNCHANGED <<tracker, gate, reader, observer, watch>>
    <2>1. CASE Session!Remove
      BY <2>1, Zenon DEF Session!Remove
    <2>2. CASE Session!Insert
      BY <2>2, Zenon DEF Session!Insert
    <2>3. CASE Session!Press
      BY <2>3, Zenon DEF Session!Press
    <2> QED BY <2>1, <2>2, <2>3 DEF Session!World
  <1>3. CASE Session!Remove
    <2>1. PICK q \in Session!Queued("removal") :
            medium' = [medium EXCEPT !.disc = 0, !.attention = FALSE, !.events = q]
      BY <1>3, Zenon DEF Session!Remove
    <2>2. q \in Seq(Session!DriveEvents) /\ Len(q) <= Len(medium.events) + 1
      BY <1>1, QueuedIsTyped DEF Session!DriveEvents
    <2>3. /\ medium' \in Session!Drives /\ medium'.disc = 0 /\ ~medium'.attention
          /\ medium'.events = q
          /\ medium'.inserted = medium.inserted /\ medium'.pressed = medium.pressed
      <3>1. 0 \in Session!Discs
        BY SessionIsBounded DEF Session!Discs, Session!LiveAssumption
      <3> QED BY <1>1, <2>1, <2>2, <3>1 DEF Session!Drives
    <2>4. GenerationIsCounted'
      <3>1. medium.disc # 0 /\ medium'.inserted < MaxInsertions
        BY <1>3, <2>3 DEF Session!Remove
      <3> QED BY <1>2, <2>2, <2>3, <3>1, WorldCounts
    <2>5. noticed' = noticed /\ ~IsOther(medium'.disc)
      BY <1>3, <2>3 DEF Session!Remove, IsOther
    <2> QED BY <1>1, <1>2, <2>3, <2>4, <2>5, WorldKeeps
  <1>4. CASE Session!Insert
    <2>1. PICK q \in Session!Queued("new_media") :
            medium' = [medium EXCEPT !.disc = Session!SessionDisc + medium.inserted + 1,
                                     !.attention = TRUE, !.events = q, !.inserted = @ + 1]
      BY <1>4, Zenon DEF Session!Insert
    <2>2. q \in Seq(Session!DriveEvents) /\ Len(q) <= Len(medium.events) + 1
      BY <1>1, QueuedIsTyped DEF Session!DriveEvents
    <2>3. medium.disc = 0 /\ medium.inserted < MaxInsertions
      BY <1>4 DEF Session!Insert, LiveInv, GenerationIsCounted
    <2>4. PICK e \in 0 .. MaxInsertions + 1, i \in 0 .. MaxInsertions :
            e = medium.inserted + 2 /\ i = medium.inserted + 1
      BY <1>1, <2>3, SessionIsBounded DEF Session!LiveAssumption
    <2>5. medium' = [medium EXCEPT !.disc = e, !.attention = TRUE, !.events = q, !.inserted = i]
      <3>1. Session!SessionDisc + medium.inserted + 1 = e
        BY <1>1, <2>4 DEF Session!SessionDisc
      <3> QED BY <2>1, <2>4, <3>1
    <2>6. /\ medium' \in Session!Drives /\ medium'.disc = e /\ medium'.attention
          /\ medium'.events = q /\ medium'.inserted = i /\ medium'.pressed = medium.pressed
      BY <1>1, <2>2, <2>5 DEF Session!Drives, Session!Discs
    <2>7. e # 0
      BY <1>1, <2>4
    <2>8. GenerationIsCounted'
      BY <1>2, <2>2, <2>3, <2>4, <2>6, <2>7, WorldCounts
    <2>9. /\ noticed' \in Session!Histories /\ noticed'.base = noticed.base
          /\ noticed'.lost = noticed.lost /\ (noticed.blind => noticed'.blind)
          /\ ~HasBase => noticed'.blind
      <3>1. PICK b \in BOOLEAN : b = (noticed.blind \/ observer.pc \in {"begin", "baseline"})
        OBVIOUS
      <3>2. noticed' = [noticed EXCEPT !.blind = b]
        BY <1>4, <3>1 DEF Session!Insert
      <3> QED BY <1>1, <3>1, <3>2 DEF Session!Histories, HasBase
    <2> QED BY <1>2, <2>6, <2>8, <2>9, WorldKeeps
  <1>5. CASE Session!Press
    <2>1. medium' = [medium EXCEPT !.events = Append(@, "eject_request"), !.pressed = @ + 1]
      BY <1>5 DEF Session!Press
    <2>2. PICK q \in Seq(Session!DriveEvents) :
            q = Append(medium.events, "eject_request") /\ Len(q) = Len(medium.events) + 1
      <3>1. "eject_request" \in Session!DriveEvents
        BY DEF Session!DriveEvents
      <3>2. /\ Append(medium.events, "eject_request") \in Seq(Session!DriveEvents)
            /\ Len(Append(medium.events, "eject_request")) = Len(medium.events) + 1
        BY <1>1, <3>1, AppendProperties
      <3> QED BY <3>2, Zenon
    <2>3. PICK i \in 0 .. MaxPresses : i = medium.pressed + 1
      BY <1>1, <1>5, SessionIsBounded DEF Session!Press, Session!LiveAssumption
    <2>4. medium' = [medium EXCEPT !.events = q, !.pressed = i]
      BY <2>1, <2>2, <2>3
    <2>5. /\ medium' \in Session!Drives /\ medium'.disc = medium.disc
          /\ medium'.attention = medium.attention /\ medium'.events = q
          /\ medium'.inserted = medium.inserted /\ medium'.pressed = medium.pressed + 1
      BY <1>1, <2>2, <2>3, <2>4 DEF Session!Drives
    <2>6. GenerationIsCounted'
      <3>1. medium'.disc # 0
        BY <1>5, <2>5 DEF Session!Press
      <3>2. Len(medium'.events) <= Len(medium.events) + 1
        BY <1>1, <2>2, <2>5
      <3> QED BY <1>2, <2>5, <3>1, <3>2, WorldCounts
    <2>7. noticed' = noticed
      BY <1>5 DEF Session!Press
    <2>8. ~HasBase /\ ~noticed.blind => ~IsOther(medium.disc)
      BY DEF LiveInv, BaseIsOfDisc
    <2> QED BY <1>1, <1>2, <2>5, <2>6, <2>7, <2>8, WorldKeeps
  <1> QED BY <1>3, <1>4, <1>5 DEF Session!World

\* A session begins with at most two events to count.
LEMMA LiveInvInit ==
  ASSUME Session!Init
  PROVE  LiveInv
  <1>1. /\ medium \in [disc : {1}, attention : {FALSE}, inserted : {0}, pressed : {0},
                       events : {<<>>, <<"new_media">>, <<"eject_request">>,
                                 <<"new_media", "eject_request">>}]
        /\ tracker = Session!NewTracker /\ watch = Session!FreshWatch
        /\ gate = [invalid |-> FALSE, known |-> FALSE, generation |-> 0]
        /\ reader = Session!NotReading
        /\ observer = [pc |-> "begin", seen |-> Session!Blank, disc |-> 0]
        /\ noticed = [base |-> 0, blind |-> FALSE, lost |-> FALSE]
    BY DEF Session!Init, Session!SessionDisc
  <1>2. /\ MaxInsertions \in Nat /\ MaxPresses \in Nat /\ 0 \in Generations
        /\ 0 \in Session!Discs /\ 1 \in Session!Discs
        /\ Generations = 0 .. MaxGeneration
    BY SessionIsBounded, GenerationsAreNatural
    DEF Session!LiveAssumption, Session!GenerationAssumption, Session!Discs
  <1>3. medium.events \in Seq(Session!DriveEvents) /\ Len(medium.events) \in 0 .. 2
    <2>1. /\ <<>> \in Seq(Session!DriveEvents) /\ <<"new_media">> \in Seq(Session!DriveEvents)
          /\ <<"eject_request">> \in Seq(Session!DriveEvents)
          /\ <<"new_media", "eject_request">> \in Seq(Session!DriveEvents)
      BY DEF Session!DriveEvents
    <2>2. /\ Len(<<>>) = 0 /\ Len(<<"new_media">>) = 1 /\ Len(<<"eject_request">>) = 1
          /\ Len(<<"new_media", "eject_request">>) = 2
      OBVIOUS
    <2>3. medium.events \in {<<>>, <<"new_media">>, <<"eject_request">>,
                             <<"new_media", "eject_request">>}
      BY <1>1
    <2>4. medium.events \in Seq(Session!DriveEvents)
      BY <2>1, <2>3
    <2> QED BY <2>2, <2>3, <2>4
  <1>4. /\ medium \in Session!Drives /\ medium.disc = 1 /\ ~medium.attention
        /\ medium.inserted = 0 /\ medium.pressed = 0
    <2>1. PICK q \in Seq(Session!DriveEvents) : q = medium.events
      BY <1>3
    <2>2. medium = [disc |-> 1, attention |-> FALSE, inserted |-> 0, pressed |-> 0, events |-> q]
      BY <1>1, <2>1
    <2>3. 0 \in 0 .. MaxInsertions /\ 0 \in 0 .. MaxPresses
      BY <1>2
    <2> QED BY <1>2, <2>2, <2>3 DEF Session!Drives
  <1>5. tracker \in Session!Trackers /\ tracker.generation = 0 /\ ~Session!IsLatched(tracker)
    BY <1>1, <1>2 DEF Session!NewTracker, Session!Trackers, Session!IsLatched
  <1>6. /\ reader \in Session!Readers /\ reader.pc = "idle" /\ reader.got = 0
        /\ ~Session!ReaderHolds
    BY <1>1, NotReadingIsTyped DEF Session!NotReading, Session!ReaderHolds, Session!InSource
  <1>7. observer \in Session!Observers /\ observer.pc = "begin" /\ observer.disc = 0
    <2>1. Session!Blank \in Session!Observations
      BY <1>2 DEF Session!Blank, Session!Observations, Session!MediaEvents, Session!Readiness
    <2> QED BY <1>1, <1>2, <2>1 DEF Session!Observers
  <1>8. watch \in Session!Watches
    BY <1>1, <1>2, SessionIsBounded, GenerationsAreNatural, ConfirmationsAreCounted
    DEF Session!FreshWatch, Session!Watches, Session!WatchEvents
  <1>9. Session!TypeOK
    <2>1. gate \in Session!Gates /\ noticed \in Session!Histories
      BY <1>1, <1>2 DEF Session!Gates, Session!Histories
    <2> QED BY <1>4, <1>5, <1>6, <1>7, <1>8, <2>1 DEF Session!TypeOK
  <1>10. GenerationIsCounted
    <2>1. Counted(tracker, medium) = Len(medium.events) /\ Carried = 0
      <3>1. ~Captures("changed") /\ ~Captures("no_medium") /\ medium.disc # 0
        BY <1>4, <1>6 DEF Captures
      <3>2. Carried = 0
        BY <3>1 DEF Carried, One
      <3>3. Counted(tracker, medium) = Len(medium.events)
        BY <1>3, <1>4, <1>5 DEF Counted, One
      <3> QED BY <3>2, <3>3
    <2>2. PICK n \in 0 .. 2 : n = Len(medium.events)
      BY <1>3
    <2>3. Counted(tracker, medium) + Carried <= 2
      <3>1. Counted(tracker, medium) + Carried = n + 0
        BY <2>1, <2>2
      <3>2. n + 0 <= 2
        OBVIOUS
      <3> QED BY <3>1, <3>2
    <2>4. 2 + 4 * medium.inserted + 2 * One(medium.disc = 0) + medium.pressed = 2
      <3>1. One(medium.disc = 0) = 0
        BY <1>4 DEF One
      <3> QED BY <1>4, <3>1
    <2> QED BY <1>4, <2>3, <2>4 DEF GenerationIsCounted
  <1>11. ~HasBase /\ ~IsOther(medium.disc) /\ ~IsOther(reader.got)
    BY <1>4, <1>6, <1>7 DEF HasBase, IsOther, Session!SessionDisc
  <1> QED BY <1>6, <1>7, <1>9, <1>10, <1>11
      DEF LiveInv, ReadIsInTurn, BaseIsOfDisc, OtherIsReported, GateHasBase, OtherIsJudged,
          OtherIsNotExpected, Session!ObserverHolds

\* Every step of either behaviour keeps what the session rests on.
LEMMA LiveInvKeeps ==
  ASSUME LiveInv, [Mt1887Next]_<<part, vars, sessionVars>>
  PROVE  LiveInv'
  <1>1. CASE UNCHANGED sessionVars
    BY <1>1 DEF sessionVars, LiveInv, Session!TypeOK, GenerationIsCounted, ReadIsInTurn,
       BaseIsOfDisc, OtherIsReported, GateHasBase, OtherIsJudged, OtherIsNotExpected, HasBase,
       Sure, Captures, Carried, Session!ReaderHolds, Session!ObserverHolds
  <1>2. CASE Session!Reading
    BY <1>2, QuietReaderKeeps, ReadCommandKeeps, CaptureKeeps, ResetBusKeeps, WaitReadyKeeps,
       UnnotedKeeps, RetryReadKeeps
    DEF Session!Reading
  <1>3. CASE Session!Observing
    BY <1>3, BeginSessionKeeps, BaselineKeeps, ObserveKeeps, TestReadyKeeps, JudgingKeeps
    DEF Session!Observing
  <1>4. CASE Session!World
    BY <1>4, WorldActionKeeps
  <1> QED BY <1>1, <1>2, <1>3, <1>4 DEF Mt1887Next, Session!Next

\* The session does not go on with another disc: the generation and the gate
\* that stop it are those of the session's own disc.
LEMMA LiveInvSuffices ==
  ASSUME LiveInv
  PROVE  ExchangeIsNoticed
  <1>1. Session!ReplacementIsNoticed
    BY DEF LiveInv, OtherIsNotExpected, Sure, IsOther, Session!ReplacementIsNoticed
  <1>2. Session!SwapEndsSession
    BY DEF LiveInv, OtherIsJudged, HasBase, Sure, IsOther, Session!SwapEndsSession
  <1> QED BY <1>1, <1>2 DEF LiveInv, ExchangeIsNoticed, Session!ExchangeIsNoticed

\* Whoever meets a replacement of the disc, a read or an observation, the
\* session does not go on with it. (gdox_mmc_observe_media, recover_optical,
\* apply_media_observation)
THEOREM ExchangesAreNoticed == Mt1887Spec => []ExchangeIsNoticed
  <1>1. Mt1887Init => LiveInv
    BY LiveInvInit DEF Mt1887Init, SessionAtRest
  <1>2. LiveInv /\ [Mt1887Next]_<<part, vars, sessionVars>> => LiveInv'
    BY LiveInvKeeps
  <1>3. LiveInv => ExchangeIsNoticed
    BY LiveInvSuffices
  <1> QED BY <1>1, <1>2, <1>3, PTL DEF Mt1887Spec
=============================================================================
