------------------------ MODULE RuntimeRequestsProofs ------------------------
(***************************************************************************)
(* The user's thread and the worker at the runtime's mutex, proved of      *)
(* RuntimeRequests for every capacity of the queue and any number of       *)
(* submissions: what is pending is known to be pending, the described xemu *)
(* and the file follow the choices, and what was accepted is served in its *)
(* order.                                                                  *)
(***************************************************************************)
EXTENDS RuntimeRequests, SequenceTheorems, WellFoundedInduction, TLAPS

EndPoints  == {"shutdown", "last_save", "release", "finished"}
SavePoints == {"setup_save", "save", "last_save"}

IsXemu(entry)   == entry.kind = "set_xemu"
IsSetup(entry)  == entry.kind \in SetupKinds
IsAction(entry) == entry.kind \in ActionKinds
Positions       == 1 .. Len(requests)

\* What the worker took is of the kind its place in the cycle is about.
HandIsOfPlace ==
  /\ InHand => request \in Entries /\ IsSetup(request)
  /\ pc = "execute" => request \in Entries /\ IsAction(request)
  /\ pc \in EndPoints => stopping

\* The pending flag covers every setup request; it outlives them only when
\* the runtime stops.
PendingIsOwed ==
  /\ InHand => setupPending
  /\ \A i \in Positions : IsSetup(requests[i]) => setupPending
  /\ setupPending => InHand \/ stopping \/ \E i \in Positions : IsSetup(requests[i])

\* A choice of xemu that waits or is carried out is the one in force, and as
\* long as the described xemu is another one, such a choice is on its way.
ChoiceIsOnItsWay ==
  /\ InHand /\ IsXemu(request) => request.path = settings.xemu
  /\ \A i \in Positions : IsXemu(requests[i]) => requests[i].path = settings.xemu
  /\ \/ bundle = settings.xemu
     \/ InHand /\ IsXemu(request)
     \/ \E i \in Positions : IsXemu(requests[i])
     \/ stopping /\ setupPending /\ pc \in EndPoints \cup {"begin"}

SameFile(one, other) == one.xemu = other.xemu /\ one.display = other.display

\* Clean settings are on disk or in the copy that is being written, the copy a
\* setup works with names the xemu in force, and once the last flush is over
\* the settings are clean or reported.
CleanIsSaved ==
  /\ ~dirty /\ pc \in SavePoints => SameFile(saving, settings)
  /\ ~dirty /\ pc \notin SavePoints => SameFile(disk, settings)
  /\ ~dirty /\ pc = "selected" => SameFile(saving, settings)
  /\ pc \in {"setup_save", "prepare"} => saving.xemu = settings.xemu
  /\ pc = "last_save" => ~dirty
  /\ pc \in {"release", "finished"} => reported \/ ~dirty

\* The queue is in the order of submission, and what was served is older than
\* what is in hand, and that older than what is queued of the same sort.
QueueIsInOrder ==
  /\ \A i \in Positions : requests[i].path <= submitted
  /\ \A i, j \in Positions : i < j => requests[i].path < requests[j].path
  /\ history.setup <= submitted /\ history.action <= submitted
  /\ InHand => history.setup <= request.path /\ request.path <= submitted
  /\ pc = "execute" => history.action <= request.path /\ request.path <= submitted
  /\ \A i \in Positions : IsSetup(requests[i]) =>
       /\ history.setup <= requests[i].path
       /\ InHand => request.path <= requests[i].path
  /\ \A i \in Positions : IsAction(requests[i]) =>
       /\ history.action <= requests[i].path
       /\ pc = "execute" => request.path <= requests[i].path

IInv == /\ TypeOK /\ HandIsOfPlace /\ PendingIsOwed /\ ChoiceIsOnItsWay
        /\ CleanIsSaved /\ PreparedChoiceIsSaved /\ QueueIsInOrder
        /\ ImportsAreServed

-----------------------------------------------------------------------------
(* The queue, by what is where before and after.                           *)

\* What becomes of the queue when an entry is accepted: it is the last one, and
\* the others keep their places, but for the one it replaces, which is of its
\* kind and no import.
Entered(queue, after, entry) ==
  /\ after \in Seq(Entries) /\ Len(after) \in 1 .. Capacity
  /\ after[Len(after)] = entry
  /\ \A i \in 1 .. Len(after) - 1 : i \in 1 .. Len(queue) /\ after[i] = queue[i]
  /\ \A i \in 1 .. Len(queue) :
       \/ i \in 1 .. Len(after) - 1
       \/ i = Len(after) /\ queue[i].kind = entry.kind /\ entry.kind # "import"

\* An accepted entry replaces the last one or follows it.
LEMMA EnqueuedPlaces ==
  ASSUME CapacityAssumption, NEW queue \in Seq(Entries), Len(queue) <= Capacity,
         NEW entry \in Entries, Accepts(queue, entry)
  PROVE  Entered(queue, Enqueued(queue, entry), entry)
  <1> DEFINE after == Enqueued(queue, entry)
  <1>1. Len(queue) \in Nat /\ Capacity \in Nat
    BY DEF CapacityAssumption
  <1>2. CASE Replaces(queue, entry)
    <2>1. Len(queue) # 0 /\ queue[Len(queue)].kind = entry.kind /\ entry.kind # "import"
      BY <1>2, EmptySeq DEF Replaces
    <2>2. Len(queue) \in 1 .. Len(queue)
      BY <1>1, <2>1
    <2>3. after = [queue EXCEPT ![Len(queue)] = entry]
      BY <1>2 DEF Enqueued
    <2> HIDE DEF after
    <2>4. /\ after \in Seq(Entries) /\ Len(after) = Len(queue)
          /\ \A i \in 1 .. Len(queue) : after[i] = IF i = Len(queue) THEN entry ELSE queue[i]
      BY <2>2, <2>3, ExceptSeq
    <2>5. Entered(queue, after, entry)
      BY <1>1, <2>1, <2>2, <2>4 DEF Entered
    <2> QED BY <2>5 DEF after
  <1>3. CASE ~Replaces(queue, entry)
    <2>1. Len(queue) < Capacity
      BY <1>3 DEF Accepts
    <2>2. after = Append(queue, entry)
      BY <1>3 DEF Enqueued
    <2> HIDE DEF after
    <2>3. /\ after \in Seq(Entries) /\ Len(after) = Len(queue) + 1
          /\ \A i \in 1 .. Len(queue) : after[i] = queue[i]
          /\ after[Len(queue) + 1] = entry
      BY <2>2, AppendProperties
    <2>4. Entered(queue, after, entry)
      BY <1>1, <2>1, <2>3 DEF Entered
    <2> QED BY <2>4 DEF after
  <1> QED BY <1>2, <1>3

\* What is left of the queue when the entry at k is taken out of it.
TakenOut(queue, after, k) ==
  /\ after \in Seq(Entries) /\ Len(after) = Len(queue) - 1
  /\ \A i \in 1 .. Len(queue) - 1 : after[i] = IF i < k THEN queue[i] ELSE queue[i + 1]

\* The first of the queue is taken out.
LEMMA DequeuedPlaces ==
  ASSUME NEW queue \in Seq(Entries), queue # <<>>
  PROVE  /\ 1 \in 1 .. Len(queue) /\ Head(queue) = queue[1]
         /\ TakenOut(queue, Tail(queue), 1)
  <1>1. Len(queue) \in Nat \ {0}
    BY EmptySeq
  <1>2. /\ Head(queue) = queue[1] /\ Tail(queue) \in Seq(Entries)
        /\ Len(Tail(queue)) = Len(queue) - 1
        /\ \A i \in 1 .. Len(Tail(queue)) : Tail(queue)[i] = queue[i + 1]
    BY HeadTailProperties
  <1> QED BY <1>1, <1>2 DEF TakenOut

\* The rest of a queue without one of its entries keeps its order.
LEMMA WithoutPlaces ==
  ASSUME NEW queue \in Seq(Entries), NEW k \in 1 .. Len(queue)
  PROVE  TakenOut(queue, Without(queue, k), k)
  <1> DEFINE older == SubSeq(queue, 1, k - 1)
             younger == SubSeq(queue, k + 1, Len(queue))
  <1>1. Len(queue) \in Nat /\ k \in Nat /\ 1 <= k /\ k <= Len(queue)
    OBVIOUS
  <1>2. \A i \in 1 .. Len(queue) : queue[i] \in Entries
    BY ElementOfSeq
  <1>3. /\ older \in Seq(Entries) /\ Len(older) = k - 1
        /\ \A i \in 1 .. k - 1 : older[i] = queue[i]
    <2>1. \A i \in 1 .. k - 1 : queue[i] \in Entries
      BY <1>1, <1>2
    <2>2. /\ older \in Seq(Entries)
          /\ Len(older) = IF 1 <= k - 1 THEN k - 1 - 1 + 1 ELSE 0
          /\ \A i \in 1 .. k - 1 - 1 + 1 : older[i] = queue[1 + i - 1]
      BY <1>1, <2>1, SubSeqProperties
    <2> QED BY <1>1, <2>2
  <1>4. /\ younger \in Seq(Entries) /\ Len(younger) = Len(queue) - k
        /\ \A i \in 1 .. Len(queue) - k : younger[i] = queue[k + i]
    <2>1. \A i \in k + 1 .. Len(queue) : queue[i] \in Entries
      BY <1>1, <1>2
    <2>2. /\ younger \in Seq(Entries)
          /\ Len(younger) = IF k + 1 <= Len(queue) THEN Len(queue) - (k + 1) + 1 ELSE 0
          /\ \A i \in 1 .. Len(queue) - (k + 1) + 1 : younger[i] = queue[k + 1 + i - 1]
      BY <1>1, <2>1, SubSeqProperties
    <2> QED BY <1>1, <2>2
  <1> HIDE DEF older, younger
  <1>5. /\ older \o younger \in Seq(Entries)
        /\ Len(older \o younger) = Len(older) + Len(younger)
        /\ \A i \in 1 .. Len(older) + Len(younger) :
             (older \o younger)[i] = IF i <= Len(older) THEN older[i]
                                                     ELSE younger[i - Len(older)]
    BY <1>3, <1>4, ConcatProperties
  <1>6. Len(older) + Len(younger) = Len(queue) - 1
    BY <1>1, <1>3, <1>4
  <1>7. ASSUME NEW i \in 1 .. Len(queue) - 1
        PROVE  (older \o younger)[i] = IF i < k THEN queue[i] ELSE queue[i + 1]
    <2>1. CASE i < k
      BY <1>1, <1>3, <1>5, <1>6, <2>1
    <2>2. CASE ~(i < k)
      <3>1. i - (k - 1) \in 1 .. Len(queue) - k /\ k + (i - (k - 1)) = i + 1
        BY <1>1, <2>2
      <3>2. (older \o younger)[i] = younger[i - (k - 1)]
        BY <1>1, <1>3, <1>5, <1>6, <2>2
      <3> QED BY <1>4, <2>2, <3>1, <3>2
    <2> QED BY <2>1, <2>2
  <1>8. TakenOut(queue, older \o younger, k)
    BY <1>5, <1>6, <1>7 DEF TakenOut
  <1> QED BY <1>8 DEF Without, older, younger

\* Every entry but the one that is taken out is still there.
LEMMA TakenOutKeepsRest ==
  ASSUME NEW queue \in Seq(Entries), NEW after, NEW k \in 1 .. Len(queue),
         TakenOut(queue, after, k)
  PROVE  \A j \in 1 .. Len(queue) :
           j = k \/ \E i \in 1 .. Len(after) : after[i] = queue[j]
  <1> SUFFICES ASSUME NEW j \in 1 .. Len(queue), j # k
               PROVE  \E i \in 1 .. Len(after) : after[i] = queue[j]
    OBVIOUS
  <1>1. CASE j < k
    <2>1. j \in 1 .. Len(after) /\ after[j] = queue[j]
      BY <1>1 DEF TakenOut
    <2> QED BY <2>1
  <1>2. CASE j > k
    <2>1. j - 1 \in 1 .. Len(after) /\ after[j - 1] = queue[j]
      BY <1>2 DEF TakenOut
    <2> QED BY <2>1
  <1> QED BY <1>1, <1>2

\* A queue that holds a setup request has a first one.
LEMMA FirstSetupIsFirst ==
  ASSUME NEW queue \in Seq(Entries), SetupPositions(queue) # {}
  PROVE  /\ FirstSetup(queue) \in 1 .. Len(queue)
         /\ queue[FirstSetup(queue)].kind \in SetupKinds
         /\ \A i \in 1 .. Len(queue) :
              queue[i].kind \in SetupKinds => FirstSetup(queue) <= i
  <1>1. SetupPositions(queue) \subseteq Nat
    BY DEF SetupPositions
  <1>2. PICK i \in SetupPositions(queue) : \A j \in SetupPositions(queue) : i <= j
    <2>1. \E i \in SetupPositions(queue) :
            \A j \in SetupPositions(queue) : ~(<<j, i>> \in OpToRel(<, Nat))
      BY <1>1, NatLessThanWellFounded, WFMin
    <2>2. \A i, j \in Nat : ~(<<j, i>> \in OpToRel(<, Nat)) => i <= j
      BY DEF OpToRel
    <2> QED BY <1>1, <2>1, <2>2
  <1>3. /\ FirstSetup(queue) \in SetupPositions(queue)
        /\ \A j \in SetupPositions(queue) : FirstSetup(queue) <= j
    BY <1>2 DEF FirstSetup
  <1> QED BY <1>3 DEF SetupPositions

-----------------------------------------------------------------------------
(* The invariant.                                                          *)

\* The program starts with nothing queued and the settings as on disk.
LEMMA InitKeeps ==
  ASSUME CapacityAssumption, SubmissionAssumption
  PROVE  Init => IInv
  <1> SUFFICES ASSUME Init PROVE IInv
    OBVIOUS
  <1>1. requests = <<>> /\ requests \in Seq(Entries) /\ Len(requests) = 0
    BY DEF Init, QueueInit
  <1>2. TypeOK
    <2>1. 0 \in Paths /\ submitted \in 0 .. MaxSubmissions /\ Len(requests) <= Capacity
      BY <1>1, CapacityAssumption, SubmissionAssumption DEF Init
    <2>2. Defaults \in Settings
      BY <2>1 DEF Defaults, Settings
    <2>3. /\ request \in Entries \cup {NoRequest} /\ pc \in Points
          /\ selection \in Paths \cup {NoDrive} /\ bundle \in Paths
      BY <2>1 DEF Init, QueueInit, Points
    <2>4. history \in [accepted : SUBSET Paths, served : SUBSET Paths,
                       setup : Paths, action : Paths]
      BY <2>1 DEF Init
    <2> QED BY <1>1, <2>1, <2>2, <2>3, <2>4 DEF Init, TypeOK
  <1>3. HandIsOfPlace /\ PendingIsOwed /\ ChoiceIsOnItsWay /\ PreparedChoiceIsSaved
    BY <1>1 DEF Init, HandIsOfPlace, PendingIsOwed, ChoiceIsOnItsWay, PreparedChoiceIsSaved,
              InHand, EndPoints, Positions, Defaults
  <1>4. CleanIsSaved /\ QueueIsInOrder
    BY <1>1, SubmissionAssumption DEF Init, CleanIsSaved, SameFile, SavePoints, QueueIsInOrder, InHand,
              Positions, Defaults
  <1>5. ImportsAreServed
    <2>1. Queued("import") = {}
      BY <1>1 DEF Queued
    <2> QED BY <2>1 DEF Init, ImportsAreServed, InHand
  <1> QED BY <1>2, <1>3, <1>4, <1>5 DEF IInv

\* The queue has room for what it accepts.
LEMMA EnqueueTyped ==
  ASSUME CapacityAssumption, TypeOK, NEW entry \in Entries, Enqueue(entry)
  PROVE  /\ requests' \in Seq(Entries) /\ Len(requests') <= Capacity
         /\ request' = request
         /\ Entered(requests, requests', entry)
  <1>1. Entered(requests, requests', entry)
    BY EnqueuedPlaces DEF TypeOK, Enqueue
  <1>2. Capacity \in Nat
    BY DEF CapacityAssumption
  <1> QED BY <1>1, <1>2 DEF Enqueue, Entered

\* What the worker takes comes out of the queue, from whichever place.
LEMMA DequeueTyped ==
  ASSUME CapacityAssumption, TypeOK, Dequeue
  PROVE  /\ requests' \in Seq(Entries) /\ Len(requests') <= Capacity
         /\ 1 \in Positions /\ request' = requests[1] /\ request' \in Entries
         /\ request' = Head(requests)
         /\ TakenOut(requests, requests', 1)
  <1>1. /\ 1 \in Positions /\ Head(requests) = requests[1]
        /\ TakenOut(requests, Tail(requests), 1)
    BY DequeuedPlaces DEF TypeOK, Dequeue, Positions
  <1>2. requests[1] \in Entries /\ Len(requests) \in Nat
    BY <1>1, ElementOfSeq DEF TypeOK, Positions
  <1> QED BY <1>1, <1>2 DEF Dequeue, TakenOut, TypeOK, CapacityAssumption

\* The first setup request is taken out of the middle of the queue.
LEMMA TakeSetupTyped ==
  ASSUME CapacityAssumption, TypeOK, TakeSetup
  PROVE  /\ requests' \in Seq(Entries) /\ Len(requests') <= Capacity
         /\ \E k \in Positions :
              /\ request' = requests[k] /\ request' \in Entries /\ IsSetup(request')
              /\ TakenOut(requests, requests', k)
              /\ \A i \in Positions : IsSetup(requests[i]) => k <= i
  <1> DEFINE k == FirstSetup(requests)
  <1>1. /\ k \in Positions /\ IsSetup(requests[k])
        /\ \A i \in Positions : IsSetup(requests[i]) => k <= i
    BY FirstSetupIsFirst DEF TypeOK, TakeSetup, Positions, IsSetup
  <1>2. TakenOut(requests, requests', k) /\ request' = requests[k]
    BY <1>1, WithoutPlaces DEF TypeOK, TakeSetup, Positions
  <1> HIDE DEF k
  <1>3. requests[k] \in Entries /\ Len(requests) \in Nat
    BY <1>1, ElementOfSeq DEF TypeOK, Positions
  <1> QED BY <1>1, <1>2, <1>3 DEF TakenOut, TypeOK, CapacityAssumption

\* A submission of the user, with the entry it enqueues.
LEMMA UserTyped ==
  ASSUME CapacityAssumption, SubmissionAssumption, IInv, User
  PROVE  TypeOK' /\ HandIsOfPlace'
  <1> USE DEF Settings
  <1>1. ASSUME NEW n \in Paths, Numbered(n), NEW kind \in ActionKinds, Submit(kind, n),
               UNCHANGED <<work, session, bundle, saved>>
        PROVE  TypeOK' /\ HandIsOfPlace'
    <2>1. [kind |-> kind, path |-> n] \in Entries
      BY DEF Entries, Kinds
    <2>2. requests' \in Seq(Entries) /\ Len(requests') <= Capacity /\ request' = request
      BY <1>1, <2>1, EnqueueTyped DEF Submit, IInv
    <2> QED BY <1>1, <2>2, SubmissionAssumption DEF IInv, TypeOK, HandIsOfPlace, InHand, Submit,
          Numbered, choices, gates, work, session, saved
  <1>2. ASSUME NEW n \in Paths, Numbered(n), NEW kind \in SetupKinds, SubmitSetup(kind, n),
               UNCHANGED <<work, session, bundle, saved>>
        PROVE  TypeOK' /\ HandIsOfPlace'
    <2>1. [kind |-> kind, path |-> n] \in Entries
      BY DEF Entries, Kinds
    <2>2. requests' \in Seq(Entries) /\ Len(requests') <= Capacity /\ request' = request
      BY <1>2, <2>1, EnqueueTyped DEF SubmitSetup, IInv
    <2>3. /\ submitted' \in 0 .. MaxSubmissions /\ settings' \in Settings /\ dirty' \in BOOLEAN
          /\ saveRequested' \in BOOLEAN /\ setupPending' \in BOOLEAN
          /\ UNCHANGED <<selection, stopping>>
          /\ history' \in [accepted : SUBSET Paths, served : SUBSET Paths,
                           setup : Paths, action : Paths]
      <3>1. submitted' \in 0 .. MaxSubmissions /\ setupPending' = TRUE
        BY <1>2, SubmissionAssumption DEF SubmitSetup, Numbered
      <3>2. CASE kind = "set_xemu"
        <4>1. /\ settings' = [settings EXCEPT !.xemu = n] /\ dirty' = TRUE
              /\ saveRequested' = TRUE /\ UNCHANGED <<history, selection, stopping>>
          BY <1>2, <3>2 DEF SubmitSetup
        <4> QED BY <3>1, <4>1 DEF IInv, TypeOK
      <3>3. CASE kind # "set_xemu"
        <4>1. /\ history' = [history EXCEPT !.accepted = @ \cup {n}]
              /\ UNCHANGED <<choices, selection, stopping>>
          BY <1>2, <3>3 DEF SubmitSetup
        <4>2. history.accepted \cup {n} \in SUBSET Paths
          BY DEF IInv, TypeOK
        <4> QED BY <3>1, <4>1, <4>2 DEF IInv, TypeOK, choices
      <3> QED BY <3>2, <3>3
    <2> QED BY <1>2, <2>2, <2>3 DEF IInv, TypeOK, HandIsOfPlace, InHand, work, session, saved
  <1>3. ASSUME NEW n \in Paths, Numbered(n), SetDisplay(n),
               UNCHANGED <<work, session, bundle, saved>>
        PROVE  TypeOK' /\ HandIsOfPlace'
    <2>1. [kind |-> "apply_display", path |-> n] \in Entries
      BY DEF Entries, Kinds, ActionKinds
    <2>2. requests' \in Seq(Entries) /\ Len(requests') <= Capacity /\ request' = request
      <3>1. CASE Enqueue([kind |-> "apply_display", path |-> n])
        BY <2>1, <3>1, EnqueueTyped DEF IInv
      <3>2. CASE UNCHANGED queueVars
        BY <3>2 DEF IInv, TypeOK, queueVars
      <3> QED BY <1>3, <3>1, <3>2 DEF SetDisplay
    <2> QED BY <1>3, <2>2, SubmissionAssumption DEF IInv, TypeOK, HandIsOfPlace, InHand,
          SetDisplay, Numbered, gates, work, session, saved
  <1>4. ASSUME NEW n \in Paths, Numbered(n), SelectDrive(n),
               UNCHANGED <<work, session, bundle, saved>>
        PROVE  TypeOK' /\ HandIsOfPlace'
    BY <1>4, SubmissionAssumption DEF IInv, TypeOK, HandIsOfPlace, InHand, SelectDrive, Numbered,
      queueVars, choices, work, session, saved
  <1>5. CASE Destroy /\ UNCHANGED <<work, session, bundle, saved>>
    BY <1>5 DEF IInv, TypeOK, HandIsOfPlace, InHand, Destroy, queueVars, choices, work,
      session, saved
  <1> QED BY <1>1, <1>2, <1>3, <1>4, <1>5 DEF User

\* The parts of the state the worker's queue steps leave alone.
LEMMA QueueStepTyped ==
  ASSUME CapacityAssumption, IInv, BeginCycle \/ TakeRequest
  PROVE  TypeOK' /\ HandIsOfPlace'
  <1>1. /\ requests' \in Seq(Entries) /\ Len(requests') <= Capacity
        /\ request' \in Entries \cup {NoRequest}
    BY DequeueTyped, TakeSetupTyped DEF BeginCycle, TakeRequest, IInv, TypeOK, queueVars
  <1>2. CASE BeginCycle
    <2>1. pc' \in Points /\ HandIsOfPlace'
      BY <1>2, TakeSetupTyped DEF BeginCycle, HandIsOfPlace, InHand, EndPoints, Points,
        IInv, gates
    <2> QED BY <1>1, <1>2, <2>1 DEF IInv, TypeOK, BeginCycle, choices, gates, session, saved
  <1>3. CASE TakeRequest
    <2>1. pc' \in Points
      BY <1>3 DEF TakeRequest, Points
    <2>2. HandIsOfPlace'
      <3>1. CASE requests = <<>>
        BY <1>3, <3>1 DEF TakeRequest, HandIsOfPlace, InHand, EndPoints, IInv
      <3>2. CASE requests # <<>>
        <4>1. request' \in Entries /\ request' = Head(requests)
          BY <1>3, <3>2, DequeueTyped DEF TakeRequest, IInv
        <4>2. pc' = IF IsSetup(request') THEN "setup" ELSE "execute"
          BY <1>3, <3>2, <4>1 DEF TakeRequest, IsSetup
        <4>3. IsSetup(request') \/ IsAction(request')
          BY <4>1 DEF Entries, Kinds, IsSetup, IsAction
        <4> QED BY <4>1, <4>2, <4>3 DEF HandIsOfPlace, InHand, EndPoints
      <3> QED BY <3>1, <3>2
    <2> QED BY <1>1, <1>3, <2>1, <2>2 DEF IInv, TypeOK, TakeRequest, choices, gates, session, saved
  <1> QED BY <1>2, <1>3

\* A setup request that ends leaves typed state, however it went.
LEMMA FinishTyped ==
  ASSUME IInv, InHand, saving \in Settings, NEW prepared \in BOOLEAN, FinishSetup(prepared),
         UNCHANGED queueVars
  PROVE  /\ bundle' \in Paths /\ setupPending' \in BOOLEAN /\ shownBusy' \in BOOLEAN
         /\ pc' = "begin" /\ UNCHANGED <<selection, stopping, playing, owed>>
         /\ history' \in [accepted : SUBSET Paths, served : SUBSET Paths,
                          setup : Paths, action : Paths]
  <1>1. request.path \in Paths
    BY DEF IInv, HandIsOfPlace, Entries
  <1>2. saving.xemu \in Paths
    BY DEF Settings
  <1> QED BY <1>1, <1>2 DEF IInv, TypeOK, FinishSetup, BundleAfterSetup, Chosen,
        PendingAfterSetup

\* Every step of a setup request leaves typed state.
LEMMA SetupTyped ==
  ASSUME IInv, Setup
  PROVE  TypeOK' /\ HandIsOfPlace'
  <1>1. CASE ExecuteSetup
    <2>1. CASE stopping
      BY <1>1, <2>1 DEF ExecuteSetup, IInv, TypeOK, HandIsOfPlace, InHand, EndPoints, Points,
        queueVars, saved, choices, gates, session
    <2>2. CASE ~stopping /\ playing
      <3>1. FinishSetup(FALSE) /\ UNCHANGED <<saving, choices, queueVars, submitted, saved>>
        BY <1>1, <2>2 DEF ExecuteSetup
      <3>2. InHand /\ saving \in Settings
        BY <1>1 DEF ExecuteSetup, InHand, IInv, TypeOK
      <3> QED BY <3>1, <3>2, FinishTyped DEF IInv, TypeOK, HandIsOfPlace, InHand, EndPoints,
            Points, queueVars, saved, choices
    <2>3. CASE ~stopping /\ ~playing
      <3>1. /\ saving' = settings /\ settings' = settings /\ pc' \in {"setup_save", "prepare"}
            /\ dirty' \in BOOLEAN /\ saveRequested' \in BOOLEAN
            /\ UNCHANGED <<gates, session, bundle, history, queueVars, submitted, saved>>
        BY <1>1, <2>3 DEF ExecuteSetup, CopyToSave, choices, IInv, TypeOK
      <3> QED BY <1>1, <3>1 DEF ExecuteSetup, IInv, TypeOK, HandIsOfPlace, InHand, EndPoints,
            Points, queueVars, saved, gates, session
    <2> QED BY <2>1, <2>2, <2>3
  <1>2. CASE SaveForSetup
    <2>1. InHand /\ saving \in Settings
      BY <1>2 DEF SaveForSetup, InHand, IInv, TypeOK
    <2>2. PICK ok \in BOOLEAN :
            /\ Save(ok)
            /\ IF ok THEN pc' = "prepare" /\ UNCHANGED <<gates, session, bundle, history>>
                     ELSE FinishSetup(FALSE)
      BY <1>2 DEF SaveForSetup
    <2>3. disk' \in Settings /\ dirty' \in BOOLEAN /\ UNCHANGED <<settings, saveRequested>>
      BY <2>2 DEF Save, DirtyAfterSave, IInv, TypeOK
    <2>4. UNCHANGED <<queueVars, submitted, saving, reported>>
      BY <1>2 DEF SaveForSetup
    <2>5. CASE ok
      BY <1>2, <2>2, <2>3, <2>4, <2>5 DEF SaveForSetup, IInv, TypeOK, HandIsOfPlace, InHand,
        EndPoints, Points, queueVars, gates, session
    <2>6. CASE ~ok
      BY <2>1, <2>2, <2>3, <2>4, <2>6, FinishTyped DEF IInv, TypeOK, HandIsOfPlace, InHand,
        EndPoints, Points, queueVars
    <2> QED BY <2>5, <2>6
  <1>3. CASE PrepareSetup
    <2>1. PICK prepared \in BOOLEAN : FinishSetup(prepared)
      BY <1>3 DEF PrepareSetup
    <2>2. InHand /\ saving \in Settings
      BY <1>3 DEF PrepareSetup, InHand, IInv, TypeOK
    <2>3. UNCHANGED <<queueVars, submitted, choices, saving, saved>>
      BY <1>3 DEF PrepareSetup
    <2> QED BY <2>1, <2>2, <2>3, FinishTyped DEF IInv, TypeOK, HandIsOfPlace, InHand,
          EndPoints, Points, queueVars, choices, saved
  <1> QED BY <1>1, <1>2, <1>3 DEF Setup

\* So does every step of the worker's cycle around the requests.
LEMMA CycleTyped ==
  ASSUME IInv, FlushSettings \/ SaveSettings \/ Drives
  PROVE  TypeOK' /\ HandIsOfPlace'
  <1> USE DEF IInv, TypeOK, HandIsOfPlace, InHand, EndPoints, Points, queueVars, choices,
              gates, session, saved
  <1>1. CASE FlushSettings
    BY <1>1 DEF FlushSettings, CopyToSave
  <1>2. CASE SaveSettings
    BY <1>2 DEF SaveSettings, Save, DirtyAfterSave
  <1>3. CASE PollDrives
    BY <1>3 DEF PollDrives
  <1>4. CASE SelectionFails
    BY <1>4 DEF SelectionFails
  <1>5. CASE ApplySelection
    <2>1. settings' \in Settings /\ saving' \in Settings
      BY <1>5 DEF ApplySelection, SelectionIsDue, IsSelecting, Settings
    <2> QED BY <1>5, <2>1 DEF ApplySelection
  <1>6. CASE SaveSelection
    BY <1>6 DEF SaveSelection
  <1> QED BY <1>1, <1>2, <1>3, <1>4, <1>5, <1>6 DEF Drives

\* And every step that touches the drive session or the settings file.
LEMMA SessionTyped ==
  ASSUME IInv, Cleanup \/ ExecuteAction \/ Launch \/ ObserveMedia \/ Shutdown
  PROVE  TypeOK' /\ HandIsOfPlace'
  <1> USE DEF IInv, TypeOK, HandIsOfPlace, InHand, EndPoints, Points, queueVars, choices,
              gates, session, saved
  <1>1. CASE Cleanup
    BY <1>1 DEF Cleanup
  <1>2. CASE ExecuteAction
    <2>1. request.path \in Paths
      BY <1>2 DEF ExecuteAction, Entries
    <2>2. history' \in [accepted : SUBSET Paths, served : SUBSET Paths,
                        setup : Paths, action : Paths]
      BY <1>2, <2>1 DEF ExecuteAction
    <2>3. pc' \in {"launch", "media"} /\ playing' \in BOOLEAN /\ shownBusy' \in BOOLEAN
      BY <1>2 DEF ExecuteAction
    <2> QED BY <1>2, <2>2, <2>3 DEF ExecuteAction
  <1>3. CASE Launch
    BY <1>3 DEF Launch
  <1>4. CASE ObserveMedia
    BY <1>4 DEF ObserveMedia
  <1>5. CASE FlushForGood
    BY <1>5 DEF FlushForGood, CopyToSave
  <1>6. CASE SaveForGood
    BY <1>6 DEF SaveForGood, Save, DirtyAfterSave
  <1>7. CASE Release
    BY <1>7 DEF Release
  <1> QED BY <1>1, <1>2, <1>3, <1>4, <1>5, <1>6, <1>7 DEF Shutdown

-----------------------------------------------------------------------------
(* What a step does to the queue, whichever action takes it.               *)

\* A submission enters the queue with a number of its own.
EntryIsMade ==
  \E entry \in Entries :
    /\ Entered(requests, requests', entry)
    /\ entry.path = submitted + 1 /\ submitted' = submitted + 1
    /\ ~stopping
    /\ UNCHANGED <<request, pc, stopping>>
    /\ IF IsSetup(entry) THEN setupPending' ELSE UNCHANGED setupPending
    /\ history' = IF entry.kind = "import"
                    THEN [history EXCEPT !.accepted = @ \cup {entry.path}] ELSE history
    /\ IF IsXemu(entry) THEN ~setupPending /\ settings'.xemu = entry.path
                        ELSE settings'.xemu = settings.xemu
    /\ UNCHANGED bundle

\* The user's call does not reach the queue.
QueueIsLeft ==
  /\ UNCHANGED <<requests, request, pc, setupPending, history, bundle>>
  /\ settings'.xemu = settings.xemu
  /\ submitted' \in {submitted, submitted + 1}
  /\ stopping => stopping'

\* The worker takes the oldest request of its sort.
EntryIsTaken ==
  \E k \in Positions :
    /\ TakenOut(requests, requests', k)
    /\ request' = requests[k] /\ request' \in Entries
    /\ \A i \in Positions : (IsSetup(requests[i]) <=> IsSetup(request')) => k <= i
    /\ ~InHand /\ pc # "execute"
    /\ stopping => pc \notin EndPoints \cup {"begin"}
    /\ pc' = IF IsSetup(request') THEN "setup" ELSE "execute"
    /\ UNCHANGED <<submitted, setupPending, stopping, history, settings, bundle>>

\* The worker is done with the setup request it has in hand.
SetupIsDone ==
  /\ InHand
  /\ \E prepared \in BOOLEAN : FinishSetup(prepared) /\ (prepared => pc = "prepare")
  /\ UNCHANGED <<requests, request, submitted, settings>>

\* The worker carries out the action it has in hand.
ActionIsDone ==
  /\ pc = "execute" /\ pc' # "execute" /\ ~InHand'
  /\ history' = [history EXCEPT !.action = request.path]
  /\ UNCHANGED <<requests, request, submitted, setupPending, stopping, settings, bundle>>

\* The worker goes on with what it has; only the end drops it.
WorkIsKept ==
  /\ UNCHANGED <<requests, request, submitted, setupPending, stopping, history, bundle>>
  /\ settings'.xemu = settings.xemu
  /\ InHand' => InHand
  /\ InHand => InHand' \/ (stopping /\ pc' = "begin")
  /\ stopping /\ pc \in EndPoints \cup {"begin"} => pc' \in EndPoints \cup {"begin"}
  /\ pc' = "execute" => pc = "execute"

\* What the user's submissions do to the queue: at most one entry more.
LEMMA UserOnQueue ==
  ASSUME CapacityAssumption, SubmissionAssumption, IInv, User
  PROVE  EntryIsMade \/ QueueIsLeft
  <1>0. UNCHANGED <<pc, bundle>>
    BY DEF User, work
  <1>1. ASSUME NEW n \in Paths, Numbered(n), NEW kind \in ActionKinds, Submit(kind, n)
        PROVE  EntryIsMade
    <2> DEFINE entry == [kind |-> kind, path |-> n]
    <2>1. entry \in Entries /\ ~IsSetup(entry) /\ entry.kind # "import" /\ entry.path = n
      BY DEF Entries, Kinds, ActionKinds, SetupKinds, IsSetup
    <2>2. Entered(requests, requests', entry) /\ request' = request
      BY <1>1, <2>1, EnqueueTyped DEF Submit, IInv
    <2> HIDE DEF entry
    <2>3. entry.path = submitted + 1 /\ submitted' = submitted + 1
      BY <1>1, <2>1 DEF Numbered
    <2>4. /\ UNCHANGED <<setupPending, stopping, history, settings>> /\ ~stopping
          /\ ~IsXemu(entry)
      BY <1>1, <2>1 DEF Submit, gates, choices, MayEnqueue, IsXemu, IsSetup, SetupKinds
    <2> QED BY <1>0, <2>1, <2>2, <2>3, <2>4 DEF EntryIsMade
  <1>2. ASSUME NEW n \in Paths, Numbered(n), NEW kind \in SetupKinds, SubmitSetup(kind, n)
        PROVE  EntryIsMade
    <2> DEFINE entry == [kind |-> kind, path |-> n]
    <2>1. /\ entry \in Entries /\ IsSetup(entry) /\ entry.path = n /\ entry.kind = kind
          /\ kind \in {"set_xemu", "import"}
      BY DEF Entries, Kinds, ActionKinds, SetupKinds, IsSetup
    <2>2. Entered(requests, requests', entry) /\ request' = request
      BY <1>2, <2>1, EnqueueTyped DEF SubmitSetup, IInv
    <2> HIDE DEF entry
    <2>3. entry.path = submitted + 1 /\ submitted' = submitted + 1
      BY <1>2, <2>1 DEF Numbered
    <2>4. setupPending' /\ UNCHANGED stopping /\ ~stopping
      BY <1>2 DEF SubmitSetup
    <2>5. history' = IF kind = "import" THEN [history EXCEPT !.accepted = @ \cup {n}]
                                        ELSE history
      BY <1>2, <2>1 DEF SubmitSetup
    <2>6. CASE kind = "set_xemu"
      <3>1. ~setupPending /\ settings'.xemu = entry.path
        BY <1>2, <2>1, <2>6 DEF SubmitSetup, IInv, TypeOK, Settings
      <3> QED BY <1>0, <2>1, <2>2, <2>3, <2>4, <2>5, <2>6, <3>1 DEF EntryIsMade, IsXemu
    <2>7. CASE kind # "set_xemu"
      <3>1. settings' = settings
        BY <1>2, <2>7 DEF SubmitSetup, choices
      <3> QED BY <1>0, <2>1, <2>2, <2>3, <2>4, <2>5, <2>7, <3>1 DEF EntryIsMade, IsXemu
    <2> QED BY <2>6, <2>7
  <1>3. ASSUME NEW n \in Paths, Numbered(n), SetDisplay(n)
        PROVE  EntryIsMade \/ QueueIsLeft
    <2> DEFINE entry == [kind |-> "apply_display", path |-> n]
    <2>1. entry \in Entries /\ ~IsSetup(entry) /\ entry.kind # "import" /\ entry.path = n
      BY DEF Entries, Kinds, ActionKinds, SetupKinds, IsSetup
    <2>2. submitted' = submitted + 1 /\ n = submitted + 1 /\ ~stopping
          /\ UNCHANGED <<setupPending, stopping, history>> /\ settings'.xemu = settings.xemu
      BY <1>3 DEF Numbered, SetDisplay, gates, IInv, TypeOK, Settings
    <2>3. CASE Enqueue(entry)
      <3>1. Entered(requests, requests', entry) /\ request' = request
        BY <2>1, <2>3, EnqueueTyped DEF IInv
      <3>2. ~IsXemu(entry)
        BY DEF IsXemu
      <3> HIDE DEF entry
      <3> QED BY <1>0, <2>1, <2>2, <3>1, <3>2 DEF EntryIsMade
    <2>4. CASE UNCHANGED queueVars
      BY <1>0, <2>2, <2>4 DEF QueueIsLeft, queueVars
    <2> QED BY <1>3, <2>3, <2>4 DEF SetDisplay
  <1>4. ASSUME NEW n \in Paths, Numbered(n), SelectDrive(n)
        PROVE  QueueIsLeft
    BY <1>0, <1>4 DEF Numbered, SelectDrive, QueueIsLeft, queueVars, choices
  <1>5. CASE Destroy
    BY <1>0, <1>5 DEF Destroy, QueueIsLeft, queueVars, choices
  <1> QED BY <1>1, <1>2, <1>3, <1>4, <1>5 DEF User

\* What the worker's steps do to the queue: at most one entry less.
LEMMA WorkerOnQueue ==
  ASSUME CapacityAssumption, IInv, Worker
  PROVE  EntryIsTaken \/ SetupIsDone \/ ActionIsDone \/ WorkIsKept
  <1> USE DEF queueVars, gates, choices, session, InHand, EndPoints
  <1>1. CASE BeginCycle
    <2>1. CASE TakeSetup
      <3>1. PICK k \in Positions :
              /\ request' = requests[k] /\ request' \in Entries /\ IsSetup(request')
              /\ TakenOut(requests, requests', k)
              /\ \A i \in Positions : IsSetup(requests[i]) => k <= i
        BY <2>1, TakeSetupTyped DEF IInv
      <3>2. /\ pc = "begin" /\ pc' = "setup" /\ ~stopping
            /\ UNCHANGED <<submitted, gates, history, settings, bundle>>
        <4>1. pc' = "setup" \/ UNCHANGED queueVars
          BY <1>1 DEF BeginCycle
        <4>2. ~UNCHANGED requests
          <5>1. Len(requests') = Len(requests) - 1 /\ Len(requests) \in Nat
            BY <3>1 DEF TakenOut, IInv, TypeOK
          <5> QED BY <5>1
        <4> QED BY <1>1, <4>1, <4>2 DEF BeginCycle
      <3> QED BY <3>1, <3>2 DEF EntryIsTaken
    <2>2. CASE ~TakeSetup
      BY <1>1, <2>2 DEF BeginCycle, WorkIsKept
    <2> QED BY <2>1, <2>2
  <1>2. CASE TakeRequest
    <2>1. CASE requests = <<>>
      BY <1>2, <2>1 DEF TakeRequest, WorkIsKept
    <2>2. CASE requests # <<>>
      <3>1. /\ 1 \in Positions /\ request' = requests[1] /\ request' \in Entries
            /\ request' = Head(requests) /\ TakenOut(requests, requests', 1)
        BY <1>2, <2>2, DequeueTyped DEF TakeRequest, IInv
      <3>2. /\ pc = "take" /\ pc' = IF IsSetup(request') THEN "setup" ELSE "execute"
            /\ UNCHANGED <<submitted, gates, history, settings, bundle>>
        BY <1>2, <2>2, <3>1 DEF TakeRequest, IsSetup
      <3>3. \A i \in Positions : 1 <= i
        BY DEF Positions
      <3> QED BY <3>1, <3>2, <3>3 DEF EntryIsTaken
    <2> QED BY <2>1, <2>2
  <1>3. CASE ExecuteSetup
    <2>1. CASE ~stopping /\ playing
      <3>1. FinishSetup(FALSE) /\ UNCHANGED <<requests, request, submitted, settings>>
        BY <1>3, <2>1 DEF ExecuteSetup
      <3> QED BY <1>3, <3>1 DEF ExecuteSetup, SetupIsDone
    <2>2. CASE ~(~stopping /\ playing)
      <3>1. /\ UNCHANGED <<requests, request, submitted, setupPending, stopping, history, bundle>>
            /\ settings' = settings
        BY <1>3, <2>2 DEF ExecuteSetup, CopyToSave
      <3>2. pc = "setup" /\ ((stopping /\ pc' = "begin") \/ pc' \in {"setup_save", "prepare"})
        BY <1>3, <2>2 DEF ExecuteSetup
      <3> QED BY <3>1, <3>2 DEF WorkIsKept
    <2> QED BY <2>1, <2>2
  <1>4. CASE SaveForSetup
    <2>1. PICK ok \in BOOLEAN :
            IF ok THEN pc' = "prepare" /\ UNCHANGED <<gates, session, bundle, history>>
                  ELSE FinishSetup(FALSE)
      BY <1>4 DEF SaveForSetup
    <2>2. UNCHANGED <<requests, request, submitted, settings>>
      BY <1>4 DEF SaveForSetup, Save
    <2>3. CASE ok
      <3>1. pc = "setup_save" /\ pc' = "prepare"
        BY <1>4, <2>1, <2>3 DEF SaveForSetup
      <3>2. UNCHANGED <<requests, request, submitted, setupPending, stopping, history, bundle>>
        BY <2>1, <2>2, <2>3
      <3> QED BY <2>2, <3>1, <3>2 DEF WorkIsKept
    <2>4. CASE ~ok
      <3>1. FinishSetup(FALSE)
        BY <2>1, <2>4
      <3> QED BY <1>4, <2>2, <3>1 DEF SaveForSetup, SetupIsDone
    <2> QED BY <2>3, <2>4
  <1>5. CASE PrepareSetup
    BY <1>5 DEF PrepareSetup, SetupIsDone
  <1>6. CASE FlushSettings \/ SaveSettings
    BY <1>6 DEF FlushSettings, SaveSettings, Save, CopyToSave, WorkIsKept
  <1>7. CASE Drives
    <2>1. settings'.xemu = settings.xemu
      BY <1>7 DEF Drives, PollDrives, SelectionFails, ApplySelection, SaveSelection, IInv,
        TypeOK, Settings
    <2> QED BY <1>7, <2>1 DEF Drives, PollDrives, SelectionFails, ApplySelection,
          SaveSelection, WorkIsKept
  <1>8. CASE ExecuteAction
    <2>1. pc' \in {"launch", "media"}
      BY <1>8 DEF ExecuteAction
    <2> QED BY <1>8, <2>1 DEF ExecuteAction, ActionIsDone
  <1>9. CASE Cleanup \/ Launch \/ ObserveMedia
    BY <1>9 DEF Cleanup, Launch, ObserveMedia, WorkIsKept
  <1>10. CASE Shutdown
    BY <1>10 DEF Shutdown, FlushForGood, SaveForGood, Save, CopyToSave, Release, WorkIsKept
  <1> QED BY <1>1, <1>2, <1>3, <1>4, <1>5, <1>6, <1>7, <1>8, <1>9, <1>10
        DEF Worker, Setup, Session

\* The pending flag follows the setup requests through the queue and the hand.
LEMMA PendingKept ==
  ASSUME IInv, EntryIsMade \/ QueueIsLeft \/ EntryIsTaken \/ SetupIsDone \/ ActionIsDone
                 \/ WorkIsKept
  PROVE  PendingIsOwed'
  <1>0. Len(requests) \in Nat /\ PendingIsOwed
    BY DEF IInv, TypeOK
  <1>1. CASE EntryIsMade
    <2>1. PICK entry \in Entries :
            /\ Entered(requests, requests', entry)
            /\ ~stopping /\ UNCHANGED <<request, pc, stopping>>
            /\ IF IsSetup(entry) THEN setupPending' ELSE UNCHANGED setupPending
      BY <1>1 DEF EntryIsMade
    <2>2. InHand' <=> InHand
      BY <2>1 DEF InHand
    <2>3. ASSUME NEW i \in Positions', IsSetup(requests'[i]) PROVE setupPending'
      <3>1. i = Len(requests') \/ i \in 1 .. Len(requests') - 1
        BY <2>1 DEF Positions, Entered
      <3>2. CASE i = Len(requests')
        BY <2>1, <2>3, <3>2 DEF Entered
      <3>3. CASE i \in 1 .. Len(requests') - 1
        <4>1. i \in Positions /\ IsSetup(requests[i])
          BY <2>1, <2>3, <3>3 DEF Entered, Positions
        <4> QED BY <1>0, <2>1, <4>1 DEF PendingIsOwed
      <3> QED BY <3>1, <3>2, <3>3
    <2>4. ASSUME setupPending', ~InHand', ~stopping'
          PROVE  \E i \in Positions' : IsSetup(requests'[i])
      <3>1. Len(requests') \in Positions'
        BY <2>1 DEF Entered, Positions
      <3>2. CASE IsSetup(entry)
        BY <2>1, <3>1, <3>2 DEF Entered
      <3>3. CASE ~IsSetup(entry)
        <4>1. PICK i \in Positions : IsSetup(requests[i])
          BY <1>0, <2>1, <2>2, <2>4, <3>3 DEF PendingIsOwed
        <4>2. \/ i \in 1 .. Len(requests') - 1 /\ requests'[i] = requests[i]
              \/ IsSetup(entry)
          BY <2>1, <4>1 DEF Entered, Positions, IsSetup
        <4>3. i \in Positions'
          BY <2>1, <3>3, <4>2 DEF Entered, Positions
        <4> QED BY <3>3, <4>1, <4>2, <4>3
      <3> QED BY <3>2, <3>3
    <2>5. InHand' => setupPending'
      BY <1>0, <2>1, <2>2 DEF PendingIsOwed
    <2> QED BY <2>3, <2>4, <2>5 DEF PendingIsOwed
  <1>2. CASE QueueIsLeft
    BY <1>0, <1>2 DEF QueueIsLeft, PendingIsOwed, InHand, Positions
  <1>3. CASE EntryIsTaken
    <2>1. PICK k \in Positions :
            /\ TakenOut(requests, requests', k)
            /\ request' = requests[k]
            /\ ~InHand
            /\ pc' = IF IsSetup(request') THEN "setup" ELSE "execute"
            /\ UNCHANGED <<setupPending, stopping>>
      BY <1>3 DEF EntryIsTaken
    <2>2. InHand' <=> IsSetup(request')
      BY <2>1 DEF InHand
    <2>3. \A i \in Positions' : \E j \in Positions : requests'[i] = requests[j]
      BY <1>0, <2>1 DEF TakenOut, Positions
    <2>4. \A j \in Positions : j = k \/ \E i \in Positions' : requests'[i] = requests[j]
      BY <1>0, <2>1, TakenOutKeepsRest DEF IInv, TypeOK, Positions
    <2> QED BY <1>0, <2>1, <2>2, <2>3, <2>4 DEF PendingIsOwed
  <1>4. CASE SetupIsDone
    <2>1. /\ setupPending' = (SetupPositions(requests) # {}) /\ pc' = "begin"
          /\ requests' = requests
      BY <1>4 DEF SetupIsDone, FinishSetup, PendingAfterSetup
    <2> QED BY <2>1 DEF PendingIsOwed, InHand, Positions, SetupPositions, IsSetup
  <1>5. CASE ActionIsDone
    BY <1>0, <1>5 DEF ActionIsDone, PendingIsOwed, InHand, Positions
  <1>6. CASE WorkIsKept
    BY <1>0, <1>6 DEF WorkIsKept, PendingIsOwed, Positions
  <1> QED BY <1>1, <1>2, <1>3, <1>4, <1>5, <1>6

\* The order of submission survives a merge and a setup request that is taken
\* past the others.
LEMMA OrderKept ==
  ASSUME IInv, TypeOK', EntryIsMade \/ QueueIsLeft \/ EntryIsTaken \/ SetupIsDone
                          \/ ActionIsDone \/ WorkIsKept
  PROVE  QueueIsInOrder'
  <1>0. /\ Len(requests) \in Nat /\ QueueIsInOrder /\ submitted \in Nat
        /\ history.setup \in Nat /\ history.action \in Nat
        /\ \A i \in Positions : requests[i].path \in Nat
    <2>1. \A i \in Positions : requests[i] \in Entries
      BY ElementOfSeq DEF IInv, TypeOK, Positions
    <2> QED BY <2>1, SubmissionAssumption DEF IInv, TypeOK, Entries
  <1>1. CASE EntryIsMade
    <2>1. PICK entry \in Entries :
            /\ Entered(requests, requests', entry)
            /\ entry.path = submitted + 1 /\ submitted' = submitted + 1
            /\ UNCHANGED <<request, pc>>
            /\ history' = IF entry.kind = "import"
                            THEN [history EXCEPT !.accepted = @ \cup {entry.path}] ELSE history
      BY <1>1 DEF EntryIsMade
    <2>2. history'.setup = history.setup /\ history'.action = history.action
      BY <2>1 DEF IInv, TypeOK
    <2>3. InHand' <=> InHand
      BY <2>1 DEF InHand
    <2>4. \A i \in Positions' :
            \/ i = Len(requests') /\ requests'[i] = entry
            \/ i < Len(requests') /\ i \in Positions /\ requests'[i] = requests[i]
      BY <2>1 DEF Entered, Positions
    <2>5. \A i \in Positions' : requests'[i].path <= submitted'
      BY <1>0, <2>1, <2>4 DEF QueueIsInOrder
    <2>6. \A i, j \in Positions' : i < j => requests'[i].path < requests'[j].path
      <3> SUFFICES ASSUME NEW i \in Positions', NEW j \in Positions', i < j
                   PROVE  requests'[i].path < requests'[j].path
        OBVIOUS
      <3>1. i \in Positions /\ requests'[i] = requests[i]
        BY <2>4 DEF Positions
      <3> QED BY <1>0, <2>1, <2>4, <3>1 DEF QueueIsInOrder
    <2>7. /\ InHand' => request'.path <= submitted /\ history.setup <= request'.path
          /\ pc' = "execute" => request'.path <= submitted /\ history.action <= request'.path
          /\ request' = request
      BY <1>0, <2>1, <2>3 DEF QueueIsInOrder
    <2>8. ASSUME NEW i \in Positions', IsSetup(requests'[i])
          PROVE  /\ history'.setup <= requests'[i].path
                 /\ InHand' => request'.path <= requests'[i].path
      <3>1. history.setup <= submitted
        BY <1>0 DEF QueueIsInOrder
      <3>2. InHand' => request.path \in Nat
        BY <2>3, SubmissionAssumption DEF IInv, HandIsOfPlace, Entries
      <3> QED BY <1>0, <2>1, <2>2, <2>3, <2>4, <2>7, <2>8, <3>1, <3>2 DEF QueueIsInOrder
    <2>9. ASSUME NEW i \in Positions', IsAction(requests'[i])
          PROVE  /\ history'.action <= requests'[i].path
                 /\ pc' = "execute" => request'.path <= requests'[i].path
      <3>1. history.action <= submitted
        BY <1>0 DEF QueueIsInOrder
      <3>2. pc' = "execute" => request.path \in Nat
        BY <2>1, SubmissionAssumption DEF IInv, HandIsOfPlace, Entries
      <3> QED BY <1>0, <2>1, <2>2, <2>4, <2>7, <2>9, <3>1, <3>2 DEF QueueIsInOrder
    <2>10. /\ history'.setup <= submitted' /\ history'.action <= submitted'
           /\ InHand' => request'.path <= submitted'
           /\ pc' = "execute" => request'.path <= submitted'
      <3>1. InHand' \/ pc' = "execute" => request.path \in Nat
        BY <2>1, <2>3, SubmissionAssumption DEF IInv, HandIsOfPlace, Entries
      <3> QED BY <1>0, <2>1, <2>2, <2>7, <3>1 DEF QueueIsInOrder
    <2> QED BY <2>2, <2>5, <2>6, <2>7, <2>8, <2>9, <2>10 DEF QueueIsInOrder
  <1>2. CASE QueueIsLeft
    <2>1. /\ UNCHANGED <<requests, request, pc, history>> /\ (InHand' <=> InHand)
          /\ submitted <= submitted' /\ submitted' \in Nat
      BY <1>0, <1>2 DEF QueueIsLeft, InHand
    <2>2. InHand' \/ pc' = "execute" => request.path \in Nat
      BY <2>1, SubmissionAssumption DEF IInv, HandIsOfPlace, Entries
    <2> QED BY <1>0, <2>1, <2>2 DEF QueueIsInOrder, Positions
  <1>3. CASE EntryIsTaken
    <2>1. PICK k \in Positions :
            /\ TakenOut(requests, requests', k)
            /\ request' = requests[k] /\ request' \in Entries
            /\ \A i \in Positions : (IsSetup(requests[i]) <=> IsSetup(request')) => k <= i
            /\ pc' = IF IsSetup(request') THEN "setup" ELSE "execute"
            /\ UNCHANGED <<submitted, history>>
      BY <1>3 DEF EntryIsTaken
    <2>2. /\ InHand' <=> IsSetup(request')
          /\ pc' = "execute" <=> IsAction(request')
          /\ \A e \in Entries : IsSetup(e) <=> ~IsAction(e)
      BY <2>1 DEF InHand, IsSetup, IsAction, Entries, Kinds, SetupKinds, ActionKinds
    <2> DEFINE was(i) == IF i < k THEN i ELSE i + 1
    <2>3. \A i \in Positions' :
            /\ was(i) \in Positions /\ was(i) # k /\ requests'[i] = requests[was(i)]
            /\ requests[was(i)] \in Entries
      <3>1. \A i \in Positions' :
              was(i) \in Positions /\ was(i) # k /\ requests'[i] = requests[was(i)]
        BY <1>0, <2>1 DEF TakenOut, Positions
      <3> QED BY <3>1, ElementOfSeq DEF IInv, TypeOK, Positions
    <2>4. \A i, j \in Positions' : i < j => was(i) < was(j)
      BY <1>0 DEF Positions
    <2> HIDE DEF was
    <2>5. /\ \A i \in Positions' : requests'[i].path <= submitted'
          /\ \A i, j \in Positions' : i < j => requests'[i].path < requests'[j].path
      BY <1>0, <2>1, <2>3, <2>4 DEF QueueIsInOrder
    <2>6. /\ history'.setup <= submitted' /\ history'.action <= submitted'
          /\ request'.path <= submitted'
          /\ InHand' => history'.setup <= request'.path
          /\ pc' = "execute" => history'.action <= request'.path
      BY <1>0, <2>1, <2>2 DEF QueueIsInOrder
    <2>7. ASSUME NEW i \in Positions'
          PROVE  /\ IsSetup(requests'[i]) => history'.setup <= requests'[i].path
                 /\ IsAction(requests'[i]) => history'.action <= requests'[i].path
      BY <1>0, <2>1, <2>3 DEF QueueIsInOrder
    <2>8. ASSUME NEW i \in Positions', IsSetup(requests'[i]) <=> IsSetup(request')
          PROVE  request'.path <= requests'[i].path
      <3>1. k < was(i)
        <4>1. k <= was(i) /\ was(i) # k
          BY <2>1, <2>3, <2>8
        <4>2. k \in Nat /\ was(i) \in Nat
          BY <2>3 DEF Positions
        <4> QED BY <4>1, <4>2
      <3> QED BY <1>0, <2>1, <2>3, <3>1 DEF QueueIsInOrder
    <2>9. ASSUME NEW i \in Positions'
          PROVE  IsSetup(requests'[i]) <=> ~IsAction(requests'[i])
      BY <2>2, <2>3
    <2> QED BY <2>1, <2>2, <2>5, <2>6, <2>7, <2>8, <2>9 DEF QueueIsInOrder
  <1>4. CASE SetupIsDone
    <2>1. /\ InHand /\ pc' = "begin" /\ UNCHANGED <<requests, request, submitted>>
          /\ history'.setup = request.path /\ history'.action = history.action
      BY <1>4 DEF SetupIsDone, FinishSetup, IInv, TypeOK
    <2> QED BY <1>0, <2>1 DEF QueueIsInOrder, InHand, Positions
  <1>5. CASE ActionIsDone
    <2>1. history'.setup = history.setup /\ history'.action = request.path
      BY <1>5 DEF ActionIsDone, IInv, TypeOK
    <2> QED BY <1>0, <1>5, <2>1 DEF ActionIsDone, QueueIsInOrder, Positions
  <1>6. CASE WorkIsKept
    BY <1>0, <1>6 DEF WorkIsKept, QueueIsInOrder, Positions
  <1> QED BY <1>1, <1>2, <1>3, <1>4, <1>5, <1>6

\* A choice of xemu stays the one in force until it is described, because no
\* other is accepted before.
LEMMA ChoiceKept ==
  ASSUME IInv, EntryIsMade \/ QueueIsLeft \/ EntryIsTaken \/ SetupIsDone \/ ActionIsDone
                 \/ WorkIsKept
  PROVE  ChoiceIsOnItsWay'
  <1>0. Len(requests) \in Nat /\ ChoiceIsOnItsWay /\ PendingIsOwed
    BY DEF IInv, TypeOK
  <1>00. \A e : IsXemu(e) => IsSetup(e) /\ ~(e.kind = "import")
    BY DEF IsXemu, IsSetup, SetupKinds
  <1>1. CASE EntryIsMade
    <2>1. PICK entry \in Entries :
            /\ Entered(requests, requests', entry)
            /\ UNCHANGED <<request, pc, stopping, bundle>>
            /\ IF IsSetup(entry) THEN setupPending' ELSE UNCHANGED setupPending
            /\ IF IsXemu(entry) THEN ~setupPending /\ settings'.xemu = entry.path
                                ELSE settings'.xemu = settings.xemu
      BY <1>1 DEF EntryIsMade
    <2>2. InHand' <=> InHand
      BY <2>1 DEF InHand
    <2>3. /\ Len(requests') \in Positions' /\ requests'[Len(requests')] = entry
          /\ \A i \in Positions' :
               \/ requests'[i] = entry
               \/ i \in Positions /\ requests'[i] = requests[i]
          /\ \A i \in Positions :
               \/ requests[i].kind = entry.kind
               \/ i \in Positions' /\ requests'[i] = requests[i]
      BY <2>1 DEF Entered, Positions
    <2>4. CASE IsXemu(entry)
      <3>1. ~InHand /\ \A i \in Positions : ~IsXemu(requests[i])
        BY <1>0, <1>00, <2>1, <2>4 DEF PendingIsOwed
      <3> QED BY <2>1, <2>2, <2>3, <2>4, <3>1 DEF ChoiceIsOnItsWay
    <2>5. CASE ~IsXemu(entry)
      <3>1. \A i \in Positions :
              IsXemu(requests[i]) => i \in Positions' /\ requests'[i] = requests[i]
        BY <2>3, <2>5 DEF IsXemu
      <3>2. setupPending => setupPending'
        BY <2>1
      <3> QED BY <1>0, <2>1, <2>2, <2>3, <2>5, <3>1, <3>2 DEF ChoiceIsOnItsWay
    <2> QED BY <2>4, <2>5
  <1>2. CASE QueueIsLeft
    BY <1>0, <1>2 DEF QueueIsLeft, ChoiceIsOnItsWay, InHand, Positions
  <1>3. CASE EntryIsTaken
    <2>1. PICK k \in Positions :
            /\ TakenOut(requests, requests', k)
            /\ request' = requests[k]
            /\ ~InHand
            /\ stopping => pc \notin EndPoints \cup {"begin"}
            /\ pc' = IF IsSetup(request') THEN "setup" ELSE "execute"
            /\ UNCHANGED <<setupPending, stopping, settings, bundle>>
      BY <1>3 DEF EntryIsTaken
    <2>2. InHand' <=> IsSetup(request')
      BY <2>1 DEF InHand
    <2>3. \A i \in Positions' : \E j \in Positions : requests'[i] = requests[j]
      BY <1>0, <2>1 DEF TakenOut, Positions
    <2>4. \A j \in Positions : j = k \/ \E i \in Positions' : requests'[i] = requests[j]
      BY <1>0, <2>1, TakenOutKeepsRest DEF IInv, TypeOK, Positions
    <2>5. \A i \in Positions' : IsXemu(requests'[i]) => requests'[i].path = settings.xemu
      BY <1>0, <2>3 DEF ChoiceIsOnItsWay
    <2>6. IsXemu(request') => request'.path = settings.xemu /\ InHand'
      BY <1>0, <1>00, <2>1, <2>2 DEF ChoiceIsOnItsWay
    <2>7. \/ bundle = settings.xemu
          \/ IsXemu(request') /\ InHand'
          \/ \E i \in Positions' : IsXemu(requests'[i])
      BY <1>0, <2>1, <2>4, <2>6 DEF ChoiceIsOnItsWay
    <2> QED BY <2>1, <2>5, <2>6, <2>7 DEF ChoiceIsOnItsWay
  <1>4. CASE SetupIsDone
    <2>1. PICK prepared \in BOOLEAN : FinishSetup(prepared) /\ (prepared => pc = "prepare")
      BY <1>4 DEF SetupIsDone
    <2>2. UNCHANGED <<requests, request, settings>> /\ InHand /\ ~InHand'
      BY <1>4, <2>1 DEF SetupIsDone, FinishSetup, InHand
    <2>3. prepared => saving.xemu = settings.xemu
      BY <2>1 DEF IInv, CleanIsSaved
    <2>4. \/ bundle' = settings.xemu
          \/ bundle' = bundle /\ ~IsXemu(request)
      BY <1>0, <2>1, <2>2, <2>3
        DEF FinishSetup, BundleAfterSetup, Chosen, ChoiceIsOnItsWay, IsXemu
    <2>5. pc \notin EndPoints \cup {"begin"}
      BY <2>2 DEF InHand, EndPoints
    <2> QED BY <1>0, <2>2, <2>4, <2>5 DEF ChoiceIsOnItsWay, Positions
  <1>5. CASE ActionIsDone
    BY <1>0, <1>5 DEF ActionIsDone, ChoiceIsOnItsWay, InHand, Positions, EndPoints
  <1>6. CASE WorkIsKept
    BY <1>0, <1>6 DEF WorkIsKept, ChoiceIsOnItsWay, PendingIsOwed, Positions
  <1> QED BY <1>1, <1>2, <1>3, <1>4, <1>5, <1>6

\* An import waits, is in hand, or was served.
LEMMA ImportsKept ==
  ASSUME IInv, EntryIsMade \/ QueueIsLeft \/ EntryIsTaken \/ SetupIsDone \/ ActionIsDone
                 \/ WorkIsKept
  PROVE  ImportsAreServed'
  <1> DEFINE Held == IF InHand /\ request.kind = "import" THEN {request.path} ELSE {}
  <1> SUFFICES ASSUME ~stopping'
               PROVE  history'.accepted = history'.served \cup Queued("import")' \cup Held'
    BY DEF ImportsAreServed
  <1>0. /\ Len(requests) \in Nat /\ TypeOK
        /\ ~stopping => history.accepted = history.served \cup Queued("import") \cup Held
    BY DEF IInv, TypeOK, ImportsAreServed
  <1>00. \A p : p \in Queued("import")
                 <=> \E i \in Positions : requests[i].kind = "import" /\ requests[i].path = p
    BY <1>0, LenProperties DEF Queued, Positions, TypeOK
  <1>1. CASE EntryIsMade
    <2>1. PICK entry \in Entries :
            /\ Entered(requests, requests', entry)
            /\ ~stopping /\ UNCHANGED <<request, pc>>
            /\ history' = IF entry.kind = "import"
                            THEN [history EXCEPT !.accepted = @ \cup {entry.path}] ELSE history
      BY <1>1 DEF EntryIsMade
    <2>2. \A p : p \in Queued("import")'
                   <=> \E i \in Positions' : requests'[i].kind = "import" /\ requests'[i].path = p
      <3>1. requests' \in Seq(Entries)
        BY <2>1 DEF Entered
      <3> QED BY <3>1, LenProperties DEF Queued, Positions
    <2>3. /\ Len(requests') \in Positions' /\ requests'[Len(requests')] = entry
          /\ \A i \in Positions' :
               \/ requests'[i] = entry
               \/ i \in Positions /\ requests'[i] = requests[i]
          /\ \A i \in Positions :
               \/ requests[i].kind = entry.kind /\ entry.kind # "import"
               \/ i \in Positions' /\ requests'[i] = requests[i]
      BY <2>1 DEF Entered, Positions
    <2>4. Queued("import")' = IF entry.kind = "import" THEN Queued("import") \cup {entry.path}
                                                       ELSE Queued("import")
      <3>1. \A p : p \in Queued("import")'
                     <=> p \in Queued("import") \/ (entry.kind = "import" /\ entry.path = p)
        BY <1>00, <2>2, <2>3
      <3> QED BY <3>1
    <2>5. Held' = Held
      BY <2>1 DEF InHand
    <2>6. /\ history'.served = history.served
          /\ history'.accepted = IF entry.kind = "import" THEN history.accepted \cup {entry.path}
                                                          ELSE history.accepted
      BY <1>0, <2>1 DEF TypeOK
    <2> HIDE DEF Held
    <2> QED BY <1>0, <2>1, <2>4, <2>5, <2>6
  <1>2. CASE QueueIsLeft
    <2>1. Held' = Held /\ Queued("import")' = Queued("import") /\ history' = history /\ ~stopping
      BY <1>2 DEF QueueIsLeft, InHand, Queued
    <2> QED BY <1>0, <2>1
  <1>3. CASE EntryIsTaken
    <2>1. PICK k \in Positions :
            /\ TakenOut(requests, requests', k)
            /\ request' = requests[k]
            /\ ~InHand
            /\ pc' = IF IsSetup(request') THEN "setup" ELSE "execute"
            /\ UNCHANGED <<stopping, history>>
      BY <1>3 DEF EntryIsTaken
    <2>2. \A p : p \in Queued("import")'
                   <=> \E i \in Positions' : requests'[i].kind = "import" /\ requests'[i].path = p
      <3>1. requests' \in Seq(Entries)
        BY <2>1 DEF TakenOut
      <3> QED BY <3>1, LenProperties DEF Queued, Positions
    <2>3. /\ \A i \in Positions' : \E j \in Positions : requests'[i] = requests[j]
          /\ \A j \in Positions : j = k \/ \E i \in Positions' : requests'[i] = requests[j]
      <3>1. \A i \in Positions' : \E j \in Positions : requests'[i] = requests[j]
        BY <1>0, <2>1 DEF TakenOut, Positions
      <3>2. \A j \in Positions : j = k \/ \E i \in Positions' : requests'[i] = requests[j]
        BY <1>0, <2>1, TakenOutKeepsRest DEF TypeOK, Positions
      <3> QED BY <3>1, <3>2
    <2>4. Held = {} /\ Held' = IF request'.kind = "import" THEN {request'.path} ELSE {}
      BY <2>1 DEF InHand, IsSetup, SetupKinds
    <2>5. \A p : p \in Queued("import")
                   <=> \/ p \in Queued("import")'
                       \/ request'.kind = "import" /\ p = request'.path
      BY <1>00, <2>1, <2>2, <2>3
    <2> HIDE DEF Held
    <2>6. Queued("import") = Queued("import")' \cup Held'
      BY <2>4, <2>5
    <2> QED BY <1>0, <2>1, <2>4, <2>6
  <1>4. CASE SetupIsDone
    <2>1. /\ InHand /\ ~InHand' /\ UNCHANGED <<requests, stopping>>
          /\ history'.accepted = history.accepted
          /\ history'.served = history.served \cup Held
      BY <1>0, <1>4 DEF SetupIsDone, FinishSetup, InHand, TypeOK
    <2>2. Held' = {} /\ Queued("import")' = Queued("import")
      BY <2>1 DEF Queued
    <2> HIDE DEF Held
    <2> QED BY <1>0, <2>1, <2>2
  <1>5. CASE ActionIsDone
    <2>1. /\ history'.accepted = history.accepted /\ history'.served = history.served
          /\ Queued("import")' = Queued("import") /\ ~stopping
      BY <1>0, <1>5 DEF ActionIsDone, TypeOK, Queued
    <2>2. Held = {} /\ Held' = {}
      BY <1>5 DEF ActionIsDone, InHand
    <2> HIDE DEF Held
    <2> QED BY <1>0, <2>1, <2>2
  <1>6. CASE WorkIsKept
    <2>1. /\ history' = history /\ ~stopping
          /\ Queued("import")' = Queued("import") /\ Held' = Held
      BY <1>6 DEF WorkIsKept, Queued
    <2> QED BY <1>0, <2>1
  <1> QED BY <1>1, <1>2, <1>3, <1>4, <1>5, <1>6

-----------------------------------------------------------------------------
(* The copies of the settings.                                             *)

\* What the user changes is dirty from then on; a choice of xemu is not
\* accepted while a setup works with the one before.
LEMMA UserKeepsFile ==
  ASSUME IInv, User
  PROVE  CleanIsSaved' /\ PreparedChoiceIsSaved'
  <1>0. CleanIsSaved /\ PreparedChoiceIsSaved /\ HandIsOfPlace /\ TypeOK /\ PendingIsOwed
    BY DEF IInv
  <1>1. UNCHANGED <<pc, saving, disk, reported>>
    BY DEF User, work, saved
  <1>2. pc = "prepare" => UNCHANGED request
    BY <1>0 DEF User, Submit, SubmitSetup, SetDisplay, SelectDrive, Destroy, Enqueue, queueVars
  <1>3. \/ UNCHANGED <<settings, dirty>>
        \/ /\ dirty' = TRUE /\ ~stopping
           /\ settings'.xemu = settings.xemu \/ ~setupPending
    BY <1>0 DEF User, Submit, SubmitSetup, SetDisplay, SelectDrive, Destroy, choices, TypeOK,
      Settings
  <1>4. pc \in {"setup_save", "prepare"} => setupPending
    BY <1>0 DEF PendingIsOwed, InHand
  <1> QED BY <1>0, <1>1, <1>2, <1>3, <1>4
        DEF CleanIsSaved, PreparedChoiceIsSaved, SameFile, HandIsOfPlace, EndPoints

\* A save that fails leaves the settings dirty; what is copied is saved, or
\* dirty again.
LEMMA WorkerKeepsFile ==
  ASSUME IInv, Worker
  PROVE  CleanIsSaved' /\ PreparedChoiceIsSaved'
  <1>0. /\ CleanIsSaved /\ PreparedChoiceIsSaved /\ HandIsOfPlace /\ TypeOK /\ ChoiceIsOnItsWay
        /\ dirty \in BOOLEAN
    BY DEF IInv, TypeOK
  <1> USE DEF CleanIsSaved, PreparedChoiceIsSaved, SameFile, SavePoints, HandIsOfPlace,
              EndPoints, queueVars, choices, gates, session, saved
  <1>1. CASE BeginCycle
    BY <1>0, <1>1 DEF BeginCycle
  <1>2. CASE ExecuteSetup
    <2>1. UNCHANGED <<request, settings, disk, reported>>
      BY <1>2 DEF ExecuteSetup, CopyToSave
    <2>2. \/ pc' = "begin" /\ UNCHANGED dirty
          \/ pc' = "setup_save" /\ ~dirty' /\ saving' = settings
          \/ /\ pc' = "prepare" /\ UNCHANGED dirty /\ saving' = settings
             /\ request.kind = "set_xemu" => ~dirty
      BY <1>2 DEF ExecuteSetup, FinishSetup, CopyToSave, FlushIsDue
    <2>3. request.kind = "set_xemu" => request.path = settings.xemu
      BY <1>0, <1>2 DEF ExecuteSetup, ChoiceIsOnItsWay, InHand, IsXemu
    <2> QED BY <1>0, <1>2, <2>1, <2>2, <2>3 DEF ExecuteSetup
  <1>3. CASE SaveForSetup
    <2>1. UNCHANGED <<request, settings, saving, reported>>
      BY <1>3 DEF SaveForSetup, Save
    <2>2. \/ pc' = "prepare" /\ disk' = saving /\ dirty' = dirty
          \/ pc' = "begin" /\ disk' = disk /\ dirty'
      BY <1>0, <1>3 DEF SaveForSetup, Save, DirtyAfterSave, FinishSetup
    <2>3. request.kind = "set_xemu" => request.path = settings.xemu
      BY <1>0, <1>3 DEF SaveForSetup, ChoiceIsOnItsWay, InHand, IsXemu
    <2> QED BY <1>0, <1>3, <2>1, <2>2, <2>3 DEF SaveForSetup
  <1>4. CASE PrepareSetup
    BY <1>0, <1>4 DEF PrepareSetup, FinishSetup
  <1>5. CASE FlushSettings
    BY <1>0, <1>5 DEF FlushSettings, CopyToSave
  <1>6. CASE SaveSettings
    <2>1. UNCHANGED <<settings, reported>>
      BY <1>6 DEF SaveSettings, Save
    <2>2. \/ pc' = "drives" /\ disk' = saving /\ dirty' = dirty
          \/ pc' = "begin" /\ dirty'
      BY <1>0, <1>6 DEF SaveSettings, Save, DirtyAfterSave
    <2> QED BY <1>0, <1>6, <2>1, <2>2 DEF SaveSettings
  <1>7. CASE PollDrives \/ SelectionFails
    BY <1>0, <1>7 DEF PollDrives, SelectionFails
  <1>8. CASE ApplySelection
    <2>1. settings'.xemu = settings.xemu /\ settings'.display = settings.display
      BY <1>0, <1>8 DEF ApplySelection, TypeOK, Settings
    <2> QED BY <1>0, <1>8, <2>1 DEF ApplySelection
  <1>9. CASE SaveSelection
    BY <1>0, <1>9 DEF SaveSelection
  <1>10. CASE Cleanup \/ ExecuteAction \/ Launch \/ ObserveMedia
    BY <1>0, <1>10 DEF Cleanup, ExecuteAction, Launch, ObserveMedia
  <1>11. CASE TakeRequest
    BY <1>0, <1>11 DEF TakeRequest
  <1>12. CASE FlushForGood
    <2>1. UNCHANGED <<settings, disk, reported>>
      BY <1>12 DEF FlushForGood, CopyToSave
    <2>2. \/ pc' = "last_save" /\ ~dirty' /\ saving' = settings
          \/ pc' = "release" /\ ~dirty /\ UNCHANGED dirty
      BY <1>0, <1>12 DEF FlushForGood, CopyToSave, FlushIsDue
    <2> QED BY <1>0, <1>12, <2>1, <2>2 DEF FlushForGood
  <1>13. CASE SaveForGood
    <2>1. UNCHANGED settings /\ pc' = "release"
      BY <1>13 DEF SaveForGood, Save
    <2>2. \/ disk' = saving /\ dirty' = dirty
          \/ dirty' /\ reported'
      BY <1>0, <1>13 DEF SaveForGood, Save, DirtyAfterSave
    <2> QED BY <1>0, <1>13, <2>1, <2>2 DEF SaveForGood
  <1>14. CASE Release
    BY <1>0, <1>14 DEF Release
  <1> QED BY <1>1, <1>2, <1>3, <1>4, <1>5, <1>6, <1>7, <1>8, <1>9, <1>10, <1>11, <1>12, <1>13,
            <1>14 DEF Worker, Setup, Drives, Session, Shutdown

-----------------------------------------------------------------------------
\* The types, and what is known of the requests, the choices and the copies at
\* each place of the worker's cycle, hold throughout.
LEMMA RequestsInvariant ==
  ASSUME CapacityAssumption, SubmissionAssumption
  PROVE  Spec => []IInv
  <1>1. Init => IInv
    BY InitKeeps
  <1>2. IInv /\ [Next]_vars => IInv'
    <2> SUFFICES ASSUME IInv, [Next]_vars PROVE IInv'
      OBVIOUS
    <2>1. CASE User
      <3>1. TypeOK' /\ HandIsOfPlace'
        BY <2>1, UserTyped
      <3>2. EntryIsMade \/ QueueIsLeft
        BY <2>1, UserOnQueue
      <3> QED BY <2>1, <3>1, <3>2, PendingKept, OrderKept, ChoiceKept, ImportsKept,
                UserKeepsFile DEF IInv
    <2>2. CASE Worker
      <3>1. TypeOK' /\ HandIsOfPlace'
        BY <2>2, QueueStepTyped, SetupTyped, CycleTyped, SessionTyped DEF Worker, Session
      <3>2. EntryIsTaken \/ SetupIsDone \/ ActionIsDone \/ WorkIsKept
        BY <2>2, WorkerOnQueue
      <3> QED BY <2>2, <3>1, <3>2, PendingKept, OrderKept, ChoiceKept, ImportsKept,
                WorkerKeepsFile DEF IInv
    <2>3. CASE UNCHANGED vars
      <3>1. EntryIsTaken \/ SetupIsDone \/ ActionIsDone \/ WorkIsKept
        BY <2>3 DEF vars, queueVars, choices, gates, work, session, WorkIsKept, InHand
      <3>2. TypeOK' /\ HandIsOfPlace' /\ CleanIsSaved' /\ PreparedChoiceIsSaved'
        BY <2>3 DEF IInv, TypeOK, HandIsOfPlace, CleanIsSaved, PreparedChoiceIsSaved, InHand,
          vars, queueVars, choices, gates, work, session, saved
      <3> QED BY <3>1, <3>2, PendingKept, OrderKept, ChoiceKept, ImportsKept DEF IInv
    <2> QED BY <2>1, <2>2, <2>3 DEF Next
  <1> QED BY <1>1, <1>2, PTL DEF Spec

\* RequestsAreAccountedFor: for a queue of any length and any submissions, no
\* accepted import is lost, the flag that closes the setup pages is exact
\* (gdox_runtime_setup_submit), and the xemu that is described and the one on
\* disk are those the user chose, whatever failed.
THEOREM NoRequestIsLost ==
  ASSUME CapacityAssumption, SubmissionAssumption
  PROVE  Spec => []RequestsAreAccountedFor
  <1>1. IInv => RequestsAreAccountedFor
    <2> SUFFICES ASSUME IInv PROVE RequestsAreAccountedFor
      OBVIOUS
    <2>1. PendingIsExact
      <3>1. (SetupPositions(requests) # {}) <=> \E i \in Positions : IsSetup(requests[i])
        BY DEF SetupPositions, Positions, IsSetup
      <3>2. setupPending \in BOOLEAN
        BY DEF IInv, TypeOK
      <3> QED BY <3>1, <3>2 DEF PendingIsExact, PendingIsOwed, IInv
    <2>2. BundleIsOfChoice
      <3>1. \A e : IsXemu(e) => IsSetup(e)
        BY DEF IsXemu, IsSetup, SetupKinds
      <3> QED BY <3>1 DEF BundleIsOfChoice, ChoiceIsOnItsWay, PendingIsOwed, IInv
    <2> QED BY <2>1, <2>2 DEF RequestsAreAccountedFor, IInv
  <1> QED BY <1>1, RequestsInvariant, PTL

\* SettingsReachDisk: when the worker ends, the xemu and display settings in
\* force are on disk or the failure was reported (gdox_runtime_cleanup),
\* whatever saves failed before.
THEOREM SettingsAreSavedAtEnd ==
  ASSUME CapacityAssumption, SubmissionAssumption
  PROVE  Spec => []SettingsReachDisk
  <1>1. IInv => SettingsReachDisk
    BY DEF IInv, CleanIsSaved, SettingsReachDisk, SameFile, SavePoints
  <1> QED BY <1>1, RequestsInvariant, PTL

\* ServedInOrder: setup requests and actions are each carried out in the order
\* of their submission, although setup passes the actions in the queue
\* (gdox_runtime_setup_take_request) and a submission can replace another.
THEOREM RequestsKeepTheirOrder ==
  ASSUME CapacityAssumption, SubmissionAssumption
  PROVE  Spec => ServedInOrder
  <1>1. IInv /\ [Next]_vars => [history'.setup >= history.setup
                                 /\ history'.action >= history.action]_vars
    <2> SUFFICES ASSUME IInv, Next
                 PROVE  history'.setup >= history.setup /\ history'.action >= history.action
      OBVIOUS
    <2>1. history.setup \in Nat /\ history.action \in Nat /\ TypeOK /\ QueueIsInOrder
      BY SubmissionAssumption DEF IInv, TypeOK
    <2>2. EntryIsMade \/ QueueIsLeft \/ EntryIsTaken \/ SetupIsDone \/ ActionIsDone \/ WorkIsKept
      BY UserOnQueue, WorkerOnQueue DEF Next
    <2>3. CASE EntryIsMade \/ QueueIsLeft \/ EntryIsTaken \/ WorkIsKept
      <3>1. history'.setup = history.setup /\ history'.action = history.action
        BY <2>1, <2>3 DEF EntryIsMade, QueueIsLeft, EntryIsTaken, WorkIsKept, TypeOK
      <3> QED BY <2>1, <3>1
    <2>4. CASE SetupIsDone
      <3>1. /\ history'.setup = request.path /\ history'.action = history.action
            /\ history.setup <= request.path /\ request.path \in Nat
        BY <2>1, <2>4, SubmissionAssumption DEF SetupIsDone, FinishSetup, TypeOK, QueueIsInOrder,
          IInv, HandIsOfPlace, Entries
      <3> QED BY <2>1, <3>1
    <2>5. CASE ActionIsDone
      <3>1. /\ history'.setup = history.setup /\ history'.action = request.path
            /\ history.action <= request.path /\ request.path \in Nat
        BY <2>1, <2>5, SubmissionAssumption DEF ActionIsDone, TypeOK, QueueIsInOrder,
          IInv, HandIsOfPlace, Entries
      <3> QED BY <2>1, <3>1
    <2> QED BY <2>2, <2>3, <2>4, <2>5
  <1> QED BY <1>1, RequestsInvariant, PTL DEF Spec, ServedInOrder
=============================================================================
