---------------------------- MODULE UsbBotProofs ----------------------------
(***************************************************************************)
(* Whatever fails, and however often, in the claims, resets, reopenings    *)
(* and restorations of the USB transport: no drive is left without its     *)
(* kernel driver by a transport that does not know of it, the drive in use *)
(* answers to the name and place of the one that was asked for, and a      *)
(* command is told of itself.                                              *)
(***************************************************************************)
EXTENDS MCUsbBot, FiniteSetTheorems, SequenceTheorems, TLAPS

-----------------------------------------------------------------------------
(* The frames.                                                             *)

Ops == {"open", "command", "reset", "reopen", "match", "restore", "close"}
Steps == {"opened", "cbw", "data", "csw", "failed", "begin", "reopened", "try", "tried",
          "list", "claim", "inquired", "discard", "discarded", "release", "attach",
          "prepared"}
Kinds == {"in", "out", "none", "inquiry"}
Gots == {"nothing", "own", "like", "stale"}

Frames == [op : Ops, step : Steps, arg : Kinds \cup Range(Identities), tag : Nat,
           n : Nat, got : Gots]

\* The places at which a frame runs, and those at which it waits for another.
Runs == {<<"command", "cbw">>, <<"command", "data">>, <<"command", "csw">>,
         <<"reset", "begin">>, <<"reopen", "begin">>,
         <<"match", "list">>, <<"match", "claim">>, <<"match", "discard">>,
         <<"restore", "release">>, <<"restore", "attach">>}
Waits == {<<"open", "opened", "match">>, <<"command", "failed", "reset">>,
          <<"reset", "reopened", "reopen">>, <<"reopen", "try", "restore">>,
          <<"reopen", "tried", "match">>, <<"match", "inquired", "command">>,
          <<"match", "discarded", "restore">>, <<"close", "prepared", "restore">>}

Running(f) == <<f.op, f.step>> \in Runs
WaitsFor(f, op) == <<f.op, f.step, op>> \in Waits
Waiting(f) == \E op \in Ops : WaitsFor(f, op)

\* Every frame but the last waits for the one above it, and the last runs, or
\* has been answered.
Chain ==
    /\ stack \in Seq(Frames) /\ ret \in {"none", "ok", "fail"}
    /\ \A i \in 1 .. Len(stack) - 1 : WaitsFor(stack[i], stack[i + 1].op)
    /\ stack = <<>> => ret = "none"
    /\ stack # <<>> => IF ret = "none" THEN Running(Top) ELSE Waiting(Top)

\* What a step leaves on top: the same frame elsewhere, a new one, or one
\* that has got its answer.
Moves(f, r) == stack' # <<>> /\ Top' = f /\ ret' = r
Answered(op, r) == \/ stack' = <<>> /\ ret' = "none"
                   \/ stack' # <<>> /\ ret' = r /\ WaitsFor(Top', op)

\* The top of a stack that is not empty.
LEMMA TopIsFrame ==
  ASSUME Chain, stack # <<>>
  PROVE  Len(stack) \in Nat \ {0} /\ Top = stack[Len(stack)] /\ Top \in Frames
  BY DEF Chain, Top

\* The top frame changes.
LEMMA ToppedIsChain ==
  ASSUME Chain, stack # <<>>, NEW f \in Frames, f.op = Top.op,
         stack' = [stack EXCEPT ![Len(stack)] = f], ret' \in {"none", "ok", "fail"},
         IF ret' = "none" THEN Running(f) ELSE Waiting(f)
  PROVE  Chain' /\ Moves(f, ret')
  <1>1. Len(stack) \in Nat \ {0}
    BY TopIsFrame
  <1>2. /\ stack' \in Seq(Frames) /\ Len(stack') = Len(stack) /\ stack' # <<>>
        /\ stack'[Len(stack)] = f
        /\ \A i \in 1 .. Len(stack) - 1 : stack'[i] = stack[i]
    BY <1>1 DEF Chain
  <1>3. ASSUME NEW i \in 1 .. Len(stack) - 1
        PROVE  WaitsFor(stack'[i], stack'[i + 1].op)
    <2>1. WaitsFor(stack[i], stack[i + 1].op)
      BY DEF Chain
    <2>2. stack'[i + 1].op = stack[i + 1].op
      <3>1. CASE i + 1 = Len(stack)
        BY <1>2, <3>1 DEF Top
      <3>2. CASE i + 1 \in 1 .. Len(stack) - 1
        BY <1>2, <3>2
      <3> QED BY <1>1, <3>1, <3>2
    <2> QED BY <1>2, <2>1, <2>2
  <1> QED BY <1>2, <1>3 DEF Chain, Top, Moves

\* A frame is called, over a top frame that waits for it.
LEMMA CalledIsChain ==
  ASSUME Chain, stack # <<>>, NEW f \in Frames, f.op = Top.op, NEW g \in Frames,
         WaitsFor(f, g.op), Running(g),
         stack' = Append([stack EXCEPT ![Len(stack)] = f], g), ret' = "none"
  PROVE  Chain' /\ Moves(g, "none")
  <1>1. Len(stack) \in Nat \ {0}
    BY TopIsFrame
  <1>2. /\ stack' \in Seq(Frames) /\ Len(stack') = Len(stack) + 1 /\ stack' # <<>>
        /\ stack'[Len(stack)] = f /\ stack'[Len(stack) + 1] = g
        /\ \A i \in 1 .. Len(stack) - 1 : stack'[i] = stack[i]
    BY <1>1 DEF Chain
  <1>3. ASSUME NEW i \in 1 .. Len(stack)
        PROVE  WaitsFor(stack'[i], stack'[i + 1].op)
    <2>1. CASE i = Len(stack)
      BY <1>2, <2>1
    <2>2. CASE i \in 1 .. Len(stack) - 1
      <3>1. WaitsFor(stack[i], stack[i + 1].op)
        BY <2>2 DEF Chain
      <3>2. stack'[i + 1].op = stack[i + 1].op
        <4>1. CASE i + 1 = Len(stack)
          BY <1>2, <4>1 DEF Top
        <4>2. CASE i + 1 \in 1 .. Len(stack) - 1
          BY <1>2, <4>2
        <4> QED BY <1>1, <2>2, <4>1, <4>2
      <3> QED BY <1>2, <2>2, <3>1, <3>2
    <2> QED BY <1>1, <2>1, <2>2
  <1> QED BY <1>1, <1>2, <1>3 DEF Chain, Top, Moves

\* The top frame ends and answers the one below it.
LEMMA ReturnedIsChain ==
  ASSUME Chain, stack # <<>>, NEW r \in {"ok", "fail"}, Return(r)
  PROVE  /\ Chain' /\ Answered(Top.op, r)
         /\ Top.op \in {"open", "close"} => stack' = <<>>
  <1>1. Len(stack) \in Nat \ {0}
    BY TopIsFrame
  <1>2. /\ stack' \in Seq(Frames) /\ Len(stack') = Len(stack) - 1
        /\ \A i \in 1 .. Len(stack) - 1 : stack'[i] = stack[i]
    <2>1. stack' = SubSeq(stack, 1, Len(stack) - 1) /\ stack \in Seq(Frames)
      BY DEF Chain, Return, Front
    <2>2. \A i \in 1 .. Len(stack) - 1 : stack[i] \in Frames
      BY <1>1, <2>1
    <2>3. /\ stack' \in Seq(Frames)
          /\ Len(stack') = IF 1 <= Len(stack) - 1 THEN Len(stack) - 1 - 1 + 1 ELSE 0
          /\ \A i \in 1 .. Len(stack) - 1 - 1 + 1 : stack'[i] = stack[1 + i - 1]
      BY <1>1, <2>1, <2>2, SubSeqProperties
    <2>4. \A m \in Nat \ {0} : /\ (IF 1 <= m - 1 THEN m - 1 - 1 + 1 ELSE 0) = m - 1
                               /\ m - 1 - 1 + 1 = m - 1
      OBVIOUS
    <2>5. /\ (IF 1 <= Len(stack) - 1 THEN Len(stack) - 1 - 1 + 1 ELSE 0) = Len(stack) - 1
          /\ Len(stack) - 1 - 1 + 1 = Len(stack) - 1
      BY <1>1, <2>4
    <2>6. ASSUME NEW i \in 1 .. Len(stack) - 1 PROVE stack'[i] = stack[i]
      <3>1. i \in Int /\ 1 + i - 1 = i
        OBVIOUS
      <3> QED BY <2>3, <2>5, <3>1
    <2> QED BY <2>3, <2>5, <2>6
  <1>6. ret' = IF Len(stack) = 1 THEN "none" ELSE r
    BY DEF Return
  <1>3. CASE Len(stack) = 1
    <2>1. stack' = <<>> /\ Len(stack') = 0 /\ ret' = "none"
      BY <1>2, <1>3, <1>6
    <2> QED BY <1>2, <2>1 DEF Chain, Answered
  <1>4. CASE Len(stack) > 1
    <2>1. WaitsFor(stack[Len(stack) - 1], stack[Len(stack) - 1 + 1].op)
      BY <1>1, <1>4 DEF Chain
    <2>2. Top' = stack[Len(stack) - 1] /\ stack' # <<>> /\ ret' = r
      BY <1>1, <1>2, <1>4, <1>6 DEF Top
    <2>3. WaitsFor(Top', Top.op) /\ Top.op \in Ops
      BY <1>1, <2>1, <2>2, TopIsFrame DEF Top, Frames
    <2>4. \A i \in 1 .. Len(stack') - 1 : WaitsFor(stack'[i], stack'[i + 1].op)
      BY <1>1, <1>2 DEF Chain
    <2>5. Top.op \notin {"open", "close"}
      BY <2>3 DEF WaitsFor, Waits
    <2> QED BY <1>2, <2>2, <2>3, <2>4, <2>5 DEF Chain, Answered, Waiting
  <1>5. Len(stack) = 1 \/ Len(stack) > 1
    <2>1. \A m \in Nat \ {0} : m = 1 \/ m > 1
      OBVIOUS
    <2> QED BY <1>1, <2>1
  <1> QED BY <1>3, <1>4, <1>5

\* A frame goes on at another place of its own.
LEMMA GoesOn ==
  ASSUME Chain, stack # <<>>, NEW s \in Steps, Go(s), <<Top.op, s>> \in Runs
  PROVE  Chain' /\ Moves([Top EXCEPT !.step = s], "none")
  <1> DEFINE f == [Top EXCEPT !.step = s]
  <1>1. f \in Frames /\ f.op = Top.op /\ f.step = s
    BY TopIsFrame DEF Frames
  <1>2. stack' = [stack EXCEPT ![Len(stack)] = f] /\ ret' = "none"
    BY DEF Go, InStep, Top
  <1> HIDE DEF f
  <1>3. Running(f)
    BY <1>1 DEF Running
  <1>4. Chain' /\ Moves(f, ret')
    BY <1>1, <1>2, <1>3, ToppedIsChain
  <1> QED BY <1>2, <1>4 DEF f

\* A frame calls another.
LEMMA CallsOn ==
  ASSUME Chain, stack # <<>>, NEW s \in Steps, NEW g \in Frames, Call(s, g),
         <<Top.op, s, g.op>> \in Waits, Running(g)
  PROVE  Chain' /\ Moves(g, "none")
  <1> DEFINE f == [Top EXCEPT !.step = s]
  <1>1. f \in Frames /\ f.op = Top.op /\ f.step = s
    BY TopIsFrame DEF Frames
  <1>2. stack' = Append([stack EXCEPT ![Len(stack)] = f], g) /\ ret' = "none"
    BY DEF Call, InStep, Top
  <1> HIDE DEF f
  <1>3. WaitsFor(f, g.op)
    BY <1>1 DEF WaitsFor
  <1> QED BY <1>1, <1>2, <1>3, CalledIsChain

\* The frames that are called.
LEMMA NewFrames ==
  ASSUME NEW op \in Ops, NEW step \in Steps, NEW arg \in Kinds \cup Range(Identities)
  PROVE  /\ Frame(op, step, arg) \in Frames
         /\ Frame(op, step, arg).op = op /\ Frame(op, step, arg).step = step
         /\ Frame(op, step, arg).arg = arg
  BY DEF Frame, Frames, Gots

RestoreFrame == Frame("restore", "release", "none")

\* The handle is discarded: at once, or by a restoration.
LEMMA DiscardsOn ==
  ASSUME Chain, stack # <<>>, NEW s \in Steps, Discard(s), <<Top.op, s, "restore">> \in Waits
  PROVE  /\ Chain'
         /\ \/ /\ usb.handle = NoUnit /\ usb' = [usb EXCEPT !.claimed = FALSE]
               /\ Moves([Top EXCEPT !.step = s], "ok")
            \/ /\ usb.handle # NoUnit /\ usb' = usb
               /\ Moves(RestoreFrame, "none")
  <1> DEFINE f == [Top EXCEPT !.step = s]
  <1>1. f \in Frames /\ f.op = Top.op /\ f.step = s
    BY TopIsFrame DEF Frames
  <1>2. CASE usb.handle = NoUnit
    <2>1. /\ stack' = [stack EXCEPT ![Len(stack)] = f] /\ ret' = "ok"
          /\ usb' = [usb EXCEPT !.claimed = FALSE]
      BY <1>2 DEF Discard, InStep, Top
    <2> HIDE DEF f
    <2>2. Waiting(f)
      BY <1>1 DEF Waiting, WaitsFor, Ops
    <2>3. Chain' /\ Moves(f, ret')
      BY <1>1, <2>1, <2>2, ToppedIsChain
    <2> QED BY <1>2, <2>1, <2>3 DEF f
  <1>3. CASE usb.handle # NoUnit
    <2>1. Call(s, RestoreFrame) /\ usb' = usb
      BY <1>3 DEF Discard, RestoreFrame
    <2>2. RestoreFrame \in Frames /\ RestoreFrame.op = "restore" /\ Running(RestoreFrame)
      BY NewFrames DEF RestoreFrame, Running, Runs, Ops, Steps, Kinds
    <2> QED BY <1>3, <2>1, <2>2, CallsOn
  <1> QED BY <1>2, <1>3

-----------------------------------------------------------------------------
(* The drives and their drivers.                                           *)

Packets == [type : {"csw", "data", "stall"}, tag : Nat, good : BOOLEAN,
            kind : Kinds \cup Range(Identities), fresh : BOOLEAN]

Serials == {Serial[u] : u \in Units} \cup {NoSerial}
Ids == (Ports \cup {Out}) \X Serials

UsbRecords == [open : BOOLEAN, handle : Units \cup {NoUnit}, live : BOOLEAN,
               claimed : BOOLEAN, grip : {"none", "claimed", "used"}, owes : BOOLEAN,
               released : BOOLEAN, tag : Nat,
               identity : Range(Identities), port : Ports \cup {Out},
               id : Ids, first : Ids, emptied : BOOLEAN]

\* No drive is without its driver, apart from those nobody knows of.
Clean == \A u \in Units \ abandoned : driver[u] = "kernel"

\* The places at which the handle, or what it owes, is about to be forgotten.
AtClaim == At("match", "claim")
Forgetting == \/ AtClaim
              \/ Back("reopen", "try", "ok")
              \/ Back("match", "discarded", "ok")
              \/ Back("close", "prepared", "ok")

World ==
    /\ at \in [Units -> Ports \cup {Out}]
    /\ \A u, v \in Units : u # v /\ at[u] # Out => at[u] # at[v]
    /\ driver \in [Units -> {"kernel", "none", "usbfs"}]
    /\ abandoned \subseteq Units
    /\ usb \in UsbRecords

\* What the transport knows of the drive it has.
Held ==
    /\ usb.live => usb.handle \in Units /\ at[usb.handle] # Out
    /\ usb.claimed => usb.handle \in Units /\ usb.open
    /\ ~usb.open => stack = <<>> /\ usb = NoUsb
    /\ usb.live /\ usb.grip # "none" => driver[usb.handle] = "usbfs"
    /\ usb.live /\ usb.grip = "claimed" => usb.owes
    /\ \A u \in Units \ abandoned :
           driver[u] # "kernel" => usb.handle = u /\ usb.live /\ usb.owes
    /\ AtClaim => usb.grip = "none"
    /\ Forgetting => Clean

DrivesAreKept == World /\ Held

\* What the places of the next state are after a step of each kind.
LEMMA MovedPlaces ==
  ASSUME NEW f, NEW r, Moves(f, r)
  PROVE  /\ AtClaim' <=> r = "none" /\ f.op = "match" /\ f.step = "claim"
         /\ Forgetting' =>
               \/ r = "none" /\ f.op = "match" /\ f.step = "claim"
               \/ r = "ok" /\ <<f.op, f.step>> \in {<<"reopen", "try">>,
                                   <<"match", "discarded">>, <<"close", "prepared">>}
         /\ stack' # <<>>
  BY DEF Moves, AtClaim, Forgetting, At, Back

\* An answered frame forgets nothing, unless it is answered that the drive
\* was restored.
LEMMA AnsweredPlaces ==
  ASSUME NEW op, NEW r \in {"ok", "fail"}, Answered(op, r)
  PROVE  ~AtClaim' /\ (Forgetting' => op = "restore" /\ r = "ok")
  BY DEF Answered, AtClaim, Forgetting, At, Back, WaitsFor, Waits

\* Calls run in an open transport only.
LEMMA BusyIsOpen ==
  ASSUME DrivesAreKept, stack # <<>>
  PROVE  usb.open
  BY DEF DrivesAreKept, Held

\* A step that takes nothing from the drives and nothing from what the
\* transport knows of them.
LEMMA QuietKeeps ==
  ASSUME DrivesAreKept, usb.open, ~AtClaim, ~AtClaim', Forgetting' => Clean,
         UNCHANGED <<at, driver, abandoned>>, usb' \in UsbRecords,
         usb'.open = usb.open, usb'.handle = usb.handle, usb'.live = usb.live,
         usb'.claimed = usb.claimed, usb'.grip = usb.grip, usb'.owes = usb.owes
  PROVE  DrivesAreKept'
  <1>1. World'
    BY DEF DrivesAreKept, World
  <1>2. Clean' <=> Clean
    BY DEF Clean
  <1>3. Held'
    BY <1>2 DEF DrivesAreKept, Held
  <1> QED BY <1>1, <1>3 DEF DrivesAreKept

\* A transport that does not change stays a record of its kind.
LEMMA UnchangedUsb ==
  ASSUME DrivesAreKept, UNCHANGED usb
  PROVE  /\ usb' \in UsbRecords /\ usb'.open = usb.open /\ usb'.handle = usb.handle
         /\ usb'.live = usb.live /\ usb'.claimed = usb.claimed /\ usb'.grip = usb.grip
         /\ usb'.owes = usb.owes
  BY DEF DrivesAreKept, World

\* A drive is handed back, or forgotten by those that have it: what nobody
\* holds is not displaced.
LEMMA UnheldIsClean ==
  ASSUME DrivesAreKept, usb.handle = NoUnit \/ ~usb.live \/ ~usb.owes
  PROVE  Clean
  BY UsbBotAssumption DEF DrivesAreKept, World, UsbRecords, Held, Clean

\* Tags are natural numbers.  (next_tag.)
LEMMA TagIsNatural ==
  ASSUME NEW t \in Nat
  PROVE  NextTag(t) \in Nat
  <1>1. TagLimit \in Nat \ {0, 1}
    BY UsbBotAssumption
  <1> QED BY <1>1 DEF NextTag

-----------------------------------------------------------------------------
(* The commands keep the drives.                                           *)

\* A transfer through a handle that has no grip of the interface takes it for
\* the handle; what was displaced stays displaced, and owed.
LEMMA GripKeeps ==
  ASSUME DrivesAreKept, usb.open, ~AtClaim, ~AtClaim', Forgetting' => Clean',
         Reaches, Grip, UNCHANGED <<at, abandoned>>, usb' \in UsbRecords,
         usb'.open = usb.open, usb'.handle = usb.handle, usb'.live = usb.live,
         usb'.claimed = usb.claimed, usb'.owes = usb.owes,
         usb'.grip = IF usb.grip = "none" THEN "used" ELSE usb.grip
  PROVE  DrivesAreKept'
  <1>1. usb.handle \in Units /\ usb.live
    BY DEF DrivesAreKept, Held, Reaches, Reachable
  <1>2. \A v \in Units : driver'[v] = IF v = usb.handle THEN "usbfs" ELSE driver[v]
    BY DEF DrivesAreKept, World, Grip
  <1>3. driver[usb.handle] # "kernel"
    BY <1>1 DEF DrivesAreKept, Held, Reaches
  <1>4. World'
    BY <1>1 DEF DrivesAreKept, World, Grip
  <1>5. Held'
    BY <1>1, <1>2, <1>3 DEF DrivesAreKept, Held
  <1> QED BY <1>4, <1>5 DEF DrivesAreKept

\* send_cbw counts the tag and takes nothing that is not displaced already.
LEMMA SendCbwKeeps ==
  ASSUME Chain, DrivesAreKept, SendCbw
  PROVE  Chain' /\ DrivesAreKept'
  <1>1. stack # <<>> /\ Top.op = "command" /\ Top.step = "cbw" /\ ~AtClaim
    BY DEF SendCbw, At, AtClaim
  <1>2. usb.open /\ Top \in Frames /\ usb \in UsbRecords /\ NextTag(usb.tag) \in Nat
    BY <1>1, BusyIsOpen, TopIsFrame, TagIsNatural DEF DrivesAreKept, World, UsbRecords
  <1>3. UNCHANGED <<at, abandoned>>
    BY DEF SendCbw
  <1>4. CASE /\ UNCHANGED driver /\ Return("fail")
             /\ usb' = usb \/ usb' = [usb EXCEPT !.tag = NextTag(@)]
    <2>1. /\ usb' \in UsbRecords /\ usb'.open = usb.open /\ usb'.handle = usb.handle
          /\ usb'.live = usb.live /\ usb'.claimed = usb.claimed /\ usb'.grip = usb.grip
          /\ usb'.owes = usb.owes
      BY <1>2, <1>4 DEF UsbRecords
    <2>2. Chain' /\ ~AtClaim' /\ ~Forgetting'
      BY <1>1, <1>4, ReturnedIsChain, AnsweredPlaces
    <2> QED BY <1>1, <1>2, <1>3, <1>4, <2>1, <2>2, QuietKeeps
  <1>5. ASSUME Reaches, Grip, usb' = [Gripped EXCEPT !.tag = NextTag(@)], ret' = "none",
               stack' = [stack EXCEPT ![Len(stack)] =
                            [@ EXCEPT !.tag = usb.tag,
                                      !.step = IF Top.arg = "none" THEN "csw" ELSE "data"]]
        PROVE  Chain' /\ DrivesAreKept'
    <2>1. /\ usb' \in UsbRecords /\ usb'.open = usb.open /\ usb'.handle = usb.handle
          /\ usb'.live = usb.live /\ usb'.claimed = usb.claimed /\ usb'.owes = usb.owes
          /\ usb'.grip = IF usb.grip = "none" THEN "used" ELSE usb.grip
      BY <1>2, <1>5 DEF UsbRecords, Gripped
    <2> DEFINE f == [Top EXCEPT !.tag = usb.tag,
                                !.step = IF Top.arg = "none" THEN "csw" ELSE "data"]
    <2>2. stack' = [stack EXCEPT ![Len(stack)] = f] /\ ret' = "none"
      BY <1>5 DEF Top
    <2>3. f \in Frames /\ f.op = "command" /\ f.step \in {"csw", "data"}
      BY <1>1, <1>2 DEF Frames, Steps, UsbRecords
    <2> HIDE DEF f
    <2>4. Running(f)
      BY <2>3 DEF Running, Runs
    <2>5. Chain' /\ Moves(f, "none")
      BY <1>1, <2>2, <2>3, <2>4, ToppedIsChain
    <2>6. ~AtClaim' /\ ~Forgetting'
      BY <2>3, <2>5, MovedPlaces
    <2> QED BY <1>1, <1>2, <1>3, <1>5, <2>1, <2>5, <2>6, GripKeeps
  <1> QED BY <1>4, <1>5 DEF SendCbw

\* A transport that is left as it is, while the stack moves on.
LEMMA UntouchedKeeps ==
  ASSUME DrivesAreKept, usb.open, ~AtClaim, ~AtClaim', Forgetting' => Clean,
         UNCHANGED <<at, driver, abandoned, usb>>
  PROVE  DrivesAreKept'
  BY UnchangedUsb, QuietKeeps

\* The frame of a reset is called.
LEMMA ResetIsCalled ==
  ASSUME Chain, stack # <<>>, Top.op = "command", Call("failed", Frame("reset", "begin", "none"))
  PROVE  Chain' /\ ~AtClaim' /\ ~Forgetting' /\ Moves(Frame("reset", "begin", "none"), "none")
  <1> DEFINE g == Frame("reset", "begin", "none")
  <1>1. g \in Frames /\ g.op = "reset" /\ g.step = "begin"
    BY NewFrames DEF Ops, Steps, Kinds
  <1>2. Running(g)
    BY <1>1 DEF Running, Runs
  <1>3. <<Top.op, "failed", g.op>> \in Waits
    BY <1>1 DEF Waits
  <1>4. "failed" \in Steps /\ Call("failed", g)
    BY DEF Steps
  <1> HIDE DEF g
  <1>5. Chain' /\ Moves(g, "none")
    BY <1>1, <1>2, <1>3, <1>4, CallsOn
  <1> QED BY <1>1, <1>5, MovedPlaces DEF g

\* A command returns.
LEMMA CommandReturns ==
  ASSUME Chain, stack # <<>>, Top.op = "command", NEW r \in {"ok", "fail"}, Return(r)
  PROVE  Chain' /\ ~AtClaim' /\ ~Forgetting' /\ Answered("command", r)
  BY ReturnedIsChain, AnsweredPlaces

\* A command goes on.
LEMMA CommandGoesOn ==
  ASSUME Chain, stack # <<>>, Top.op = "command", Go("csw")
  PROVE  Chain' /\ ~AtClaim' /\ ~Forgetting' /\ Moves([Top EXCEPT !.step = "csw"], "none")
  <1>1. Chain' /\ Moves([Top EXCEPT !.step = "csw"], "none")
    BY GoesOn DEF Steps, Runs
  <1>2. [Top EXCEPT !.step = "csw"].step = "csw" /\ [Top EXCEPT !.step = "csw"].op = "command"
    BY TopIsFrame DEF Frames
  <1> QED BY <1>1, <1>2, MovedPlaces

\* The data phase of usb_command_in leaves the drives alone.
LEMMA DataInKeeps ==
  ASSUME Chain, DrivesAreKept, DataIn
  PROVE  Chain' /\ DrivesAreKept'
  <1>1. stack # <<>> /\ Top.op = "command" /\ Top.step = "data" /\ ~AtClaim
    BY DEF DataIn, At, AtClaim
  <1>2. usb.open /\ Top \in Frames
    BY <1>1, BusyIsOpen, TopIsFrame
  <1>3. UNCHANGED <<at, driver, abandoned, usb>>
    BY DEF DataIn
  <1>4. \/ Return("ok") \/ Return("fail") \/ Go("csw")
        \/ Call("failed", Frame("reset", "begin", "none"))
        \/ \E got \in Gots : /\ ret' = "none"
                             /\ stack' = [stack EXCEPT ![Len(stack)] =
                                             [@ EXCEPT !.step = "csw", !.got = got]]
    BY DEF DataIn, Succeed, Gots
  <1>5. ASSUME NEW got \in Gots, ret' = "none",
               stack' = [stack EXCEPT ![Len(stack)] = [@ EXCEPT !.step = "csw", !.got = got]]
        PROVE  Chain' /\ ~AtClaim' /\ ~Forgetting'
    <2> DEFINE f == [Top EXCEPT !.step = "csw", !.got = got]
    <2>1. stack' = [stack EXCEPT ![Len(stack)] = f]
      BY <1>5 DEF Top
    <2>2. f \in Frames /\ f.op = "command" /\ f.step = "csw"
      BY <1>1, <1>2 DEF Frames, Steps
    <2> HIDE DEF f
    <2>3. Running(f)
      BY <2>2 DEF Running, Runs
    <2>4. Chain' /\ Moves(f, "none")
      BY <1>1, <1>5, <2>1, <2>2, <2>3, ToppedIsChain
    <2> QED BY <2>2, <2>4, MovedPlaces
  <1>6. Chain' /\ ~AtClaim' /\ ~Forgetting'
    BY <1>1, <1>4, <1>5, CommandReturns, CommandGoesOn, ResetIsCalled
  <1> QED BY <1>1, <1>2, <1>3, <1>6, UntouchedKeeps

\* The data phase of usb_command_out leaves the drives alone.
LEMMA DataOutKeeps ==
  ASSUME Chain, DrivesAreKept, DataOut
  PROVE  Chain' /\ DrivesAreKept'
  <1>1. stack # <<>> /\ Top.op = "command" /\ ~AtClaim
    BY DEF DataOut, At, AtClaim
  <1>2. UNCHANGED <<at, driver, abandoned, usb>>
    BY DEF DataOut, world
  <1>3. Return("fail") \/ Go("csw") \/ Call("failed", Frame("reset", "begin", "none"))
    BY DEF DataOut
  <1>4. Chain' /\ ~AtClaim' /\ ~Forgetting'
    BY <1>1, <1>3, CommandReturns, CommandGoesOn, ResetIsCalled
  <1> QED BY <1>1, <1>2, <1>4, BusyIsOpen, UntouchedKeeps

\* receive_csw leaves the drives alone.
LEMMA ReceiveStatusKeeps ==
  ASSUME Chain, DrivesAreKept, ReceiveStatus
  PROVE  Chain' /\ DrivesAreKept'
  <1>1. stack # <<>> /\ Top.op = "command" /\ Top.step = "csw" /\ ~AtClaim
    BY DEF ReceiveStatus, At, AtClaim
  <1>2. UNCHANGED <<at, driver, abandoned, usb>>
    BY DEF ReceiveStatus
  <1>3. Return("ok") \/ Return("fail") \/ Call("failed", Frame("reset", "begin", "none"))
    BY DEF ReceiveStatus, Succeed
  <1>4. Chain' /\ ~AtClaim' /\ ~Forgetting'
    BY <1>1, <1>3, CommandReturns, ResetIsCalled
  <1> QED BY <1>1, <1>2, <1>4, BusyIsOpen, UntouchedKeeps

\* So does the end of a command whose transfer failed.
LEMMA CommandFailedKeeps ==
  ASSUME Chain, DrivesAreKept, CommandFailed
  PROVE  Chain' /\ DrivesAreKept'
  <1>1. stack # <<>> /\ Top.op = "command" /\ Top.step = "failed" /\ ~AtClaim
    BY DEF CommandFailed, Back, AtClaim, At
  <1>2. UNCHANGED <<at, driver, abandoned, usb>> /\ Return("fail")
    BY DEF CommandFailed, world
  <1> QED BY <1>1, <1>2, CommandReturns, BusyIsOpen, UntouchedKeeps

-----------------------------------------------------------------------------
(* Resetting, reopening and matching keep the drives.                      *)

\* The frame that looks for the drive again is called.
LEMMA MatchIsCalled ==
  ASSUME Chain, stack # <<>>, NEW i \in Range(Identities), NEW f \in Frames,
         f.op = Top.op, WaitsFor(f, "match"), ret' = "none",
         stack' = Append([stack EXCEPT ![Len(stack)] = f], Frame("match", "list", i))
  PROVE  /\ Chain' /\ ~AtClaim' /\ ~Forgetting'
         /\ Moves(Frame("match", "list", i), "none")
  <1> DEFINE g == Frame("match", "list", i)
  <1>1. g \in Frames /\ g.op = "match" /\ g.step = "list"
    BY NewFrames DEF Ops, Steps
  <1>2. Running(g)
    BY <1>1 DEF Running, Runs
  <1>3. stack' = Append([stack EXCEPT ![Len(stack)] = f], g) /\ WaitsFor(f, g.op)
    BY <1>1
  <1> HIDE DEF g
  <1>4. Chain' /\ Moves(g, "none")
    BY <1>1, <1>2, <1>3, CalledIsChain
  <1> QED BY <1>1, <1>4, MovedPlaces DEF g

\* reset_bot empties the endpoint, or has the drive opened again.
LEMMA ResetBotKeeps ==
  ASSUME Chain, DrivesAreKept, ResetBot
  PROVE  Chain' /\ DrivesAreKept'
  <1>1. stack # <<>> /\ Top.op = "reset" /\ Top.step = "begin" /\ ~AtClaim
    BY DEF ResetBot, At, AtClaim
  <1>2. UNCHANGED <<at, abandoned>>
    BY DEF ResetBot
  <1>3. CASE Return("ok") /\ Reaches /\ Grip /\ usb' = Gripped
    <2>1. Chain' /\ ~AtClaim' /\ ~Forgetting' /\ usb.open
      BY <1>1, <1>3, ReturnedIsChain, AnsweredPlaces, BusyIsOpen
    <2>2. /\ usb' \in UsbRecords /\ usb'.open = usb.open /\ usb'.handle = usb.handle
          /\ usb'.live = usb.live /\ usb'.claimed = usb.claimed /\ usb'.owes = usb.owes
          /\ usb'.grip = IF usb.grip = "none" THEN "used" ELSE usb.grip
      BY <1>3 DEF DrivesAreKept, World, UsbRecords, Gripped
    <2> QED BY <1>1, <1>2, <1>3, <2>1, <2>2, GripKeeps
  <1>4. CASE /\ Call("reopened", Frame("reopen", "begin", "none"))
             /\ UNCHANGED <<driver, usb>>
    <2> DEFINE g == Frame("reopen", "begin", "none")
    <2>1. g \in Frames /\ g.op = "reopen" /\ g.step = "begin"
      BY NewFrames DEF Ops, Steps, Kinds
    <2>2. Running(g) /\ <<Top.op, "reopened", g.op>> \in Waits
      BY <1>1, <2>1 DEF Running, Runs, Waits
    <2>3. "reopened" \in Steps /\ Call("reopened", g)
      BY <1>4 DEF Steps
    <2> HIDE DEF g
    <2>4. Chain' /\ Moves(g, "none")
      BY <1>1, <2>1, <2>2, <2>3, CallsOn
    <2> QED BY <1>1, <1>2, <1>4, <2>1, <2>4, MovedPlaces, BusyIsOpen, UntouchedKeeps
  <1> QED BY <1>3, <1>4 DEF ResetBot

\* A reset ends as the reopening does.
LEMMA ResetReopenedKeeps ==
  ASSUME Chain, DrivesAreKept, ResetReopened
  PROVE  Chain' /\ DrivesAreKept'
  <1>1. PICK r \in {"ok", "fail"} : Back("reset", "reopened", r) /\ Return(r)
    BY DEF ResetReopened
  <1>2. stack # <<>> /\ Top.op = "reset" /\ ~AtClaim
    BY <1>1 DEF Back, AtClaim, At
  <1>3. UNCHANGED <<at, driver, abandoned, usb>>
    BY DEF ResetReopened, world
  <1> QED BY <1>1, <1>2, <1>3, ReturnedIsChain, AnsweredPlaces, BusyIsOpen, UntouchedKeeps

\* A handle is discarded.
LEMMA DiscardKeeps ==
  ASSUME Chain, DrivesAreKept, stack # <<>>, ~AtClaim, NEW s \in Steps, Discard(s),
         <<Top.op, s, "restore">> \in Waits, UNCHANGED <<at, driver, abandoned>>
  PROVE  Chain' /\ DrivesAreKept'
  <1>1. usb.open /\ Top \in Frames
    BY BusyIsOpen, TopIsFrame
  <1>2. CASE usb.handle = NoUnit
    <2>1. Chain' /\ usb' = [usb EXCEPT !.claimed = FALSE] /\ Moves([Top EXCEPT !.step = s], "ok")
      BY <1>2, DiscardsOn
    <2>2. ~AtClaim'
      BY <2>1, MovedPlaces
    <2>3. ~usb.claimed /\ Clean
      BY <1>2, UsbBotAssumption, UnheldIsClean DEF DrivesAreKept, Held
    <2>4. /\ usb' \in UsbRecords /\ usb'.open = usb.open /\ usb'.handle = usb.handle
          /\ usb'.live = usb.live /\ usb'.claimed = usb.claimed /\ usb'.grip = usb.grip
          /\ usb'.owes = usb.owes
      BY <2>1, <2>3 DEF DrivesAreKept, World, UsbRecords
    <2> QED BY <1>1, <2>1, <2>2, <2>3, <2>4, QuietKeeps
  <1>3. CASE usb.handle # NoUnit
    <2>1. Chain' /\ usb' = usb /\ Moves(RestoreFrame, "none")
      BY <1>3, DiscardsOn
    <2>2. RestoreFrame.op = "restore"
      BY DEF RestoreFrame, Frame
    <2>3. ~AtClaim' /\ ~Forgetting'
      BY <2>1, <2>2, MovedPlaces
    <2> QED BY <1>1, <2>1, <2>3, UntouchedKeeps
  <1> QED BY <1>2, <1>3

\* reopen_bot_interface discards the handle first.
LEMMA ReopenBeginKeeps ==
  ASSUME Chain, DrivesAreKept, ReopenBegin
  PROVE  Chain' /\ DrivesAreKept'
  <1>1. stack # <<>> /\ Top.op = "reopen" /\ ~AtClaim /\ Discard("try")
    BY DEF ReopenBegin, At, AtClaim
  <1>2. UNCHANGED <<at, driver, abandoned>>
    BY DEF ReopenBegin, world
  <1>3. "try" \in Steps /\ <<Top.op, "try", "restore">> \in Waits
    BY <1>1 DEF Steps, Waits
  <1> QED BY <1>1, <1>2, <1>3, DiscardKeeps

\* With nothing displaced the transport may let go of whatever it has.
LEMMA ForgottenKeeps ==
  ASSUME DrivesAreKept, Clean, ~AtClaim', UNCHANGED <<at, driver, abandoned>>,
         usb' \in UsbRecords, usb'.handle = NoUnit, ~usb'.live, ~usb'.claimed,
         ~usb'.open => stack' = <<>> /\ usb' = NoUsb
  PROVE  DrivesAreKept'
  <1>1. World'
    BY DEF DrivesAreKept, World
  <1>2. Clean'
    BY DEF Clean
  <1>3. NoUsb' = NoUsb
    BY DEF NoUsb, NoId
  <1>4. Held'
    BY <1>2, <1>3 DEF Held, Clean
  <1> QED BY <1>1, <1>4 DEF DrivesAreKept

\* A discarded transport holds and owes nothing, and still knows its drive.
LEMMA DiscardedIsFree ==
  ASSUME DrivesAreKept
  PROVE  /\ Discarded \in UsbRecords /\ Discarded.handle = NoUnit /\ ~Discarded.live
         /\ ~Discarded.claimed /\ ~Discarded.owes /\ Discarded.open = usb.open
         /\ Discarded.grip = "none"
         /\ Discarded.identity = usb.identity /\ Discarded.tag = usb.tag
         /\ Discarded.port = usb.port /\ Discarded.id = usb.id
         /\ Discarded.first = usb.first /\ Discarded.emptied = usb.emptied
  BY DEF DrivesAreKept, World, UsbRecords, Discarded

\* The first attempt begins when everything has been given back.
LEMMA ReopenFirstKeeps ==
  ASSUME Chain, DrivesAreKept, ReopenFirst
  PROVE  Chain' /\ DrivesAreKept'
  <1>1. /\ stack # <<>> /\ Top.op = "reopen" /\ Top.step = "try" /\ Clean
        /\ usb' = Discarded /\ UNCHANGED <<at, driver, abandoned>>
    BY DEF ReopenFirst, Back, Forgetting, DrivesAreKept, Held, world
  <1>2. usb.open /\ Top \in Frames /\ usb.identity \in Range(Identities)
    BY <1>1, BusyIsOpen, TopIsFrame DEF DrivesAreKept, World, UsbRecords
  <1> DEFINE f == [Top EXCEPT !.step = "tried"]
  <1>3. f \in Frames /\ f.op = Top.op /\ f.step = "tried"
    BY <1>2 DEF Frames, Steps
  <1>4. /\ stack' = Append([stack EXCEPT ![Len(stack)] = f],
                           Frame("match", "list", usb.identity))
        /\ ret' = "none"
    BY DEF ReopenFirst, Call, InStep, Top
  <1> HIDE DEF f
  <1>5. WaitsFor(f, "match")
    BY <1>1, <1>3 DEF WaitsFor, Waits
  <1>6. Chain' /\ ~AtClaim'
    BY <1>1, <1>2, <1>3, <1>4, <1>5, MatchIsCalled
  <1>7. /\ usb' \in UsbRecords /\ usb'.handle = NoUnit /\ ~usb'.live /\ ~usb'.claimed
        /\ usb'.open
    BY <1>1, <1>2, DiscardedIsFree
  <1> QED BY <1>1, <1>6, <1>7, ForgottenKeeps

\* The next attempt begins with whatever is still held.
LEMMA ReopenAgainKeeps ==
  ASSUME Chain, DrivesAreKept, ReopenAgain
  PROVE  Chain' /\ DrivesAreKept'
  <1>1. /\ stack # <<>> /\ Top.op = "reopen" /\ Top.step = "tried" /\ ~AtClaim
        /\ UNCHANGED <<at, driver, abandoned, usb>>
    BY DEF ReopenAgain, Back, AtClaim, At, world
  <1>2. usb.open /\ Top \in Frames /\ usb.identity \in Range(Identities)
    BY <1>1, BusyIsOpen, TopIsFrame DEF DrivesAreKept, World, UsbRecords
  <1> DEFINE f == [Top EXCEPT !.n = @ + 1]
  <1>3. f \in Frames /\ f.op = Top.op /\ f.step = "tried"
    BY <1>1, <1>2 DEF Frames
  <1>4. /\ stack' = Append([stack EXCEPT ![Len(stack)] = f],
                           Frame("match", "list", usb.identity))
        /\ ret' = "none"
    BY DEF ReopenAgain, Top
  <1> HIDE DEF f
  <1>5. WaitsFor(f, "match")
    BY <1>1, <1>3 DEF WaitsFor, Waits
  <1>6. Chain' /\ ~AtClaim' /\ ~Forgetting'
    BY <1>1, <1>2, <1>3, <1>4, <1>5, MatchIsCalled
  <1> QED BY <1>1, <1>2, <1>6, UntouchedKeeps

\* The end of a reopening leaves the drives alone.
LEMMA ReopenEndsKeeps ==
  ASSUME Chain, DrivesAreKept, ReopenEnds
  PROVE  Chain' /\ DrivesAreKept'
  <1>1. /\ stack # <<>> /\ Top.op = "reopen" /\ ~AtClaim
        /\ UNCHANGED <<at, driver, abandoned, usb>>
        /\ Return("ok") \/ Return("fail")
    BY DEF ReopenEnds, Back, AtClaim, At, world
  <1> QED BY <1>1, ReturnedIsChain, AnsweredPlaces, BusyIsOpen, UntouchedKeeps

\* open_matching_identity opens a drive: what it held and owed is abandoned.
LEMMA ChooseCandidateKeeps ==
  ASSUME Chain, DrivesAreKept, ChooseCandidate
  PROVE  Chain' /\ DrivesAreKept'
  <1>1. /\ stack # <<>> /\ Top.op = "match" /\ Top.step = "list" /\ ~AtClaim
        /\ UNCHANGED <<at, driver>>
    BY DEF ChooseCandidate, At, AtClaim, world
  <1>2. usb.open
    BY <1>1, BusyIsOpen
  <1>3. CASE Return("fail") /\ UNCHANGED <<usb, abandoned>>
    BY <1>1, <1>2, <1>3, ReturnedIsChain, AnsweredPlaces, UntouchedKeeps
  <1>4. ASSUME NEW u \in Units, at[u] # Out, Go("claim"),
               usb' = [usb EXCEPT !.handle = u, !.live = TRUE, !.grip = "none",
                                  !.released = TRUE, !.emptied = FALSE],
               abandoned' = IF usb.live /\ usb.owes THEN abandoned \cup {usb.handle}
                            ELSE abandoned
        PROVE  Chain' /\ DrivesAreKept'
    <2>1. Chain' /\ Moves([Top EXCEPT !.step = "claim"], "none")
      BY <1>1, <1>4, GoesOn DEF Steps, Runs
    <2>2. AtClaim' /\ stack' # <<>>
      <3>1. [Top EXCEPT !.step = "claim"].op = "match" /\ [Top EXCEPT !.step = "claim"].step = "claim"
        BY <1>1, TopIsFrame DEF Frames
      <3> QED BY <2>1, <3>1, MovedPlaces
    <2>3. /\ usb' \in UsbRecords /\ usb'.handle = u /\ usb'.live
          /\ usb'.open = usb.open /\ usb'.claimed = usb.claimed /\ usb'.grip = "none"
      BY <1>4 DEF DrivesAreKept, World, UsbRecords
    <2>4. Clean'
      <3>1. CASE usb.live /\ usb.owes
        BY <1>1, <1>4, <3>1 DEF DrivesAreKept, Held, Clean
      <3>2. CASE ~(usb.live /\ usb.owes)
        BY <1>1, <1>4, <3>2, UnheldIsClean DEF Clean
      <3> QED BY <3>1, <3>2
    <2>5. World'
      BY <1>1, <1>4, <2>3 DEF DrivesAreKept, World, Held
    <2>6. Held'
      BY <1>1, <1>2, <1>4, <2>2, <2>3, <2>4 DEF Held, Clean
    <2> QED BY <2>1, <2>5, <2>6 DEF DrivesAreKept
  <1> QED BY <1>3, <1>4 DEF ChooseCandidate, IsCandidate, Plugged

\* A candidate that matches is noted down.
LEMMA CandidateMatchesKeeps ==
  ASSUME Chain, DrivesAreKept, CandidateMatches
  PROVE  Chain' /\ DrivesAreKept'
  <1>1. /\ stack # <<>> /\ Top.op = "match" /\ Top.step = "inquired" /\ ~AtClaim
        /\ UNCHANGED <<at, driver, abandoned>>
    BY DEF CandidateMatches, Back, At, AtClaim
  <1>2. usb.open
    BY <1>1, BusyIsOpen
  <1>3. CASE Go("discard") /\ usb' = usb
    <2>1. Chain' /\ Moves([Top EXCEPT !.step = "discard"], "none")
      BY <1>1, <1>3, GoesOn DEF Steps, Runs
    <2>2. [Top EXCEPT !.step = "discard"].step = "discard"
      BY TopIsFrame, <1>1 DEF Frames
    <2> QED BY <1>1, <1>2, <1>3, <2>1, <2>2, MovedPlaces, UntouchedKeeps
  <1>4. ASSUME Return("ok"), Reachable, Scsi[usb.handle] = Top.arg,
               usb' = [usb EXCEPT !.identity = Top.arg, !.port = at[usb.handle],
                                  !.id = DeviceId(usb.handle), !.emptied = TRUE,
                                  !.first = IF @ = NoId THEN DeviceId(usb.handle) ELSE @]
        PROVE  Chain' /\ DrivesAreKept'
    <2>1. Chain' /\ ~AtClaim' /\ ~Forgetting'
      BY <1>1, <1>4, ReturnedIsChain, AnsweredPlaces
    <2>2. usb.handle \in Units /\ Top.arg \in Range(Identities)
      BY <1>4, UsbBotAssumption DEF Reachable, DrivesAreKept, Held
    <2> DEFINE first == IF usb.first = NoId THEN DeviceId(usb.handle) ELSE usb.first
    <2>3. at[usb.handle] \in Ports \cup {Out} /\ DeviceId(usb.handle) \in Ids /\ first \in Ids
      BY <2>2 DEF DrivesAreKept, World, UsbRecords, DeviceId, Ids, Serials
    <2>4. usb' = [usb EXCEPT !.identity = Top.arg, !.port = at[usb.handle],
                             !.id = DeviceId(usb.handle), !.emptied = TRUE, !.first = first]
      BY <1>4
    <2> HIDE DEF first
    <2>5. /\ usb' \in UsbRecords /\ usb'.open = usb.open /\ usb'.handle = usb.handle
          /\ usb'.live = usb.live /\ usb'.claimed = usb.claimed /\ usb'.grip = usb.grip
          /\ usb'.owes = usb.owes
      BY <2>2, <2>3, <2>4 DEF DrivesAreKept, World, UsbRecords
    <2> QED BY <1>1, <1>2, <2>1, <2>5, QuietKeeps
  <1> QED BY <1>3, <1>4 DEF CandidateMatches

\* One that does not is discarded.
LEMMA CandidateFailsKeeps ==
  ASSUME Chain, DrivesAreKept, CandidateFails
  PROVE  Chain' /\ DrivesAreKept'
  <1>1. stack # <<>> /\ Top.op = "match" /\ ~AtClaim /\ Discard("discarded")
    BY DEF CandidateFails, Back, At, AtClaim
  <1>2. UNCHANGED <<at, driver, abandoned>>
    BY DEF CandidateFails, world
  <1>3. "discarded" \in Steps /\ <<Top.op, "discarded", "restore">> \in Waits
    BY <1>1 DEF Steps, Waits
  <1> QED BY <1>1, <1>2, <1>3, DiscardKeeps

\* A candidate that was given back is closed; one that was not is kept.
LEMMA CandidateDiscardedKeeps ==
  ASSUME Chain, DrivesAreKept, CandidateDiscarded
  PROVE  Chain' /\ DrivesAreKept'
  <1>1. PICK r \in {"ok", "fail"} : /\ Back("match", "discarded", r)
                                    /\ usb' = IF r = "ok" THEN Discarded ELSE usb
    BY DEF CandidateDiscarded
  <1>2. /\ stack # <<>> /\ Top.op = "match" /\ ~AtClaim
        /\ UNCHANGED <<at, driver, abandoned>> /\ Return("fail")
    BY <1>1 DEF CandidateDiscarded, Back, At, AtClaim, world
  <1>3. Chain' /\ ~AtClaim' /\ ~Forgetting'
    BY <1>2, ReturnedIsChain, AnsweredPlaces
  <1>4. CASE r = "ok"
    <2>1. Clean
      BY <1>1, <1>4 DEF DrivesAreKept, Held, Forgetting
    <2>2. /\ usb' \in UsbRecords /\ usb'.handle = NoUnit /\ ~usb'.live /\ ~usb'.claimed
          /\ usb'.open
      BY <1>1, <1>2, <1>4, DiscardedIsFree, BusyIsOpen
    <2> QED BY <1>2, <1>3, <2>1, <2>2, ForgottenKeeps
  <1>5. CASE r = "fail"
    BY <1>1, <1>2, <1>3, <1>5, BusyIsOpen, UntouchedKeeps
  <1> QED BY <1>4, <1>5

-----------------------------------------------------------------------------
(* Taking the interface and giving it back keeps the drives.               *)

\* A claim that displaces the driver owes it from then on, also if it fails
\* half way.
LEMMA ClaimInterfaceKeeps ==
  ASSUME Chain, DrivesAreKept, ClaimInterface
  PROVE  Chain' /\ DrivesAreKept'
  <1> DEFINE u == usb.handle
  <1>1. /\ stack # <<>> /\ Top.op = "match" /\ Top.step = "claim" /\ AtClaim /\ Clean
        /\ UNCHANGED at
    BY DEF ClaimInterface, At, AtClaim, DrivesAreKept, Held, Forgetting
  <1>2. usb.open /\ usb \in UsbRecords
    BY <1>1, BusyIsOpen DEF DrivesAreKept, World
  <1>3. ASSUME Reachable, Call("inquired", Frame("command", "cbw", "inquiry")),
               driver' = [driver EXCEPT ![u] = "usbfs"],
               usb' = [usb EXCEPT !.claimed = TRUE, !.grip = "claimed", !.owes = TRUE,
                                  !.tag = 1],
               abandoned' = abandoned \ {u}
        PROVE  Chain' /\ DrivesAreKept'
    <2> DEFINE g == Frame("command", "cbw", "inquiry")
    <2>1. g \in Frames /\ g.op = "command" /\ g.step = "cbw"
      BY NewFrames DEF Ops, Steps, Kinds
    <2>2. Running(g) /\ <<Top.op, "inquired", g.op>> \in Waits
      BY <1>1, <2>1 DEF Running, Runs, Waits
    <2>3. "inquired" \in Steps /\ Call("inquired", g)
      BY <1>3 DEF Steps
    <2> HIDE DEF g
    <2>4. Chain' /\ Moves(g, "none")
      BY <1>1, <2>1, <2>2, <2>3, CallsOn
    <2>5. ~AtClaim' /\ ~Forgetting'
      BY <2>1, <2>4, MovedPlaces
    <2>6. /\ usb' \in UsbRecords /\ usb'.open = usb.open /\ usb'.handle = usb.handle
          /\ usb'.live = usb.live /\ usb'.claimed /\ usb'.owes
      BY <1>2, <1>3 DEF UsbRecords
    <2>7. World' /\ usb.live /\ u \in Units /\ driver'[u] = "usbfs"
      BY <1>1, <1>3, <2>6 DEF DrivesAreKept, World, Held, Reachable
    <2>8. \A v \in Units : v # u => driver'[v] = driver[v]
      BY <1>3 DEF DrivesAreKept, World
    <2>9. Held'
      BY <1>1, <1>2, <1>3, <2>5, <2>6, <2>7, <2>8 DEF DrivesAreKept, Held, Clean
    <2> QED BY <2>4, <2>7, <2>9 DEF DrivesAreKept
  <1>4. ASSUME Go("discard")
        PROVE  Chain' /\ ~AtClaim' /\ ~Forgetting' /\ stack' # <<>>
    <2>1. Chain' /\ Moves([Top EXCEPT !.step = "discard"], "none")
      BY <1>1, <1>4, GoesOn DEF Steps, Runs
    <2>2. [Top EXCEPT !.step = "discard"].step = "discard"
      BY TopIsFrame, <1>1 DEF Frames
    <2> QED BY <2>1, <2>2, MovedPlaces
  <1>5. ASSUME Go("discard"), usb' = [usb EXCEPT !.owes = FALSE], UNCHANGED <<driver, abandoned>>,
               usb.live => usb.grip = "none"
        PROVE  Chain' /\ DrivesAreKept'
    <2>1. /\ usb' \in UsbRecords /\ usb'.open = usb.open /\ usb'.handle = usb.handle
          /\ usb'.live = usb.live /\ usb'.claimed = usb.claimed /\ usb'.grip = usb.grip
      BY <1>2, <1>5 DEF UsbRecords
    <2>2. World'
      BY <1>1, <1>5, <2>1 DEF DrivesAreKept, World
    <2>3. Held'
      BY <1>1, <1>2, <1>4, <1>5, <2>1 DEF DrivesAreKept, Held, Clean
    <2> QED BY <1>4, <1>5, <2>2, <2>3 DEF DrivesAreKept
  <1>6. ASSUME Go("discard"), Reachable, usb' = [usb EXCEPT !.owes = driver[u] = "kernel"],
               usb.live => usb.grip = "none",
               NEW d \in {driver[u]} \cup (IF driver[u] = "kernel" THEN {"none"} ELSE {}),
               driver' = [driver EXCEPT ![u] = d], UNCHANGED abandoned
        PROVE  Chain' /\ DrivesAreKept'
    <2>1. /\ usb' \in UsbRecords /\ usb'.open = usb.open /\ usb'.handle = usb.handle
          /\ usb'.live = usb.live /\ usb'.claimed = usb.claimed /\ usb'.grip = usb.grip
          /\ usb'.owes = (driver[u] = "kernel")
      BY <1>2, <1>6 DEF UsbRecords
    <2>2. usb.live /\ u \in Units
      BY <1>6 DEF DrivesAreKept, Held, Reachable
    <2>3. \A v \in Units : driver'[v] = IF v = u THEN d ELSE driver[v]
      BY <1>6 DEF DrivesAreKept, World
    <2>4. d \in {"kernel", "none", "usbfs"}
      BY <1>6, <2>2 DEF DrivesAreKept, World
    <2>5. World'
      BY <1>1, <1>6, <2>1, <2>4 DEF DrivesAreKept, World
    <2>6. \A v \in Units \ abandoned : driver'[v] # "kernel" => v = u /\ usb'.owes
      BY <1>1, <1>6, <2>1, <2>3 DEF Clean
    <2>7. /\ ~AtClaim' /\ ~Forgetting' /\ stack' # <<>> /\ usb'.grip = "none"
          /\ at'[u] # Out /\ UNCHANGED abandoned
      BY <1>1, <1>4, <1>6, <2>1, <2>2 DEF DrivesAreKept, Held
    <2>8. Held'
      BY <1>2, <2>1, <2>2, <2>6, <2>7 DEF Held
    <2> QED BY <1>4, <1>6, <2>5, <2>8 DEF DrivesAreKept
  <1>7. usb.live => usb.grip = "none"
    BY <1>1 DEF DrivesAreKept, Held
  <1> QED BY <1>3, <1>5, <1>6, <1>7 DEF ClaimInterface

\* A restoration goes on, or answers.
LEMMA RestoreGoesOn ==
  ASSUME Chain, stack # <<>>, Top.op = "restore", Go("attach")
  PROVE  Chain' /\ ~AtClaim' /\ ~Forgetting' /\ stack' # <<>>
  <1>1. Chain' /\ Moves([Top EXCEPT !.step = "attach"], "none")
    BY GoesOn DEF Steps, Runs
  <1>2. [Top EXCEPT !.step = "attach"].step = "attach"
    BY TopIsFrame DEF Frames
  <1> QED BY <1>1, <1>2, MovedPlaces

\* The answer of a restoration.
LEMMA RestoreAnswers ==
  ASSUME Chain, stack # <<>>, Top.op = "restore", NEW r \in {"ok", "fail"}, Return(r)
  PROVE  Chain' /\ ~AtClaim' /\ (Forgetting' => r = "ok")
  BY ReturnedIsChain, AnsweredPlaces

\* The interface is released: the driver is still owed.
LEMMA ReleaseKeeps ==
  ASSUME Chain, DrivesAreKept, Release
  PROVE  Chain' /\ DrivesAreKept'
  <1> DEFINE u == usb.handle
  <1>1. /\ stack # <<>> /\ Top.op = "restore" /\ ~AtClaim
        /\ UNCHANGED <<at, abandoned>>
    BY DEF Release, At, AtClaim
  <1>2. usb.open
    BY <1>1, BusyIsOpen
  <1>3. ASSUME usb.grip = "claimed", usb.live, NEW d \in {"none", "kernel"},
               driver' = [driver EXCEPT ![u] = d],
               usb' = [usb EXCEPT !.claimed = FALSE, !.grip = "none", !.released = TRUE],
               IF usb.owes THEN Go("attach") ELSE Return("ok")
        PROVE  Chain' /\ DrivesAreKept'
    <2>1. usb.owes /\ u \in Units
      BY <1>1, <1>3 DEF DrivesAreKept, Held
    <2>2. Chain' /\ ~AtClaim' /\ ~Forgetting'
      BY <1>1, <1>3, <2>1, RestoreGoesOn
    <2>3. /\ usb' \in UsbRecords /\ usb'.open = usb.open /\ usb'.handle = usb.handle
          /\ usb'.live = usb.live /\ ~usb'.claimed /\ usb'.owes /\ usb'.grip = "none"
      BY <1>3, <2>1 DEF DrivesAreKept, World, UsbRecords
    <2>4. World'
      BY <1>1, <1>3, <2>1, <2>3 DEF DrivesAreKept, World
    <2>5. \A v \in Units : v # u => driver'[v] = driver[v]
      BY <1>3 DEF DrivesAreKept, World
    <2>6. Held'
      BY <1>1, <1>2, <1>3, <2>1, <2>2, <2>3, <2>5 DEF DrivesAreKept, Held
    <2> QED BY <2>2, <2>4, <2>6 DEF DrivesAreKept
  <1>4. ASSUME ~usb.live, usb' = [usb EXCEPT !.claimed = FALSE, !.owes = FALSE],
               Return("ok"), UNCHANGED driver
        PROVE  Chain' /\ DrivesAreKept'
    <2>1. Chain' /\ ~AtClaim'
      BY <1>1, <1>4, RestoreAnswers
    <2>2. Clean
      BY <1>4, UnheldIsClean
    <2>3. /\ usb' \in UsbRecords /\ usb'.open = usb.open /\ ~usb'.live /\ ~usb'.claimed
      BY <1>4 DEF DrivesAreKept, World, UsbRecords
    <2>4. World'
      BY <1>1, <1>4, <2>3 DEF DrivesAreKept, World
    <2>5. Held'
      BY <1>1, <1>2, <1>4, <2>1, <2>2, <2>3 DEF Held, Clean
    <2> QED BY <2>1, <2>4, <2>5 DEF DrivesAreKept
  <1>5. ASSUME usb' = [usb EXCEPT !.released = FALSE], UNCHANGED driver,
               IF usb.owes THEN Go("attach") ELSE Return("fail")
        PROVE  Chain' /\ DrivesAreKept'
    <2>1. Chain' /\ ~AtClaim' /\ ~Forgetting'
      BY <1>1, <1>5, RestoreAnswers, RestoreGoesOn
    <2>2. /\ usb' \in UsbRecords /\ usb'.open = usb.open /\ usb'.handle = usb.handle
          /\ usb'.live = usb.live /\ usb'.claimed = usb.claimed /\ usb'.grip = usb.grip
          /\ usb'.owes = usb.owes
      BY <1>5 DEF DrivesAreKept, World, UsbRecords
    <2> QED BY <1>1, <1>2, <1>5, <2>1, <2>2, QuietKeeps
  <1>6. ASSUME usb' = [usb EXCEPT !.released = TRUE], UNCHANGED driver,
               IF usb.owes THEN Go("attach") ELSE Return("ok")
        PROVE  Chain' /\ DrivesAreKept'
    <2>1. Chain' /\ ~AtClaim' /\ (Forgetting' => ~usb.owes)
      BY <1>1, <1>6, RestoreAnswers, RestoreGoesOn
    <2>2. /\ usb' \in UsbRecords /\ usb'.open = usb.open /\ usb'.handle = usb.handle
          /\ usb'.live = usb.live /\ usb'.claimed = usb.claimed /\ usb'.grip = usb.grip
          /\ usb'.owes = usb.owes
      BY <1>6 DEF DrivesAreKept, World, UsbRecords
    <2>3. Forgetting' => Clean
      BY <2>1, UnheldIsClean
    <2> QED BY <1>1, <1>2, <1>6, <2>1, <2>2, <2>3, QuietKeeps
  <1> QED BY <1>3, <1>4, <1>5, <1>6 DEF Release

\* The driver is attached, or still owed.
LEMMA AttachKeeps ==
  ASSUME Chain, DrivesAreKept, Attach
  PROVE  Chain' /\ DrivesAreKept'
  <1> DEFINE u == usb.handle
  <1>1. /\ stack # <<>> /\ Top.op = "restore" /\ Top.step = "attach" /\ ~AtClaim
        /\ ret = "none" /\ UNCHANGED <<at, abandoned>>
    BY DEF Attach, At, AtClaim
  <1>2. usb.open
    BY <1>1, BusyIsOpen
  <1>3. ASSUME ~usb.live, usb' = [usb EXCEPT !.claimed = FALSE, !.owes = FALSE],
               Return("ok"), UNCHANGED driver
        PROVE  Chain' /\ DrivesAreKept'
    <2>1. Chain' /\ ~AtClaim'
      BY <1>1, <1>3, RestoreAnswers
    <2>2. Clean
      BY <1>3, UnheldIsClean
    <2>3. /\ usb' \in UsbRecords /\ usb'.open = usb.open /\ ~usb'.live /\ ~usb'.claimed
      BY <1>3 DEF DrivesAreKept, World, UsbRecords
    <2>4. World'
      BY <1>1, <1>3, <2>3 DEF DrivesAreKept, World
    <2>5. Held'
      BY <1>1, <1>2, <1>3, <2>1, <2>2, <2>3 DEF Held, Clean
    <2> QED BY <2>1, <2>4, <2>5 DEF DrivesAreKept
  <1>4. ASSUME usb.live, driver[u] \in {"kernel", "none"},
               driver' = [driver EXCEPT ![u] = "kernel"],
               usb' = [usb EXCEPT !.owes = FALSE],
               Return(IF usb.released THEN "ok" ELSE "fail")
        PROVE  Chain' /\ DrivesAreKept'
    <2>1. Chain' /\ ~AtClaim'
      BY <1>1, <1>4, RestoreAnswers
    <2>2. u \in Units /\ usb.grip = "none"
      BY <1>1, <1>4 DEF DrivesAreKept, Held, World, UsbRecords
    <2>3. /\ usb' \in UsbRecords /\ usb'.open = usb.open /\ usb'.handle = usb.handle
          /\ usb'.live = usb.live /\ usb'.claimed = usb.claimed /\ usb'.grip = "none"
      BY <1>4, <2>2 DEF DrivesAreKept, World, UsbRecords
    <2>4. World'
      BY <1>1, <1>4, <2>2, <2>3 DEF DrivesAreKept, World
    <2>5. \A v \in Units : driver'[v] = IF v = u THEN "kernel" ELSE driver[v]
      BY <1>4 DEF DrivesAreKept, World
    <2>6. Clean'
      BY <1>1, <2>5 DEF DrivesAreKept, Held, Clean
    <2>7. Held'
      BY <1>1, <1>2, <1>4, <2>2, <2>3, <2>6 DEF DrivesAreKept, Held, Clean
    <2> QED BY <2>1, <2>4, <2>7 DEF DrivesAreKept
  <1>5. ASSUME UNCHANGED <<driver, usb>>, Return("fail")
        PROVE  Chain' /\ DrivesAreKept'
    BY <1>1, <1>2, <1>5, RestoreAnswers, UntouchedKeeps
  <1>6. ASSUME UNCHANGED <<driver, usb, ret>>,
               stack' = [stack EXCEPT ![Len(stack)].n = @ + 1]
        PROVE  Chain' /\ DrivesAreKept'
    <2> DEFINE f == [Top EXCEPT !.n = @ + 1]
    <2>1. f \in Frames /\ f.op = "restore" /\ f.step = "attach"
      BY <1>1, TopIsFrame DEF Frames
    <2>2. stack' = [stack EXCEPT ![Len(stack)] = f] /\ ret' = "none"
      BY <1>1, <1>6 DEF Top
    <2> HIDE DEF f
    <2>3. Running(f)
      BY <2>1 DEF Running, Runs
    <2>4. Chain' /\ Moves(f, "none")
      BY <1>1, <2>1, <2>2, <2>3, ToppedIsChain
    <2> QED BY <1>1, <1>2, <1>6, <2>1, <2>4, MovedPlaces, UntouchedKeeps
  <1> QED BY <1>3, <1>4, <1>5, <1>6 DEF Attach

-----------------------------------------------------------------------------
(* The owner's calls, and what happens to the drives.                      *)

\* A call of the owner begins with one frame, or with one that waits for a
\* second.
LEMMA OneFrame ==
  ASSUME NEW f \in Frames, Running(f), stack' = <<f>>, ret' = "none"
  PROVE  Chain' /\ Moves(f, "none")
  BY DEF Chain, Moves, Top

\* A stack of a frame and the one it waits for.
LEMMA TwoFrames ==
  ASSUME NEW f \in Frames, NEW g \in Frames, WaitsFor(f, g.op), Running(g),
         stack' = <<f, g>>, ret' = "none"
  PROVE  Chain' /\ Moves(g, "none")
  <1>1. /\ stack' \in Seq(Frames) /\ Len(stack') = 2 /\ stack' # <<>>
        /\ stack'[1] = f /\ stack'[2] = g
    OBVIOUS
  <1>2. \A i \in 1 .. Len(stack') - 1 : i = 1
    BY <1>1
  <1> QED BY <1>1, <1>2 DEF Chain, Moves, Top

\* open_usb_device begins with nothing displaced.
LEMMA OpenKeeps ==
  ASSUME Chain, DrivesAreKept, Open
  PROVE  Chain' /\ DrivesAreKept'
  <1>1. ~usb.open /\ UNCHANGED <<at, driver, abandoned>> /\ stack = <<>> /\ ret' = ret
    BY DEF Open, Owner, world
  <1>2. PICK i \in {Scsi[u] : u \in Units} :
           /\ \E id \in {NoId} \cup {DeviceId(u) : u \in {v \in Units : Plugged(v)}} :
                  usb' = [NoUsb EXCEPT !.open = TRUE, !.id = id]
           /\ stack' = <<Frame("open", "opened", i), Frame("match", "list", i)>>
    BY DEF Open
  <1>3. PICK id \in {NoId} \cup {DeviceId(u) : u \in {v \in Units : Plugged(v)}} :
           usb' = [NoUsb EXCEPT !.open = TRUE, !.id = id]
    BY <1>2
  <1>4. i \in Range(Identities) /\ id \in Ids
    BY UsbBotAssumption DEF NoId, DeviceId, DrivesAreKept, World, Ids, Serials
  <1> DEFINE f == Frame("open", "opened", i)
             g == Frame("match", "list", i)
  <1>5. /\ f \in Frames /\ f.op = "open" /\ f.step = "opened"
        /\ g \in Frames /\ g.op = "match" /\ g.step = "list"
    BY <1>4, NewFrames DEF Ops, Steps
  <1>6. stack' = <<f, g>>
    BY <1>2
  <1>7. ret' = "none"
    BY <1>1 DEF Chain
  <1> HIDE DEF f, g
  <1>8. WaitsFor(f, g.op) /\ Running(g)
    BY <1>5 DEF WaitsFor, Waits, Running, Runs
  <1>9. Chain' /\ Moves(g, "none")
    BY <1>5, <1>6, <1>7, <1>8, TwoFrames
  <1>10. ~AtClaim'
    BY <1>5, <1>9, MovedPlaces
  <1>11. Identities[1] \in Range(Identities)
    BY UsbBotAssumption DEF Range
  <1>12. NoUsb \in UsbRecords
    BY <1>11 DEF NoUsb, NoId, UsbRecords, Ids, Serials
  <1>13. /\ usb' \in UsbRecords /\ usb'.handle = NoUnit /\ ~usb'.live /\ ~usb'.claimed
         /\ usb'.open
    BY <1>3, <1>4, <1>12 DEF UsbRecords, NoUsb
  <1>14. usb.handle = NoUnit
    BY <1>1 DEF DrivesAreKept, Held, NoUsb
  <1>15. Clean
    BY <1>14, UnheldIsClean
  <1> QED BY <1>1, <1>9, <1>10, <1>13, <1>15, ForgottenKeeps

\* A transport that is not open is a record of its kind.
LEMMA NoUsbIsRecord == /\ NoUsb \in UsbRecords /\ NoUsb.handle = NoUnit /\ ~NoUsb.live
                       /\ ~NoUsb.claimed /\ ~NoUsb.open /\ ~NoUsb.owes /\ NoUsb.grip = "none"
  <1>1. Identities[1] \in Range(Identities)
    BY UsbBotAssumption DEF Range
  <1> QED BY <1>1 DEF NoUsb, NoId, UsbRecords, Ids, Serials

\* A transport that could not be opened and holds nothing is freed.
LEMMA OpenedKeeps ==
  ASSUME Chain, DrivesAreKept, Opened
  PROVE  Chain' /\ DrivesAreKept'
  <1>1. PICK r \in {"ok", "fail"} :
           /\ Back("open", "opened", r)
           /\ usb' = IF r = "fail" /\ usb.handle = NoUnit THEN NoUsb ELSE usb
    BY DEF Opened
  <1>2. /\ stack # <<>> /\ Top.op = "open" /\ ~AtClaim /\ Return("ok")
        /\ UNCHANGED <<at, driver, abandoned>>
    BY <1>1 DEF Opened, Back, At, AtClaim, world
  <1>3. Chain' /\ stack' = <<>> /\ ~AtClaim' /\ ~Forgetting'
    BY <1>2, ReturnedIsChain, AnsweredPlaces
  <1>4. CASE usb' = usb
    BY <1>2, <1>3, <1>4, BusyIsOpen, UntouchedKeeps
  <1>5. CASE usb' = NoUsb /\ usb.handle = NoUnit
    <2>1. Clean
      BY <1>5, UnheldIsClean
    <2> QED BY <1>2, <1>3, <1>5, <2>1, NoUsbIsRecord, ForgottenKeeps
  <1> QED BY <1>1, <1>4, <1>5

\* usb_close frees a transport only when everything has been given back.
LEMMA ClosedKeeps ==
  ASSUME Chain, DrivesAreKept, Closed
  PROVE  Chain' /\ DrivesAreKept'
  <1>1. PICK r \in {"ok", "fail"} :
           Back("close", "prepared", r) /\ usb' = IF r = "ok" THEN NoUsb ELSE usb
    BY DEF Closed
  <1>2. /\ stack # <<>> /\ Top.op = "close" /\ ~AtClaim /\ Return("ok")
        /\ UNCHANGED <<at, driver, abandoned>>
    BY <1>1 DEF Closed, Back, At, AtClaim, world
  <1>3. Chain' /\ stack' = <<>> /\ ~AtClaim' /\ ~Forgetting'
    BY <1>2, ReturnedIsChain, AnsweredPlaces
  <1>4. CASE usb' = usb
    BY <1>2, <1>3, <1>4, BusyIsOpen, UntouchedKeeps
  <1>5. CASE usb' = NoUsb /\ r = "ok"
    <2>1. Clean
      BY <1>1, <1>5 DEF DrivesAreKept, Held, Forgetting
    <2> QED BY <1>2, <1>3, <1>5, <2>1, NoUsbIsRecord, ForgottenKeeps
  <1> QED BY <1>1, <1>4, <1>5

\* A command begins.
LEMMA CommandKeeps ==
  ASSUME Chain, DrivesAreKept, NEW k \in {"in", "out", "none"}, Command(k)
  PROVE  Chain' /\ DrivesAreKept'
  <1>1. /\ stack = <<>> /\ usb.open /\ ~AtClaim /\ UNCHANGED <<at, driver, abandoned, usb>>
        /\ ret' = "none"
    BY DEF Command, Owner, AtClaim, At, world, Chain
  <1> DEFINE f == Frame("command", "cbw", k)
  <1>2. f \in Frames /\ f.op = "command" /\ f.step = "cbw"
    BY NewFrames DEF Ops, Steps, Kinds
  <1>3. stack' = <<f>>
    BY DEF Command
  <1> HIDE DEF f
  <1>4. Running(f)
    BY <1>2 DEF Running, Runs
  <1>5. Chain' /\ Moves(f, "none")
    BY <1>1, <1>2, <1>3, <1>4, OneFrame
  <1> QED BY <1>1, <1>2, <1>5, MovedPlaces, UntouchedKeeps

\* A reset begins.
LEMMA ResetKeeps ==
  ASSUME Chain, DrivesAreKept, Reset
  PROVE  Chain' /\ DrivesAreKept'
  <1>1. /\ stack = <<>> /\ usb.open /\ ~AtClaim /\ UNCHANGED <<at, driver, abandoned, usb>>
        /\ ret' = "none"
    BY DEF Reset, Owner, AtClaim, At, world, Chain
  <1> DEFINE f == Frame("reset", "begin", "none")
  <1>2. f \in Frames /\ f.op = "reset" /\ f.step = "begin"
    BY NewFrames DEF Ops, Steps, Kinds
  <1>3. stack' = <<f>>
    BY DEF Reset
  <1> HIDE DEF f
  <1>4. Running(f)
    BY <1>2 DEF Running, Runs
  <1>5. Chain' /\ Moves(f, "none")
    BY <1>1, <1>2, <1>3, <1>4, OneFrame
  <1> QED BY <1>1, <1>2, <1>5, MovedPlaces, UntouchedKeeps

\* A close begins, with the restoration of the drive if one is held.
LEMMA CloseKeeps ==
  ASSUME Chain, DrivesAreKept, Close
  PROVE  Chain' /\ DrivesAreKept'
  <1>1. /\ stack = <<>> /\ usb.open /\ ~AtClaim /\ UNCHANGED <<at, driver, abandoned, usb>>
    BY DEF Close, AtClaim, At, world
  <1> DEFINE f == Frame("close", "prepared", "none")
  <1>2. f \in Frames /\ f.op = "close" /\ f.step = "prepared"
    BY NewFrames DEF Ops, Steps, Kinds
  <1>3. CASE usb.handle = NoUnit
    <2>1. stack' = <<f>> /\ ret' = "ok"
      BY <1>3 DEF Close
    <2> HIDE DEF f
    <2>2. WaitsFor(f, "restore") /\ "restore" \in Ops
      BY <1>2 DEF WaitsFor, Waits, Ops
    <2>3. Chain' /\ Moves(f, "ok")
      BY <1>2, <2>1, <2>2 DEF Chain, Moves, Top, Waiting
    <2>4. Clean
      BY <1>3, UnheldIsClean
    <2> QED BY <1>1, <1>2, <2>3, <2>4, MovedPlaces, UntouchedKeeps
  <1>4. CASE usb.handle # NoUnit
    <2>1. stack' = <<f, RestoreFrame>> /\ ret' = "none"
      BY <1>4 DEF Close, RestoreFrame
    <2>2. RestoreFrame \in Frames /\ RestoreFrame.op = "restore" /\ Running(RestoreFrame)
      BY NewFrames DEF RestoreFrame, Running, Runs, Ops, Steps, Kinds
    <2> HIDE DEF f
    <2>3. WaitsFor(f, RestoreFrame.op)
      BY <1>2, <2>2 DEF WaitsFor, Waits
    <2>4. Chain' /\ Moves(RestoreFrame, "none")
      BY <1>2, <2>1, <2>2, <2>3, TwoFrames
    <2> QED BY <1>1, <2>2, <2>4, MovedPlaces, UntouchedKeeps
  <1> QED BY <1>3, <1>4

\* The stack stays as it is.
LEMMA StackStays ==
  ASSUME UNCHANGED <<stack, ret>>
  PROVE  /\ Chain => Chain'
         /\ (AtClaim <=> AtClaim') /\ (Forgetting <=> Forgetting')
  BY DEF Chain, Top, AtClaim, Forgetting, At, Back

\* A drive is plugged in.
LEMMA PlugKeeps ==
  ASSUME Chain, DrivesAreKept, NEW u \in Units, NEW p \in Ports, Plug(u, p)
  PROVE  Chain' /\ DrivesAreKept'
  <1>1. /\ UNCHANGED <<driver, abandoned, usb, stack, ret>> /\ at[u] = Out
        /\ at' = [at EXCEPT ![u] = p] /\ \A v \in Units : at[v] # p
    BY UsbBotAssumption DEF Plug, Plugged
  <1>2. \A v \in Units : at'[v] = IF v = u THEN p ELSE at[v]
    BY <1>1 DEF DrivesAreKept, World
  <1>3. World'
    BY <1>1, <1>2 DEF DrivesAreKept, World
  <1>4. Held'
    BY <1>1, <1>2, StackStays, UsbBotAssumption DEF DrivesAreKept, Held, Clean, NoUsb, NoId
  <1> QED BY <1>1, <1>3, <1>4, StackStays DEF DrivesAreKept

\* A drive that leaves the bus, or enumerates again, goes to the kernel.
LEMMA GoneToTheKernel ==
  ASSUME Chain, DrivesAreKept, NEW u \in Units, UNCHANGED <<stack, ret>>,
         driver' = [driver EXCEPT ![u] = "kernel"], abandoned' = abandoned \ {u},
         usb' = Lost(u), at' \in [Units -> Ports \cup {Out}],
         \A v, w \in Units : v # w /\ at'[v] # Out => at'[v] # at'[w],
         \A v \in Units : v # u => at'[v] = at[v]
  PROVE  Chain' /\ DrivesAreKept'
  <1>1. \A v \in Units : driver'[v] = IF v = u THEN "kernel" ELSE driver[v]
    BY DEF DrivesAreKept, World
  <1>2. usb \in UsbRecords
    BY DEF DrivesAreKept, World
  <1>3. /\ usb' \in UsbRecords /\ usb'.handle = usb.handle /\ usb'.claimed = usb.claimed
        /\ usb'.owes = usb.owes /\ usb'.open = usb.open /\ usb'.grip = usb.grip
        /\ (usb'.live <=> (usb.live /\ usb.handle # u))
    <2>1. CASE usb.handle = u
      BY <1>2, <2>1 DEF Lost, UsbRecords
    <2>2. CASE usb.handle # u
      BY <1>2, <2>2 DEF Lost, UsbRecords
    <2> QED BY <2>1, <2>2
  <1>4. World'
    BY <1>1, <1>3 DEF DrivesAreKept, World
  <1>5. ~usb'.open => stack' = <<>> /\ usb' = NoUsb /\ NoUsb' = NoUsb
    <2>1. SUFFICES ASSUME ~usb.open
                   PROVE  stack' = <<>> /\ usb' = NoUsb /\ NoUsb' = NoUsb
      BY <1>3
    <2>2. stack = <<>> /\ usb = NoUsb /\ NoUsb' = NoUsb
      BY <2>1 DEF DrivesAreKept, Held, NoUsb, NoId
    <2>3. usb.handle # u
      BY <2>2, NoUsbIsRecord, UsbBotAssumption
    <2> QED BY <2>2, <2>3 DEF Lost
  <1>6. Clean => Clean'
    BY <1>1 DEF Clean
  <1>7. Held'
    BY <1>1, <1>3, <1>5, <1>6, StackStays DEF DrivesAreKept, Held
  <1> QED BY <1>4, <1>7, StackStays DEF DrivesAreKept

\* A drive is unplugged.
LEMMA UnplugKeeps ==
  ASSUME Chain, DrivesAreKept, NEW u \in Units, Unplug(u)
  PROVE  Chain' /\ DrivesAreKept'
  <1>1. /\ UNCHANGED <<stack, ret>> /\ driver' = [driver EXCEPT ![u] = "kernel"]
        /\ abandoned' = abandoned \ {u} /\ usb' = Lost(u) /\ at' = [at EXCEPT ![u] = Out]
    BY DEF Unplug
  <1>2. \A v \in Units : at'[v] = IF v = u THEN Out ELSE at[v]
    BY <1>1 DEF DrivesAreKept, World
  <1>3. at' \in [Units -> Ports \cup {Out}]
    BY <1>1 DEF DrivesAreKept, World
  <1>4. \A v, w \in Units : v # w /\ at'[v] # Out => at'[v] # at'[w]
    BY <1>2 DEF DrivesAreKept, World
  <1> QED BY <1>1, <1>2, <1>3, <1>4, GoneToTheKernel

\* A drive enumerates again.
LEMMA ReenumerateKeeps ==
  ASSUME Chain, DrivesAreKept, NEW u \in Units, Reenumerate(u)
  PROVE  Chain' /\ DrivesAreKept'
  <1>1. /\ UNCHANGED <<stack, ret, at>> /\ driver' = [driver EXCEPT ![u] = "kernel"]
        /\ abandoned' = abandoned \ {u} /\ usb' = Lost(u)
    BY DEF Reenumerate
  <1>2. /\ at' \in [Units -> Ports \cup {Out}]
        /\ \A v, w \in Units : v # w /\ at'[v] # Out => at'[v] # at'[w]
    BY <1>1 DEF DrivesAreKept, World
  <1> QED BY <1>1, <1>2, GoneToTheKernel

\* A GDOX that is killed abandons what it has displaced.
LEMMA KilledKeeps ==
  ASSUME Chain, DrivesAreKept, Killed
  PROVE  Chain' /\ DrivesAreKept'
  <1>1. /\ driver' = [u \in Units |-> IF driver[u] = "usbfs" THEN "none" ELSE driver[u]]
        /\ abandoned' = abandoned \cup {u \in Units : driver'[u] = "none"}
        /\ usb' = NoUsb /\ stack' = <<>> /\ ret' = "none" /\ at' = at
    BY DEF Killed
  <1>2. Chain'
    BY <1>1 DEF Chain
  <1>3. ~AtClaim' /\ ~Forgetting'
    BY <1>1 DEF AtClaim, Forgetting, At, Back
  <1>4. NoUsb' = NoUsb
    BY DEF NoUsb, NoId
  <1>5. World'
    BY <1>1, NoUsbIsRecord DEF DrivesAreKept, World
  <1>6. Clean'
    BY <1>1 DEF DrivesAreKept, World, Clean
  <1>7. Held'
    BY <1>1, <1>3, <1>4, <1>6, NoUsbIsRecord DEF Held, Clean
  <1> QED BY <1>2, <1>5, <1>7 DEF DrivesAreKept

-----------------------------------------------------------------------------
(* No drive is without its driver unless it is in hand.                    *)

\* At first the kernel has all the drives.
LEMMA DrivesAreKeptInit ==
  ASSUME Init
  PROVE  Chain /\ DrivesAreKept
  <1>1. /\ at = Home /\ driver = [u \in Units |-> "kernel"] /\ usb = NoUsb
        /\ stack = <<>> /\ ret = "none" /\ abandoned = {}
    BY DEF Init
  <1>2. Chain
    BY <1>1 DEF Chain
  <1>3. World
    BY <1>1, NoUsbIsRecord, UsbBotAssumption DEF World
  <1>4. ~AtClaim /\ ~Forgetting
    BY <1>1 DEF AtClaim, Forgetting, At, Back
  <1>5. Held
    BY <1>1, <1>4, NoUsbIsRecord DEF Held
  <1> QED BY <1>2, <1>3, <1>5 DEF DrivesAreKept

\* Every step keeps the drives.
LEMMA DrivesAreKeptStep ==
  ASSUME Chain, DrivesAreKept, [Next]_vars
  PROVE  Chain' /\ DrivesAreKept'
  <1>1. CASE Calls
    BY <1>1, OpenKeeps, ResetKeeps, CloseKeeps, CommandKeeps DEF Calls
  <1>2. CASE Transport
    BY <1>2, ClaimInterfaceKeeps, ReleaseKeeps, AttachKeeps, SendCbwKeeps, DataInKeeps,
       DataOutKeeps, ReceiveStatusKeeps, CommandFailedKeeps, ResetBotKeeps,
       ResetReopenedKeeps, ReopenBeginKeeps, ReopenFirstKeeps, ReopenAgainKeeps,
       ReopenEndsKeeps, ChooseCandidateKeeps, CandidateMatchesKeeps, CandidateFailsKeeps,
       CandidateDiscardedKeeps, OpenedKeeps, ClosedKeeps
       DEF Transport
  <1>3. CASE Environment
    BY <1>3, UnplugKeeps, ReenumerateKeeps, PlugKeeps, KilledKeeps DEF Environment
  <1>4. CASE UNCHANGED vars
    <2>1. UNCHANGED <<at, driver, abandoned, usb, stack, ret>> /\ NoUsb' = NoUsb
      BY <1>4 DEF vars, world, NoUsb, NoId
    <2>2. World' /\ (Clean <=> Clean')
      BY <2>1 DEF DrivesAreKept, World, Clean
    <2>3. Held'
      BY <2>1, <2>2, StackStays DEF DrivesAreKept, Held
    <2> QED BY <2>1, <2>2, <2>3, StackStays DEF DrivesAreKept
  <1> QED BY <1>1, <1>2, <1>3, <1>4 DEF Next

\* What the invariant says of the drives is the property.
LEMMA KeptIsOwed ==
  ASSUME Chain, DrivesAreKept
  PROVE  DisplacedIsOwed
  <1>1. TypeOK
    BY UsbBotAssumption DEF Chain, DrivesAreKept, World, UsbRecords, Held, TypeOK
  <1> QED BY <1>1 DEF DrivesAreKept, Held, DisplacedIsOwed

\* A drive whose kernel driver has been displaced is in the hands of the
\* transport, which knows that it owes it, however the claims, releases,
\* attachments and reopenings fail and whatever is plugged, unplugged and
\* enumerated again meanwhile.  (usb_bot_libusb_handoff.c.)
THEOREM DriversAreOwed == Spec => []DisplacedIsOwed
  <1>1. Init => Chain /\ DrivesAreKept
    BY DrivesAreKeptInit
  <1>2. Chain /\ DrivesAreKept /\ [Next]_vars => (Chain /\ DrivesAreKept)'
    BY DrivesAreKeptStep
  <1>3. Chain /\ DrivesAreKept => DisplacedIsOwed
    BY KeptIsOwed
  <1> QED BY <1>1, <1>2, <1>3, PTL DEF Spec

-----------------------------------------------------------------------------
(* The drive in use is the one that was asked for.                         *)

\* Before the first drive has matched nothing is known but, possibly, which
\* drive is wanted; from then on there are a place, a serial number or the lack
\* of one, and an identity, and only drives that have them are ever in hand.
Identified ==
    /\ usb.port = Out => /\ usb.first = NoId
                         /\ usb.id = NoId \/ usb.id[1] # Out
    /\ usb.port # Out => usb.first = usb.id /\ usb.id[1] = usb.port
    /\ usb.live /\ usb.id # NoId => DeviceId(usb.handle) = usb.id
    /\ usb.emptied /\ usb.handle # NoUnit =>
           /\ usb.port # Out
           /\ Scsi[usb.handle] = usb.identity /\ Serial[usb.handle] = usb.id[2]

\* What a step may do to the transport without touching its identity.
SameIdentity ==
    /\ usb'.port = usb.port /\ usb'.id = usb.id /\ usb'.first = usb.first
    /\ usb'.identity = usb.identity /\ usb'.handle \in {NoUnit, usb.handle}
    /\ usb'.emptied = usb.emptied
    /\ usb'.live => /\ usb.live /\ usb'.handle = usb.handle
                    /\ at'[usb.handle] = at[usb.handle]

\* A transport keeps its identity when nothing of it changes.
LEMMA SameIdentityKeeps ==
  ASSUME Identified, SameIdentity
  PROVE  Identified'
  <1>1. NoId' = NoId
    BY DEF NoId
  <1>2. usb'.live => usb.live /\ DeviceId(usb.handle)' = DeviceId(usb.handle)
    BY DEF SameIdentity, DeviceId
  <1> QED BY <1>1, <1>2 DEF Identified, SameIdentity

\* A closed transport has no identity to keep.
LEMMA NoUsbIsIdentified ==
  ASSUME usb' = NoUsb
  PROVE  Identified'
  <1>1. NoUsb' = NoUsb /\ NoId' = NoId
    BY DEF NoUsb, NoId
  <1>2. usb'.port = Out /\ usb'.first = NoId /\ usb'.id = NoId /\ usb'.handle = NoUnit
    BY <1>1 DEF NoUsb
  <1> QED BY <1>1, <1>2 DEF Identified

\* A transport is opened for any drive, or for one that is plugged in.
LEMMA OpenIdentifies ==
  ASSUME Open
  PROVE  Identified'
  <1>1. PICK id \in {NoId} \cup {DeviceId(u) : u \in {v \in Units : Plugged(v)}} :
           usb' = [NoUsb EXCEPT !.open = TRUE, !.id = id]
    BY DEF Open
  <1>2. id = NoId \/ id[1] # Out
    BY DEF DeviceId, Plugged
  <1>3. /\ usb'.port = Out /\ usb'.first = NoId /\ usb'.id = id /\ NoId' = NoId
        /\ usb'.handle = NoUnit /\ ~usb'.live
    BY <1>1 DEF NoUsb, NoId
  <1> QED BY <1>2, <1>3 DEF Identified

\* Only a drive of the name passes the filter once a name is known.
LEMMA ChooseCandidateIdentifies ==
  ASSUME DrivesAreKept, Identified, ChooseCandidate
  PROVE  Identified'
  <1>1. UNCHANGED at
    BY DEF ChooseCandidate, world
  <1>2. CASE UNCHANGED usb
    BY <1>1, <1>2, SameIdentityKeeps DEF SameIdentity
  <1>3. ASSUME NEW u \in Units, usb.id \in {NoId, DeviceId(u)},
               usb' = [usb EXCEPT !.handle = u, !.live = TRUE, !.grip = "none",
                                  !.released = TRUE, !.emptied = FALSE]
        PROVE  Identified'
    <2>1. /\ usb'.port = usb.port /\ usb'.id = usb.id /\ usb'.first = usb.first
          /\ usb'.handle = u /\ ~usb'.emptied /\ NoId' = NoId
      BY <1>3 DEF DrivesAreKept, World, UsbRecords, NoId
    <2>2. DeviceId(usb.handle)' = DeviceId(u)
      BY <1>1, <2>1 DEF DeviceId
    <2> QED BY <1>3, <2>1, <2>2 DEF Identified
  <1> QED BY <1>2, <1>3 DEF ChooseCandidate, IsCandidate

\* A candidate that matches gives the transport its identity, or has it
\* already.
LEMMA CandidateMatchesIdentifies ==
  ASSUME DrivesAreKept, Identified, CandidateMatches
  PROVE  Identified'
  <1>1. UNCHANGED at
    BY DEF CandidateMatches
  <1>2. CASE UNCHANGED usb
    BY <1>1, <1>2, SameIdentityKeeps DEF SameIdentity
  <1>3. ASSUME Reachable, Scsi[usb.handle] = Top.arg,
               usb' = [usb EXCEPT !.identity = Top.arg, !.port = at[usb.handle],
                                  !.id = DeviceId(usb.handle), !.emptied = TRUE,
                                  !.first = IF @ = NoId THEN DeviceId(usb.handle) ELSE @]
        PROVE  Identified'
    <2> DEFINE first == IF usb.first = NoId THEN DeviceId(usb.handle) ELSE usb.first
    <2>1. usb.handle \in Units /\ at[usb.handle] # Out /\ usb.live
      BY <1>3 DEF DrivesAreKept, Held, Reachable
    <2>2. DeviceId(usb.handle)[1] = at[usb.handle] /\ DeviceId(usb.handle)[2] = Serial[usb.handle]
      BY DEF DeviceId
    <2>3. first = DeviceId(usb.handle)
      <3>1. CASE usb.port = Out
        BY <3>1 DEF Identified
      <3>2. CASE usb.port # Out
        <4>1. usb.first = usb.id /\ usb.id[1] # Out
          BY <3>2 DEF Identified
        <4>2. usb.id # NoId
          BY <4>1 DEF NoId
        <4> QED BY <2>1, <4>1, <4>2 DEF Identified
      <3> QED BY <3>1, <3>2
    <2>4. usb' = [usb EXCEPT !.identity = Top.arg, !.port = at[usb.handle],
                             !.id = DeviceId(usb.handle), !.emptied = TRUE, !.first = first]
      BY <1>3
    <2> HIDE DEF first
    <2>5. /\ usb'.port = at[usb.handle] /\ usb'.id = DeviceId(usb.handle)
          /\ usb'.first = DeviceId(usb.handle) /\ usb'.identity = Top.arg
          /\ usb'.handle = usb.handle
      BY <2>3, <2>4 DEF DrivesAreKept, World, UsbRecords
    <2>6. DeviceId(usb.handle)' = DeviceId(usb.handle)
      BY <1>1, <2>5 DEF DeviceId
    <2> QED BY <1>3, <2>1, <2>2, <2>5, <2>6 DEF Identified
  <1> QED BY <1>2, <1>3 DEF CandidateMatches

\* Discarding a handle keeps the identity.
LEMMA DiscardIsSame ==
  ASSUME DrivesAreKept, NEW s, Discard(s), UNCHANGED at
  PROVE  SameIdentity
  BY DEF Discard, Call, DrivesAreKept, World, UsbRecords, SameIdentity

\* So do all other steps of the transport.
LEMMA OthersAreSame ==
  ASSUME DrivesAreKept,
         \/ ClaimInterface \/ Release \/ Attach \/ SendCbw \/ DataIn \/ DataOut
         \/ ReceiveStatus \/ CommandFailed \/ ResetBot \/ ResetReopened \/ ReopenBegin
         \/ ReopenFirst \/ ReopenAgain \/ ReopenEnds \/ CandidateFails
         \/ CandidateDiscarded
  PROVE  SameIdentity
  <1>1. usb \in UsbRecords /\ UNCHANGED at
    BY DEF DrivesAreKept, World, world, ClaimInterface, Release, Attach, SendCbw, DataIn, DataOut,
           ReceiveStatus, CommandFailed, ResetBot, ResetReopened, ReopenBegin, ReopenFirst,
           ReopenAgain, ReopenEnds, CandidateFails, CandidateDiscarded
  <1>2. CASE UNCHANGED usb
    BY <1>1, <1>2 DEF SameIdentity
  <1>3. CASE ClaimInterface
    <2>1. \/ \E owes \in BOOLEAN : usb' = [usb EXCEPT !.owes = owes]
          \/ usb' = [usb EXCEPT !.claimed = TRUE, !.grip = "claimed", !.owes = TRUE, !.tag = 1]
      BY <1>3 DEF ClaimInterface
    <2> QED BY <1>1, <2>1 DEF SameIdentity, UsbRecords
  <1>4. CASE Release
    BY <1>1, <1>4 DEF Release, SameIdentity, UsbRecords
  <1>5. CASE Attach
    BY <1>1, <1>5 DEF Attach, SameIdentity, UsbRecords
  <1>6. CASE SendCbw
    <2>1. \/ usb' = usb \/ usb' = [usb EXCEPT !.tag = NextTag(@)]
          \/ usb' = [Gripped EXCEPT !.tag = NextTag(@)]
      BY <1>6 DEF SendCbw
    <2> QED BY <1>1, <2>1 DEF SameIdentity, UsbRecords, Gripped
  <1>7. CASE ReopenBegin
    BY <1>1, <1>7, DiscardIsSame DEF ReopenBegin
  <1>8. CASE CandidateFails
    BY <1>1, <1>8, DiscardIsSame DEF CandidateFails
  <1>9. CASE ReopenFirst
    BY <1>1, <1>9, DiscardedIsFree DEF ReopenFirst, SameIdentity
  <1>10. CASE CandidateDiscarded
    BY <1>1, <1>10, DiscardedIsFree DEF CandidateDiscarded, SameIdentity
  <1>11. CASE ResetBot
    <2>1. usb' = usb \/ usb' = Gripped
      BY <1>11 DEF ResetBot
    <2> QED BY <1>1, <2>1 DEF SameIdentity, UsbRecords, Gripped
  <1> QED BY <1>2, <1>3, <1>4, <1>5, <1>6, <1>7, <1>8, <1>9, <1>10, <1>11
          DEF DataIn, DataOut, ReceiveStatus, CommandFailed, ResetReopened,
              ReopenAgain, ReopenEnds

\* So does the loss of the drive.
LEMMA LostIsSame ==
  ASSUME DrivesAreKept, NEW u \in Units, usb' = Lost(u), \A v \in Units : v # u => at'[v] = at[v]
  PROVE  SameIdentity
  BY DEF Lost, Held, DrivesAreKept, World, UsbRecords, SameIdentity

\* At first nothing is known.
LEMMA IdentifiedInit ==
  ASSUME Init
  PROVE  Identified
  BY DEF Init, NoUsb, NoId, Identified

\* Every step keeps the identity.
LEMMA IdentifiedStep ==
  ASSUME DrivesAreKept, Identified, [Next]_vars
  PROVE  Identified'
  <1>1. CASE UNCHANGED <<usb, at>>
    BY <1>1, SameIdentityKeeps DEF SameIdentity
  <1>2. CASE Calls
    <2>1. CASE Open
      BY <2>1, OpenIdentifies
    <2> QED BY <1>1, <1>2, <2>1 DEF Calls, Reset, Close, Command, world
  <1>3. CASE Transport
    <2>1. Opened \/ Closed => UNCHANGED at /\ (usb' = usb \/ usb' = NoUsb)
      BY DEF Opened, Closed, world
    <2> QED BY <1>1, <1>3, <2>1, NoUsbIsIdentified, OthersAreSame, SameIdentityKeeps,
               ChooseCandidateIdentifies, CandidateMatchesIdentifies DEF Transport
  <1>4. CASE Environment
    <2>1. CASE Killed
      BY <2>1, NoUsbIsIdentified DEF Killed
    <2>2. ASSUME NEW u \in Units, Unplug(u) \/ Reenumerate(u)
          PROVE  Identified'
      <3>1. usb' = Lost(u) /\ \A v \in Units : v # u => at'[v] = at[v]
        BY <2>2 DEF Unplug, Reenumerate, DrivesAreKept, World
      <3> QED BY <3>1, LostIsSame, SameIdentityKeeps
    <2>3. ASSUME NEW u \in Units, NEW p \in Ports, Plug(u, p)
          PROVE  Identified'
      <3>1. usb.live => at'[usb.handle] = at[usb.handle]
        <4>1. at' = [at EXCEPT ![u] = p] /\ at[u] = Out
          BY <2>3, UsbBotAssumption DEF Plug, Plugged
        <4>2. usb.live => usb.handle # u
          BY <4>1 DEF DrivesAreKept, Held
        <4> QED BY <4>1, <4>2 DEF DrivesAreKept, World, Held
      <3> QED BY <2>3, <3>1, SameIdentityKeeps DEF Plug, SameIdentity
    <2> QED BY <1>4, <2>1, <2>2, <2>3 DEF Environment
  <1>5. CASE UNCHANGED vars
    BY <1>1, <1>5 DEF vars, world
  <1> QED BY <1>2, <1>3, <1>4, <1>5 DEF Next

\* The inventory names the drives that are plugged in, each by its name.
LEMMA InventoryIds ==
  ASSUME NEW id
  PROVE  (\E e \in Inventory : e.id = id)
            <=> \E u \in Units : Plugged(u) /\ DeviceId(u) = id
  <1>1. ASSUME NEW e \in Inventory, e.id = id
        PROVE  \E u \in Units : Plugged(u) /\ DeviceId(u) = id
    BY <1>1 DEF Inventory, BlockEntries, BusEntries
  <1>2. ASSUME NEW u \in Units, Plugged(u), DeviceId(u) = id
        PROVE  \E e \in Inventory : e.id = id
    <2> DEFINE e == [id |-> DeviceId(u), identity |-> Identities[RecoveryIdentity(u)]]
    <2>1. e \in BusEntries /\ e.id = id
      BY <1>2 DEF BusEntries
    <2> HIDE DEF e
    <2>2. CASE \A b \in BlockEntries : b.id # e.id
      BY <2>1, <2>2 DEF Inventory
    <2>3. CASE \E b \in BlockEntries : b.id = e.id
      BY <2>1, <2>3 DEF Inventory
    <2> QED BY <2>2, <2>3
  <1> QED BY <1>1, <1>2

\* A drive that is plugged in has one entry, from the kernel or from the bus.
\* (append_device.)
LEMMA OneEntry ==
  ASSUME DrivesAreKept, NEW u \in Units, Plugged(u)
  PROVE  Cardinality({e \in Inventory : e.id = DeviceId(u)}) = 1
  <1> DEFINE S == {e \in Inventory : e.id = DeviceId(u)}
             block == [id |-> DeviceId(u), identity |-> Scsi[u]]
             bus == [id |-> DeviceId(u), identity |-> Identities[RecoveryIdentity(u)]]
  <1>1. \A v \in Units : DeviceId(v) = DeviceId(u) => v = u
    BY DEF DeviceId, Plugged, DrivesAreKept, World
  <1>2. /\ \A b \in BlockEntries : b.id = DeviceId(u) => driver[u] = "kernel" /\ b = block
        /\ driver[u] = "kernel" => block \in BlockEntries /\ block.id = DeviceId(u)
    BY <1>1 DEF BlockEntries
  <1>3. /\ \A b \in BusEntries : b.id = DeviceId(u) => b = bus
        /\ bus \in BusEntries /\ bus.id = DeviceId(u)
    BY <1>1 DEF BusEntries
  <1> HIDE DEF block, bus
  <1>4. \E x : S = {x}
    <2>1. CASE driver[u] = "kernel"
      <3>1. S = {block}
        BY <1>2, <1>3, <2>1 DEF Inventory
      <3> QED BY <3>1
    <2>2. CASE driver[u] # "kernel"
      <3>1. S = {bus}
        BY <1>2, <1>3, <2>2 DEF Inventory
      <3> QED BY <3>1
    <2> QED BY <2>1, <2>2
  <1> QED BY <1>4, FS_Singleton

\* What the invariant says of the identity is the property.
LEMMA IdentifiedIsSame ==
  ASSUME DrivesAreKept, Identified
  PROVE  SameDrive
  <1>1. ASSUME usb.claimed, usb.emptied
        PROVE  /\ Scsi[usb.handle] = usb.identity
               /\ <<usb.port, Serial[usb.handle]>> = usb.first
               /\ usb.live => at[usb.handle] = usb.port
    <2>1. /\ usb.handle # NoUnit /\ usb.port # Out
          /\ Scsi[usb.handle] = usb.identity /\ Serial[usb.handle] = usb.id[2]
      BY <1>1, UsbBotAssumption DEF DrivesAreKept, Held, Identified
    <2>2. usb.first = usb.id /\ usb.id[1] = usb.port /\ usb.id \in Ids
      BY <2>1 DEF Identified, DrivesAreKept, World, UsbRecords
    <2>3. usb.id = <<usb.port, Serial[usb.handle]>>
      BY <2>1, <2>2 DEF Ids
    <2>4. usb.id # NoId
      BY <2>1, <2>3 DEF NoId
    <2> QED BY <2>1, <2>2, <2>3, <2>4 DEF Identified, DeviceId
  <1>2. ASSUME usb.claimed, usb.live
        PROVE  Cardinality({e \in Inventory : e.id = DeviceId(usb.handle)}) = 1
    BY <1>2, OneEntry, UsbBotAssumption DEF DrivesAreKept, Held, Plugged
  <1>3. ASSUME usb.id # NoId
        PROVE  Connected(usb.id) <=> usb.id \in {DeviceId(u) : u \in Units}
    <2>1. usb.id[1] # Out
      BY <1>3 DEF Identified
    <2>2. \A u \in Units : DeviceId(u) = usb.id => Plugged(u)
      BY <2>1, UsbBotAssumption DEF DeviceId, Plugged
    <2>3. Connected(usb.id) <=> \E u \in Units : Plugged(u) /\ DeviceId(u) = usb.id
      BY InventoryIds DEF Connected
    <2> QED BY <2>2, <2>3
  <1> QED BY <1>1, <1>2, <1>3 DEF SameDrive

\* Whatever is reset and opened again, by whichever path and in whichever
\* order the drives are plugged, a transport that is ready has a drive of the
\* identity that was asked for, in the port it was first opened in and with the
\* serial number, or the lack of one, of the drive that was there then; and
\* that drive is in the inventory once.  Which of several drives with that
\* name it is, is not said.  (open_matching_identity, usb_id, list_devices.)
THEOREM TheDriveStaysTheSame == Spec => []SameDrive
  <1> DEFINE I == Chain /\ DrivesAreKept /\ Identified
  <1>1. Init => I
    BY DrivesAreKeptInit, IdentifiedInit
  <1>2. I /\ [Next]_vars => I'
    BY DrivesAreKeptStep, IdentifiedStep
  <1>3. I => SameDrive
    BY IdentifiedIsSame
  <1> QED BY <1>1, <1>2, <1>3, PTL DEF Spec

-----------------------------------------------------------------------------
(* A command is told of itself.                                            *)

InCommand == \E s \in {"cbw", "data", "csw"} : At("command", s)
Sent == At("command", "data") \/ At("command", "csw")

\* The tags of one opening grow by one with every command; its own INQUIRY
\* is the first.
TagsAreCounted ==
    /\ commands \in Nat /\ commands <= MaxCommands
    /\ usb.tag <= commands + 2
    /\ At("command", "cbw") => IF Top.arg = "inquiry" THEN usb.tag = 1
                               ELSE usb.tag <= commands + 1

\* What is in the endpoint p of a drive when the command f has been sent:
\* only packets of this very command have its tag, and the status of one that
\* succeeds comes behind its data, unless these have been read already.
Behind(p, f) ==
    /\ \A i \in 1 .. Len(p) : p[i].tag = f.tag => p[i].fresh
    /\ f.arg = "in" =>
          \A i \in 1 .. Len(p) :
             p[i].type = "csw" /\ p[i].good /\ p[i].tag = f.tag =>
                \/ i > 1 /\ p[i - 1].type = "data" /\ p[i - 1].fresh
                \/ i = 1 /\ f.step = "csw" /\ f.got = "own"

\* What is in an endpoint that was emptied is older than the next command.
Older(p, t) == \A i \in 1 .. Len(p) : p[i].tag < t

EndpointIsKnown ==
    /\ pipe \in [Units -> Seq(Packets)]
    /\ AtClaim \/ (InCommand /\ Top.arg = "inquiry") => ~usb.emptied
    /\ usb.emptied /\ usb.handle \in Units =>
          /\ Older(pipe[usb.handle], usb.tag)
          /\ Sent => Top.tag < usb.tag /\ Behind(pipe[usb.handle], Top)

ToldOfItself == TagsAreCounted /\ EndpointIsKnown /\ RepliesAreOwn

\* Places outside the commands.
LEMMA ReturnLeaves ==
  ASSUME Chain, stack # <<>>, NEW r \in {"ok", "fail"}, Return(r)
  PROVE  ~InCommand' /\ ~AtClaim'
  <1>1. Answered(Top.op, r)
    BY ReturnedIsChain
  <1>2. ~AtClaim'
    BY <1>1, AnsweredPlaces
  <1>3. ~InCommand'
    BY <1>1 DEF Answered, InCommand, At
  <1> QED BY <1>2, <1>3

\* Where a step ends is seen from the frame on top.
LEMMA PlaceOfTop ==
  ASSUME NEW f, stack' # <<>>, Top' = f, f.op # "command", f.step # "claim"
  PROVE  ~InCommand' /\ ~AtClaim'
  BY DEF InCommand, AtClaim, At

\* A frame that is no command goes on outside the commands.
LEMMA GoLeaves ==
  ASSUME Chain, stack # <<>>, NEW s \in Steps, Go(s), Top.op # "command", s # "claim"
  PROVE  ~InCommand' /\ ~AtClaim'
  <1> DEFINE f == [Top EXCEPT !.step = s]
  <1>1. Len(stack) \in Nat \ {0} /\ Top \in Frames /\ stack \in Seq(Frames)
    BY TopIsFrame DEF Chain
  <1>2. f \in Frames /\ f.op = Top.op /\ f.step = s
    BY <1>1 DEF Frames
  <1>3. stack' = [stack EXCEPT ![Len(stack)] = f]
    BY DEF Go, InStep, Top
  <1> HIDE DEF f
  <1>4. stack' # <<>> /\ Top' = f
    BY <1>1, <1>2, <1>3 DEF Top
  <1> QED BY <1>2, <1>4, PlaceOfTop

\* A frame that calls another than a command waits for it.
LEMMA CallLeaves ==
  ASSUME Chain, stack # <<>>, NEW f \in Frames, NEW g \in Frames, g.op # "command",
         g.step # "claim", stack' = Append([stack EXCEPT ![Len(stack)] = f], g)
  PROVE  ~InCommand' /\ ~AtClaim'
  <1>1. Len(stack) \in Nat \ {0} /\ stack \in Seq(Frames)
    BY TopIsFrame DEF Chain
  <1>2. stack' # <<>> /\ Top' = g
    BY <1>1 DEF Top
  <1> QED BY <1>2, PlaceOfTop

\* The same, for a frame called at a step.
LEMMA CalledLeaves ==
  ASSUME Chain, stack # <<>>, NEW s \in Steps, NEW g \in Frames, g.op # "command",
         g.step # "claim", Call(s, g)
  PROVE  ~InCommand' /\ ~AtClaim'
  <1> DEFINE f == [Top EXCEPT !.step = s]
  <1>1. f \in Frames
    BY TopIsFrame DEF Frames
  <1>2. stack' = Append([stack EXCEPT ![Len(stack)] = f], g)
    BY DEF Call, InStep, Top
  <1> HIDE DEF f
  <1> QED BY <1>1, <1>2, CallLeaves

\* A frame that discards the handle is outside the commands.
LEMMA DiscardLeaves ==
  ASSUME Chain, stack # <<>>, NEW s \in Steps, Discard(s), Top.op # "command", s # "claim"
  PROVE  ~InCommand' /\ ~AtClaim'
  <1>1. CASE usb.handle = NoUnit
    <2> DEFINE f == [Top EXCEPT !.step = s]
    <2>1. Len(stack) \in Nat \ {0} /\ Top \in Frames /\ stack \in Seq(Frames)
      BY TopIsFrame DEF Chain
    <2>2. f \in Frames /\ f.op = Top.op /\ f.step = s
      BY <2>1 DEF Frames
    <2>3. stack' = [stack EXCEPT ![Len(stack)] = f]
      BY <1>1 DEF Discard, InStep, Top
    <2> HIDE DEF f
    <2>4. stack' # <<>> /\ Top' = f
      BY <2>1, <2>2, <2>3 DEF Top
    <2> QED BY <2>2, <2>4, PlaceOfTop
  <1>2. CASE usb.handle # NoUnit
    <2> DEFINE g == Frame("restore", "release", "none")
    <2>1. g \in Frames /\ g.op = "restore" /\ g.step = "release"
      BY NewFrames DEF Ops, Steps, Kinds
    <2>2. Call(s, g)
      BY <1>2 DEF Discard
    <2> HIDE DEF g
    <2> QED BY <2>1, <2>2, CalledLeaves
  <1> QED BY <1>1, <1>2

\* A step that ends outside the commands, with the tag it began with and no
\* newer packets.
LEMMA QuietTells ==
  ASSUME DrivesAreKept, ToldOfItself, ~InCommand', ~AtClaim', commands' = commands,
         usb'.tag = usb.tag, usb'.emptied = usb.emptied,
         usb'.handle \in {NoUnit, usb.handle}, pipe' \in [Units -> Seq(Packets)],
         usb.handle \in Units /\ Older(pipe[usb.handle], usb.tag)
            => Older(pipe'[usb.handle], usb.tag),
         RepliesAreOwn'
  PROVE  ToldOfItself'
  <1>1. ~At("command", "cbw")' /\ ~Sent'
    BY DEF InCommand, Sent
  <1>2. TagsAreCounted'
    BY <1>1 DEF ToldOfItself, TagsAreCounted
  <1>3. EndpointIsKnown'
    BY <1>1, UsbBotAssumption DEF ToldOfItself, EndpointIsKnown, Older
  <1> QED BY <1>2, <1>3 DEF ToldOfItself

\* A step that ends outside the commands and reads nothing.
LEMMA StillTells ==
  ASSUME DrivesAreKept, ToldOfItself, ~InCommand', ~AtClaim', UNCHANGED <<commands, pipe, reply>>,
         usb'.tag = usb.tag, usb'.emptied = usb.emptied, usb'.handle \in {NoUnit, usb.handle}
  PROVE  ToldOfItself'
  <1>1. RepliesAreOwn' /\ pipe' \in [Units -> Seq(Packets)]
    BY DEF ToldOfItself, RepliesAreOwn, EndpointIsKnown
  <1>2. usb.handle \in Units /\ Older(pipe[usb.handle], usb.tag)
            => Older(pipe'[usb.handle], usb.tag)
    OBVIOUS
  <1> QED BY <1>1, <1>2, QuietTells

\* The transport starts anew.
LEMMA AnewTells ==
  ASSUME ToldOfItself, ~InCommand', ~AtClaim', commands' \in Nat, commands' <= MaxCommands,
         usb'.tag = 1, ~usb'.emptied, UNCHANGED pipe, RepliesAreOwn'
  PROVE  ToldOfItself'
  <1>1. ~At("command", "cbw")'
    BY DEF InCommand
  <1>2. \A c \in Nat : 1 <= c + 2
    OBVIOUS
  <1>3. usb'.tag <= commands' + 2
    <2>1. 1 <= commands' + 2
      BY <1>2
    <2>2. usb'.tag = 1
      OBVIOUS
    <2> QED BY <2>1, <2>2
  <1>4. TagsAreCounted'
    BY <1>1, <1>3 DEF TagsAreCounted
  <1>5. EndpointIsKnown'
    BY DEF ToldOfItself, EndpointIsKnown
  <1> QED BY <1>4, <1>5 DEF ToldOfItself

-----------------------------------------------------------------------------
(* The steps outside the commands.                                         *)

\* A restoration reads nothing.
LEMMA RestoringTells ==
  ASSUME Chain, DrivesAreKept, ToldOfItself, Release \/ Attach
  PROVE  ToldOfItself'
  <1>1. stack # <<>> /\ Top.op = "restore" /\ usb \in UsbRecords
    BY DEF Release, Attach, At, DrivesAreKept, World
  <1>2. UNCHANGED <<commands, pipe, reply>>
    BY DEF Release, Attach, bounds, Trouble
  <1>3. /\ usb'.tag = usb.tag /\ usb'.emptied = usb.emptied
        /\ usb'.handle \in {NoUnit, usb.handle}
    BY <1>1 DEF Release, Attach, UsbRecords
  <1>4. ASSUME UNCHANGED ret, stack' = [stack EXCEPT ![Len(stack)].n = @ + 1]
        PROVE  ~InCommand' /\ ~AtClaim'
    <2> DEFINE f == [Top EXCEPT !.n = @ + 1]
    <2>1. Len(stack) \in Nat \ {0} /\ Top \in Frames /\ stack \in Seq(Frames)
      BY <1>1, TopIsFrame DEF Chain
    <2>2. f \in Frames /\ f.op = "restore" /\ f.step = Top.step
      BY <1>1, <2>1 DEF Frames
    <2>3. stack' = [stack EXCEPT ![Len(stack)] = f]
      BY <1>4 DEF Top
    <2> HIDE DEF f
    <2>4. stack' # <<>> /\ Top' = f
      BY <2>1, <2>2, <2>3 DEF Top
    <2>5. ~InCommand' /\ Top'.op = "restore"
      BY <2>2, <2>4 DEF InCommand, At
    <2> QED BY <2>5 DEF AtClaim, At
  <1>5. \/ Return("ok") \/ Return("fail") \/ Go("attach")
        \/ UNCHANGED ret /\ stack' = [stack EXCEPT ![Len(stack)].n = @ + 1]
    BY DEF Release, Attach
  <1>6. ~InCommand' /\ ~AtClaim'
    BY <1>1, <1>4, <1>5, ReturnLeaves, GoLeaves DEF Steps
  <1> QED BY <1>2, <1>3, <1>6, StillTells

\* Nor does a reopening between its commands.
LEMMA ReopeningTells ==
  ASSUME Chain, DrivesAreKept, ToldOfItself,
         \/ CommandFailed \/ ResetReopened \/ ReopenBegin \/ ReopenFirst \/ ReopenAgain
         \/ ReopenEnds \/ CandidateFails \/ CandidateDiscarded
  PROVE  ToldOfItself'
  <1>1. stack # <<>> /\ usb \in UsbRecords
    BY DEF CommandFailed, ResetReopened, ReopenBegin, ReopenFirst, ReopenAgain, ReopenEnds,
           CandidateFails, CandidateDiscarded, Back, At, DrivesAreKept, World
  <1>2. UNCHANGED <<commands, pipe, reply>>
    BY DEF CommandFailed, ResetReopened, ReopenBegin, ReopenFirst, ReopenAgain, ReopenEnds,
           CandidateFails, CandidateDiscarded, bounds, world
  <1>3. /\ usb'.tag = usb.tag /\ usb'.emptied = usb.emptied
        /\ usb'.handle \in {NoUnit, usb.handle}
    <2>1. usb' = usb \/ usb' = Discarded \/ usb' = [usb EXCEPT !.claimed = FALSE]
      BY DEF CommandFailed, ResetReopened, ReopenBegin, ReopenFirst, ReopenAgain, ReopenEnds,
             CandidateFails, CandidateDiscarded, Discard
    <2> QED BY <1>1, <2>1, DiscardedIsFree DEF UsbRecords
  <1>4. CASE CommandFailed \/ ResetReopened \/ ReopenEnds \/ CandidateDiscarded
    <2>1. Return("ok") \/ Return("fail")
      BY <1>4 DEF CommandFailed, ResetReopened, ReopenEnds, CandidateDiscarded
    <2>2. ~InCommand' /\ ~AtClaim'
      BY <1>1, <2>1, ReturnLeaves
    <2> QED BY <1>2, <1>3, <2>2, StillTells
  <1>5. CASE ReopenBegin \/ CandidateFails
    <2>1. Top.op # "command" /\ (Discard("try") \/ Discard("discarded"))
      BY <1>5 DEF ReopenBegin, CandidateFails, At, Back
    <2>2. ~InCommand' /\ ~AtClaim'
      BY <1>1, <2>1, DiscardLeaves DEF Steps
    <2> QED BY <1>2, <1>3, <2>2, StillTells
  <1>6. CASE ReopenFirst \/ ReopenAgain
    <2> DEFINE g == Frame("match", "list", usb.identity)
               f == IF ReopenFirst THEN [Top EXCEPT !.step = "tried"]
                    ELSE [Top EXCEPT !.n = @ + 1]
    <2>1. g \in Frames /\ g.op = "match" /\ g.step = "list"
      BY <1>1, NewFrames DEF Ops, Steps, UsbRecords
    <2>2. f \in Frames
      BY <1>1, TopIsFrame DEF Frames, Steps
    <2>3. stack' = Append([stack EXCEPT ![Len(stack)] = f], g)
      BY <1>6 DEF ReopenFirst, ReopenAgain, Call, InStep, Top
    <2> HIDE DEF f, g
    <2>4. ~InCommand' /\ ~AtClaim'
      BY <1>1, <2>1, <2>2, <2>3, CallLeaves
    <2> QED BY <1>2, <1>3, <2>4, StillTells
  <1> QED BY <1>4, <1>5, <1>6

\* An endpoint is emptied.
LEMMA EmptiedPipe ==
  ASSUME ToldOfItself, NEW u \in Units, pipe' = [pipe EXCEPT ![u] = <<>>]
  PROVE  /\ pipe' \in [Units -> Seq(Packets)]
         /\ pipe'[u] = <<>>
         /\ \A h \in Units : pipe'[h] = pipe[h] \/ pipe'[h] = <<>>
  BY DEF ToldOfItself, EndpointIsKnown

\* An empty endpoint holds nothing wrong.
LEMMA NothingIsOlder ==
  ASSUME NEW t, NEW f
  PROVE  Older(<<>>, t) /\ Behind(<<>>, f)
  BY DEF Older, Behind

\* A reset empties the endpoint.
LEMMA ResetBotTells ==
  ASSUME Chain, DrivesAreKept, ToldOfItself, ResetBot
  PROVE  ToldOfItself'
  <1>1. /\ stack # <<>> /\ UNCHANGED <<commands, reply>> /\ RepliesAreOwn'
        /\ usb'.tag = usb.tag /\ usb'.emptied = usb.emptied /\ usb'.handle = usb.handle
    <2>1. usb' = usb \/ usb' = Gripped
      BY DEF ResetBot
    <2>2. /\ usb'.tag = usb.tag /\ usb'.emptied = usb.emptied /\ usb'.handle = usb.handle
      BY <2>1 DEF Gripped, DrivesAreKept, World, UsbRecords
    <2> QED BY <2>2 DEF ResetBot, At, bounds, Trouble, ToldOfItself, RepliesAreOwn
  <1>2. CASE Return("ok") /\ Reachable /\ pipe' = [pipe EXCEPT ![usb.handle] = <<>>]
    <2>1. usb.handle \in Units
      BY <1>2 DEF Reachable, DrivesAreKept, Held
    <2>2. pipe' \in [Units -> Seq(Packets)] /\ Older(pipe'[usb.handle], usb.tag)
      BY <1>2, <2>1, EmptiedPipe, NothingIsOlder
    <2>3. ~InCommand' /\ ~AtClaim'
      BY <1>1, <1>2, ReturnLeaves
    <2> QED BY <1>1, <2>2, <2>3, QuietTells
  <1>3. CASE Call("reopened", Frame("reopen", "begin", "none")) /\ UNCHANGED pipe
    <2> DEFINE g == Frame("reopen", "begin", "none")
    <2>1. g \in Frames /\ g.op = "reopen" /\ g.step = "begin"
      BY NewFrames DEF Ops, Steps, Kinds
    <2>2. "reopened" \in Steps /\ Call("reopened", g)
      BY <1>3 DEF Steps
    <2> HIDE DEF g
    <2>3. ~InCommand' /\ ~AtClaim'
      BY <1>1, <2>1, <2>2, CalledLeaves
    <2> QED BY <1>1, <1>3, <2>3, StillTells
  <1> QED BY <1>2, <1>3 DEF ResetBot, Reaches

\* A claim starts the tags at one, on a drive whose endpoint was not emptied.
LEMMA ClaimInterfaceTells ==
  ASSUME Chain, DrivesAreKept, ToldOfItself, ClaimInterface
  PROVE  ToldOfItself'
  <1>1. /\ stack # <<>> /\ Top.op = "match" /\ AtClaim /\ ~usb.emptied
        /\ UNCHANGED <<commands, pipe, reply>> /\ RepliesAreOwn'
        /\ usb \in UsbRecords
    BY DEF ClaimInterface, At, AtClaim, bounds, Trouble, ToldOfItself, EndpointIsKnown,
           RepliesAreOwn, DrivesAreKept, World
  <1>2. ASSUME Go("discard"), NEW owes \in BOOLEAN, usb' = [usb EXCEPT !.owes = owes]
        PROVE  ToldOfItself'
    <2>1. ~InCommand' /\ ~AtClaim'
      BY <1>1, <1>2, GoLeaves DEF Steps
    <2>2. /\ usb'.tag = usb.tag /\ usb'.emptied = usb.emptied
          /\ usb'.handle \in {NoUnit, usb.handle}
      BY <1>1, <1>2 DEF UsbRecords
    <2> QED BY <1>1, <2>1, <2>2, StillTells
  <1>3. ASSUME usb' = [usb EXCEPT !.claimed = TRUE, !.grip = "claimed", !.owes = TRUE,
                                  !.tag = 1],
               Call("inquired", Frame("command", "cbw", "inquiry"))
        PROVE  ToldOfItself'
    <2> DEFINE g == Frame("command", "cbw", "inquiry")
    <2>1. g \in Frames /\ g.op = "command" /\ g.step = "cbw" /\ g.arg = "inquiry"
      BY NewFrames DEF Ops, Steps, Kinds
    <2>2. Running(g) /\ <<Top.op, "inquired", g.op>> \in Waits
      BY <1>1, <2>1 DEF Running, Runs, Waits
    <2>3. "inquired" \in Steps /\ Call("inquired", g)
      BY <1>3 DEF Steps
    <2> HIDE DEF g
    <2>4. Top' = g
      BY <1>1, <2>1, <2>2, <2>3, CallsOn DEF Moves
    <2>5. usb'.tag = 1 /\ ~usb'.emptied
      BY <1>1, <1>3 DEF UsbRecords
    <2>6. commands' \in Nat /\ commands' <= MaxCommands
      BY <1>1 DEF ToldOfItself, TagsAreCounted
    <2>7. usb'.tag <= commands' + 2
      <3>1. \A c \in Nat : 1 <= c + 2
        OBVIOUS
      <3> QED BY <2>5, <2>6, <3>1
    <2>8. TagsAreCounted'
      BY <2>1, <2>4, <2>5, <2>6, <2>7 DEF TagsAreCounted
    <2>9. EndpointIsKnown'
      BY <1>1, <2>5 DEF ToldOfItself, EndpointIsKnown
    <2> QED BY <1>1, <2>8, <2>9 DEF ToldOfItself
  <1> QED BY <1>2, <1>3 DEF ClaimInterface

\* Nothing is known of the endpoint of a drive that was just opened.
LEMMA ChooseCandidateTells ==
  ASSUME Chain, DrivesAreKept, ToldOfItself, ChooseCandidate
  PROVE  ToldOfItself'
  <1>1. /\ stack # <<>> /\ Top.op = "match" /\ UNCHANGED <<commands, pipe, reply>>
        /\ RepliesAreOwn' /\ usb \in UsbRecords
    BY DEF ChooseCandidate, At, bounds, world, Trouble, ToldOfItself, RepliesAreOwn,
           DrivesAreKept, World
  <1>2. CASE Return("fail") /\ UNCHANGED usb
    <2>1. ~InCommand' /\ ~AtClaim'
      BY <1>1, <1>2, ReturnLeaves
    <2> QED BY <1>1, <1>2, <2>1, StillTells
  <1>3. ASSUME NEW u \in Units, Go("claim"),
               usb' = [usb EXCEPT !.handle = u, !.live = TRUE, !.grip = "none",
                                  !.released = TRUE, !.emptied = FALSE]
        PROVE  ToldOfItself'
    <2>1. usb'.tag = usb.tag /\ ~usb'.emptied
      BY <1>1, <1>3 DEF UsbRecords
    <2>2. Top' = [Top EXCEPT !.step = "claim"]
      BY <1>1, <1>3, GoesOn DEF Moves, Steps, Runs
    <2>3. Top'.op = "match"
      BY <1>1, <2>2, TopIsFrame DEF Frames
    <2>4. ~At("command", "cbw")'
      BY <2>3 DEF At
    <2>5. TagsAreCounted'
      BY <1>1, <2>1, <2>4 DEF ToldOfItself, TagsAreCounted
    <2>6. EndpointIsKnown'
      BY <1>1, <2>1 DEF ToldOfItself, EndpointIsKnown
    <2> QED BY <1>1, <2>5, <2>6 DEF ToldOfItself
  <1> QED BY <1>2, <1>3 DEF ChooseCandidate

\* The endpoint of a drive that matches is emptied.
LEMMA CandidateMatchesTells ==
  ASSUME Chain, DrivesAreKept, ToldOfItself, CandidateMatches
  PROVE  ToldOfItself'
  <1>1. /\ stack # <<>> /\ Top.op = "match" /\ UNCHANGED <<commands, reply>>
        /\ RepliesAreOwn' /\ usb \in UsbRecords
    BY DEF CandidateMatches, Back, bounds, Trouble, ToldOfItself, RepliesAreOwn,
           DrivesAreKept, World
  <1>2. CASE Go("discard") /\ UNCHANGED <<pipe, usb>>
    <2>1. ~InCommand' /\ ~AtClaim'
      BY <1>1, <1>2, GoLeaves DEF Steps
    <2> QED BY <1>1, <1>2, <2>1, StillTells
  <1>3. ASSUME Return("ok"), Reachable, pipe' = [pipe EXCEPT ![usb.handle] = <<>>],
               usb' = [usb EXCEPT !.identity = Top.arg, !.port = at[usb.handle],
                                  !.id = DeviceId(usb.handle), !.emptied = TRUE,
                                  !.first = IF @ = NoId THEN DeviceId(usb.handle) ELSE @]
        PROVE  ToldOfItself'
    <2>1. usb.handle \in Units
      BY <1>3 DEF Reachable, DrivesAreKept, Held
    <2>2. ~InCommand' /\ ~AtClaim'
      BY <1>1, <1>3, ReturnLeaves
    <2>3. ~Sent' /\ ~At("command", "cbw")'
      BY <2>2 DEF InCommand, Sent
    <2> DEFINE first == IF usb.first = NoId THEN DeviceId(usb.handle) ELSE usb.first
    <2>4. usb' = [usb EXCEPT !.identity = Top.arg, !.port = at[usb.handle],
                             !.id = DeviceId(usb.handle), !.emptied = TRUE, !.first = first]
      BY <1>3
    <2> HIDE DEF first
    <2>5. usb'.tag = usb.tag /\ usb'.handle = usb.handle
      BY <1>1, <2>4 DEF UsbRecords
    <2>6. pipe' \in [Units -> Seq(Packets)] /\ Older(pipe'[usb.handle], usb.tag)
      BY <1>3, <2>1, EmptiedPipe, NothingIsOlder
    <2>7. TagsAreCounted'
      BY <1>1, <2>3, <2>5 DEF ToldOfItself, TagsAreCounted
    <2>8. EndpointIsKnown'
      BY <2>2, <2>3, <2>5, <2>6 DEF EndpointIsKnown, Older
    <2> QED BY <1>1, <2>7, <2>8 DEF ToldOfItself
  <1> QED BY <1>2, <1>3 DEF CandidateMatches

\* A transport that is not open has sent nothing.
LEMMA NoUsbIsUnused ==
  NoUsb.tag = 1 /\ ~NoUsb.emptied
  BY DEF NoUsb

\* The end of an opening or of a close reads nothing.
LEMMA EndingTells ==
  ASSUME Chain, DrivesAreKept, ToldOfItself, Opened \/ Closed
  PROVE  ToldOfItself'
  <1>1. /\ stack # <<>> /\ UNCHANGED <<commands, pipe, reply>> /\ RepliesAreOwn'
        /\ Return("ok") /\ (usb' = usb \/ usb' = NoUsb)
    BY DEF Opened, Closed, Back, bounds, world, ToldOfItself, RepliesAreOwn
  <1>2. ~InCommand' /\ ~AtClaim'
    BY <1>1, ReturnLeaves
  <1>3. CASE usb' = usb
    BY <1>1, <1>2, <1>3, StillTells
  <1>4. CASE usb' = NoUsb
    <2>1. usb'.tag = 1 /\ ~usb'.emptied
      BY <1>4, NoUsbIsUnused
    <2>2. commands' \in Nat /\ commands' <= MaxCommands
      BY <1>1 DEF ToldOfItself, TagsAreCounted
    <2> QED BY <1>1, <1>2, <2>1, <2>2, AnewTells
  <1> QED BY <1>1, <1>3, <1>4

-----------------------------------------------------------------------------
(* The owner's calls, and what happens to the drives.                      *)

\* The calls of the owner count the commands.
LEMMA CallsTell ==
  ASSUME Chain, DrivesAreKept, ToldOfItself, Calls
  PROVE  ToldOfItself'
  <1>1. CASE Open
    <2>1. /\ ~usb.open /\ stack = <<>> /\ commands' = commands + 1 /\ commands < MaxCommands
          /\ reply' = NoReply /\ UNCHANGED pipe
      BY <1>1 DEF Open, Owner, world
    <2>2. PICK i \in {Scsi[u] : u \in Units} :
             /\ \E id \in {NoId} \cup {DeviceId(u) : u \in {v \in Units : Plugged(v)}} :
                    usb' = [NoUsb EXCEPT !.open = TRUE, !.id = id]
             /\ stack' = <<Frame("open", "opened", i), Frame("match", "list", i)>>
      BY <1>1 DEF Open
    <2>3. usb'.tag = 1 /\ ~usb'.emptied
      BY <2>2 DEF NoUsb
    <2>4. stack' # <<>> /\ Top' = Frame("match", "list", i)
      BY <2>2 DEF Top
    <2>5. ~InCommand' /\ ~AtClaim'
      BY <2>4 DEF InCommand, AtClaim, At, Frame
    <2>6. commands' \in Nat /\ commands' <= MaxCommands
      BY <2>1, UsbBotAssumption DEF ToldOfItself, TagsAreCounted
    <2>7. RepliesAreOwn'
      BY <2>1 DEF RepliesAreOwn, NoReply
    <2> QED BY <2>1, <2>3, <2>5, <2>6, <2>7, AnewTells
  <1>2. ASSUME Reset \/ \E k \in {"in", "out", "none"} : Command(k)
        PROVE  ToldOfItself'
    <2>1. /\ commands' = commands + 1 /\ commands < MaxCommands
          /\ UNCHANGED <<pipe, usb, reply>>
          /\ \/ stack' = <<Frame("reset", "begin", "none")>>
             \/ \E k \in {"in", "out", "none"} : stack' = <<Frame("command", "cbw", k)>>
      BY <1>2 DEF Reset, Command, Owner, world
    <2>2. /\ stack' # <<>> /\ Top'.arg # "inquiry"
          /\ Top'.step \in {"begin", "cbw"}
      BY <2>1 DEF Top, Frame
    <2>3. ~Sent' /\ ~AtClaim'
      BY <2>2 DEF Sent, AtClaim, At
    <2>4. TagsAreCounted'
      BY <2>1, <2>2, UsbBotAssumption DEF ToldOfItself, TagsAreCounted, DrivesAreKept, World,
         UsbRecords
    <2>5. EndpointIsKnown'
      BY <2>1, <2>2, <2>3 DEF ToldOfItself, EndpointIsKnown
    <2> QED BY <2>1, <2>4, <2>5 DEF ToldOfItself, RepliesAreOwn
  <1>3. CASE Close
    <2>1. UNCHANGED <<pipe, usb, reply, commands>>
      BY <1>3 DEF Close, world, bounds
    <2>2. stack' # <<>> /\ Top'.op \in {"close", "restore"}
      BY <1>3 DEF Close, Top, Frame
    <2>3. ~InCommand' /\ ~AtClaim'
      BY <2>2 DEF InCommand, AtClaim, At
    <2> QED BY <2>1, <2>3, StillTells
  <1> QED BY <1>1, <1>2, <1>3 DEF Calls

\* The places stay, and endpoints may be emptied.
LEMMA EventTells ==
  ASSUME ToldOfItself, UNCHANGED <<stack, ret, commands, reply>>,
         usb'.tag = usb.tag, usb'.emptied = usb.emptied, usb'.handle = usb.handle,
         pipe' \in [Units -> Seq(Packets)],
         \A h \in Units : pipe'[h] = pipe[h] \/ pipe'[h] = <<>>
  PROVE  ToldOfItself'
  <1>1. /\ (AtClaim <=> AtClaim') /\ (InCommand <=> InCommand') /\ (Sent <=> Sent')
        /\ (At("command", "cbw") <=> At("command", "cbw")') /\ Top' = Top
    BY DEF AtClaim, InCommand, Sent, At, Top
  <1>2. TagsAreCounted'
    BY <1>1 DEF ToldOfItself, TagsAreCounted
  <1>3. EndpointIsKnown'
    <2>1. SUFFICES ASSUME usb.emptied, usb.handle \in Units
                   PROVE  /\ Older(pipe'[usb.handle], usb.tag)
                          /\ Sent => Top.tag < usb.tag /\ Behind(pipe'[usb.handle], Top)
      BY <1>1 DEF ToldOfItself, EndpointIsKnown, Older, Behind
    <2>2. pipe'[usb.handle] = pipe[usb.handle] \/ pipe'[usb.handle] = <<>>
      BY <2>1
    <2> QED BY <2>1, <2>2, NothingIsOlder DEF ToldOfItself, EndpointIsKnown
  <1> QED BY <1>2, <1>3 DEF ToldOfItself, RepliesAreOwn

\* The drives come and go with empty endpoints.
LEMMA EnvironmentTells ==
  ASSUME Chain, DrivesAreKept, ToldOfItself, Environment
  PROVE  ToldOfItself'
  <1>1. ASSUME NEW u \in Units, Unplug(u) \/ Reenumerate(u)
        PROVE  ToldOfItself'
    <2>1. /\ UNCHANGED <<stack, ret, commands, reply>> /\ usb' = Lost(u)
          /\ pipe' = [pipe EXCEPT ![u] = <<>>]
      BY <1>1 DEF Unplug, Reenumerate, Trouble
    <2>2. /\ usb'.tag = usb.tag /\ usb'.emptied = usb.emptied /\ usb'.handle = usb.handle
      BY <2>1 DEF Lost, DrivesAreKept, World, UsbRecords
    <2> QED BY <2>1, <2>2, EmptiedPipe, EventTells
  <1>2. ASSUME NEW u \in Units, NEW p \in Ports, Plug(u, p)
        PROVE  ToldOfItself'
    <2>1. UNCHANGED <<stack, ret, commands, reply, usb, pipe>>
      BY <1>2 DEF Plug, Trouble
    <2> QED BY <2>1, EventTells DEF ToldOfItself, EndpointIsKnown
  <1>3. CASE Killed
    <2>1. /\ usb' = NoUsb /\ stack' = <<>> /\ UNCHANGED <<commands, pipe>> /\ reply' = NoReply
      BY <1>3 DEF Killed, Trouble
    <2>2. ~InCommand' /\ ~AtClaim' /\ RepliesAreOwn'
      BY <2>1 DEF InCommand, AtClaim, At, RepliesAreOwn, NoReply
    <2>3. usb'.tag = 1 /\ ~usb'.emptied
      BY <2>1, NoUsbIsUnused
    <2>4. commands' \in Nat /\ commands' <= MaxCommands
      BY <2>1 DEF ToldOfItself, TagsAreCounted
    <2> QED BY <2>1, <2>2, <2>3, <2>4, AnewTells
  <1> QED BY <1>1, <1>2, <1>3 DEF Environment

-----------------------------------------------------------------------------
(* The commands.                                                           *)

\* Before the tags come round, the next one is larger by one.
LEMMA NextTagIsNext ==
  ASSUME NEW t \in Nat, t + 1 < TagLimit
  PROVE  NextTag(t) = t + 1
  <1>1. TagLimit \in Nat /\ t + 1 \in Nat /\ t + 1 # 0
    BY UsbBotAssumption
  <1>2. \A x, y \in Nat : x < y => x % y = x
    OBVIOUS
  <1>3. (t + 1) % TagLimit = t + 1
    BY <1>1, <1>2
  <1> QED BY <1>1, <1>3 DEF NextTag

\* Packets grow old, and keep their tags.
LEMMA StaleIsPackets ==
  ASSUME NEW p \in Seq(Packets)
  PROVE  /\ Stale(p) \in Seq(Packets) /\ Len(Stale(p)) = Len(p)
         /\ \A i \in 1 .. Len(p) : Stale(p)[i].tag = p[i].tag
  <1>1. \A i \in 1 .. Len(p) : p[i] \in Packets
    OBVIOUS
  <1>2. ASSUME NEW i \in 1 .. Len(p)
        PROVE  [p[i] EXCEPT !.fresh = FALSE] \in Packets
               /\ [p[i] EXCEPT !.fresh = FALSE].tag = p[i].tag
    BY <1>1 DEF Packets
  <1>3. DOMAIN p = 1 .. Len(p) /\ Len(p) \in Nat
    OBVIOUS
  <1>4. Stale(p) = [i \in 1 .. Len(p) |-> [p[i] EXCEPT !.fresh = FALSE]]
    BY <1>3 DEF Stale
  <1>5. Stale(p) \in [1 .. Len(p) -> Packets]
    BY <1>2, <1>4
  <1>6. Stale(p) \in Seq(Packets) /\ Len(Stale(p)) = Len(p)
    BY <1>3, <1>5, SeqDef, LenProperties
  <1> QED BY <1>2, <1>4, <1>6

\* An answer: fresh packets of this tag, a good status behind the data.
Answer(a, kind, tag) ==
    /\ a \in Seq(Packets)
    /\ \A i \in 1 .. Len(a) :
          /\ a[i].tag = tag /\ a[i].fresh
          /\ kind = "in" /\ a[i].type = "csw" /\ a[i].good
                => i > 1 /\ a[i - 1].type = "data"

\* What the drive answers is an answer in this sense.
LEMMA AnswersAreAnswers ==
  ASSUME NEW kind \in Kinds \cup Range(Identities), NEW tag \in Nat,
         NEW a \in Answers(kind, tag) \cup {<<>>}
  PROVE  Answer(a, kind, tag)
  <1>1. ASSUME NEW type \in {"csw", "data", "stall"}, NEW good \in BOOLEAN
        PROVE  /\ Packet(type, tag, good, kind) \in Packets
               /\ Packet(type, tag, good, kind).tag = tag
               /\ Packet(type, tag, good, kind).fresh
               /\ Packet(type, tag, good, kind).type = type
               /\ Packet(type, tag, good, kind).good = good
    BY DEF Packet, Packets
  <1>2. CASE a = <<>>
    BY <1>2 DEF Answer
  <1>3. CASE a = <<Packet("csw", tag, FALSE, kind)>>
    <2> DEFINE x == Packet("csw", tag, FALSE, kind)
    <2>1. x \in Packets /\ x.tag = tag /\ x.fresh /\ ~x.good
      BY <1>1
    <2>2. a = <<x>>
      BY <1>3
    <2> HIDE DEF x
    <2> QED BY <2>1, <2>2 DEF Answer
  <1>4. CASE kind # "in" /\ a = <<Packet("csw", tag, TRUE, kind)>>
    <2> DEFINE x == Packet("csw", tag, TRUE, kind)
    <2>1. x \in Packets /\ x.tag = tag /\ x.fresh
      BY <1>1
    <2>2. a = <<x>>
      BY <1>4
    <2> HIDE DEF x
    <2>3. a \in Seq(Packets) /\ \A i \in 1 .. Len(a) : a[i] = x
      BY <2>1, <2>2
    <2> QED BY <1>4, <2>1, <2>3 DEF Answer
  <1>5. CASE a = <<Packet("data", tag, TRUE, kind), Packet("csw", tag, TRUE, kind)>>
    <2> DEFINE x == Packet("data", tag, TRUE, kind)
               y == Packet("csw", tag, TRUE, kind)
    <2>1. /\ x \in Packets /\ x.tag = tag /\ x.fresh /\ x.type = "data"
          /\ y \in Packets /\ y.tag = tag /\ y.fresh
      BY <1>1
    <2>2. a = <<x, y>>
      BY <1>5
    <2> HIDE DEF x, y
    <2>3. a \in Seq(Packets) /\ Len(a) = 2 /\ a[1] = x /\ a[2] = y
      BY <2>1, <2>2
    <2>4. \A i \in 1 .. Len(a) : i = 1 \/ i = 2
      BY <2>3
    <2>5. a[2 - 1] = x
      BY <2>3
    <2> QED BY <2>1, <2>3, <2>4, <2>5 DEF Answer
  <1>6. CASE a = <<Packet("stall", tag, TRUE, kind), Packet("csw", tag, FALSE, kind)>>
    <2> DEFINE x == Packet("stall", tag, TRUE, kind)
               y == Packet("csw", tag, FALSE, kind)
    <2>1. /\ x \in Packets /\ x.tag = tag /\ x.fresh /\ x.type = "stall"
          /\ y \in Packets /\ y.tag = tag /\ y.fresh /\ ~y.good
      BY <1>1
    <2>2. a = <<x, y>>
      BY <1>6
    <2> HIDE DEF x, y
    <2>3. a \in Seq(Packets) /\ Len(a) = 2 /\ a[1] = x /\ a[2] = y
      BY <2>1, <2>2
    <2>4. \A i \in 1 .. Len(a) : i = 1 \/ i = 2
      BY <2>3
    <2> QED BY <2>1, <2>3, <2>4 DEF Answer
  <1> QED BY <1>2, <1>3, <1>4, <1>5, <1>6 DEF Answers

\* What was in the endpoint when a command is sent is behind it with its age.
LEMMA SentIsBehind ==
  ASSUME NEW p \in Seq(Packets), NEW t \in Nat, Older(p, t), NEW f \in Frames, f.tag = t,
         NEW a, Answer(a, f.arg, t)
  PROVE  LET q == Stale(p) \o a
         IN  q \in Seq(Packets) /\ Older(q, t + 1) /\ Behind(q, f)
  <1> DEFINE s == Stale(p)
             q == s \o a
  <1>1. /\ s \in Seq(Packets) /\ Len(s) = Len(p) /\ Len(p) \in Nat
        /\ \A i \in 1 .. Len(p) : s[i].tag < t
    BY StaleIsPackets DEF Older
  <1>2. a \in Seq(Packets) /\ Len(a) \in Nat
    BY DEF Answer
  <1> HIDE DEF s
  <1>3. q \in Seq(Packets) /\ Len(q) = Len(s) + Len(a)
    BY <1>1, <1>2
  <1>4. ASSUME NEW i \in 1 .. Len(q)
        PROVE  \/ i \in 1 .. Len(p) /\ q[i] = s[i]
               \/ i - Len(p) \in 1 .. Len(a) /\ q[i] = a[i - Len(p)]
    BY <1>1, <1>2, <1>3
  <1> HIDE DEF q
  <1>5. ASSUME NEW i \in 1 .. Len(q), q[i].tag = t
        PROVE  i - Len(p) \in 1 .. Len(a) /\ q[i] = a[i - Len(p)] /\ q[i].fresh
    <2>1. ~(i \in 1 .. Len(p) /\ q[i] = s[i])
      <3>1. SUFFICES ASSUME i \in 1 .. Len(p), q[i] = s[i] PROVE FALSE
        OBVIOUS
      <3>2. q[i].tag < t
        BY <1>1, <3>1
      <3> QED BY <1>5, <3>2
    <2>2. i - Len(p) \in 1 .. Len(a) /\ q[i] = a[i - Len(p)]
      BY <1>4, <2>1
    <2> QED BY <2>2 DEF Answer
  <1>6. Older(q, t + 1)
    <2>1. ASSUME NEW i \in 1 .. Len(q) PROVE q[i].tag < t + 1
      <3>1. q[i].tag < t \/ q[i].tag = t
        BY <1>1, <1>4 DEF Answer
      <3>2. q[i] \in Packets
        BY <1>3
      <3>3. q[i].tag \in Nat
        BY <3>2 DEF Packets
      <3>4. \A x \in Nat : x < t \/ x = t => x < t + 1
        OBVIOUS
      <3> QED BY <3>1, <3>3, <3>4
    <2> QED BY <2>1 DEF Older
  <1>7. Behind(q, f)
    <2>1. \A i \in 1 .. Len(q) : q[i].tag = f.tag => q[i].fresh
      BY <1>5
    <2>2. ASSUME f.arg = "in", NEW i \in 1 .. Len(q), q[i].type = "csw", q[i].good,
                 q[i].tag = f.tag
          PROVE  i > 1 /\ q[i - 1].type = "data" /\ q[i - 1].fresh
      <3> DEFINE j == i - Len(p)
      <3>1. j \in 1 .. Len(a) /\ q[i] = a[j]
        BY <1>5, <2>2
      <3>2. j > 1 /\ a[j - 1].type = "data"
        BY <2>2, <3>1 DEF Answer
      <3>3. i > 1 /\ i - 1 \in 1 .. Len(q) /\ j - 1 \in 1 .. Len(a)
        BY <1>1, <1>2, <3>1, <3>2
      <3>4. q[i - 1] = a[j - 1]
        <4>1. (i - 1) - Len(p) = j - 1 /\ i - 1 \notin 1 .. Len(p)
          BY <1>1, <3>1, <3>2
        <4> QED BY <1>4, <3>3, <4>1
      <3>5. a[j - 1].fresh
        BY <3>3 DEF Answer
      <3> QED BY <3>2, <3>3, <3>4, <3>5
    <2> QED BY <2>1, <2>2 DEF Behind
  <1> QED BY <1>3, <1>6, <1>7 DEF q, s

\* One packet is read.
LEMMA TailOf ==
  ASSUME NEW p \in Seq(Packets), p # <<>>
  PROVE  /\ Tail(p) \in Seq(Packets) /\ Head(p) = p[1] /\ Head(p) \in Packets
         /\ 1 \in 1 .. Len(p) /\ Len(p) \in Nat
         /\ \A i \in 1 .. Len(Tail(p)) : /\ i + 1 \in 1 .. Len(p) /\ i + 1 > 1
                                         /\ Tail(p)[i] = p[i + 1]
  OBVIOUS

\* What is left behind a packet is as old as before.
LEMMA TailIsOlder ==
  ASSUME NEW p \in Seq(Packets), p # <<>>, NEW t, Older(p, t)
  PROVE  Older(Tail(p), t)
  BY TailOf DEF Older

\* What is left behind a packet that was not the status: a fresh one was
\* noted down as the data of the command.
LEMMA TailIsBehind ==
  ASSUME NEW p \in Seq(Packets), p # <<>>, NEW f, NEW g, Behind(p, f), g.tag = f.tag,
         g.arg = f.arg, g.step = "csw",
         Head(p).type = "data" /\ Head(p).fresh => g.got = "own"
  PROVE  Behind(Tail(p), g)
  <1>1. ASSUME NEW i \in 1 .. Len(Tail(p)), Tail(p)[i].tag = g.tag
        PROVE  Tail(p)[i].fresh
    BY <1>1, TailOf DEF Behind
  <1>2. ASSUME g.arg = "in", NEW i \in 1 .. Len(Tail(p)), Tail(p)[i].type = "csw",
               Tail(p)[i].good, Tail(p)[i].tag = g.tag
        PROVE  \/ i > 1 /\ Tail(p)[i - 1].type = "data" /\ Tail(p)[i - 1].fresh
               \/ i = 1 /\ g.step = "csw" /\ g.got = "own"
    <2>1. i + 1 \in 1 .. Len(p) /\ Tail(p)[i] = p[i + 1] /\ i \in Nat /\ i >= 1
      BY TailOf
    <2>2. i + 1 # 1 /\ (i + 1) - 1 = i
      BY <2>1
    <2>3. p[(i + 1) - 1].type = "data" /\ p[(i + 1) - 1].fresh
      BY <1>2, <2>1, <2>2 DEF Behind
    <2>4. p[i].type = "data" /\ p[i].fresh
      BY <2>2, <2>3
    <2>5. CASE i = 1
      BY <2>4, <2>5, TailOf
    <2>6. CASE i > 1
      <3>1. i - 1 \in 1 .. Len(Tail(p)) /\ (i - 1) + 1 = i
        BY <2>1, <2>6
      <3>2. Tail(p)[i - 1] = p[i]
        BY <3>1, TailOf
      <3> QED BY <2>4, <2>6, <3>2
    <2> QED BY <2>1, <2>5, <2>6
  <1> QED BY <1>1, <1>2 DEF Behind

\* A packet is read from the endpoint of the drive in hand.
LEMMA ReadPipe ==
  ASSUME DrivesAreKept, ToldOfItself, Head1 # <<>>, Consume
  PROVE  /\ usb.handle \in Units /\ Head1 = pipe[usb.handle]
         /\ pipe[usb.handle] \in Seq(Packets) /\ pipe[usb.handle] # <<>>
         /\ pipe' \in [Units -> Seq(Packets)]
         /\ pipe'[usb.handle] = Tail(pipe[usb.handle])
         /\ Older(pipe[usb.handle], usb.tag) => Older(pipe'[usb.handle], usb.tag)
  <1>1. Reachable /\ Head1 = pipe[usb.handle]
    BY DEF Head1
  <1>2. usb.handle \in Units
    BY <1>1 DEF Reachable, DrivesAreKept, Held
  <1>3. pipe[usb.handle] \in Seq(Packets) /\ pipe \in [Units -> Seq(Packets)]
    BY <1>2 DEF ToldOfItself, EndpointIsKnown
  <1>4. pipe[usb.handle] # <<>> /\ Tail(pipe[usb.handle]) \in Seq(Packets)
    BY <1>1, <1>3, TailOf
  <1>5. pipe' = [pipe EXCEPT ![usb.handle] = Tail(pipe[usb.handle])]
    BY DEF Consume
  <1>6. pipe' \in [Units -> Seq(Packets)] /\ pipe'[usb.handle] = Tail(pipe[usb.handle])
    BY <1>2, <1>3, <1>4, <1>5
  <1> QED BY <1>1, <1>2, <1>3, <1>4, <1>6, TailIsOlder

\* A command ends, having read a packet.
LEMMA ReadAndEnded ==
  ASSUME Chain, DrivesAreKept, ToldOfItself, stack # <<>>, Head1 # <<>>, Consume,
         UNCHANGED <<usb, commands>>, NEW r \in {"ok", "fail"}, Return(r), RepliesAreOwn'
  PROVE  ToldOfItself'
  <1>1. ~InCommand' /\ ~AtClaim'
    BY ReturnLeaves
  <1> QED BY <1>1, ReadPipe, QuietTells

\* A command is ended by a failing transfer.
LEMMA TransferFails ==
  ASSUME Chain, DrivesAreKept, ToldOfItself, stack # <<>>,
         Call("failed", Frame("reset", "begin", "none")),
         UNCHANGED <<usb, commands, pipe, reply>>
  PROVE  ToldOfItself'
  <1> DEFINE g == Frame("reset", "begin", "none")
  <1>1. g \in Frames /\ g.op = "reset" /\ g.step = "begin"
    BY NewFrames DEF Ops, Steps, Kinds
  <1>2. "failed" \in Steps /\ Call("failed", g)
    BY DEF Steps
  <1> HIDE DEF g
  <1>3. ~InCommand' /\ ~AtClaim'
    BY <1>1, <1>2, CalledLeaves
  <1> QED BY <1>3, StillTells

\* A command goes on to its status.
LEMMA OnToStatus ==
  ASSUME Chain, DrivesAreKept, ToldOfItself, At("command", "data"),
         UNCHANGED <<usb, commands, reply>>, NEW f \in Frames, f.op = "command",
         f.step = "csw", f.tag = Top.tag, f.arg = Top.arg,
         stack' = [stack EXCEPT ![Len(stack)] = f], ret' = "none",
         pipe' \in [Units -> Seq(Packets)],
         usb.handle \in Units /\ Older(pipe[usb.handle], usb.tag)
            => Older(pipe'[usb.handle], usb.tag),
         usb.handle \in Units /\ usb.emptied => Behind(pipe'[usb.handle], f)
  PROVE  ToldOfItself'
  <1>1. stack # <<>> /\ Top.op = "command" /\ Running(f)
    BY DEF At, Running, Runs
  <1>2. stack' # <<>> /\ Top' = f
    BY <1>1, ToppedIsChain DEF Moves
  <1>3. InCommand /\ Sent
    BY DEF InCommand, Sent
  <1>4. ~At("command", "cbw")' /\ ~AtClaim' /\ InCommand' /\ Sent'
    BY <1>2 DEF At, AtClaim, InCommand, Sent
  <1>5. TagsAreCounted'
    BY <1>4 DEF ToldOfItself, TagsAreCounted
  <1>6. ASSUME usb.emptied, usb.handle \in Units
        PROVE  /\ Older(pipe'[usb.handle], usb.tag) /\ f.tag < usb.tag
               /\ Behind(pipe'[usb.handle], f)
    BY <1>3, <1>6 DEF ToldOfItself, EndpointIsKnown
  <1>7. f.arg = "inquiry" => ~usb.emptied
    BY <1>3 DEF ToldOfItself, EndpointIsKnown
  <1>8. EndpointIsKnown'
    BY <1>2, <1>4, <1>6, <1>7 DEF EndpointIsKnown, Older, Behind
  <1> QED BY <1>5, <1>8 DEF ToldOfItself, RepliesAreOwn

\* A command is sent: its packets, and no others, have its tag.
LEMMA SendCbwTells ==
  ASSUME MaxCommands + 2 < TagLimit, Chain, DrivesAreKept, ToldOfItself, SendCbw
  PROVE  ToldOfItself'
  <1> DEFINE t == usb.tag
             h == usb.handle
             f == [Top EXCEPT !.tag = usb.tag,
                              !.step = IF Top.arg = "none" THEN "csw" ELSE "data"]
  <1>1. /\ stack # <<>> /\ Top.op = "command" /\ Top.step = "cbw" /\ At("command", "cbw")
        /\ UNCHANGED <<commands, reply>> /\ RepliesAreOwn'
    BY DEF SendCbw, At, bounds, Trouble, ToldOfItself, RepliesAreOwn
  <1>2. usb \in UsbRecords /\ t \in Nat /\ Top \in Frames
    BY <1>1, TopIsFrame DEF DrivesAreKept, World, UsbRecords
  <1>3. commands \in Nat /\ commands <= MaxCommands /\ t + 1 <= commands + 2
    <2>1. /\ commands \in Nat /\ commands <= MaxCommands
          /\ t = 1 \/ t <= commands + 1
      BY <1>1 DEF ToldOfItself, TagsAreCounted
    <2> QED BY <1>2, <2>1
  <1>4. NextTag(t) = t + 1
    <2>1. MaxCommands \in Nat /\ TagLimit \in Nat
      BY UsbBotAssumption
    <2>2. t + 1 < TagLimit
      BY <1>2, <1>3, <2>1
    <2> QED BY <1>2, <2>2, NextTagIsNext
  <1>5. CASE /\ Return("fail") /\ UNCHANGED pipe
             /\ usb' = usb \/ usb' = [usb EXCEPT !.tag = NextTag(@)]
    <2>1. usb' = usb \/ usb' = [usb EXCEPT !.tag = NextTag(@)]
      BY <1>5
    <2>2. /\ usb'.tag \in {t, t + 1} /\ usb'.emptied = usb.emptied /\ usb'.handle = h
      BY <1>2, <1>4, <2>1 DEF UsbRecords
    <2>3. ~InCommand' /\ ~AtClaim'
      BY <1>1, <1>5, ReturnLeaves
    <2>4. ~At("command", "cbw")' /\ ~Sent'
      BY <2>3 DEF InCommand, Sent
    <2>5. usb'.tag <= commands + 2
      BY <1>2, <1>3, <2>2
    <2>6. TagsAreCounted'
      BY <1>1, <1>3, <2>4, <2>5 DEF TagsAreCounted
    <2>7. UNCHANGED pipe
      BY <1>5
    <2>8. ASSUME h \in Units, usb.emptied
          PROVE  Older(pipe[h], usb'.tag)
      <3>1. Older(pipe[h], t) /\ pipe[h] \in Seq(Packets)
        BY <2>8 DEF ToldOfItself, EndpointIsKnown
      <3>2. \A i \in 1 .. Len(pipe[h]) : pipe[h][i] \in Packets
        BY <3>1
      <3>3. \A i \in 1 .. Len(pipe[h]) : pipe[h][i].tag \in Nat
        BY <3>2 DEF Packets
      <3>4. \A x \in Nat : x < t => x < t + 1
        BY <1>2
      <3>5. ASSUME NEW i \in 1 .. Len(pipe[h]) PROVE pipe[h][i].tag < usb'.tag
        <4>1. pipe[h][i].tag < t /\ pipe[h][i].tag < t + 1
          BY <3>1, <3>3, <3>4 DEF Older
        <4> QED BY <2>2, <4>1
      <3> QED BY <3>5 DEF Older
    <2>9. EndpointIsKnown'
      BY <2>2, <2>3, <2>4, <2>7, <2>8 DEF ToldOfItself, EndpointIsKnown, Older
    <2> QED BY <1>1, <2>6, <2>9 DEF ToldOfItself
  <1>6. ASSUME Reachable, usb' = [Gripped EXCEPT !.tag = NextTag(@)],
               NEW a \in Answers(Top.arg, t) \cup {<<>>},
               pipe' = [pipe EXCEPT ![h] = Stale(@) \o a],
               stack' = [stack EXCEPT ![Len(stack)] = f], ret' = "none"
        PROVE  ToldOfItself'
    <2>1. h \in Units
      BY <1>6 DEF Reachable, DrivesAreKept, Held
    <2>2. pipe \in [Units -> Seq(Packets)] /\ pipe[h] \in Seq(Packets)
      BY <2>1 DEF ToldOfItself, EndpointIsKnown
    <2>3. /\ f \in Frames /\ f.op = "command" /\ f.step \in {"csw", "data"}
          /\ f.tag = t /\ f.arg = Top.arg
      BY <1>1, <1>2 DEF Frames, Steps
    <2>4. usb'.tag = t + 1 /\ usb'.emptied = usb.emptied /\ usb'.handle = h
      <3>1. Gripped.tag = t /\ Gripped \in UsbRecords
        BY <1>2 DEF UsbRecords, Gripped
      <3> QED BY <1>2, <1>4, <1>6, <3>1 DEF UsbRecords, Gripped
    <2>5. Answer(a, f.arg, t)
      <3>1. Top.arg \in Kinds \cup Range(Identities)
        BY <1>2 DEF Frames
      <3> QED BY <1>2, <2>3, <3>1, AnswersAreAnswers
    <2>6. Stale(pipe[h]) \o a \in Seq(Packets)
      BY <2>2, <2>5, StaleIsPackets DEF Answer
    <2>7. /\ pipe' \in [Units -> Seq(Packets)]
          /\ pipe'[h] = Stale(pipe[h]) \o a
      <3>1. pipe' = [pipe EXCEPT ![h] = Stale(pipe[h]) \o a]
        BY <1>6
      <3> QED BY <2>1, <2>2, <2>6, <3>1
    <2> HIDE DEF f
    <2>8. stack' # <<>> /\ Top' = f
      <3>1. Running(f)
        BY <2>3 DEF Running, Runs
      <3> QED BY <1>1, <1>6, <2>3, <3>1, ToppedIsChain DEF Moves
    <2>9. ~At("command", "cbw")' /\ ~AtClaim'
      BY <2>3, <2>8 DEF At, AtClaim
    <2>10. TagsAreCounted'
      BY <1>1, <1>3, <2>4, <2>9 DEF TagsAreCounted
    <2>11. f.arg = "inquiry" => ~usb.emptied
      <3>1. InCommand
        BY <1>1 DEF InCommand
      <3> QED BY <2>3, <3>1 DEF ToldOfItself, EndpointIsKnown
    <2>12. ASSUME usb.emptied
           PROVE  Older(pipe'[h], t + 1) /\ Behind(pipe'[h], f) /\ f.tag < t + 1
      <3>1. Older(pipe[h], t)
        BY <2>1, <2>12 DEF ToldOfItself, EndpointIsKnown
      <3>2. Older(pipe'[h], t + 1) /\ Behind(pipe'[h], f)
        BY <1>2, <2>2, <2>3, <2>5, <2>7, <3>1, SentIsBehind
      <3> QED BY <1>2, <2>3, <3>2
    <2>13. EndpointIsKnown'
      BY <2>4, <2>7, <2>8, <2>9, <2>11, <2>12 DEF EndpointIsKnown, Older, Behind
    <2> QED BY <1>1, <2>10, <2>13 DEF ToldOfItself
  <1>7. \/ /\ Return("fail") /\ UNCHANGED pipe
           /\ usb' = usb \/ usb' = [usb EXCEPT !.tag = NextTag(@)]
        \/ /\ Reachable /\ usb' = [Gripped EXCEPT !.tag = NextTag(@)]
           /\ \E a \in Answers(Top.arg, t) \cup {<<>>} :
                 pipe' = [pipe EXCEPT ![h] = Stale(@) \o a]
           /\ stack' = [stack EXCEPT ![Len(stack)] = f] /\ ret' = "none"
    BY DEF SendCbw, Reaches, Top
  <1> QED BY <1>5, <1>6, <1>7

\* What is read as data is noted down as what it is.
LEMMA DataInTells ==
  ASSUME Chain, DrivesAreKept, ToldOfItself, DataIn
  PROVE  ToldOfItself'
  <1> DEFINE h == usb.handle
             p == pipe[usb.handle]
  <1>1. /\ At("command", "data") /\ stack # <<>> /\ Top.op = "command" /\ Top.step = "data"
        /\ Sent /\ UNCHANGED <<usb, commands>>
    BY DEF DataIn, At, Sent, bounds, Trouble
  <1>2. Top \in Frames /\ RepliesAreOwn
    BY <1>1, TopIsFrame DEF ToldOfItself
  <1>3. ASSUME Head1 # <<>>, Head(Head1).tag = Top.tag, Consume,
               IF Head(Head1).good /\ Top.arg = "in" THEN Succeed(Head(Head1).fresh)
               ELSE Return("fail") /\ UNCHANGED reply
        PROVE  ToldOfItself'
    <2>1. RepliesAreOwn'
      <3>1. CASE UNCHANGED reply
        BY <1>2, <3>1 DEF RepliesAreOwn
      <3>2. CASE reply' = [known |-> TRUE, fresh |-> Head(Head1).fresh,
                           emptied |-> usb.emptied]
        <4>1. reply'.fresh = Head(Head1).fresh /\ reply'.emptied = usb.emptied
          BY <3>2
        <4>2. ASSUME usb.emptied PROVE Head(Head1).fresh
          <5>1. h \in Units /\ Head1 = p /\ p \in Seq(Packets) /\ p # <<>>
            BY <1>3, ReadPipe
          <5>2. Behind(p, Top)
            BY <1>1, <4>2, <5>1 DEF ToldOfItself, EndpointIsKnown
          <5>3. Head(Head1) = p[1] /\ 1 \in 1 .. Len(p)
            BY <5>1, TailOf
          <5> QED BY <1>3, <5>2, <5>3 DEF Behind
        <4> QED BY <4>1, <4>2 DEF RepliesAreOwn
      <3> QED BY <1>3, <3>1, <3>2 DEF Succeed
    <2>2. Return("ok") \/ Return("fail")
      BY <1>3 DEF Succeed
    <2> QED BY <1>1, <1>3, <2>1, <2>2, ReadAndEnded
  <1>4. ASSUME Head1 # <<>>, Consume, UNCHANGED reply, ret' = "none", NEW got \in Gots,
               Head(Head1).type = "data" /\ Head(Head1).fresh => got = "own",
               stack' = [stack EXCEPT ![Len(stack)] = [Top EXCEPT !.step = "csw", !.got = got]]
        PROVE  ToldOfItself'
    <2> DEFINE f == [Top EXCEPT !.step = "csw", !.got = got]
    <2>1. /\ f \in Frames /\ f.op = "command" /\ f.step = "csw" /\ f.got = got
          /\ f.tag = Top.tag /\ f.arg = Top.arg
      BY <1>1, <1>2 DEF Frames, Steps
    <2>2. stack' = [stack EXCEPT ![Len(stack)] = f]
      BY <1>4
    <2> HIDE DEF f
    <2>3. /\ h \in Units /\ Head1 = p /\ p \in Seq(Packets) /\ p # <<>>
          /\ pipe' \in [Units -> Seq(Packets)] /\ pipe'[h] = Tail(p)
          /\ Older(p, usb.tag) => Older(pipe'[h], usb.tag)
      BY <1>4, ReadPipe
    <2>4. ASSUME usb.emptied PROVE Behind(pipe'[h], f)
      <3>1. Behind(p, Top)
        BY <1>1, <2>3, <2>4 DEF ToldOfItself, EndpointIsKnown
      <3>2. Head(p).type = "data" /\ Head(p).fresh => f.got = "own"
        BY <1>4, <2>1, <2>3
      <3> HIDE DEF p
      <3>3. Behind(Tail(p), f)
        BY <2>1, <2>3, <3>1, <3>2, TailIsBehind
      <3> QED BY <2>3, <3>3
    <2> QED BY <1>1, <1>4, <2>1, <2>2, <2>3, <2>4, OnToStatus
  <1>5. ASSUME Head1 # <<>>, Consume, UNCHANGED reply, Return("fail")
        PROVE  ToldOfItself'
    <2>1. RepliesAreOwn'
      BY <1>2, <1>5 DEF RepliesAreOwn
    <2> QED BY <1>1, <1>5, <2>1, ReadAndEnded
  <1>6. ASSUME UNCHANGED <<pipe, reply>>, Call("failed", Frame("reset", "begin", "none"))
        PROVE  ToldOfItself'
    BY <1>1, <1>6, TransferFails
  <1>7. ASSUME Head1 # <<>>, Consume, UNCHANGED reply, Go("csw"), Head(Head1).type = "stall"
        PROVE  ToldOfItself'
    <2>1. Top.got \in Gots /\ [Top EXCEPT !.step = "csw"]
                                 = [Top EXCEPT !.step = "csw", !.got = Top.got]
      BY <1>2 DEF Frames
    <2>2. /\ stack' = [stack EXCEPT ![Len(stack)] = [Top EXCEPT !.step = "csw"]]
          /\ ret' = "none"
      BY <1>7 DEF Go, InStep, Top
    <2> QED BY <1>4, <1>7, <2>1, <2>2
  <1>8. ASSUME Head1 # <<>>, Consume, UNCHANGED reply, ret' = "none",
               stack' = [stack EXCEPT ![Len(stack)] =
                            [@ EXCEPT !.step = "csw",
                                      !.got = IF Head(Head1).fresh THEN "own"
                                              ELSE IF Head(Head1).type = "data"
                                                      /\ Head(Head1).kind = Top.arg
                                              THEN "like" ELSE "stale"]]
        PROVE  ToldOfItself'
    <2> DEFINE got == IF Head(Head1).fresh THEN "own"
                      ELSE IF Head(Head1).type = "data" /\ Head(Head1).kind = Top.arg
                      THEN "like" ELSE "stale"
    <2>1. got \in Gots /\ (Head(Head1).fresh => got = "own")
      BY DEF Gots
    <2>2. stack' = [stack EXCEPT ![Len(stack)] = [Top EXCEPT !.step = "csw", !.got = got]]
      BY <1>8 DEF Top
    <2> HIDE DEF got
    <2> QED BY <1>4, <1>8, <2>1, <2>2
  <1> QED BY <1>3, <1>5, <1>6, <1>7, <1>8 DEF DataIn

\* A command that sends data has only its status to read.
LEMMA DataOutTells ==
  ASSUME Chain, DrivesAreKept, ToldOfItself, DataOut
  PROVE  ToldOfItself'
  <1>1. /\ At("command", "data") /\ stack # <<>> /\ Top.op = "command" /\ Top.arg = "out"
        /\ Sent /\ UNCHANGED <<usb, commands, pipe, reply>>
    BY DEF DataOut, At, Sent, bounds, Trouble, world
  <1>2. CASE Return("fail")
    <2>1. ~InCommand' /\ ~AtClaim'
      BY <1>1, <1>2, ReturnLeaves
    <2> QED BY <1>1, <2>1, StillTells
  <1>3. CASE Call("failed", Frame("reset", "begin", "none"))
    BY <1>1, <1>3, TransferFails
  <1>4. CASE Go("csw")
    <2> DEFINE f == [Top EXCEPT !.step = "csw"]
    <2>1. /\ f \in Frames /\ f.op = "command" /\ f.step = "csw" /\ f.tag = Top.tag
          /\ f.arg = Top.arg
      BY <1>1, TopIsFrame DEF Frames, Steps
    <2>2. stack' = [stack EXCEPT ![Len(stack)] = f] /\ ret' = "none"
      BY <1>4 DEF Go, InStep, Top
    <2> HIDE DEF f
    <2>3. pipe' \in [Units -> Seq(Packets)]
      BY <1>1 DEF ToldOfItself, EndpointIsKnown
    <2>4. ASSUME usb.handle \in Units, usb.emptied PROVE Behind(pipe'[usb.handle], f)
      <3>1. Behind(pipe[usb.handle], Top)
        BY <1>1, <2>4 DEF ToldOfItself, EndpointIsKnown
      <3> QED BY <1>1, <2>1, <3>1 DEF Behind
    <2> QED BY <1>1, <2>1, <2>2, <2>3, <2>4, OnToStatus
  <1> QED BY <1>2, <1>3, <1>4 DEF DataOut

\* A good status of the tag is fresh and, of a command that reads, behind its
\* data.
LEMMA ReceiveStatusTells ==
  ASSUME Chain, DrivesAreKept, ToldOfItself, ReceiveStatus
  PROVE  ToldOfItself'
  <1> DEFINE h == usb.handle
             p == pipe[usb.handle]
  <1>1. /\ stack # <<>> /\ Top.op = "command" /\ Top.step = "csw"
        /\ Sent /\ UNCHANGED <<usb, commands>> /\ RepliesAreOwn
    BY DEF ReceiveStatus, At, Sent, bounds, Trouble, ToldOfItself
  <1>2. ASSUME Head1 # <<>>, Consume, UNCHANGED reply, Return("ok") \/ Return("fail")
        PROVE  ToldOfItself'
    <2>1. RepliesAreOwn'
      BY <1>1, <1>2 DEF RepliesAreOwn
    <2> QED BY <1>1, <1>2, <2>1, ReadAndEnded
  <1>3. ASSUME Head1 # <<>>, Consume, Head(Head1).type = "csw", Head(Head1).tag = Top.tag,
               Head(Head1).good, Top.arg # "inquiry",
               Succeed(/\ Head(Head1).fresh
                       /\ Top.arg = "in" => Top.got = "own")
        PROVE  ToldOfItself'
    <2>1. /\ reply' = [known |-> TRUE,
                       fresh |-> Head(Head1).fresh /\ (Top.arg = "in" => Top.got = "own"),
                       emptied |-> usb.emptied]
          /\ Return("ok")
      BY <1>3 DEF Succeed
    <2>2. /\ reply'.fresh = (Head(Head1).fresh /\ (Top.arg = "in" => Top.got = "own"))
          /\ reply'.emptied = usb.emptied
      BY <2>1
    <2>3. ASSUME usb.emptied
          PROVE  Head(Head1).fresh /\ (Top.arg = "in" => Top.got = "own")
      <3>1. h \in Units /\ Head1 = p /\ p \in Seq(Packets) /\ p # <<>>
        BY <1>3, ReadPipe
      <3>2. Behind(p, Top)
        BY <1>1, <2>3, <3>1 DEF ToldOfItself, EndpointIsKnown
      <3>3. Head(Head1) = p[1] /\ 1 \in 1 .. Len(p)
        BY <3>1, TailOf
      <3>4. p[1].type = "csw" /\ p[1].tag = Top.tag /\ p[1].good
        BY <1>3, <3>3
      <3>5. p[1].fresh
        BY <3>2, <3>3, <3>4 DEF Behind
      <3>6. Top.arg = "in" => Top.got = "own"
        BY <3>2, <3>3, <3>4 DEF Behind
      <3> QED BY <3>3, <3>5, <3>6
    <2>4. RepliesAreOwn'
      BY <2>2, <2>3 DEF RepliesAreOwn
    <2> QED BY <1>1, <1>3, <2>1, <2>4, ReadAndEnded
  <1>4. ASSUME UNCHANGED <<pipe, reply>>, Call("failed", Frame("reset", "begin", "none"))
        PROVE  ToldOfItself'
    BY <1>1, <1>4, TransferFails
  <1> QED BY <1>2, <1>3, <1>4 DEF ReceiveStatus

\* At first nothing was sent.
LEMMA ToldOfItselfInit ==
  ASSUME Init
  PROVE  ToldOfItself
  <1>1. /\ pipe = [u \in Units |-> <<>>] /\ usb = NoUsb /\ stack = <<>> /\ reply = NoReply
        /\ commands = 0
    BY DEF Init
  <1>2. ~AtClaim /\ ~InCommand /\ ~At("command", "cbw")
    BY <1>1 DEF AtClaim, InCommand, At
  <1>3. TagsAreCounted
    BY <1>1, <1>2, NoUsbIsUnused, UsbBotAssumption DEF TagsAreCounted
  <1>4. EndpointIsKnown
    BY <1>1, <1>2, NoUsbIsUnused DEF EndpointIsKnown
  <1> QED BY <1>1, <1>3, <1>4 DEF ToldOfItself, RepliesAreOwn, NoReply

\* Every step keeps what is known of the endpoint.
LEMMA ToldOfItselfStep ==
  ASSUME MaxCommands + 2 < TagLimit, Chain, DrivesAreKept, ToldOfItself, [Next]_vars
  PROVE  ToldOfItself'
  <1>1. CASE Transport
    BY <1>1, ClaimInterfaceTells, RestoringTells, SendCbwTells, DataInTells, DataOutTells,
       ReceiveStatusTells, ReopeningTells, ResetBotTells, ChooseCandidateTells,
       CandidateMatchesTells, EndingTells DEF Transport
  <1>2. CASE UNCHANGED vars
    <2>1. UNCHANGED <<stack, ret, commands, reply, usb, pipe>>
      BY <1>2 DEF vars, world, bounds
    <2> QED BY <2>1, EventTells DEF ToldOfItself, EndpointIsKnown
  <1> QED BY <1>1, <1>2, CallsTell, EnvironmentTells DEF Next

\* As long as the tags do not come round, a command that succeeds on a drive
\* whose endpoint was emptied when it was opened has read the status, and the
\* data, of that very command, however the earlier ones ended.
\* (usb_command_in, receive_csw, validate_csw, next_tag.)
THEOREM CommandsAreToldOfThemselves ==
  ASSUME MaxCommands + 2 < TagLimit
  PROVE  Spec => []RepliesAreOwn
  <1> DEFINE I == Chain /\ DrivesAreKept /\ ToldOfItself
  <1>1. Init => I
    BY DrivesAreKeptInit, ToldOfItselfInit
  <1>2. I /\ [Next]_vars => I'
    BY DrivesAreKeptStep, ToldOfItselfStep
  <1>3. I => RepliesAreOwn
    BY DEF ToldOfItself
  <1> QED BY <1>1, <1>2, <1>3, PTL DEF Spec

-----------------------------------------------------------------------------
(* The channels of Windows and macOS.                                      *)

Spots == Channels!Entries \cup {Channels!NoEntry}
Models == {Scsi[u] : u \in Units} \cup {NoUnit}
ChannelRecords ==
    [step : Channels!Steps, identity : Models, id : (Ports \cup {Out}) \X (Models \cup Serials),
     serial : Serials, entry : Spots, handle : Spots, first : Units \cup {NoUnit},
     attempt : Nat, released : BOOLEAN, outcome : Channels!Outcomes, sense : BOOLEAN]
UnmountRecords ==
    [references : Nat, waiter : Owners \cup {Nobody}, due : BOOLEAN, entry : Spots,
     completed : BOOLEAN, dissent : BOOLEAN]

\* The drives have places of their own, and entries while they are attached;
\* no disc is mounted in a drive that is not.
Seated ==
    /\ seats \in [Units -> [port : Ports \cup {Out}, generation : Nat]]
    /\ \A u \in Units :
          /\ seats[u].generation <= Generations[u]
          /\ Channels!Attached(u) => seats[u].generation # 0
    /\ \A u, v \in Units : u # v /\ Channels!Attached(u) => seats[u].port # seats[v].port
    /\ mounted \subseteq {u \in Units : Channels!Attached(u)}

\* What a transport has on Windows: a device that was where it still is,
\* unless it has gone, behind which there is the model and, if it has one,
\* the serial number.
OnWindows(c) ==
    /\ c.entry = Channels!NoEntry /\ c.step \in {"closed", "open"}
    /\ c.step = "open" =>
          LET u == c.handle.unit
          IN  /\ c.handle \in Channels!Entries /\ c.first \in Units
              /\ Scsi[u] = c.identity /\ c.serial = Serial[c.first]
              /\ c.serial # NoSerial => Serial[u] = c.serial
              /\ c.handle.generation <= seats[u].generation
              /\ Channels!Attached(u) /\ Channels!Entry(u) = c.handle => c.id = Channels!DeviceId(u)

\* And on macOS: an entry of the registry from the time it is found, to
\* which it has exclusive access once it is open.
OnMac(c) ==
    /\ c.step \in {"release", "wait", "failed", "open"} => c.entry # Channels!NoEntry
    /\ c.entry # Channels!NoEntry => Scsi[c.entry.unit] = c.identity /\ c.first = c.entry.unit
    /\ c.handle = IF c.step = "open" THEN c.entry ELSE Channels!NoEntry
    /\ c.step = "open" => \A u \in mounted : Channels!Entry(u) # c.entry

Sound(c) ==
    /\ c \in ChannelRecords
    /\ c.step = "closed" => c.entry = Channels!NoEntry /\ c.handle = Channels!NoEntry
    /\ c.sense => c.outcome # "good"
    /\ platform = "windows" => OnWindows(c)
    /\ platform # "windows" => OnMac(c)

Holders(e) == {o \in Owners : channels[o].entry = e}
Counted == guards = [e \in Channels!Entries |-> Cardinality(Holders(e))]

\* Nobody else has access to what one has exclusive access to.
Apart == platform # "windows" =>
            \A o, p \in Owners : o # p /\ channels[o].step = "open" => channels[o].handle # channels[p].handle

\* The one who waits, and the answer that is due, each have a reference to
\* the memory of the unmount.
Shared ==
    /\ contexts \in [Contexts -> UnmountRecords]
    /\ \A k \in Contexts :
          /\ contexts[k].references = (IF contexts[k].waiter = Nobody THEN 0 ELSE 1)
                                      + (IF contexts[k].due THEN 1 ELSE 0)
          /\ contexts[k].waiter # Nobody => channels[contexts[k].waiter].step = "wait"
    /\ \A k, l \in Contexts : k # l /\ contexts[k].waiter # Nobody => contexts[k].waiter # contexts[l].waiter

ChannelsAreKept ==
    /\ Seated /\ channels \in [Owners -> ChannelRecords]
    /\ \A o \in Owners : Sound(channels[o])
    /\ Counted /\ Apart /\ Shared

\* What an entry is.
LEMMA EntriesAre ==
  /\ \A e : e \in Channels!Entries <=> /\ e.unit \in Units /\ e.generation \in 1 .. Generations[e.unit]
                                        /\ e = [unit |-> e.unit, generation |-> e.generation]
  /\ Channels!NoEntry \notin Channels!Entries
  <1>1. ASSUME NEW e
        PROVE  e \in Channels!Entries <=> /\ e.unit \in Units /\ e.generation \in 1 .. Generations[e.unit]
                                        /\ e = [unit |-> e.unit, generation |-> e.generation]
    <2>1. ASSUME e \in Channels!Entries
          PROVE  /\ e.unit \in Units /\ e.generation \in 1 .. Generations[e.unit]
                 /\ e = [unit |-> e.unit, generation |-> e.generation]
      <3>1. PICK u \in Units : e \in [unit : {u}, generation : 1 .. Generations[u]]
        BY <2>1 DEF Channels!Entries
      <3> QED BY <3>1
    <2>2. ASSUME e.unit \in Units, e.generation \in 1 .. Generations[e.unit],
                 e = [unit |-> e.unit, generation |-> e.generation]
          PROVE  e \in Channels!Entries
      <3>1. e \in [unit : {e.unit}, generation : 1 .. Generations[e.unit]]
        BY <2>2
      <3> QED BY <2>2, <3>1 DEF Channels!Entries
    <2> QED BY <2>1, <2>2
  <1>2. Channels!NoEntry.unit = NoUnit
    BY DEF Channels!NoEntry
  <1> QED BY <1>1, <1>2, TransportsAssumption DEF Channels!ChannelsAssumption

\* What is known of the entry of a drive.
LEMMA EntryOf ==
  ASSUME Seated, NEW u \in Units
  PROVE  /\ Channels!Entry(u).unit = u /\ Channels!Entry(u).generation = seats[u].generation
         /\ Channels!Attached(u) => Channels!Entry(u) \in Channels!Entries
  <1>1. seats[u].generation \in Nat /\ seats[u].generation <= Generations[u]
    BY DEF Seated
  <1> QED BY <1>1, EntriesAre, TransportsAssumption
        DEF Seated, Channels!Entry, Channels!ChannelsAssumption

\* A closed transport.
LEMMA ClosedIsSound ==
  Sound(Channels!Closed) /\ Channels!Closed.step = "closed"
  /\ Channels!Closed.entry = Channels!NoEntry /\ Channels!Closed.handle = Channels!NoEntry
  <1>1. Channels!Closed \in ChannelRecords
    BY DEF Channels!Closed, ChannelRecords, Spots, Models, Serials, Channels!Steps, Channels!Outcomes
  <1>2. /\ Channels!Closed.step = "closed" /\ Channels!Closed.entry = Channels!NoEntry
        /\ Channels!Closed.handle = Channels!NoEntry /\ ~Channels!Closed.sense
    BY DEF Channels!Closed
  <1> QED BY <1>1, <1>2 DEF Sound, OnWindows, OnMac

\* The finite sets of the instance are those of the library.
LEMMA SameCounts ==
  /\ \A S : Channels!Cardinality(S) = Cardinality(S)
  /\ \A S : Channels!IsFiniteSet(S) <=> IsFiniteSet(S)
  <1>1. \A S : Channels!Cardinality(S) = Cardinality(S)
    BY DEF Channels!Cardinality, Cardinality
  <1>2. \A S : Channels!IsFiniteSet(S) <=> IsFiniteSet(S)
    BY DEF Channels!IsFiniteSet, IsFiniteSet
  <1> QED BY <1>1, <1>2

\* Holders are finitely many.
LEMMA HoldersAreFinite == \A e : IsFiniteSet(Holders(e)) /\ Cardinality(Holders(e)) \in Nat
                                 /\ (Cardinality(Holders(e)) = 0 <=> Holders(e) = {})
  <1>1. IsFiniteSet(Owners)
    BY TransportsAssumption, SameCounts DEF Channels!ChannelsAssumption
  <1>2. ASSUME NEW e
        PROVE  IsFiniteSet(Holders(e))
    <2>1. Holders(e) \in SUBSET Owners
      BY DEF Holders
    <2> QED BY <1>1, <2>1, FS_Subset
  <1> QED BY <1>2, FS_CardinalityType, FS_EmptySet

\* What becomes of the holders of a guard when the entry of one transport
\* changes.
LEMMA HoldersChange ==
  ASSUME channels \in [Owners -> ChannelRecords], NEW o \in Owners, NEW d,
         channels' = [channels EXCEPT ![o] = d], NEW e
  PROVE  Cardinality(Holders(e)') =
            Cardinality(Holders(e)) + (IF d.entry = e /\ channels[o].entry # e THEN 1 ELSE 0)
                                    - (IF d.entry # e /\ channels[o].entry = e THEN 1 ELSE 0)
  <1>1. \A p \in Owners : channels'[p] = IF p = o THEN d ELSE channels[p]
    OBVIOUS
  <1>2. o \in Holders(e) <=> channels[o].entry = e
    BY DEF Holders
  <1>3. CASE d.entry = e
    <2>1. Holders(e)' = Holders(e) \cup {o}
      BY <1>1, <1>3 DEF Holders
    <2>2. IsFiniteSet(Holders(e)) /\ Cardinality(Holders(e)) \in Nat
      BY HoldersAreFinite
    <2>3. Cardinality(Holders(e) \cup {o}) =
             IF o \in Holders(e) THEN Cardinality(Holders(e)) ELSE Cardinality(Holders(e)) + 1
      BY <2>2, FS_AddElement
    <2> QED BY <1>2, <1>3, <2>1, <2>2, <2>3
  <1>4. CASE d.entry # e
    <2>1. Holders(e)' = Holders(e) \ {o}
      BY <1>1, <1>4 DEF Holders
    <2>2. IsFiniteSet(Holders(e)) /\ Cardinality(Holders(e)) \in Nat
      BY HoldersAreFinite
    <2>3. Cardinality(Holders(e) \ {o}) =
             IF o \in Holders(e) THEN Cardinality(Holders(e)) - 1 ELSE Cardinality(Holders(e))
      BY <2>2, FS_RemoveElement
    <2> QED BY <1>2, <1>4, <2>1, <2>2, <2>3
  <1> QED BY <1>3, <1>4

\* A step of one transport, which keeps its guard, takes one or lets go of it.
LEMMA OneChannel ==
  ASSUME ChannelsAreKept, NEW o \in Owners, NEW d, Sound(d),
         channels' = [channels EXCEPT ![o] = d], UNCHANGED <<platform, seats, mounted>>,
         \/ UNCHANGED guards /\ d.entry = channels[o].entry
         \/ /\ guards' = Channels!Acquire(d.entry)
            /\ channels[o].entry = Channels!NoEntry /\ d.entry \in Channels!Entries
         \/ guards' = Channels!ReleaseGuard(channels[o].entry) /\ d.entry = Channels!NoEntry,
         platform # "windows" /\ d.step = "open" =>
            \A p \in Owners \ {o} : channels[p].handle # d.handle
  PROVE  /\ Seated' /\ channels' \in [Owners -> ChannelRecords]
         /\ \A p \in Owners : Sound(channels[p])'
         /\ Counted' /\ Apart'
  <1>1. /\ Seated /\ channels \in [Owners -> ChannelRecords] /\ d \in ChannelRecords
        /\ \A p \in Owners : Sound(channels[p])
        /\ Counted /\ Apart
    BY DEF ChannelsAreKept, Sound
  <1>2. Seated'
    BY <1>1 DEF Seated, Channels!Attached
  <1>3. \A p \in Owners : channels'[p] = IF p = o THEN d ELSE channels[p]
    BY <1>1
  <1>4. channels' \in [Owners -> ChannelRecords]
    BY <1>1
  <1>5. ASSUME NEW p \in Owners
        PROVE  Sound(channels[p])'
    <2>1. CASE p = o
      <3>1. channels'[p] = d
        BY <1>3, <2>1
      <3> QED BY <3>1 DEF Sound, OnWindows, OnMac, Channels!Attached, Channels!Entry, Channels!DeviceId
    <2>2. CASE p # o
      <3>1. channels'[p] = channels[p] /\ Sound(channels[p])
        BY <1>1, <1>3, <2>2
      <3> QED BY <3>1 DEF Sound, OnWindows, OnMac, Channels!Attached, Channels!Entry, Channels!DeviceId
    <2> QED BY <2>1, <2>2
  <1>6. Counted'
    <2>1. \A e \in Channels!Entries : guards[e] = Cardinality(Holders(e)) /\ guards[e] \in Nat
      BY <1>1, HoldersAreFinite DEF Counted
    <2>0. \A e \in Channels!Entries :
             Cardinality(Holders(e)') =
                Cardinality(Holders(e)) + (IF d.entry = e /\ channels[o].entry # e THEN 1 ELSE 0)
                                        - (IF d.entry # e /\ channels[o].entry = e THEN 1 ELSE 0)
      BY <1>1, HoldersChange
    <2>2. guards = [e \in Channels!Entries |-> guards[e]]
      BY <1>1 DEF Counted
    <2>3. channels[o].entry \in Spots
      BY <1>1 DEF ChannelRecords
    <2>4. CASE UNCHANGED guards /\ d.entry = channels[o].entry
      <3>1. \A e \in Channels!Entries : Cardinality(Holders(e)') = guards'[e]
        BY <2>1, <2>4, <2>0
      <3> QED BY <2>2, <2>4, <3>1 DEF Counted
    <2>5. CASE /\ guards' = Channels!Acquire(d.entry)
               /\ channels[o].entry = Channels!NoEntry /\ d.entry \in Channels!Entries
      <3>1. /\ guards' = [e \in Channels!Entries |-> guards'[e]]
            /\ \A e \in Channels!Entries : guards'[e] = IF e = d.entry THEN guards[e] + 1 ELSE guards[e]
        BY <2>2, <2>5 DEF Channels!Acquire
      <3>2. \A e \in Channels!Entries : Cardinality(Holders(e)') = guards'[e]
        BY <2>1, <2>5, <2>0, <3>1, EntriesAre
      <3> QED BY <3>1, <3>2 DEF Counted
    <2>6. CASE guards' = Channels!ReleaseGuard(channels[o].entry) /\ d.entry = Channels!NoEntry
      <3>1. CASE channels[o].entry = Channels!NoEntry
        <4>1. UNCHANGED guards /\ d.entry = channels[o].entry
          BY <2>6, <3>1 DEF Channels!ReleaseGuard
        <4> QED BY <2>4, <4>1
      <3>2. CASE channels[o].entry \in Channels!Entries
        <4>1. o \in Holders(channels[o].entry)
          BY DEF Holders
        <4>2. guards[channels[o].entry] # 0
          BY <2>1, <3>2, <4>1, HoldersAreFinite
        <4>3. /\ guards' = [e \in Channels!Entries |-> guards'[e]]
              /\ \A e \in Channels!Entries :
                    guards'[e] = IF e = channels[o].entry THEN guards[e] - 1 ELSE guards[e]
          BY <2>2, <2>6, <3>2, <4>2, EntriesAre DEF Channels!ReleaseGuard, Channels!Guarded
        <4>4. \A e \in Channels!Entries : Cardinality(Holders(e)') = guards'[e]
          BY <2>1, <2>6, <2>0, <3>2, <4>3, EntriesAre
        <4> QED BY <4>3, <4>4 DEF Counted
      <3> QED BY <2>3, <3>1, <3>2 DEF Spots
    <2> QED BY <2>4, <2>5, <2>6
  <1>7. Apart'
    <2> SUFFICES ASSUME platform' # "windows", NEW p \in Owners, NEW q \in Owners, p # q,
                        channels'[p].step = "open"
                 PROVE  channels'[p].handle # channels'[q].handle
      BY DEF Apart
    <2>1. CASE p = o
      BY <1>3, <2>1
    <2>2. CASE q = o
      <3>1. channels[p].handle # Channels!NoEntry
        BY <1>1, <1>3, <2>2 DEF Sound, OnMac
      <3>2. CASE d.step = "open"
        BY <1>3, <2>2, <3>2
      <3>3. CASE d.step # "open"
        BY <1>3, <2>2, <3>1, <3>3 DEF Sound, OnMac
      <3> QED BY <3>2, <3>3
    <2>3. CASE p # o /\ q # o
      BY <1>1, <1>3, <2>3 DEF Apart
    <2> QED BY <2>1, <2>2, <2>3
  <1> QED BY <1>2, <1>4, <1>5, <1>6, <1>7

\* What is kept when the one who waits is not concerned.
LEMMA SharedStays ==
  ASSUME ChannelsAreKept, NEW o \in Owners, NEW d, channels' = [channels EXCEPT ![o] = d],
         channels[o].step # "wait", UNCHANGED contexts
  PROVE  Shared'
  <1>1. \A p \in Owners : channels'[p] = IF p = o THEN d ELSE channels[p]
    BY DEF ChannelsAreKept
  <1>2. Shared
    BY DEF ChannelsAreKept
  <1>3. \A k \in Contexts : contexts'[k] = contexts[k] /\ contexts[k].waiter \in Owners \cup {Nobody}
    BY <1>2 DEF Shared, UnmountRecords
  <1> QED BY <1>1, <1>2, <1>3 DEF Shared

\* A step of one transport that leaves the memory of the unmounts alone.
LEMMA OneQuietChannel ==
  ASSUME ChannelsAreKept, NEW o \in Owners, NEW d, Sound(d),
         channels' = [channels EXCEPT ![o] = d], UNCHANGED <<platform, seats, mounted, contexts>>,
         channels[o].step # "wait",
         \/ UNCHANGED guards /\ d.entry = channels[o].entry
         \/ /\ guards' = Channels!Acquire(d.entry)
            /\ channels[o].entry = Channels!NoEntry /\ d.entry \in Channels!Entries
         \/ guards' = Channels!ReleaseGuard(channels[o].entry) /\ d.entry = Channels!NoEntry,
         platform # "windows" /\ d.step = "open" =>
            \A p \in Owners \ {o} : channels[p].handle # d.handle
  PROVE  ChannelsAreKept'
  <1>1. Shared'
    BY SharedStays
  <1>2. /\ Seated' /\ channels' \in [Owners -> ChannelRecords]
        /\ \A p \in Owners : Sound(channels[p])'
        /\ Counted' /\ Apart'
    BY OneChannel
  <1> QED BY <1>1, <1>2 DEF ChannelsAreKept

\* A transport that is closed, or cannot be opened, lets go of its guard.
LEMMA GiveUpKeeps ==
  ASSUME ChannelsAreKept, NEW o \in Owners, Channels!GiveUp(o), channels[o].step # "wait",
         UNCHANGED <<platform, seats, mounted, contexts>>
  PROVE  ChannelsAreKept'
  <1>1. /\ channels' = [channels EXCEPT ![o] = Channels!Closed]
        /\ guards' = Channels!ReleaseGuard(channels[o].entry)
    BY DEF Channels!GiveUp, Channels!Become
  <1> QED BY <1>1, ClosedIsSound, OneQuietChannel

\* Commands are of one transport, which stays where it is.
LEMMA CommandKeepsChannels ==
  ASSUME ChannelsAreKept, NEW o \in Owners, UNCHANGED platform,
         Channels!WindowsCommand(o) \/ Channels!MacCommand(o)
  PROVE  ChannelsAreKept'
  <1> DEFINE c == channels[o]
  <1>1. /\ Sound(c) /\ c \in ChannelRecords /\ c.step = "open"
        /\ UNCHANGED <<platform, seats, mounted, guards, contexts>>
    BY DEF ChannelsAreKept, Channels!WindowsCommand, Channels!MacCommand
  <1>2. PICK outcome \in Channels!Outcomes, valid \in BOOLEAN :
           channels' = [channels EXCEPT ![o] = Channels!CacheSense(c, outcome, valid)]
    <2>1. CASE Channels!WindowsCommand(o)
      <3>1. PICK outcome \in Channels!Outcomes, valid \in BOOLEAN :
               channels' = [channels EXCEPT ![o] =
                               Channels!CacheSense(c, outcome, valid /\ outcome = "check")]
        BY <2>1 DEF Channels!WindowsCommand, Channels!Become, Channels!OutcomesOf, Channels!Outcomes
      <3>2. (valid /\ outcome = "check") \in BOOLEAN
        OBVIOUS
      <3> QED BY <3>1, <3>2
    <2>2. CASE Channels!MacCommand(o)
      BY <2>2 DEF Channels!MacCommand, Channels!Become, Channels!OutcomesOf, Channels!Outcomes
    <2> QED BY <2>1, <2>2
  <1> DEFINE d == Channels!CacheSense(c, outcome, valid)
  <1>3. /\ d \in ChannelRecords
        /\ d.step = c.step /\ d.identity = c.identity /\ d.id = c.id /\ d.serial = c.serial
        /\ d.entry = c.entry /\ d.handle = c.handle /\ d.first = c.first
        /\ d.outcome = outcome /\ (d.sense => outcome # "good")
    BY <1>1 DEF Channels!CacheSense, ChannelRecords
  <1> HIDE DEF d
  <1>4. Sound(d)
    BY <1>1, <1>3 DEF Sound, OnWindows, OnMac
  <1>5. ASSUME platform # "windows", NEW p \in Owners \ {o}
        PROVE  channels[p].handle # d.handle
    BY <1>1, <1>3, <1>5 DEF ChannelsAreKept, Apart
  <1>6. channels' = [channels EXCEPT ![o] = d]
    BY <1>2 DEF d
  <1> QED BY <1>1, <1>3, <1>4, <1>5, <1>6, OneQuietChannel

\* What is found of a drive on Windows.
LEMMA SelectedIsThere ==
  ASSUME ChannelsAreKept, platform = "windows", NEW o \in Owners, NEW u \in Units,
         channels[o].step = "open", Channels!Selected(channels[o], u), NEW d \in ChannelRecords,
         d.step = "open", d.entry = channels[o].entry, d.identity = channels[o].identity,
         d.id = channels[o].id, d.serial = channels[o].serial, d.first = channels[o].first,
         d.handle = Channels!Entry(u), ~d.sense
  PROVE  Sound(d)
  <1>1. Sound(channels[o]) /\ Seated
    BY DEF ChannelsAreKept
  <1>2. d.handle.unit = u /\ d.handle.generation = seats[u].generation /\ d.handle \in Channels!Entries
    BY <1>1, EntryOf DEF Channels!Selected
  <1>3. seats[u].generation \in Nat
    BY <1>1 DEF Seated
  <1>4. OnWindows(d)
    BY <1>1, <1>2, <1>3 DEF Sound, OnWindows, Channels!Selected
  <1> QED BY <1>4 DEF Sound

\* Windows opens, opens again and closes.
LEMMA WindowsKeeps ==
  ASSUME ChannelsAreKept, NEW o \in Owners, UNCHANGED platform,
         Channels!OpenWindows(o) \/ Channels!ResetWindows(o) \/ Channels!CloseWindows(o)
  PROVE  ChannelsAreKept'
  <1> DEFINE c == channels[o]
  <1>1. /\ Sound(c) /\ c \in ChannelRecords /\ Seated
        /\ UNCHANGED <<platform, seats, mounted, guards, contexts>> /\ platform = "windows"
        /\ c.entry = Channels!NoEntry /\ c.step # "wait"
    BY DEF ChannelsAreKept, Sound, OnWindows, Channels!OpenWindows, Channels!ResetWindows,
           Channels!CloseWindows
  <1>2. CASE Channels!OpenWindows(o)
    <2>1. PICK u \in Units :
             /\ Channels!Attached(u)
             /\ channels' = [channels EXCEPT ![o] =
                   [Channels!Closed EXCEPT !.step = "open", !.identity = Scsi[u],
                                           !.id = Channels!DeviceId(u), !.serial = Serial[u],
                                           !.handle = Channels!Entry(u), !.first = u]]
      BY <1>2 DEF Channels!OpenWindows, Channels!Become
    <2> DEFINE d == [Channels!Closed EXCEPT !.step = "open", !.identity = Scsi[u],
                                           !.id = Channels!DeviceId(u), !.serial = Serial[u],
                                           !.handle = Channels!Entry(u), !.first = u]
    <2>2. /\ Channels!Entry(u).unit = u /\ Channels!Entry(u).generation = seats[u].generation
          /\ Channels!Entry(u) \in Channels!Entries /\ seats[u].generation \in Nat
      BY <1>1, <2>1, EntryOf DEF Seated
    <2>3. Channels!DeviceId(u) \in (Ports \cup {Out}) \X (Models \cup Serials)
      BY <1>1 DEF Channels!DeviceId, Seated, Models, Serials
    <2>4. d \in ChannelRecords
      BY <2>2, <2>3 DEF Channels!Closed, ChannelRecords, Spots, Models, Serials, Channels!Steps,
                        Channels!Outcomes
    <2>5. /\ d.step = "open" /\ d.identity = Scsi[u] /\ d.id = Channels!DeviceId(u)
          /\ d.serial = Serial[u] /\ d.handle = Channels!Entry(u) /\ d.first = u
          /\ d.entry = Channels!NoEntry /\ ~d.sense
      BY DEF Channels!Closed
    <2>6. channels' = [channels EXCEPT ![o] = d]
      BY <2>1
    <2> HIDE DEF d
    <2>7. OnWindows(d)
      <3>1. d.handle.unit = u /\ d.handle.generation = seats[u].generation /\ d.handle \in Channels!Entries
        BY <2>2, <2>5
      <3> QED BY <2>2, <2>5, <3>1 DEF OnWindows
    <2>8. Sound(d)
      BY <1>1, <2>4, <2>5, <2>7 DEF Sound
    <2> QED BY <1>1, <2>5, <2>6, <2>8, OneQuietChannel
  <1>3. CASE Channels!ResetWindows(o)
    <2>1. PICK u \in Units :
             /\ Channels!Selected(c, u)
             /\ channels' = [channels EXCEPT ![o] =
                   [c EXCEPT !.handle = Channels!Entry(u), !.outcome = "good", !.sense = FALSE]]
      BY <1>3 DEF Channels!ResetWindows, Channels!Become
    <2> DEFINE d == [c EXCEPT !.handle = Channels!Entry(u), !.outcome = "good", !.sense = FALSE]
    <2>2. Channels!Entry(u) \in Spots /\ c.step = "open"
      BY <1>1, <1>3, <2>1, EntryOf DEF Channels!Selected, Spots, Channels!ResetWindows
    <2>3. /\ d \in ChannelRecords /\ d.step = "open" /\ d.entry = c.entry
          /\ d.identity = c.identity /\ d.id = c.id /\ d.serial = c.serial /\ d.first = c.first
          /\ d.handle = Channels!Entry(u) /\ ~d.sense
      BY <1>1, <2>2 DEF ChannelRecords, Channels!Outcomes
    <2>4. channels' = [channels EXCEPT ![o] = d]
      BY <2>1
    <2> HIDE DEF d
    <2>5. Sound(d)
      BY <1>1, <2>1, <2>2, <2>3, SelectedIsThere
    <2> QED BY <1>1, <2>3, <2>4, <2>5, OneQuietChannel
  <1>4. CASE Channels!CloseWindows(o)
    <2>1. channels' = [channels EXCEPT ![o] = Channels!Closed]
      BY <1>4 DEF Channels!CloseWindows, Channels!Become
    <2> QED BY <1>1, <2>1, ClosedIsSound, OneQuietChannel
  <1> QED BY <1>2, <1>3, <1>4

\* On macOS a transport that goes on keeps what it has found.
LEMMA GoesOnSoundly ==
  ASSUME platform # "windows", NEW c, Sound(c), NEW d \in ChannelRecords,
         d.identity = c.identity, d.entry = c.entry, d.handle = Channels!NoEntry, d.first = c.first,
         d.step \in {"try", "release", "wait", "failed"}, c.entry # Channels!NoEntry,
         d.sense = c.sense, d.outcome = c.outcome
  PROVE  Sound(d)
  BY DEF Sound, OnMac

\* The worker begins to open a transport.
LEMMA OpenMacKeeps ==
  ASSUME ChannelsAreKept, NEW o \in Owners, UNCHANGED platform, Channels!OpenMac(o)
  PROVE  ChannelsAreKept'
  <1>1. PICK u \in Units :
           channels' = [channels EXCEPT ![o] =
              [Channels!Closed EXCEPT !.step = "try", !.identity = Scsi[u], !.id = Channels!DeviceId(u)]]
    BY DEF Channels!OpenMac, Channels!Become
  <1> DEFINE d == [Channels!Closed EXCEPT !.step = "try", !.identity = Scsi[u],
                                          !.id = Channels!DeviceId(u)]
  <1>2. /\ Sound(channels[o]) /\ Seated /\ channels[o].step = "closed" /\ platform = "macos"
        /\ UNCHANGED <<seats, mounted, guards, contexts>>
    BY DEF ChannelsAreKept, Channels!OpenMac
  <1>3. Channels!DeviceId(u) \in (Ports \cup {Out}) \X (Models \cup Serials)
    BY <1>2 DEF Channels!DeviceId, Seated, Models, Serials
  <1>4. /\ d \in ChannelRecords /\ d.step = "try" /\ d.entry = Channels!NoEntry
        /\ d.handle = Channels!NoEntry /\ ~d.sense
    BY <1>3 DEF Channels!Closed, ChannelRecords, Spots, Models, Serials, Channels!Steps,
                Channels!Outcomes
  <1>5. channels' = [channels EXCEPT ![o] = d]
    BY <1>1
  <1> HIDE DEF d
  <1>6. Sound(d)
    BY <1>2, <1>4 DEF Sound, OnMac
  <1>7. channels[o].entry = Channels!NoEntry
    BY <1>2 DEF Sound
  <1> QED BY <1>2, <1>4, <1>5, <1>6, <1>7, OneQuietChannel

\* What a retry leaves.
LEMMA TryAgainKeeps ==
  ASSUME ChannelsAreKept, NEW o \in Owners, channels[o].step \in {"try", "release"},
         channels[o].entry # Channels!NoEntry, NEW c \in ChannelRecords,
         c.identity = channels[o].identity, c.entry = channels[o].entry,
         c.handle = Channels!NoEntry, c.first = channels[o].first,
         c.sense = channels[o].sense, c.outcome = channels[o].outcome,
         Channels!TryAgain(o, c), platform # "windows",
         UNCHANGED <<platform, seats, mounted, contexts>>
  PROVE  ChannelsAreKept'
  <1>1. CASE Channels!GiveUp(o)
    BY <1>1, GiveUpKeeps
  <1>2. CASE ~Channels!GiveUp(o)
    <2> DEFINE n == c.attempt + 1
               d == [c EXCEPT !.step = "try", !.attempt = n]
    <2>1. channels' = [channels EXCEPT ![o] = d] /\ UNCHANGED guards
      BY <1>2 DEF Channels!TryAgain, Channels!Become
    <2>5. n \in Nat
      BY DEF ChannelRecords
    <2> HIDE DEF n
    <2>2. /\ d \in ChannelRecords /\ d.step = "try" /\ d.identity = c.identity
          /\ d.entry = c.entry /\ d.handle = c.handle /\ d.first = c.first /\ d.sense = c.sense
          /\ d.outcome = c.outcome
      BY <2>5 DEF ChannelRecords, Channels!Steps
    <2> HIDE DEF d
    <2>3. Sound(channels[o])
      BY DEF ChannelsAreKept
    <2>4. Sound(d)
      BY <2>2, <2>3, GoesOnSoundly
    <2> QED BY <2>1, <2>2, <2>4, OneQuietChannel
  <1> QED BY <1>1, <1>2

\* What is known of a transport on its way.
LEMMA OnItsWay ==
  ASSUME ChannelsAreKept, NEW o \in Owners, channels[o].step \in {"try", "release", "wait", "failed"}
  PROVE  /\ platform # "windows" /\ channels[o] \in ChannelRecords /\ Sound(channels[o]) /\ Seated
         /\ channels[o].handle = Channels!NoEntry
  BY DEF ChannelsAreKept, Sound, OnWindows, OnMac

\* The first attempt guards the entry that it finds, the others have it.
LEMMA TryMacKeeps ==
  ASSUME ChannelsAreKept, NEW o \in Owners, UNCHANGED platform, Channels!TryMac(o)
  PROVE  ChannelsAreKept'
  <1> DEFINE c == channels[o]
  <1>1. /\ c.step = "try" /\ platform # "windows" /\ c \in ChannelRecords /\ Sound(c) /\ Seated
        /\ c.handle = Channels!NoEntry /\ UNCHANGED <<seats, mounted, contexts>>
    BY OnItsWay DEF Channels!TryMac
  <1>2. CASE Channels!GiveUp(o)
    BY <1>1, <1>2, GiveUpKeeps
  <1>3. CASE c.released /\ (\E u \in Units : Channels!Found(c, u)) /\ Channels!TryAgain(o, c)
    <2>1. CASE c.entry # Channels!NoEntry
      BY <1>1, <1>3, <2>1, TryAgainKeeps
    <2>2. CASE c.entry = Channels!NoEntry
      <3>1. CASE Channels!GiveUp(o)
        BY <1>2, <3>1
      <3>2. CASE ~Channels!GiveUp(o)
        <4> DEFINE n == c.attempt + 1
                   d == [c EXCEPT !.step = "try", !.attempt = n]
        <4>1. channels' = [channels EXCEPT ![o] = d] /\ UNCHANGED guards
          BY <1>3, <3>2 DEF Channels!TryAgain, Channels!Become
        <4>2. n \in Nat
          BY <1>1 DEF ChannelRecords
        <4> HIDE DEF n
        <4>3. /\ d \in ChannelRecords /\ d.step = "try" /\ d.entry = c.entry /\ d.handle = c.handle
              /\ d.sense = c.sense /\ d.outcome = c.outcome
          BY <1>1, <4>2 DEF ChannelRecords, Channels!Steps
        <4> HIDE DEF d
        <4>4. Sound(d)
          BY <1>1, <2>2, <4>3 DEF Sound, OnMac
        <4> QED BY <1>1, <4>1, <4>3, <4>4, OneQuietChannel
      <3> QED BY <3>1, <3>2
    <2> QED BY <2>1, <2>2
  <1>4. CASE ~Channels!GiveUp(o)
             /\ ~(c.released /\ (\E u \in Units : Channels!Found(c, u)) /\ Channels!TryAgain(o, c))
    <2> DEFINE kept(u) == IF c.entry = Channels!NoEntry
                          THEN [c EXCEPT !.entry = Channels!Entry(u), !.first = u] ELSE c
    <2>1. PICK u \in Units :
             /\ Channels!Found(c, u)
             /\ IF c.entry = Channels!NoEntry
                THEN guards' = Channels!Acquire(Channels!Entry(u)) ELSE UNCHANGED guards
             /\ \/ /\ u \notin mounted /\ \A p \in Owners : channels[p].handle # Channels!Entry(u)
                   /\ Channels!Become(o, [kept(u) EXCEPT !.step = "open", !.handle = Channels!Entry(u)])
                \/ Channels!Become(o, [kept(u) EXCEPT !.step = "failed"])
                \/ Channels!Become(o, [kept(u) EXCEPT !.step = "release"])
      BY <1>4 DEF Channels!TryMac
    <2> DEFINE e == Channels!Entry(u)
               k == kept(u)
    <2>2. /\ e.unit = u /\ e \in Channels!Entries /\ e # Channels!NoEntry
          /\ Scsi[u] = c.identity /\ c.entry \in {Channels!NoEntry, e}
      BY <1>1, <2>1, EntryOf, EntriesAre DEF Channels!Found
    <2>3. /\ k \in ChannelRecords /\ k.entry = e /\ k.identity = c.identity /\ k.first = u
          /\ k.handle = Channels!NoEntry /\ k.sense = c.sense /\ k.outcome = c.outcome
      <3>1. CASE c.entry = Channels!NoEntry
        <4>1. e \in Spots /\ u \in Units \cup {NoUnit}
          BY <2>2 DEF Spots
        <4> HIDE DEF e
        <4>2. k = [c EXCEPT !.entry = e, !.first = u]
          BY <3>1 DEF e
        <4> QED BY <1>1, <4>1, <4>2 DEF ChannelRecords
      <3>2. CASE c.entry # Channels!NoEntry
        BY <1>1, <2>2, <3>2 DEF Sound, OnMac
      <3> QED BY <3>1, <3>2
    <2>4. \/ UNCHANGED guards /\ k.entry = c.entry
          \/ /\ guards' = Channels!Acquire(k.entry)
             /\ c.entry = Channels!NoEntry /\ k.entry \in Channels!Entries
      BY <2>1, <2>2, <2>3
    <2> HIDE DEF k
    <2>5. ASSUME NEW s \in {"failed", "release"}, Channels!Become(o, [k EXCEPT !.step = s])
          PROVE  ChannelsAreKept'
      <3> DEFINE d == [k EXCEPT !.step = s]
      <3>1. /\ d \in ChannelRecords /\ d.step = s /\ d.entry = e /\ d.identity = c.identity
            /\ d.first = u /\ d.handle = Channels!NoEntry /\ d.sense = c.sense
            /\ d.outcome = c.outcome
        BY <2>3 DEF ChannelRecords, Channels!Steps
      <3>2. channels' = [channels EXCEPT ![o] = d]
        BY <2>5 DEF Channels!Become
      <3> HIDE DEF d
      <3>3. Sound(d)
        BY <1>1, <2>2, <3>1 DEF Sound, OnMac
      <3>4. \/ UNCHANGED guards /\ d.entry = c.entry
            \/ /\ guards' = Channels!Acquire(d.entry)
               /\ c.entry = Channels!NoEntry /\ d.entry \in Channels!Entries
        BY <2>3, <2>4, <3>1
      <3> QED BY <1>1, <3>1, <3>2, <3>3, <3>4, OneQuietChannel
    <2>6. ASSUME u \notin mounted, \A p \in Owners : channels[p].handle # e,
                 Channels!Become(o, [k EXCEPT !.step = "open", !.handle = e])
          PROVE  ChannelsAreKept'
      <3> DEFINE d == [k EXCEPT !.step = "open", !.handle = e]
      <3>0. e \in Spots
        BY <2>2 DEF Spots
      <3> HIDE DEF e
      <3>1. /\ d \in ChannelRecords /\ d.step = "open" /\ d.entry = e /\ d.identity = c.identity
            /\ d.first = u /\ d.handle = e /\ d.sense = c.sense /\ d.outcome = c.outcome
        BY <2>3, <3>0 DEF ChannelRecords, Channels!Steps
      <3>2. channels' = [channels EXCEPT ![o] = d]
        BY <2>6 DEF Channels!Become
      <3> HIDE DEF d
      <3>3. \A v \in mounted : Channels!Entry(v) # e
        <4>1. \A v \in mounted : v \in Units
          BY <1>1 DEF Seated
        <4> QED BY <1>1, <2>2, <2>6, <4>1, EntryOf
      <3>4. Sound(d)
        BY <1>1, <2>2, <3>1, <3>3 DEF Sound, OnMac
      <3>5. \/ UNCHANGED guards /\ d.entry = c.entry
            \/ /\ guards' = Channels!Acquire(d.entry)
               /\ c.entry = Channels!NoEntry /\ d.entry \in Channels!Entries
        BY <2>3, <2>4, <3>1
      <3> QED BY <1>1, <2>6, <3>1, <3>2, <3>4, <3>5, OneQuietChannel
    <2> QED BY <2>1, <2>5, <2>6 DEF k, e
  <1> QED BY <1>2, <1>3, <1>4

\* The end of a failed attempt, and of an open transport.
LEMMA EndsKeep ==
  ASSUME ChannelsAreKept, NEW o \in Owners, UNCHANGED platform,
         Channels!FailMac(o) \/ Channels!CloseMac(o)
  PROVE  ChannelsAreKept'
  <1>1. /\ Channels!GiveUp(o) /\ channels[o].step # "wait"
        /\ UNCHANGED <<platform, seats, mounted, contexts>>
    BY DEF Channels!FailMac, Channels!CloseMac, Channels!GiveUp
  <1> QED BY <1>1, GiveUpKeeps

\* The memory of an unmount, with one reference less.
LEMMA ReleasedContext ==
  ASSUME NEW x \in UnmountRecords, x.references \in {1, 2}
  PROVE  /\ Channels!ContextReleased(x) \in UnmountRecords
         /\ x.references = 1 => Channels!ContextReleased(x) = Channels!FreeContext
         /\ x.references = 2 => /\ Channels!ContextReleased(x).references = 1
                                /\ Channels!ContextReleased(x).waiter = x.waiter
                                /\ Channels!ContextReleased(x).due = x.due
  BY DEF Channels!ContextReleased, Channels!FreeContext, UnmountRecords, Spots

\* The system is asked for the disc.
LEMMA ReleaseMacKeeps ==
  ASSUME ChannelsAreKept, NEW o \in Owners, UNCHANGED platform, Channels!ReleaseMac(o)
  PROVE  ChannelsAreKept'
  <1> DEFINE c == channels[o]
  <1>1. /\ c.step = "release" /\ platform # "windows" /\ c \in ChannelRecords /\ Sound(c) /\ Seated
        /\ c.handle = Channels!NoEntry /\ c.entry # Channels!NoEntry /\ UNCHANGED <<seats, mounted>>
    BY OnItsWay DEF Channels!ReleaseMac, Sound, OnMac
  <1>2. CASE Channels!GiveUp(o) /\ UNCHANGED contexts
    BY <1>1, <1>2, GiveUpKeeps
  <1>3. CASE Channels!TryAgain(o, [c EXCEPT !.released = TRUE]) /\ UNCHANGED contexts
    <2> DEFINE r == [c EXCEPT !.released = TRUE]
    <2>1. /\ r \in ChannelRecords /\ r.identity = c.identity /\ r.entry = c.entry
          /\ r.handle = c.handle /\ r.first = c.first /\ r.sense = c.sense /\ r.outcome = c.outcome
      BY <1>1 DEF ChannelRecords
    <2> HIDE DEF r
    <2>2. Channels!TryAgain(o, r)
      BY <1>3 DEF r
    <2> QED BY <1>1, <1>3, <2>1, <2>2, TryAgainKeeps
  <1>4. ASSUME NEW k \in Contexts, contexts[k].references = 0,
               contexts' = [contexts EXCEPT ![k] =
                  [Channels!FreeContext EXCEPT !.references = 2, !.waiter = o, !.due = TRUE,
                                               !.entry = c.entry]],
               Channels!Become(o, [c EXCEPT !.step = "wait"]), UNCHANGED guards
        PROVE  ChannelsAreKept'
    <2> DEFINE d == [c EXCEPT !.step = "wait"]
               y == [Channels!FreeContext EXCEPT !.references = 2, !.waiter = o, !.due = TRUE,
                                                 !.entry = c.entry]
    <2>1. /\ d \in ChannelRecords /\ d.step = "wait" /\ d.identity = c.identity
          /\ d.entry = c.entry /\ d.handle = c.handle /\ d.first = c.first /\ d.sense = c.sense
          /\ d.outcome = c.outcome
      BY <1>1 DEF ChannelRecords, Channels!Steps
    <2>2. channels' = [channels EXCEPT ![o] = d]
      BY <1>4 DEF Channels!Become
    <2>3. c.entry \in Spots
      BY <1>1 DEF ChannelRecords
    <2>4. y \in UnmountRecords /\ y.references = 2 /\ y.waiter = o /\ y.due
      BY <2>3 DEF Channels!FreeContext, UnmountRecords
    <2>5. contexts' = [contexts EXCEPT ![k] = y]
      BY <1>4
    <2> HIDE DEF d, y
    <2>6. Sound(d)
      BY <1>1, <2>1, GoesOnSoundly
    <2>7. /\ Seated' /\ channels' \in [Owners -> ChannelRecords]
          /\ \A p \in Owners : Sound(channels[p])'
          /\ Counted' /\ Apart'
      BY <1>1, <1>4, <2>1, <2>2, <2>6, OneChannel
    <2>8. Shared'
      <3>1. Shared
        BY DEF ChannelsAreKept
      <3>2. \A l \in Contexts : contexts'[l] = IF l = k THEN y ELSE contexts[l]
        BY <2>5, <3>1 DEF Shared
      <3>3. \A p \in Owners : channels'[p] = IF p = o THEN d ELSE channels[p]
        BY <2>2 DEF ChannelsAreKept
      <3>4. contexts' \in [Contexts -> UnmountRecords]
        BY <2>4, <2>5, <3>1 DEF Shared
      <3>5. o # Nobody
        BY TransportsAssumption DEF Channels!ChannelsAssumption
      <3>6. \A l \in Contexts : /\ contexts[l].waiter # o
                                /\ contexts[l].waiter \in Owners \cup {Nobody}
        BY <1>1, <3>1, <3>5 DEF Shared, UnmountRecords
      <3>7. ASSUME NEW l \in Contexts
            PROVE  /\ contexts'[l].references = (IF contexts'[l].waiter = Nobody THEN 0 ELSE 1)
                                                + (IF contexts'[l].due THEN 1 ELSE 0)
                   /\ contexts'[l].waiter # Nobody => channels'[contexts'[l].waiter].step = "wait"
        BY <2>1, <2>4, <3>1, <3>2, <3>3, <3>5, <3>6 DEF Shared
      <3>8. ASSUME NEW l \in Contexts, NEW m \in Contexts, l # m, contexts'[l].waiter # Nobody
            PROVE  contexts'[l].waiter # contexts'[m].waiter
        BY <2>4, <3>1, <3>2, <3>6, <3>8 DEF Shared
      <3> QED BY <3>4, <3>7, <3>8 DEF Shared
    <2> QED BY <2>7, <2>8 DEF ChannelsAreKept
  <1> QED BY <1>2, <1>3, <1>4 DEF Channels!ReleaseMac

\* A context of which one reference goes.
LEMMA OneContext ==
  ASSUME ChannelsAreKept, NEW k \in Contexts, NEW y \in UnmountRecords,
         contexts' = [contexts EXCEPT ![k] = Channels!ContextReleased(y)],
         y.references = contexts[k].references,
         \/ y.waiter = contexts[k].waiter /\ y.due = FALSE /\ contexts[k].due = TRUE
         \/ y.due = contexts[k].due /\ y.waiter = Nobody /\ contexts[k].waiter # Nobody,
         \A p \in Owners : channels'[p].step = channels[p].step \/ (contexts[k].waiter = p /\ y.waiter = Nobody)
  PROVE  Shared'
  <1> DEFINE z == Channels!ContextReleased(y)
  <1>1. Shared
    BY DEF ChannelsAreKept
  <1>2. \A l \in Contexts : contexts'[l] = IF l = k THEN z ELSE contexts[l]
    BY <1>1 DEF Shared
  <1>3. Nobody \notin Owners /\ Channels!FreeContext.waiter = Nobody /\ ~Channels!FreeContext.due
        /\ Channels!FreeContext.references = 0
    BY TransportsAssumption DEF Channels!ChannelsAssumption, Channels!FreeContext
  <1>4. /\ z \in UnmountRecords /\ z.waiter = y.waiter /\ z.due = y.due
        /\ z.references = (IF z.waiter = Nobody THEN 0 ELSE 1) + (IF z.due THEN 1 ELSE 0)
    <2>1. /\ contexts[k].references = (IF contexts[k].waiter = Nobody THEN 0 ELSE 1)
                                      + (IF contexts[k].due THEN 1 ELSE 0)
          /\ contexts[k] \in UnmountRecords
      BY <1>1 DEF Shared
    <2>2. contexts[k].due \in BOOLEAN /\ y.due \in BOOLEAN
      BY <2>1 DEF UnmountRecords
    <2>3. y.references \in {1, 2}
      BY <2>1
    <2>4. CASE y.references = 1
      <3>1. y.waiter = Nobody /\ y.due = FALSE
        BY <2>1, <2>2, <2>4
      <3>2. z \in UnmountRecords /\ z = Channels!FreeContext
        BY <2>3, <2>4, ReleasedContext
      <3>3. z.waiter = Nobody /\ z.due = FALSE /\ z.references = 0
        BY <1>3, <3>2 DEF Channels!FreeContext
      <3>4. (IF z.waiter = Nobody THEN 0 ELSE 1) + (IF z.due THEN 1 ELSE 0) = 0
        BY <3>3
      <3>5. z.waiter = y.waiter /\ z.due = y.due
        BY <3>1, <3>3
      <3> QED BY <3>2, <3>3, <3>4, <3>5
    <2>5. CASE y.references = 2
      <3>1. /\ contexts[k].waiter # Nobody /\ contexts[k].due
        BY <2>1, <2>2, <2>5
      <3>2. /\ z \in UnmountRecords /\ z.references = 1 /\ z.waiter = y.waiter /\ z.due = y.due
        BY <2>3, <2>5, ReleasedContext
      <3>3. (y.waiter = Nobody /\ y.due) \/ (y.waiter # Nobody /\ ~y.due)
        BY <3>1
      <3> QED BY <3>2, <3>3
    <2> QED BY <2>3, <2>4, <2>5
  <1> HIDE DEF z
  <1>5. contexts' \in [Contexts -> UnmountRecords]
    BY <1>1, <1>4 DEF Shared, z
  <1>6. z.waiter \in {Nobody, contexts[k].waiter}
    BY <1>4
  <1>7. ASSUME NEW l \in Contexts
        PROVE  /\ contexts'[l].references = (IF contexts'[l].waiter = Nobody THEN 0 ELSE 1)
                                            + (IF contexts'[l].due THEN 1 ELSE 0)
               /\ contexts'[l].waiter # Nobody => channels'[contexts'[l].waiter].step = "wait"
    <2>1. contexts[l].waiter \in Owners \cup {Nobody}
      BY <1>1 DEF Shared, UnmountRecords
    <2>2. CASE l = k
      BY <1>1, <1>2, <1>4, <1>6, <2>1, <2>2 DEF Shared
    <2>3. CASE l # k
      BY <1>1, <1>2, <2>1, <2>3 DEF Shared
    <2> QED BY <2>2, <2>3
  <1>8. ASSUME NEW l \in Contexts, NEW m \in Contexts, l # m, contexts'[l].waiter # Nobody
        PROVE  contexts'[l].waiter # contexts'[m].waiter
    BY <1>1, <1>2, <1>6, <1>8 DEF Shared
  <1> QED BY <1>5, <1>7, <1>8 DEF Shared

\* The wait ends.
LEMMA WaitMacKeeps ==
  ASSUME ChannelsAreKept, NEW o \in Owners, UNCHANGED platform, Channels!WaitMac(o)
  PROVE  ChannelsAreKept'
  <1> DEFINE c == channels[o]
             r == [c EXCEPT !.released = TRUE]
  <1>1. /\ c.step = "wait" /\ platform # "windows" /\ c \in ChannelRecords /\ Sound(c) /\ Seated
        /\ c.handle = Channels!NoEntry /\ c.entry # Channels!NoEntry /\ UNCHANGED <<seats, mounted>>
    BY OnItsWay DEF Channels!WaitMac, Sound, OnMac
  <1>2. PICK k \in Contexts :
           /\ contexts[k].waiter = o
           /\ contexts' = [contexts EXCEPT ![k] =
                              Channels!ContextReleased([contexts[k] EXCEPT !.waiter = Nobody])]
           /\ Channels!TryAgain(o, r) \/ Channels!GiveUp(o)
    BY DEF Channels!WaitMac
  <1>3. /\ r \in ChannelRecords /\ r.identity = c.identity /\ r.entry = c.entry
        /\ r.handle = c.handle /\ r.first = c.first /\ r.sense = c.sense /\ r.outcome = c.outcome
    BY <1>1 DEF ChannelRecords
  <1> HIDE DEF r
  <1>4. PICK d :
           /\ Sound(d) /\ channels' = [channels EXCEPT ![o] = d] /\ d.step # "open"
           /\ \/ UNCHANGED guards /\ d.entry = c.entry
              \/ guards' = Channels!ReleaseGuard(c.entry) /\ d.entry = Channels!NoEntry
    <2>1. CASE Channels!GiveUp(o)
      BY <2>1, ClosedIsSound DEF Channels!GiveUp, Channels!Become
    <2>2. CASE Channels!TryAgain(o, r) /\ ~Channels!GiveUp(o)
      <3> DEFINE n == r.attempt + 1
                 d == [r EXCEPT !.step = "try", !.attempt = n]
      <3>1. channels' = [channels EXCEPT ![o] = d] /\ UNCHANGED guards
        BY <2>2 DEF Channels!TryAgain, Channels!Become
      <3>2. n \in Nat
        BY <1>3 DEF ChannelRecords
      <3> HIDE DEF n
      <3>3. /\ d \in ChannelRecords /\ d.step = "try" /\ d.identity = c.identity
            /\ d.entry = c.entry /\ d.handle = c.handle /\ d.first = c.first /\ d.sense = c.sense
            /\ d.outcome = c.outcome
        BY <1>3, <3>2 DEF ChannelRecords, Channels!Steps
      <3> HIDE DEF d
      <3>4. Sound(d)
        BY <1>1, <3>3, GoesOnSoundly
      <3> QED BY <3>1, <3>3, <3>4
    <2> QED BY <1>2, <2>1, <2>2
  <1>5. /\ Seated' /\ channels' \in [Owners -> ChannelRecords]
        /\ \A p \in Owners : Sound(channels[p])'
        /\ Counted' /\ Apart'
    BY <1>1, <1>4, OneChannel
  <1>6. Shared'
    <2> DEFINE y == [contexts[k] EXCEPT !.waiter = Nobody]
    <2>1. contexts[k] \in UnmountRecords
      BY DEF ChannelsAreKept, Shared
    <2>2. /\ y \in UnmountRecords /\ y.references = contexts[k].references
          /\ y.due = contexts[k].due /\ y.waiter = Nobody
      BY <2>1 DEF UnmountRecords
    <2>3. o # Nobody
      BY TransportsAssumption DEF Channels!ChannelsAssumption
    <2>4. contexts' = [contexts EXCEPT ![k] = Channels!ContextReleased(y)]
      BY <1>2
    <2> HIDE DEF y
    <2>5. \A p \in Owners : channels'[p].step = channels[p].step \/ contexts[k].waiter = p
      BY <1>2, <1>4 DEF ChannelsAreKept
    <2> QED BY <1>2, <2>2, <2>3, <2>4, <2>5, OneContext
  <1> QED BY <1>5, <1>6 DEF ChannelsAreKept

\* The answer of Disk Arbitration.
LEMMA UnmountCompleteKeeps ==
  ASSUME ChannelsAreKept, NEW k \in Contexts, UNCHANGED platform, Channels!UnmountComplete(k)
  PROVE  ChannelsAreKept'
  <1>1. PICK dissent \in BOOLEAN :
           /\ contexts' = [contexts EXCEPT ![k] = Channels!ContextReleased(
                 [contexts[k] EXCEPT !.due = FALSE, !.completed = TRUE, !.dissent = dissent])]
           /\ mounted' \subseteq mounted
    BY DEF Channels!UnmountComplete
  <1>2. UNCHANGED <<seats, channels, guards>> /\ contexts[k].due
    BY DEF Channels!UnmountComplete
  <1>3. Shared'
    <2> DEFINE y == [contexts[k] EXCEPT !.due = FALSE, !.completed = TRUE, !.dissent = dissent]
    <2>1. contexts[k] \in UnmountRecords
      BY DEF ChannelsAreKept, Shared
    <2>2. /\ y \in UnmountRecords /\ y.references = contexts[k].references
          /\ ~y.due /\ y.waiter = contexts[k].waiter
      BY <2>1 DEF UnmountRecords
    <2>3. contexts' = [contexts EXCEPT ![k] = Channels!ContextReleased(y)]
      BY <1>1
    <2> HIDE DEF y
    <2>4. \A p \in Owners : channels'[p].step = channels[p].step
      BY <1>2
    <2>5. y.waiter = contexts[k].waiter /\ y.due = FALSE /\ contexts[k].due = TRUE
      BY <1>2, <2>1, <2>2 DEF UnmountRecords
    <2>6. \/ y.waiter = contexts[k].waiter /\ y.due = FALSE /\ contexts[k].due = TRUE
          \/ y.due = contexts[k].due /\ y.waiter = Nobody /\ contexts[k].waiter # Nobody
      BY <2>5
    <2>7. \A p \in Owners :
             channels'[p].step = channels[p].step \/ (contexts[k].waiter = p /\ y.waiter = Nobody)
      BY <2>4
    <2> QED BY <2>2, <2>3, <2>6, <2>7, OneContext, Zenon
  <1>4. Seated' /\ (\A o \in Owners : Sound(channels[o])')
    <2>1. \A u \in mounted' : u \in mounted
      BY <1>1
    <2>2. Seated /\ \A o \in Owners : Sound(channels[o])
      BY DEF ChannelsAreKept
    <2>3. Seated'
      BY <1>2, <2>1, <2>2 DEF Seated, Channels!Attached
    <2>4. ASSUME NEW o \in Owners
          PROVE  Sound(channels[o])'
      <3>1. channels'[o] = channels[o] /\ Sound(channels[o])
        BY <1>2, <2>2
      <3> QED BY <1>2, <2>1, <3>1
            DEF Sound, OnWindows, OnMac, Channels!Attached, Channels!Entry, Channels!DeviceId
    <2> QED BY <2>3, <2>4
  <1>5. channels' \in [Owners -> ChannelRecords] /\ Counted' /\ Apart'
    BY <1>2 DEF ChannelsAreKept, Counted, Holders, Apart
  <1> QED BY <1>3, <1>4, <1>5 DEF ChannelsAreKept

\* A disc is mounted where nobody guards the entry, or taken out.
LEMMA DiscsKeep ==
  ASSUME ChannelsAreKept, NEW u \in Units, UNCHANGED platform,
         Channels!Mount(u) \/ Channels!Eject(u)
  PROVE  ChannelsAreKept'
  <1>1. /\ Seated /\ channels \in [Owners -> ChannelRecords] /\ Counted /\ Apart /\ Shared
        /\ \A o \in Owners : Sound(channels[o])
    BY DEF ChannelsAreKept
  <1>2. UNCHANGED <<seats, channels, guards, contexts>>
    BY DEF Channels!Mount, Channels!Eject
  <1>3. \A v \in mounted' : v \in mounted \/ (v = u /\ Channels!Attached(u) /\ ~Channels!Guarded(Channels!Entry(u)))
    BY DEF Channels!Mount, Channels!Eject
  <1>4. ASSUME NEW o \in Owners, Channels!Attached(u), channels[o].entry = Channels!Entry(u)
        PROVE  Channels!Guarded(Channels!Entry(u))
    <2>1. Channels!Entry(u) \in Channels!Entries
      BY <1>1, <1>4, EntryOf
    <2>2. o \in Holders(Channels!Entry(u))
      BY <1>4 DEF Holders
    <2>3. guards[Channels!Entry(u)] = Cardinality(Holders(Channels!Entry(u)))
      BY <1>1, <2>1 DEF Counted
    <2> QED BY <2>2, <2>3, HoldersAreFinite DEF Channels!Guarded
  <1>5. Seated'
    BY <1>1, <1>2, <1>3 DEF Seated, Channels!Attached
  <1>6. ASSUME NEW o \in Owners
        PROVE  Sound(channels[o])'
    <2>1. channels'[o] = channels[o] /\ Sound(channels[o])
      BY <1>1, <1>2
    <2>2. ASSUME platform # "windows", channels[o].step = "open", NEW v \in mounted'
          PROVE  Channels!Entry(v) # channels[o].entry
      BY <1>3, <1>4, <2>1, <2>2 DEF Sound, OnMac
    <2> QED BY <1>2, <2>1, <2>2
          DEF Sound, OnWindows, OnMac, Channels!Attached, Channels!Entry, Channels!DeviceId
  <1>7. channels' \in [Owners -> ChannelRecords] /\ Counted' /\ Apart' /\ Shared'
    BY <1>1, <1>2 DEF Counted, Holders, Apart, Shared
  <1> QED BY <1>5, <1>6, <1>7 DEF ChannelsAreKept

\* A drive that goes leaves an entry behind that none will have again.
LEMMA UnplugKeepsChannels ==
  ASSUME ChannelsAreKept, NEW u \in Units, UNCHANGED platform, Channels!Unplug(u)
  PROVE  ChannelsAreKept'
  <1>1. /\ Seated /\ channels \in [Owners -> ChannelRecords] /\ Counted /\ Apart /\ Shared
        /\ \A o \in Owners : Sound(channels[o])
    BY DEF ChannelsAreKept
  <1>2. /\ UNCHANGED <<channels, guards, contexts>> /\ mounted' = mounted \ {u}
        /\ seats' = [seats EXCEPT ![u].port = Out]
    BY DEF Channels!Unplug
  <1>3. \A v \in Units : /\ seats'[v].generation = seats[v].generation /\ seats[v].generation \in Nat
                         /\ seats'[v].port = IF v = u THEN Out ELSE seats[v].port
                         /\ seats'[v] \in [port : Ports \cup {Out}, generation : Nat]
    BY <1>1, <1>2 DEF Seated
  <1>4. Seated'
    <2>1. seats' \in [Units -> [port : Ports \cup {Out}, generation : Nat]]
      BY <1>1, <1>2, <1>3 DEF Seated
    <2>2. \A v \in Units : Channels!Attached(v)' <=> v # u /\ Channels!Attached(v)
      BY <1>3 DEF Channels!Attached
    <2>3. \A v \in Units : /\ seats'[v].generation <= Generations[v]
                           /\ Channels!Attached(v)' => seats'[v].generation # 0
      BY <1>1, <1>3, <2>2 DEF Seated
    <2>4. ASSUME NEW v \in Units, NEW w \in Units, v # w, Channels!Attached(v)'
          PROVE  seats'[v].port # seats'[w].port
      <3>1. v # u /\ Channels!Attached(v)
        BY <2>2, <2>4
      <3>2. seats'[v].port = seats[v].port /\ seats[v].port # Out /\ seats[v].port # seats[w].port
        BY <1>1, <1>3, <2>4, <3>1 DEF Seated, Channels!Attached
      <3> QED BY <1>3, <3>2
    <2>5. mounted' \subseteq {v \in Units : Channels!Attached(v)'}
      BY <1>1, <1>2, <2>2 DEF Seated
    <2> QED BY <2>1, <2>3, <2>4, <2>5 DEF Seated
  <1>5. ASSUME NEW o \in Owners
        PROVE  Sound(channels[o])'
    <2>1. channels'[o] = channels[o] /\ Sound(channels[o])
      BY <1>1, <1>2
    <2>2. \A v \in Units : Channels!Entry(v)' = Channels!Entry(v)
      BY <1>3 DEF Channels!Entry
    <2>3. CASE platform = "windows"
      <3>1. OnWindows(channels[o])'
        <4>1. OnWindows(channels[o])
          BY <2>1, <2>3 DEF Sound
        <4>2. CASE channels[o].step # "open"
          BY <2>1, <4>1, <4>2 DEF OnWindows
        <4>3. CASE channels[o].step = "open"
          <5>1. PICK v \in Units : v = channels[o].handle.unit
            BY <4>1, <4>3, EntriesAre DEF OnWindows
          <5>2. ASSUME Channels!Attached(v)'
                PROVE  Channels!Attached(v) /\ Channels!DeviceId(v)' = Channels!DeviceId(v)
            <6>1. seats'[v].port = seats[v].port /\ seats[v].port # Out
              BY <1>3, <5>1, <5>2 DEF Channels!Attached
            <6> QED BY <6>1 DEF Channels!Attached, Channels!DeviceId
          <5> QED BY <1>3, <2>1, <2>2, <4>1, <4>3, <5>1, <5>2 DEF OnWindows
        <4> QED BY <4>2, <4>3
      <3> QED BY <2>1, <2>3, <3>1 DEF Sound
    <2>4. CASE platform # "windows"
      <3>1. \A v \in mounted' : v \in mounted /\ v \in Units
        BY <1>1, <1>2 DEF Seated
      <3> QED BY <2>1, <2>2, <2>4, <3>1 DEF Sound, OnMac
    <2> QED BY <2>3, <2>4
  <1>6. channels' \in [Owners -> ChannelRecords] /\ Counted' /\ Apart' /\ Shared'
    BY <1>1, <1>2 DEF Counted, Holders, Apart, Shared
  <1> QED BY <1>4, <1>5, <1>6 DEF ChannelsAreKept

\* One that comes has a new entry.
LEMMA PlugKeepsChannels ==
  ASSUME ChannelsAreKept, NEW u \in Units, NEW p \in Ports, UNCHANGED platform, Channels!Plug(u, p)
  PROVE  ChannelsAreKept'
  <1>1. /\ Seated /\ channels \in [Owners -> ChannelRecords] /\ Counted /\ Apart /\ Shared
        /\ \A o \in Owners : Sound(channels[o])
    BY DEF ChannelsAreKept
  <1>2. /\ UNCHANGED <<channels, guards, contexts, mounted>> /\ ~Channels!Attached(u)
        /\ seats[u].generation < Generations[u] /\ \A v \in Units : seats[v].port # p
        /\ seats' = [seats EXCEPT ![u] = [port |-> p, generation |-> @.generation + 1]]
    BY DEF Channels!Plug
  <1>3. \A v \in Units :
           /\ seats[v] \in [port : Ports \cup {Out}, generation : Nat] /\ Generations[v] \in Nat
           /\ seats'[v] = IF v = u THEN [port |-> p, generation |-> seats[u].generation + 1]
                          ELSE seats[v]
    BY <1>1, <1>2, TransportsAssumption DEF Seated, Channels!ChannelsAssumption
  <1>4. p # Out
    BY UsbBotAssumption
  <1>5. Seated'
    <2>1. seats' \in [Units -> [port : Ports \cup {Out}, generation : Nat]]
      BY <1>1, <1>2, <1>3 DEF Seated
    <2>2. \A v \in Units : Channels!Attached(v)' <=> v = u \/ Channels!Attached(v)
      BY <1>3, <1>4 DEF Channels!Attached
    <2>3. \A v \in Units : /\ seats'[v].generation <= Generations[v]
                           /\ Channels!Attached(v)' => seats'[v].generation # 0
      BY <1>1, <1>2, <1>3, <2>2 DEF Seated
    <2>4. ASSUME NEW v \in Units, NEW w \in Units, v # w, Channels!Attached(v)'
          PROVE  seats'[v].port # seats'[w].port
      <3>1. v = u \/ Channels!Attached(v)
        BY <2>2, <2>4
      <3> QED BY <1>1, <1>2, <1>3, <2>4, <3>1 DEF Seated
    <2>5. mounted' \subseteq {v \in Units : Channels!Attached(v)'}
      BY <1>1, <1>2, <2>2 DEF Seated
    <2> QED BY <2>1, <2>3, <2>4, <2>5 DEF Seated
  <1>6. ASSUME NEW o \in Owners
        PROVE  Sound(channels[o])'
    <2>1. channels'[o] = channels[o] /\ Sound(channels[o])
      BY <1>1, <1>2
    <2>2. CASE platform = "windows"
      <3>1. OnWindows(channels[o])'
        <4>1. OnWindows(channels[o])
          BY <2>1, <2>2 DEF Sound
        <4>2. CASE channels[o].step # "open"
          BY <2>1, <4>1, <4>2 DEF OnWindows
        <4>3. CASE channels[o].step = "open"
          <5>1. PICK h \in Channels!Entries, v \in Units :
                   /\ h = channels[o].handle /\ v = h.unit
                   /\ h.generation <= seats[v].generation /\ h.generation \in Nat
            BY <4>1, <4>3, EntriesAre, <1>3 DEF OnWindows
          <5>2. h.generation <= seats'[v].generation
            BY <1>3, <5>1
          <5>3. Channels!Entry(v)' = h => v # u
            BY <1>3, <5>1 DEF Channels!Entry
          <5>4. ASSUME v # u
                PROVE  /\ Channels!Entry(v)' = Channels!Entry(v)
                       /\ Channels!DeviceId(v)' = Channels!DeviceId(v)
                       /\ (Channels!Attached(v)' <=> Channels!Attached(v))
            <6>1. seats'[v] = seats[v]
              BY <1>3, <5>1, <5>4
            <6> QED BY <6>1 DEF Channels!Entry, Channels!DeviceId, Channels!Attached
          <5> QED BY <2>1, <4>1, <4>3, <5>1, <5>2, <5>3, <5>4 DEF OnWindows
        <4> QED BY <4>2, <4>3
      <3> QED BY <2>1, <2>2, <3>1 DEF Sound
    <2>3. CASE platform # "windows"
      <3>1. \A v \in mounted' : v \in mounted /\ Channels!Entry(v)' = Channels!Entry(v)
        BY <1>1, <1>2, <1>3 DEF Seated, Channels!Entry
      <3> QED BY <2>1, <2>3, <3>1 DEF Sound, OnMac
    <2> QED BY <2>2, <2>3
  <1>7. channels' \in [Owners -> ChannelRecords] /\ Counted' /\ Apart' /\ Shared'
    BY <1>1, <1>2 DEF Counted, Holders, Apart, Shared
  <1> QED BY <1>5, <1>6, <1>7 DEF ChannelsAreKept

\* At first all transports are closed.
LEMMA ChannelsAreKeptInit ==
  ASSUME Channels!Init
  PROVE  ChannelsAreKept
  <1>1. /\ seats = [u \in Units |-> [port |-> Home[u], generation |-> IF Home[u] = Out THEN 0 ELSE 1]]
        /\ mounted \subseteq {u \in Units : Channels!Attached(u)}
        /\ channels = [o \in Owners |-> Channels!Closed]
        /\ guards = [e \in Channels!Entries |-> 0]
        /\ contexts = [k \in Contexts |-> Channels!FreeContext]
    BY DEF Channels!Init
  <1>2. Seated
    <2>1. \A u \in Units : /\ seats[u].port = Home[u] /\ Home[u] \in Ports \cup {Out}
                           /\ seats[u].generation = (IF Home[u] = Out THEN 0 ELSE 1)
                           /\ Generations[u] \in Nat /\ (Home[u] # Out => Generations[u] > 0)
      BY <1>1, UsbBotAssumption, TransportsAssumption DEF Channels!ChannelsAssumption
    <2>2. seats \in [Units -> [port : Ports \cup {Out}, generation : Nat]]
      BY <1>1, <2>1
    <2>3. \A u \in Units : /\ seats[u].generation <= Generations[u]
                           /\ Channels!Attached(u) => seats[u].generation # 0
      BY <2>1 DEF Channels!Attached
    <2>4. \A u, v \in Units : u # v /\ Channels!Attached(u) => seats[u].port # seats[v].port
      BY <2>1, UsbBotAssumption DEF Channels!Attached
    <2> QED BY <1>1, <2>2, <2>3, <2>4 DEF Seated
  <1>3. /\ channels \in [Owners -> ChannelRecords] /\ (\A o \in Owners : Sound(channels[o]))
        /\ \A o \in Owners : channels[o] = Channels!Closed
    BY <1>1, ClosedIsSound DEF Sound
  <1>4. Counted
    <2>1. \A e \in Channels!Entries : Holders(e) = {}
      BY <1>3, ClosedIsSound, EntriesAre DEF Holders
    <2> QED BY <1>1, <2>1, FS_EmptySet DEF Counted
  <1>5. Apart
    BY <1>3, ClosedIsSound DEF Apart
  <1>6. Shared
    <2>1. /\ Channels!FreeContext \in UnmountRecords /\ Channels!FreeContext.references = 0
          /\ Channels!FreeContext.waiter = Nobody /\ ~Channels!FreeContext.due
      BY DEF Channels!FreeContext, UnmountRecords, Spots
    <2>2. \A k \in Contexts : contexts[k] = Channels!FreeContext
      BY <1>1
    <2> QED BY <1>1, <2>1, <2>2 DEF Shared
  <1> QED BY <1>2, <1>3, <1>4, <1>5, <1>6 DEF ChannelsAreKept

\* Every step keeps the channels.
LEMMA ChannelsAreKeptStep ==
  ASSUME ChannelsAreKept, [TransportNext]_transportVars
  PROVE  ChannelsAreKept'
  <1>1. CASE Channels!Next /\ UNCHANGED platform
    <2>1. ASSUME NEW o \in Owners,
                 \/ Channels!OpenWindows(o) \/ Channels!WindowsCommand(o)
                 \/ Channels!ResetWindows(o) \/ Channels!CloseWindows(o)
                 \/ Channels!OpenMac(o) \/ Channels!TryMac(o) \/ Channels!ReleaseMac(o)
                 \/ Channels!WaitMac(o) \/ Channels!FailMac(o) \/ Channels!MacCommand(o)
                 \/ Channels!CloseMac(o)
          PROVE  ChannelsAreKept'
      BY <1>1, <2>1, WindowsKeeps, CommandKeepsChannels, OpenMacKeeps, TryMacKeeps, ReleaseMacKeeps,
         WaitMacKeeps, EndsKeep
    <2>2. ASSUME NEW k \in Contexts, Channels!UnmountComplete(k)
          PROVE  ChannelsAreKept'
      BY <1>1, <2>2, UnmountCompleteKeeps
    <2>3. ASSUME NEW u \in Units,
                 \/ Channels!Mount(u) \/ Channels!Eject(u) \/ Channels!Unplug(u)
                 \/ \E p \in Ports : Channels!Plug(u, p)
          PROVE  ChannelsAreKept'
      BY <1>1, <2>3, DiscsKeep, UnplugKeepsChannels, PlugKeepsChannels
    <2> QED BY <1>1, <2>1, <2>2, <2>3 DEF Channels!Next
  <1>2. CASE UNCHANGED <<platform, systemVars>>
    <2>1. UNCHANGED <<platform, seats, mounted, channels, guards, contexts>>
      BY <1>2 DEF systemVars
    <2>2. \A o \in Owners : Sound(channels[o])'
      <3> SUFFICES ASSUME NEW o \in Owners
                   PROVE  Sound(channels[o])'
        OBVIOUS
      <3>1. channels'[o] = channels[o] /\ Sound(channels[o])
        BY <2>1 DEF ChannelsAreKept
      <3> QED BY <2>1, <3>1
            DEF Sound, OnWindows, OnMac, Channels!Attached, Channels!Entry, Channels!DeviceId
    <2>3. Seated' /\ channels' \in [Owners -> ChannelRecords] /\ Counted' /\ Apart' /\ Shared'
      BY <2>1 DEF ChannelsAreKept, Seated, Channels!Attached, Counted, Holders, Apart, Shared
    <2> QED BY <2>2, <2>3 DEF ChannelsAreKept
  <1> QED BY <1>1, <1>2 DEF TransportNext, transportVars, systemVars

\* What the invariant says of the guards.
LEMMA KeptIsGuarded ==
  ASSUME ChannelsAreKept
  PROVE  Channels!GuardsAreHeld
  <1>1. /\ Seated /\ channels \in [Owners -> ChannelRecords] /\ Counted /\ Shared
        /\ \A o \in Owners : Sound(channels[o])
    BY DEF ChannelsAreKept
  <1>2. \A e \in Channels!Entries :
           /\ guards[e] = Channels!Cardinality({o \in Owners : channels[o].entry = e})
           /\ guards[e] \in Nat
    BY <1>1, SameCounts, HoldersAreFinite DEF Counted, Holders
  <1>3. Channels!TypeOK
    <2>1. guards \in [Channels!Entries -> Nat]
      BY <1>1, <1>2 DEF Counted
    <2>2. \A u \in Units : Channels!Attached(u) => Channels!Entry(u) \in Channels!Entries
      BY <1>1, EntryOf
    <2>3. \A o \in Owners : /\ channels[o].step \in Channels!Steps
                            /\ channels[o].outcome \in Channels!Outcomes
                            /\ channels[o].entry \in Spots /\ channels[o].handle \in Spots
      BY <1>1 DEF ChannelRecords
    <2> QED BY <1>1, <2>1, <2>2, <2>3 DEF Seated, Spots, Channels!TypeOK
  <1>4. ASSUME NEW o \in Owners, NEW u \in Units, channels[o].step = "open",
               channels[o].entry = Channels!Entry(u), u \in mounted
        PROVE  FALSE
    <2>1. Channels!Entry(u) \in Channels!Entries
      BY <1>1, <1>4, EntryOf DEF Seated
    <2>2. platform # "windows"
      BY <1>1, <1>4, <2>1, EntriesAre DEF Sound, OnWindows
    <2> QED BY <1>1, <1>4, <2>2 DEF Sound, OnMac
  <1>5. ASSUME NEW k \in Contexts
        PROVE  /\ contexts[k].waiter # Nobody \/ contexts[k].due <=> contexts[k].references > 0
               /\ contexts[k].waiter # Nobody => channels[contexts[k].waiter].step = "wait"
    <2>1. contexts[k].due \in BOOLEAN
      BY <1>1 DEF Shared, UnmountRecords
    <2> QED BY <1>1, <2>1 DEF Shared
  <1> QED BY <1>2, <1>3, <1>4, <1>5 DEF Channels!GuardsAreHeld

\* ... and of the sense data.
LEMMA KeptIsToldOfItself ==
  ASSUME ChannelsAreKept
  PROVE  Channels!SenseIsOwn
  BY DEF ChannelsAreKept, Sound, ChannelRecords, Channels!Outcomes, Channels!SenseIsOwn

\* ... and of the drives.
LEMMA KeptIsSelected ==
  ASSUME ChannelsAreKept
  PROVE  Channels!SelectedIsKept
  <1>1. /\ channels \in [Owners -> ChannelRecords] /\ Apart /\ Seated
        /\ \A o \in Owners : Sound(channels[o])
    BY DEF ChannelsAreKept
  <1>2. ASSUME NEW o \in Owners, channels[o].step = "open"
        PROVE  /\ channels[o].handle.unit \in Units
               /\ Scsi[channels[o].handle.unit] = channels[o].identity
               /\ platform = "macos" => /\ channels[o].handle = channels[o].entry
                                        /\ channels[o].handle.unit = channels[o].first
               /\ platform = "windows"
                     => channels[o].serial \in {NoSerial, Serial[channels[o].handle.unit]}
               /\ platform = "windows" /\ Channels!Live(channels[o].handle)
                     => Channels!Present(channels[o])
    <2>1. CASE platform = "windows"
      <3>1. OnWindows(channels[o]) /\ platform # "macos"
        BY <1>1, <2>1 DEF Sound
      <3>2. /\ channels[o].handle \in Channels!Entries /\ channels[o].handle.unit \in Units
            /\ channels[o].first \in Units
        BY <1>2, <3>1, EntriesAre DEF OnWindows
      <3>3. channels[o].serial \in {NoSerial, Serial[channels[o].handle.unit]}
        BY <1>2, <3>1 DEF OnWindows
      <3>4. ASSUME Channels!Live(channels[o].handle)
            PROVE  Channels!Present(channels[o])
        <4>1. PICK u \in Units : Channels!Attached(u) /\ Channels!Entry(u) = channels[o].handle
          BY <3>4 DEF Channels!Live
        <4>2. u = channels[o].handle.unit
          BY <1>1, <4>1, EntryOf
        <4>3. Channels!Selected(channels[o], u)
          BY <1>2, <3>1, <4>1, <4>2 DEF OnWindows, Channels!Selected
        <4> QED BY <4>3 DEF Channels!Present
      <3> QED BY <1>2, <2>1, <3>1, <3>2, <3>3, <3>4 DEF OnWindows
    <2>2. CASE platform # "windows"
      <3>1. /\ OnMac(channels[o]) /\ channels[o].entry # Channels!NoEntry
            /\ channels[o].handle = channels[o].entry /\ channels[o].entry \in Spots
        BY <1>1, <1>2, <2>2 DEF Sound, OnMac, ChannelRecords
      <3>2. channels[o].handle.unit \in Units
        BY <3>1, EntriesAre DEF Spots
      <3> QED BY <1>2, <2>2, <3>1, <3>2 DEF OnMac
    <2> QED BY <2>1, <2>2
  <1>3. ASSUME platform = "macos", NEW o \in Owners, NEW p \in Owners, o # p,
               channels[o].step = "open", channels[p].step = "open"
        PROVE  channels[o].handle # channels[p].handle
    BY <1>1, <1>3 DEF Apart
  <1> QED BY <1>2, <1>3 DEF Channels!SelectedIsKept

-----------------------------------------------------------------------------
(* Every build.                                                            *)

\* Seen from the Linux transport, nothing happens in the other builds.
LEMMA EveryStepIsOfLinux ==
  /\ TransportInit => Init /\ Channels!Init
  /\ [TransportNext]_transportVars => [Next]_vars
  BY DEF TransportInit, TransportNext, transportVars

\* What the transports of all builds do is, for the Linux one, what it does
\* by itself: what has been proved of it holds with the others.
THEOREM TransportsImplementUsbBot == TransportSpec => Spec
  <1>1. TransportInit => Init
    BY EveryStepIsOfLinux
  <1>2. [TransportNext]_transportVars => [Next]_vars
    BY EveryStepIsOfLinux
  <1> QED BY <1>1, <1>2, PTL DEF TransportSpec, Spec

\* The invariant of the channels.
LEMMA ChannelsStayKept == TransportSpec => []ChannelsAreKept
  <1>1. TransportInit => ChannelsAreKept
    BY EveryStepIsOfLinux, ChannelsAreKeptInit
  <1>2. ChannelsAreKept /\ [TransportNext]_transportVars => ChannelsAreKept'
    BY ChannelsAreKeptStep
  <1> QED BY <1>1, <1>2, PTL DEF TransportSpec

\* What the transport takes from the system is owed, and noted down, until it
\* is given back: on Linux the kernel's driver; on macOS one reference to the
\* guard of the entry for each attempt and each open transport and none for
\* others, so that no disc is mounted under an open one, whichever attempts,
\* unmounts and waits fail, are answered late or not at all.
\* (usb_bot_libusb_handoff.c, open_native_device, unmount_context_release.)
THEOREM WhatIsTakenIsGivenBack == TransportSpec => []TakenIsGivenBack
  <1>1. ChannelsAreKept => Channels!GuardsAreHeld
    BY KeptIsGuarded
  <1>2. DisplacedIsOwed /\ Channels!GuardsAreHeld => TakenIsGivenBack
    BY DEF TakenIsGivenBack
  <1> QED BY <1>1, <1>2, TransportsImplementUsbBot, DriversAreOwed, ChannelsStayKept, PTL

\* As long as the tags of Linux do not come round, what a transport tells of
\* a command, its reply or its sense data, is of that command.
\* (validate_csw, cache_command_sense, windows_reset.)
THEOREM WhatIsAnsweredIsOwn ==
  ASSUME MaxCommands + 2 < TagLimit
  PROVE  TransportSpec => []AnswersAreOwn
  <1>1. ChannelsAreKept => Channels!SenseIsOwn
    BY KeptIsToldOfItself
  <1>2. RepliesAreOwn /\ Channels!SenseIsOwn => AnswersAreOwn
    BY DEF AnswersAreOwn
  <1>3. Spec => []RepliesAreOwn
    BY CommandsAreToldOfThemselves
  <1> QED BY <1>1, <1>2, <1>3, TransportsImplementUsbBot, ChannelsStayKept, PTL

\* Whatever is unplugged, exchanged, opened again or tried again, an open
\* transport has what passes for the drive it was opened for: on Linux and
\* Windows one of the identity, the place and the serial number, if there is
\* one; on macOS that very drive, and no other transport has it.
\* (open_matching_identity, open_windows_candidate, find_supported_drive.)
THEOREM WhatIsOpenedIsKept == TransportSpec => []OpenedIsKept
  <1>1. ChannelsAreKept => Channels!SelectedIsKept
    BY KeptIsSelected
  <1>2. SameDrive /\ Channels!SelectedIsKept => OpenedIsKept
    BY DEF OpenedIsKept
  <1> QED BY <1>1, <1>2, TransportsImplementUsbBot, TheDriveStaysTheSame, ChannelsStayKept, PTL
=============================================================================
