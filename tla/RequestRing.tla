---------------------------- MODULE RequestRing ----------------------------
(***************************************************************************)
(* The command queue as the code keeps it: an array of fixed size with the *)
(* index of the oldest entry and a count (src/app/runtime_commands.h),     *)
(* every index taken modulo the size, and a setup request taken out of the *)
(* middle by moving the younger ones down (src/app/runtime_setup.c).       *)
(***************************************************************************)
EXTENDS Naturals, Sequences

CONSTANTS Capacity, Paths

RingAssumption == Capacity \in Nat \ {0}

VARIABLES
  entries,   \* queue->entries, by index
  head,      \* queue->head
  count,     \* queue->count
  taken      \* the entry that was copied out last

vars == <<entries, head, count, taken>>

Slots == 0 .. Capacity - 1
Slot(offset) == (head + offset) % Capacity

\* The queue the ring stands for.
Queue == INSTANCE RequestQueue WITH
           requests <- [i \in 1 .. count |-> entries[Slot(i - 1)]],
           request  <- taken

Blank == [kind |-> "none"]

Init == /\ entries = [slot \in Slots |-> Blank]
        /\ head = 0
        /\ count = 0
        /\ taken = Blank

Insertion == Slot(count)

\* Bug variant: the tail is the slot below the insertion, without the wrap.
TailSlotUnwrapped == IF Insertion = 0 THEN 0 ELSE Insertion - 1

TailSlot == IF Insertion = 0 THEN Capacity - 1 ELSE Insertion - 1

Replaces(entry) == /\ count > 0
                   /\ entries[TailSlot].kind = entry.kind
                   /\ entry.kind # "import"

Enqueue(entry) ==
  \/ /\ Replaces(entry)
     /\ entries' = [entries EXCEPT ![TailSlot] = entry]
     /\ UNCHANGED <<head, count, taken>>
  \/ /\ ~Replaces(entry)
     /\ count < Capacity
     /\ entries' = [entries EXCEPT ![Insertion] = entry]
     /\ count' = count + 1
     /\ UNCHANGED <<head, taken>>

NextHead == (head + 1) % Capacity

Dequeue ==
  /\ count > 0
  /\ taken' = entries[head]
  /\ count' = count - 1
  /\ head' = IF count' = 0 THEN 0 ELSE NextHead
  /\ UNCHANGED entries

IsSetup(offset) == entries[Slot(offset)].kind \in Queue!SetupKinds

\* Every younger entry moves one slot down, in order of age.
MovedDown(offset) ==
  [slot \in Slots |->
     LET moved == {k \in offset + 1 .. count - 1 : Slot(k - 1) = slot}
     IN  IF moved = {} THEN entries[slot]
                       ELSE entries[Slot(CHOOSE k \in moved : TRUE)]]

TakeSetup ==
  \E offset \in 0 .. count - 1 :
    /\ IsSetup(offset)
    /\ \A earlier \in 0 .. offset - 1 : ~IsSetup(earlier)
    /\ taken' = entries[Slot(offset)]
    /\ entries' = MovedDown(offset)
    /\ count' = count - 1
    /\ head' = IF count' = 0 THEN 0 ELSE head

Next == (\E entry \in Queue!Entries : Enqueue(entry)) \/ Dequeue \/ TakeSetup

Spec == Init /\ [][Next]_vars

-----------------------------------------------------------------------------
\* The ring behaves as the queue whatever head has wrapped to: nothing is
\* lost, doubled or reordered at the seam, and a full ring still merges
\* (gdox_runtime_request_enqueue, _dequeue, gdox_runtime_setup_take_request).
KeepsTheQueue == Queue!QueueSpec
=============================================================================
