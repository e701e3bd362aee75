---------------------------- MODULE RequestQueue ----------------------------
(***************************************************************************)
(* What the worker's command queue promises (src/app/runtime_commands.c,   *)
(* gdox_runtime_setup_take_request): requests leave in the order they came *)
(* in, except that setup requests may pass the others; a request that      *)
(* repeats the kind of the last one replaces it, unless it is an import.   *)
(* RequestRing.tla is the ring buffer that keeps this promise, and         *)
(* RuntimeRequests.tla the two threads that use it.                        *)
(***************************************************************************)
EXTENDS Naturals, Sequences

CONSTANTS
  Capacity,   \* GDOX_RUNTIME_REQUEST_CAPACITY
  Paths       \* what a request carries: path, format, and so on

ASSUME CapacityAssumption == Capacity \in Nat \ {0}

VARIABLES
  requests,   \* runtime->requests
  request     \* the request the worker took last

ActionKinds == {"start", "close", "apply_display"}
SetupKinds  == {"set_xemu", "import"}
Kinds       == ActionKinds \cup SetupKinds
Entries     == [kind : Kinds, path : Paths]
NoRequest   == [kind |-> "none"]

\* Bug variant: imports are merged like everything else.
ReplacesAnyKind(queue, entry) ==
  queue # <<>> /\ queue[Len(queue)].kind = entry.kind

\* The request takes the place of the last one, which is of its kind.
Replaces(queue, entry) ==
  /\ queue # <<>>
  /\ queue[Len(queue)].kind = entry.kind
  /\ entry.kind # "import"

Accepts(queue, entry) == Replaces(queue, entry) \/ Len(queue) < Capacity

Enqueued(queue, entry) ==
  IF Replaces(queue, entry) THEN [queue EXCEPT ![Len(queue)] = entry]
                            ELSE Append(queue, entry)

SetupPositions(queue) == {i \in 1 .. Len(queue) : queue[i].kind \in SetupKinds}

\* Bug variant: the scan keeps the last setup request it meets.
LastSetup(queue) == CHOOSE i \in SetupPositions(queue) :
                      \A j \in SetupPositions(queue) : j <= i

FirstSetup(queue) == CHOOSE i \in SetupPositions(queue) :
                       \A j \in SetupPositions(queue) : i <= j

Without(queue, i) == SubSeq(queue, 1, i - 1) \o SubSeq(queue, i + 1, Len(queue))

-----------------------------------------------------------------------------
QueueInit == requests = <<>> /\ request = NoRequest

Enqueue(entry) == /\ Accepts(requests, entry)
                  /\ requests' = Enqueued(requests, entry)
                  /\ UNCHANGED request

Dequeue == /\ requests # <<>>
           /\ request' = Head(requests)
           /\ requests' = Tail(requests)

TakeSetup == /\ SetupPositions(requests) # {}
             /\ request' = requests[FirstSetup(requests)]
             /\ requests' = Without(requests, FirstSetup(requests))

QueueNext == \/ \E entry \in Entries : Enqueue(entry)
             \/ Dequeue \/ TakeSetup

QueueSpec == QueueInit /\ [][QueueNext]_<<requests, request>>
=============================================================================
