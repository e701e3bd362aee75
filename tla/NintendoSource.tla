--------------------------- MODULE NintendoSource ---------------------------
(***************************************************************************)
(* The source that reads GameCube and Wii discs in a GP63 drive            *)
(* (src/platform/gp63_gamecube_source.c).  The drive takes such a disc     *)
(* only while its admission bytes are set, so every acquisition sets them, *)
(* lets the drive scan, puts them back and takes the drive's whole cache,  *)
(* in which blocks are then looked for.  Readers share the drive with a    *)
(* worker that reads ahead of them: "mutex" is held for one acquisition,   *)
(* "cache_mutex" for one action of this module.                            *)
(***************************************************************************)
EXTENDS Naturals, Sequences, FiniteSets

CONSTANTS
  Addresses,        \* number of admission bytes, set in order, put back in reverse
  BlockSectors,     \* GDOX_GC_SECTORS_PER_BLOCK
  Sectors,          \* of the disc
  BufferBlocks,     \* GDOX_GC_BUFFER_BLOCKS
  Streams,          \* set of read-ahead streams
  Readahead,        \* GDOX_GC_READAHEAD_SECTORS
  MinStart,         \* sectors of a read that starts a stream
  Attempts,         \* acquisitions of one demand read
  Readers,          \* threads that read
  Requests,         \* BOUND: the reads they make, <<lba, blocks>>
  MaxUnplugs        \* BOUND: drives unplugged

VARIABLES
  mechanism,  \* the drive: admission bytes, whether it is connected and answers
  context,    \* gdox_gc_context
  work,       \* what the holder of "mutex" does with the drive
  reader,     \* the call of each reader
  worker,     \* readahead_worker
  owner,      \* the call of the owner of the source
  ghost       \* auxiliary: the bytes this source set, whether it was killed, whether a
              \* block was lost after its acquisition

ninVars == <<mechanism, context, work, reader, worker, owner, ghost>>

NintendoAssumption ==
  /\ {Addresses, BlockSectors, Sectors, BufferBlocks, Attempts} \subseteq Nat \ {0}
  /\ {Readahead, MinStart, MaxUnplugs} \subseteq Nat
  /\ {"open", "close", "worker", "free"} \cap Readers = {}

Bytes == 1 .. Addresses
Blocks == 0 .. (Sectors - 1) \div BlockSectors
NoStream == [valid |-> FALSE, last |-> 0, next |-> 0, end |-> 0, retry |-> 0]
NoContext == [poisoned |-> FALSE, present |-> FALSE, abort |-> FALSE, gone |-> FALSE, pending |-> {},
              raw |-> {}, cache |-> <<>>, streams |-> [s \in Streams |-> NoStream],
              recent |-> <<>>, demand |-> {}]
NoWork == [by |-> "free", block |-> 0, attempt |-> 0, step |-> "done", at |-> 0,
           ok |-> FALSE, error |-> "none"]
NoReader == [place |-> "idle", lba |-> 0, blocks |-> 0, at |-> 0, ok |-> FALSE]
NoWorker == [place |-> "gone", stream |-> CHOOSE s \in Streams : TRUE, lba |-> 0,
             stale |-> FALSE, ok |-> FALSE]

Steps == {"lookup", "check", "admit", "scan", "undo", "capture", "decode", "done"}
NinTypeOK ==
  /\ mechanism \in [admission : [Bytes -> BOOLEAN], attached : BOOLEAN, answers : BOOLEAN,
                    unplugs : 0 .. MaxUnplugs]
  /\ context.pending \subseteq Bytes /\ context.raw \subseteq Blocks
  /\ Len(context.cache) <= BufferBlocks
  /\ work.by \in {"free", "open", "close", "worker"} \cup Readers /\ work.step \in Steps
  /\ \A r \in Readers : reader[r].place \in {"idle", "copy", "lock", "work", "schedule", "leave", "signal"}
  /\ worker.place \in {"look", "asleep", "lock", "work", "finish", "gone"}
  /\ owner \in {"closed", "selected", "opening", "open", "joining", "restoring", "release", "held"}
  /\ ghost.set \subseteq Bytes

Reply63 == IF mechanism.answers THEN BOOLEAN ELSE {FALSE}
\* submit: the first command after the drive has gone says so, and the
\* transport remembers it.
Noted(c) == [c EXCEPT !.gone = @ \/ ~mechanism.answers]
Hold(s) == work' = [work EXCEPT !.step = s]
Fails(e) == work' = [work EXCEPT !.step = "done", !.ok = FALSE, !.error = e]
Working(t, b, s) == [NoWork EXCEPT !.by = t, !.block = b, !.step = s, !.attempt = 1]

-----------------------------------------------------------------------------
(* The buffer of decoded blocks, oldest first. *)

Within(seq, x) == \E i \in DOMAIN seq : seq[i] = x
Without(seq, x) ==
  IF Within(seq, x)
  THEN LET i == CHOOSE j \in DOMAIN seq : seq[j] = x
       IN  [j \in 1 .. Len(seq) - 1 |-> IF j < i THEN seq[j] ELSE seq[j + 1]]
  ELSE seq

\* copy_decoded marks the block as used.
Touch(cache, b) == IF Within(cache, b) THEN Append(Without(cache, b), b) ELSE cache
\* retain_decoded_block takes a free slot or the one not used for longest.
Retain(cache, b) ==
  IF Within(cache, b) \/ Len(cache) < BufferBlocks THEN Append(Without(cache, b), b)
  ELSE Append(Tail(cache), b)

-----------------------------------------------------------------------------
(* read_decoded_block, by the holder of "mutex". *)

\* The block is buffered, or in what was captured for another block.
Lookup ==
  /\ work.step = "lookup"
  /\ CASE Within(context.cache, work.block) ->
            work' = [work EXCEPT !.step = "done", !.ok = TRUE] /\ UNCHANGED context
       [] work.block \in context.raw /\ ~Within(context.cache, work.block) ->
            /\ work' = [work EXCEPT !.step = "done", !.ok = TRUE]
            /\ context' = [context EXCEPT !.cache = Retain(@, work.block)]
       [] OTHER -> (IF context.abort THEN Fails("cancelled") ELSE Hold("check")) /\ UNCHANGED context
  /\ UNCHANGED <<mechanism, reader, worker, owner, ghost>>

\* An acquisition that fails ends the attempts, and the session if it was
\* speculative.
NotAcquired(c, e) ==
  /\ Fails(e)
  /\ context' = [c EXCEPT !.poisoned = @ \/ (work.by = "worker" /\ e # "cancelled")]

\* run_ready_cache_producer reads every byte twice and wants them clear.
Check ==
  /\ work.step = "check"
  /\ IF context.abort THEN Fails("cancelled") /\ UNCHANGED context
     ELSE IF context.poisoned THEN NotAcquired(context, "transport")
     ELSE \E ok \in Reply63 :
            LET emptied == [Noted(context) EXCEPT !.raw = {}]
            IN  IF ok /\ \A a \in Bytes : ~mechanism.admission[a]
                THEN work' = [work EXCEPT !.step = "admit", !.at = 1] /\ context' = emptied
                ELSE \E e \in {"transport", "other"} : NotAcquired(emptied, e)
  /\ UNCHANGED <<mechanism, reader, worker, owner, ghost>>

\* write_admission_byte: the drive takes the byte or not, whatever it reports.
WriteByte(a, v, ok) ==
  \E lands \in BOOLEAN :
    /\ ok => lands
    /\ lands => mechanism.answers
    /\ mechanism' = IF lands THEN [mechanism EXCEPT !.admission[a] = v] ELSE mechanism
    /\ ghost' = [ghost EXCEPT !.set = IF ~lands THEN @ ELSE IF v THEN @ \cup {a} ELSE @ \ {a}]

\* A byte is owed before it is written, including uncertain completion.
Admit ==
  /\ work.step = "admit"
  /\ context' = [Noted(context) EXCEPT !.pending = @ \cup {work.at}]
  /\ \E ok \in Reply63 :
       /\ WriteByte(work.at, TRUE, ok)
       /\ work' = IF ~ok THEN [work EXCEPT !.step = "undo", !.at = Addresses, !.ok = FALSE, !.error = "none"]
                  ELSE IF work.at < Addresses THEN [work EXCEPT !.at = @ + 1]
                  ELSE [work EXCEPT !.step = "scan"]
  /\ UNCHANGED <<reader, worker, owner>>

\* Readiness, seek and quality scan, or the last attempt's READ(12); a scan
\* the transport lost ends the session.
Scan ==
  /\ work.step = "scan"
  /\ \E ok \in Reply63, lost \in BOOLEAN :
       /\ ok => ~lost
       /\ work' = [work EXCEPT !.step = "undo", !.at = Addresses, !.ok = ok, !.error = "none"]
       /\ context' = [Noted(context) EXCEPT !.poisoned = @ \/ lost]
  /\ UNCHANGED <<mechanism, reader, worker, owner, ghost>>

\* restore_admission: a drive that is known to be gone is owed nothing; every
\* owed byte is tried, the last one first.
Undone(c, failed) ==
  LET unsafe == [c EXCEPT !.poisoned = TRUE, !.present = FALSE]
  IN  CASE work.by = "close" ->
             work' = [work EXCEPT !.step = "done", !.ok = ~failed] /\ context' = c
        [] work.by # "close" /\ failed -> NotAcquired(unsafe, "transport")
        [] work.by # "close" /\ ~failed /\ work.ok -> Hold("capture") /\ context' = c
        [] OTHER -> \E e \in {"transport", "other"} : NotAcquired(c, e)
Undo ==
  /\ work.step = "undo"
  /\ IF context.pending = {} \/ (work.at = Addresses /\ context.gone)
     THEN Undone([context EXCEPT !.pending = {}], FALSE) /\ UNCHANGED <<mechanism, ghost>>
     ELSE IF work.at = 0 THEN Undone(context, TRUE) /\ UNCHANGED <<mechanism, ghost>>
     ELSE /\ work' = [work EXCEPT !.at = @ - 1]
          /\ IF work.at \in context.pending
             THEN \E ok \in Reply63 :
                    /\ WriteByte(work.at, FALSE, ok)
                    /\ context' = [Noted(context) EXCEPT !.pending = IF ok THEN @ \ {work.at} ELSE @]
             ELSE UNCHANGED <<mechanism, context, ghost>>
  /\ UNCHANGED <<reader, worker, owner>>

\* decode_block: a block validates when its frames are in sequence, give one
\* scrambling seed and match their error detection codes; correct_outer_parity
\* makes some of the damaged ones validate.
Validates(b) == {{}, {b}}
Repaired(b, intact) == IF b \in intact THEN {intact} ELSE {intact, intact \cup {b}}

\* capture_full_raw_cache: the block that was wanted, and what lies behind it.
Capture ==
  /\ work.step = "capture"
  /\ IF context.abort THEN NotAcquired(context, "cancelled")
     ELSE \E ok \in Reply63 :
            IF ok THEN \E intact \in Validates(work.block), next \in Validates(work.block + 1) :
                       \E found \in Repaired(work.block, intact) :
                         Hold("decode") /\ context' = [context EXCEPT !.raw = (found \cup next) \cap Blocks]
            ELSE \E e \in {"transport", "other"} : NotAcquired(Noted(context), e)
  /\ UNCHANGED <<mechanism, reader, worker, owner, ghost>>

\* locate_and_decode_cached_block after an acquisition; a demand read tries
\* again, speculation does not.
Decode ==
  /\ work.step = "decode"
  /\ IF context.abort THEN Fails("cancelled") /\ UNCHANGED context
     ELSE IF work.block \in context.raw
     THEN /\ work' = [work EXCEPT !.step = "done", !.ok = TRUE]
          /\ context' = [context EXCEPT !.cache = Retain(@, work.block)]
     ELSE /\ IF work.attempt < Attempts /\ work.by # "worker"
             THEN work' = [work EXCEPT !.step = "check", !.attempt = @ + 1]
             ELSE Fails("other")
          /\ UNCHANGED context
  /\ UNCHANGED <<mechanism, reader, worker, owner, ghost>>

Acquisition == Lookup \/ Check \/ Admit \/ Scan \/ Undo \/ Capture \/ Decode

-----------------------------------------------------------------------------
(* A reader: gc_read. *)

At63(r, place) == reader[r].place = place
Go(r, place) == reader' = [reader EXCEPT ![r].place = place]
Readable == ~context.abort /\ ~context.poisoned /\ context.present
BlockAt(r) == reader[r].at \div BlockSectors

ReadBegin(r) ==
  /\ At63(r, "idle") /\ owner = "open"
  /\ \E q \in Requests :
       reader' = [reader EXCEPT ![r] = [place |-> "copy", lba |-> q[1], blocks |-> q[2],
                                        at |-> q[1], ok |-> TRUE]]
  /\ context' = [context EXCEPT !.demand = @ \cup {r}]
  /\ UNCHANGED <<mechanism, work, worker, owner, ghost>>

\* To the next block of the read.
Advanced(r) ==
  LET next == (BlockAt(r) + 1) * BlockSectors
  IN  IF next >= reader[r].lba + reader[r].blocks
      THEN [reader[r] EXCEPT !.place = "schedule"]
      ELSE [reader[r] EXCEPT !.place = "copy", !.at = next]
Broken(r) == [reader[r] EXCEPT !.place = "leave", !.ok = FALSE]

ReadCopy(r) ==
  /\ At63(r, "copy")
  /\ reader' = [reader EXCEPT ![r] =
       IF ~Readable THEN Broken(r)
       ELSE IF Within(context.cache, BlockAt(r)) THEN Advanced(r)
       ELSE [@ EXCEPT !.place = "lock"]]
  /\ context' = IF Readable THEN [context EXCEPT !.cache = Touch(@, BlockAt(r))] ELSE context
  /\ UNCHANGED <<mechanism, work, worker, owner, ghost>>

ReadLock(r) ==
  /\ At63(r, "lock") /\ work.by = "free"
  /\ IF Readable
     THEN Go(r, "work") /\ work' = Working(r, BlockAt(r), "lookup") /\ UNCHANGED context
     ELSE /\ reader' = [reader EXCEPT ![r] = Broken(r)]
          /\ context' = IF context.abort THEN context ELSE [context EXCEPT !.present = FALSE]
          /\ UNCHANGED work
  /\ UNCHANGED <<mechanism, worker, owner, ghost>>

\* The block that was acquired is copied while "mutex" is still held.
ReadUnlock(r) ==
  /\ At63(r, "work") /\ work.step = "done"
  /\ work' = NoWork
  /\ IF work.ok
     THEN /\ reader' = [reader EXCEPT ![r] =
               IF Within(context.cache, BlockAt(r)) THEN Advanced(r) ELSE Broken(r)]
          /\ context' = [context EXCEPT !.cache = Touch(@, BlockAt(r))]
          /\ ghost' = [ghost EXCEPT !.lost = @ \/ ~Within(context.cache, BlockAt(r))]
     ELSE /\ reader' = [reader EXCEPT ![r] = Broken(r)]
          /\ context' = [context EXCEPT !.present = @ /\ work.error # "transport"]
          /\ UNCHANGED ghost
  /\ UNCHANGED <<mechanism, worker, owner>>

\* schedule_readahead.
Up(sector) == ((sector + BlockSectors - 1) \div BlockSectors) * BlockSectors
Least(a, b) == IF a <= b THEN a ELSE b
Follows(s, lba) == /\ context.streams[s].valid
                   /\ lba <= context.streams[s].last /\ lba + 1 >= context.streams[s].last
Slot(lba) ==
  IF \E s \in Streams : Follows(s, lba) THEN CHOOSE s \in Streams : Follows(s, lba)
  ELSE IF \E s \in Streams : ~context.streams[s].valid
  THEN CHOOSE s \in Streams : ~context.streams[s].valid
  ELSE context.recent[1]
Moved(old, follows, end) ==
  LET next  == Up(end)
      from  == IF ~follows \/ old.next < next THEN next ELSE old.next
      retry == IF ~follows \/ next >= old.retry THEN 0 ELSE old.retry
  IN  [valid |-> TRUE, last |-> end, next |-> from, retry |-> retry,
       end |-> Least(Sectors, IF follows /\ retry = 0 THEN next + Readahead ELSE from)]

ReadSchedule(r) ==
  /\ At63(r, "schedule")
  /\ Go(r, "leave")
  /\ LET lba == reader[r].lba
         end == lba + reader[r].blocks
         follows == \E s \in Streams : Follows(s, lba)
         slot == Slot(lba)
         skip == IF follows THEN end <= context.streams[slot].last ELSE reader[r].blocks < MinStart
     IN  IF ~Readable \/ skip THEN UNCHANGED <<context, worker>>
         ELSE /\ context' = [context EXCEPT !.streams[slot] = Moved(@, follows, end),
                                            !.recent = Append(Without(@, slot), slot)]
              /\ worker' = [worker EXCEPT !.stale = @ \/ worker.stream = slot]
  /\ UNCHANGED <<mechanism, work, owner, ghost>>

ReadLeave(r) ==
  /\ At63(r, "leave")
  /\ Go(r, "signal")
  /\ context' = [context EXCEPT !.demand = @ \ {r}]
  /\ UNCHANGED <<mechanism, work, worker, owner, ghost>>

Wake == worker' = [worker EXCEPT !.place = IF @ = "asleep" THEN "look" ELSE @]
ReadSignal(r) ==
  /\ At63(r, "signal")
  /\ reader' = [reader EXCEPT ![r] = NoReader]
  /\ Wake
  /\ UNCHANGED <<mechanism, context, work, owner, ghost>>

-----------------------------------------------------------------------------
(* readahead_worker. *)

Wanted == {s \in Streams : context.streams[s].valid /\ context.streams[s].next < context.streams[s].end}
Newest == CHOOSE s \in Wanted : \A t \in Wanted \ {s} :
            \E i, j \in DOMAIN context.recent : context.recent[i] = t /\ context.recent[j] = s /\ i < j

WorkerLook ==
  /\ worker.place = "look"
  /\ worker' = IF context.abort \/ context.poisoned THEN NoWorker
               ELSE IF context.demand = {} /\ Wanted # {}
               THEN [worker EXCEPT !.place = "lock", !.stream = Newest, !.stale = FALSE,
                                   !.lba = context.streams[Newest].next]
               ELSE [worker EXCEPT !.place = "asleep"]
  /\ UNCHANGED <<mechanism, context, work, reader, owner, ghost>>

\* A reader may have come while the worker waited for "mutex".
WorkerLockBlind ==
  /\ worker.place = "lock" /\ work.by = "free"
  /\ worker' = [worker EXCEPT !.place = "work"]
  /\ work' = Working("worker", worker.lba \div BlockSectors, "lookup")
  /\ UNCHANGED <<mechanism, context, reader, owner, ghost>>
WorkerLock ==
  /\ worker.place = "lock" /\ work.by = "free"
  /\ IF context.demand # {} THEN worker' = [worker EXCEPT !.place = "look"] /\ UNCHANGED work
     ELSE /\ worker' = [worker EXCEPT !.place = "work"]
          /\ work' = Working("worker", worker.lba \div BlockSectors, "lookup")
  /\ UNCHANGED <<mechanism, context, reader, owner, ghost>>

WorkerUnlock ==
  /\ worker.place = "work" /\ work.by = "worker" /\ work.step = "done"
  /\ worker' = [worker EXCEPT !.place = "finish", !.ok = work.ok]
  /\ context' = [context EXCEPT !.poisoned = @ \/ work.error = "transport"]
  /\ work' = NoWork
  /\ UNCHANGED <<mechanism, reader, owner, ghost>>

\* A window that was scheduled anew meanwhile is left as it is.
WorkerFinish ==
  /\ worker.place = "finish"
  /\ worker' = [worker EXCEPT !.place = "look", !.ok = FALSE, !.stale = FALSE, !.lba = 0]
  /\ LET next == worker.lba + BlockSectors
     IN  context' = IF worker.stale THEN context
                    ELSE IF worker.ok THEN [context EXCEPT !.streams[worker.stream].next = next]
                    ELSE [context EXCEPT !.streams[worker.stream] =
                            [@ EXCEPT !.next = next, !.retry = next, !.end = next]]
  /\ UNCHANGED <<mechanism, work, reader, owner, ghost>>

-----------------------------------------------------------------------------
(* The owner of the source. *)

\* gdox_gp63_gamecube_open_selected takes the one drive of the kind, which no
\* other reader may hold, and asks it for the profile of the disc: a disc of
\* another kind is left to the Xbox source.
NinSelect ==
  /\ owner = "closed" /\ mechanism.attached
  /\ owner' = "selected"
  /\ mechanism' = [mechanism EXCEPT !.answers = TRUE]
  /\ ghost' = [ghost EXCEPT !.killed = FALSE]
  /\ UNCHANGED <<context, work, reader, worker>>

\* open_gamecube_source up to its first block.
NinOpen ==
  /\ owner = "selected"
  /\ \/ owner' = "closed" /\ UNCHANGED <<context, work>>
     \/ /\ mechanism.answers
        /\ owner' = "opening"
        /\ work' = Working("open", 0, "lookup")
        /\ context' = NoContext
  /\ UNCHANGED <<mechanism, reader, worker, ghost>>

\* destroy_failed_open keeps a source that owes bytes.
FailOpen ==
  IF context.pending # {} THEN owner' = "held" /\ UNCHANGED context
  ELSE owner' = "closed" /\ context' = NoContext

\* The header is read; a Wii disc has its layout validated as well
\* (validate_wii_layout, read_wii_metadata).
NinHeader ==
  /\ owner = "opening" /\ work.by = "open" /\ work.step = "done" /\ work.ok
  /\ \E b \in Blocks \ {0} : work.block = 0 /\ work' = Working("open", b, "lookup")
  /\ UNCHANGED <<mechanism, context, reader, worker, owner, ghost>>

NinOpened ==
  /\ owner = "opening" /\ work.by = "open" /\ work.step = "done"
  /\ work' = NoWork
  /\ \/ FailOpen /\ UNCHANGED worker
     \/ /\ work.ok
        /\ owner' = "open"
        /\ context' = [context EXCEPT !.present = TRUE]
        /\ worker' = [NoWorker EXCEPT !.place = "look"]
  /\ UNCHANGED <<mechanism, reader, ghost>>

\* gc_abort, by the session or by gc_prepare_close.
SetAbort == context' = [context EXCEPT !.abort = TRUE]
NinAbort ==
  /\ owner = "open" /\ ~context.abort
  /\ SetAbort /\ Wake
  /\ UNCHANGED <<mechanism, work, reader, owner, ghost>>

\* gc_prepare_close, when the export no longer reads.
NinClose ==
  /\ owner \in {"open", "held"} /\ \A r \in Readers : At63(r, "idle")
  /\ owner' = "joining"
  /\ SetAbort /\ Wake
  /\ UNCHANGED <<mechanism, work, reader, ghost>>

NinJoin ==
  /\ owner = "joining" /\ worker.place = "gone"
  /\ owner' = "restoring"
  /\ work' = [Working("close", 0, "undo") EXCEPT !.at = Addresses]
  /\ UNCHANGED <<mechanism, context, reader, worker, ghost>>

NinRestored ==
  /\ owner = "restoring" /\ work.step = "done"
  /\ owner' = IF work.ok THEN "release" ELSE "held"
  /\ work' = NoWork
  /\ UNCHANGED <<mechanism, context, reader, worker, ghost>>

\* gc_close.
NinRelease ==
  /\ owner = "release"
  /\ owner' = "closed"
  /\ context' = NoContext
  /\ UNCHANGED <<mechanism, work, reader, worker, ghost>>

NinKill ==
  /\ owner # "closed"
  /\ owner' = "closed"
  /\ context' = NoContext /\ work' = NoWork /\ worker' = NoWorker
  /\ reader' = [r \in Readers |-> NoReader]
  /\ ghost' = [ghost EXCEPT !.set = {}, !.killed = TRUE]
  /\ UNCHANGED mechanism

NinUnplug ==
  /\ mechanism.attached /\ mechanism.unplugs < MaxUnplugs
  /\ mechanism' = [admission |-> [a \in Bytes |-> FALSE], attached |-> FALSE, answers |-> FALSE,
                   unplugs |-> mechanism.unplugs + 1]
  /\ ghost' = [ghost EXCEPT !.set = {}]
  /\ UNCHANGED <<context, work, reader, worker, owner>>
NinPlug ==
  /\ ~mechanism.attached
  /\ mechanism' = [mechanism EXCEPT !.attached = TRUE]
  /\ UNCHANGED <<context, work, reader, worker, owner, ghost>>

NinRest ==
  /\ context = NoContext /\ work = NoWork /\ worker = NoWorker
  /\ reader = [r \in Readers |-> NoReader]
  /\ owner = "closed" /\ ghost = [set |-> {}, killed |-> FALSE, lost |-> FALSE]
NinIdle ==
  /\ mechanism = [admission |-> [a \in Bytes |-> FALSE], attached |-> FALSE, answers |-> FALSE, unplugs |-> 0]
  /\ NinRest
NinInit ==
  /\ mechanism \in [admission : [Bytes -> BOOLEAN], attached : {TRUE}, answers : {FALSE}, unplugs : {0}]
  /\ NinRest

NinNext ==
  \/ Acquisition
  \/ \E r \in Readers : \/ ReadBegin(r) \/ ReadCopy(r) \/ ReadLock(r) \/ ReadUnlock(r)
                        \/ ReadSchedule(r) \/ ReadLeave(r) \/ ReadSignal(r)
  \/ WorkerLook \/ WorkerLock \/ WorkerUnlock \/ WorkerFinish
  \/ NinSelect \/ NinOpen \/ NinHeader \/ NinOpened \/ NinAbort \/ NinClose \/ NinJoin \/ NinRestored \/ NinRelease
  \/ NinKill \/ NinUnplug \/ NinPlug

=============================================================================
