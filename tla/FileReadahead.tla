--------------------------- MODULE FileReadahead ---------------------------
(***************************************************************************)
(* The read-ahead source of a live disc (src/src/core/                     *)
(* file_readahead_source.c): operators on its context.  A slot holds a     *)
(* window of sectors of one file and is worth anything only in the epoch   *)
(* in which its read began; an invalidation raises the epoch.  Contents    *)
(* are abstracted to where and when they were read: data = [at, epoch] is  *)
(* a buffer filled from sector "at" on by a read begun in "epoch".  The    *)
(* last_used stamps are abstracted to the order "recent", oldest first.    *)
(***************************************************************************)
EXTENDS Naturals, Sequences, SequencesExt

CONSTANTS Sectors,       \* sectors of the partition
          WindowBlocks,  \* max_window_blocks
          SlotCount      \* slots of the cache

ASSUME ReadaheadAssumption ==
    /\ Sectors \in Nat \ {0}
    /\ WindowBlocks \in Nat \ {0}
    /\ SlotCount \in Nat \ {0}

Slots == 1 .. SlotCount
NoData == [at |-> 0, epoch |-> 0]
EmptySlot == [valid |-> FALSE, start |-> 0, blocks |-> 0, extent |-> 0,
              epoch |-> 0, data |-> NoData]

\* An observation as the tracker below reports it.
Observations(generations) ==
    {[readiness |-> "unknown", generation |-> 0, event |-> "none"]}
    \cup [readiness : {"present"}, generation : generations,
          event : {"none", "new_media"}]
    \cup [readiness : {"absent"}, generation : generations,
          event : {"none", "removal"}]

-----------------------------------------------------------------------------
(* The session: who may still read.                                        *)

InvalidateCache(c) == [c EXCEPT !.epoch = @ + 1]

RequestCancelled(c) == c.aborted \/ c.closing \/ c.mediaInvalid

InvalidSession(o) ==
    \/ o.readiness = "absent"
    \/ o.event \in {"eject_request", "new_media", "removal", "changed"}

\* Another disc is in the drive than the one last seen there.
OtherGeneration(c, o) ==
    o.readiness = "present" /\ c.generation \notin {0, o.generation}

\* apply_media_observation up to its last statement; the flag is raised
\* before the generation is stored, so no reader sees the new generation
\* without it.
JudgeObservation(c, o) ==
    [c EXCEPT !.mediaInvalid = @ \/ InvalidSession(o) \/ OtherGeneration(c, o),
              !.generation = IF o.readiness = "present" THEN o.generation ELSE @]

\* Whether its last statement invalidates the cache.
Invalidates(c, o) ==
    o.readiness # "present" \/ InvalidSession(o) \/ OtherGeneration(c, o)

ApplyMediaObservation(c, o) ==
    LET judged == JudgeObservation(c, o)
    IN  IF Invalidates(c, o) THEN InvalidateCache(judged) ELSE judged

\* The first observation: a new disc is no reason to refuse it.
EstablishMediaBaseline(o) ==
    [mediaInvalid |-> o.readiness = "absent"
                      \/ o.event \in {"eject_request", "removal", "changed"},
     generation |-> IF o.readiness = "present" THEN o.generation ELSE 0]

NewContext(extents, o) ==
    [epoch |-> 1, aborted |-> FALSE, closing |-> FALSE,
     mediaInvalid |-> EstablishMediaBaseline(o).mediaInvalid,
     generation |-> EstablishMediaBaseline(o).generation,
     extents |-> extents, touched |-> {},
     slots |-> [s \in Slots |-> EmptySlot],
     recent |-> [s \in Slots |-> s]]

-----------------------------------------------------------------------------
(* The extent index: extents = <<[start, count], ...>> sorted by start.    *)

ExtentEnd(e) == e.start + e.count

PrefixMaxEnd(extents, i) ==
    CHOOSE m \in {ExtentEnd(extents[j]) : j \in 1 .. i} :
        \A j \in 1 .. i : ExtentEnd(extents[j]) <= m

\* The first of the positions low .. high - 1 that is in a set, or high: both
\* loops of the search, which halve the window whose bounds they keep.
FirstWhere(positions, low, high) ==
    LET search[window \in (low .. high) \X (low .. high)] ==
            LET middle == window[1] + (window[2] - window[1]) \div 2
            IN  IF window[1] >= window[2] THEN window[1]
                ELSE IF middle \in positions THEN search[<<window[1], middle>>]
                ELSE search[<<middle + 1, window[2]>>]
    IN  search[<<low, high>>]

StartBehind(extents, lba) == {i \in DOMAIN extents : extents[i].start > lba}

Reaching(extents, end) == {i \in DOMAIN extents : PrefixMaxEnd(extents, i) >= end}

\* find_containing_extent: an index, or 0.
ContainingExtent(extents, lba, blocks) ==
    LET after == FirstWhere(StartBehind(extents, lba), 1, Len(extents) + 1)
        reaching == Reaching(extents, lba + blocks)
        found == FirstWhere(reaching, 1, after)
    IN  IF /\ after > 1
           /\ after - 1 \in reaching
           /\ ExtentEnd(extents[found]) >= lba + blocks
        THEN found ELSE 0

Extents == [start : Nat, count : Nat]

\* What copy_and_validate_extents accepts.
ValidExtents(extents) ==
    /\ extents \in Seq(Extents)
    /\ \A i \in DOMAIN extents :
        /\ i > 1 => extents[i - 1].start <= extents[i].start
        /\ ExtentEnd(extents[i]) <= Sectors

-----------------------------------------------------------------------------
(* The slots.                                                              *)

Live(slot, epoch) == slot.valid /\ slot.epoch = epoch

Holds(slot, lba, blocks) ==
    slot.start <= lba /\ lba + blocks <= slot.start + slot.blocks

\* find_cached_request: the first slot that holds the request, or 0.
CachedSlot(c, epoch, lba, blocks) ==
    LET hits == {s \in Slots : Live(c.slots[s], epoch) /\ Holds(c.slots[s], lba, blocks)}
    IN  IF hits = {} THEN 0 ELSE CHOOSE s \in hits : \A t \in hits : s <= t

\* What a copy out of a slot delivers for sector lba.
CopyOf(slot, lba) ==
    [at |-> slot.data.at + (lba - slot.start), epoch |-> slot.data.epoch]

\* next_use_stamp: the slot becomes the one used last.
Used(c, s) ==
    [c EXCEPT !.recent = Append(SelectSeq(@, LAMBDA t : t # s), s)]

ContinuesCachedExtent(c, extent, lba) ==
    \E s \in Slots : /\ Live(c.slots[s], c.epoch)
                     /\ c.slots[s].extent = extent
                     /\ lba \in c.slots[s].start .. c.slots[s].start + c.slots[s].blocks

\* reserve_cache_slot's victim: a worthless slot first, else the oldest.
Victim(c, epoch) ==
    LET worthless == {s \in Slots : ~Live(c.slots[s], epoch)}
    IN  IF worthless = {} THEN Head(c.recent)
        ELSE CHOOSE s \in worthless : \A t \in worthless : s <= t

\* reserve_cache_slot: what an invalid slot says of itself is never read.
ReserveCacheSlot(c, epoch) == [c EXCEPT !.slots[Victim(c, epoch)] = EmptySlot]

\* A slip: the window is stamped with the epoch in which it is published.
PublishInCurrentEpoch(c, s, epoch, extent, lba, blocks) ==
    IF RequestCancelled(c) THEN c
    ELSE Used([c EXCEPT !.slots[s] =
                 [@ EXCEPT !.valid = TRUE, !.start = lba, !.blocks = blocks,
                           !.extent = extent, !.epoch = c.epoch]], s)

PublishCacheSlot(c, s, epoch, extent, lba, blocks) ==
    IF epoch # c.epoch \/ RequestCancelled(c) THEN c
    ELSE Used([c EXCEPT !.slots[s] =
                 [@ EXCEPT !.valid = TRUE, !.start = lba, !.blocks = blocks,
                           !.extent = extent, !.epoch = epoch]], s)

\* A buffer of the context is filled by an inner read.
FillSlot(c, s, lba, epoch) ==
    [c EXCEPT !.slots[s].data = [at |-> lba, epoch |-> epoch]]

RetainExactRead(c, epoch, extent, lba, blocks) ==
    IF blocks > WindowBlocks \/ epoch # c.epoch \/ RequestCancelled(c) THEN c
    ELSE LET s == Victim(c, epoch)
         IN  PublishCacheSlot(FillSlot(ReserveCacheSlot(c, epoch), s, lba, epoch),
                              s, epoch, extent, lba, blocks)

-----------------------------------------------------------------------------
(* What a request reads when the cache does not have it.                   *)

\* bounded_window_read's window: to the end of the file, of the partition
\* and of a slot, whichever comes first.
WindowFrom(extents, extent, lba) ==
    LET file == ExtentEnd(extents[extent]) - lba
        available == IF file < Sectors - lba THEN file ELSE Sectors - lba
    IN  IF available < WindowBlocks THEN available ELSE WindowBlocks

\* The read that follows a miss: a window on the first touch of a file and
\* behind a cached window, the request alone otherwise.
ReadPlan(c, lba, blocks) ==
    LET extent == ContainingExtent(c.extents, lba, blocks)
        wanted == /\ extent # 0
                  /\ \/ extent \notin c.touched
                     \/ ContinuesCachedExtent(c, extent, lba)
                  /\ blocks < WindowBlocks
        window == IF wanted THEN WindowFrom(c.extents, extent, lba) ELSE blocks
    IN  [kind |-> IF window > blocks THEN "window" ELSE "exact",
         blocks |-> IF window > blocks THEN window ELSE blocks,
         extent |-> extent]

Touched(c, extent) ==
    IF extent = 0 THEN c ELSE [c EXCEPT !.touched = @ \cup {extent}]

\* readahead_abort and readahead_prepare_close.
ReadaheadAbort(c) == InvalidateCache([c EXCEPT !.aborted = TRUE])
ReadaheadPrepareClose(c) == InvalidateCache([c EXCEPT !.closing = TRUE])
=============================================================================
