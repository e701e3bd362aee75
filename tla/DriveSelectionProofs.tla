------------------------ MODULE DriveSelectionProofs ------------------------
(***************************************************************************)
(* Whatever the number of drives and of slots for pending cleanups: every  *)
(* unlocked drive has one owner, under its own name, and an open session   *)
(* is of the chosen drive.                                                 *)
(* And whatever a source of OpticalDrives does to the drive that was       *)
(* selected, and whatever happens to it: reads are of live memory, only    *)
(* known memory is written, what was written is owed until it is put back, *)
(* and no reader waits for speculation.                                    *)
(***************************************************************************)
EXTENDS MCDriveSelection, Integers, SequenceTheorems, FiniteSetTheorems, WellFoundedInduction, TLAPS

\* An open session holds something, and a drive only as a physical source.
MediaIsOfSource ==
  /\ media.open => Owned(media)
  /\ media.holds \in Drives => source = "physical"
  /\ media.holds = Image => source = "image"

\* The list tells which drives have a cleanup pending: it is what keeps an
\* observation from opening such a drive.
ListShowsPending ==
  \A d \in Drives : ~stopping /\ Listed(d)
                      => devices[d].cleanupPending = PendingFor(pending, d)

IInv ==
  /\ TypeOK
  /\ EveryDriveHasOneOwner /\ CleanupKeepsItsDrive /\ SessionIsOfChoice
  /\ MediaIsOfSource /\ ListShowsPending

\* EveryDriveHasOneOwner of any drives, cleanups and session.
OneOwner(drives, table, m) ==
  /\ drives = {p.holds : p \in table} \cup ({m.holds} \cap Drives)
  /\ \A p \in table : p.holds # m.holds
  /\ \A p, q \in table : p.holds = q.holds => p = q

\* The table of cleanups is a set of cleanups that fits its slots.
TableTyped(table) ==
  table \subseteq Cleanups /\ IsFiniteSet(table) /\ Cardinality(table) <= MaxDevices

\* Every cleanup is filed under the drive it holds.
FiledUnderItsDrive(table) == \A p \in table : p.device = p.holds

\* The list is typed and tells of exactly the cleanups of the table.
ListOf(list, table) ==
  /\ list \in [Drives -> Listings \cup {NotListed}]
  /\ \A d \in Drives : list[d] # NotListed => list[d].cleanupPending = PendingFor(table, d)

-----------------------------------------------------------------------------
\* A cleanup that is pending holds a drive.
LEMMA CleanupHoldsADrive ==
  ASSUME IInv, NEW p \in pending
  PROVE  p.holds \in Drives /\ p.device = p.holds
  BY DEF IInv, TypeOK, EveryDriveHasOneOwner, CleanupKeepsItsDrive

\* A session that holds a drive is not in the table, nor is the absence of one.
LEMMA NoMediaIsUnowned ==
  /\ NoMedia \in Medias /\ ~NoMedia.open /\ NoMedia.holds = None /\ ~Owned(NoMedia)
  /\ \A what \in Drives \cup {Image} :
       /\ Retained(what) \in Medias /\ ~Retained(what).open /\ Retained(what).holds = what
       /\ Opened(what) \in Medias /\ Opened(what).open /\ Opened(what).holds = what
       /\ Owned(Retained(what)) /\ Owned(Opened(what))
  BY DeviceAssumption DEF NoMedia, Retained, Opened, Medias, Owned, Choices

\* What a close can leave: the handle let go of with its drive restored, or
\* kept with the drive unlocked, so one owner in every case.
LEMMA ClosingKeepsTheOwner ==
  ASSUME IInv, NEW c \in Closings
  PROVE  /\ c.media \in Medias /\ ~c.media.open
         /\ c.media = NoMedia \/ (c.media.holds = media.holds /\ Owned(media))
         /\ c.ok => c.media = NoMedia
         /\ LeftUnlocked(c.media) \subseteq Drives
         /\ OneOwner(LeftUnlocked(c.media), pending, c.media)
  <1>1. media \in Medias /\ media.holds \in Choices \cup {Image}
    BY DEF IInv, TypeOK, Medias
  <1>2. \/ c = [media |-> NoMedia, ok |-> TRUE]
        \/ c = [media |-> NoMedia, ok |-> FALSE]
        \/ Owned(media) /\ c = [media |-> Retained(media.holds), ok |-> FALSE]
    BY Zenon DEF Closings
  <1>4. unlocked \subseteq Drives /\ OneOwner(unlocked, pending, media)
    BY DEF IInv, TypeOK, EveryDriveHasOneOwner, OneOwner
  <1>5. CASE c.media = NoMedia
    <2>1. LeftUnlocked(c.media) = unlocked \ {media.holds}
      BY <1>5, NoMediaIsUnowned DEF LeftUnlocked
    <2>2. OneOwner(unlocked \ {media.holds}, pending, NoMedia)
      <3>1. \A p \in pending : p.holds # None /\ p.holds # media.holds
        BY <1>4, CleanupHoldsADrive, DeviceAssumption DEF OneOwner
      <3> QED BY <1>4, <3>1, NoMediaIsUnowned, DeviceAssumption DEF OneOwner
    <2> QED BY <1>4, <1>5, <2>1, <2>2, NoMediaIsUnowned
  <1>6. CASE Owned(media) /\ c.media = Retained(media.holds) /\ ~c.ok
    <2>1. media.holds \in Drives \cup {Image}
      BY <1>1, <1>6 DEF Owned, Choices
    <2>2. c.media.holds = media.holds /\ LeftUnlocked(c.media) = unlocked
      BY <1>6, <2>1, NoMediaIsUnowned DEF LeftUnlocked
    <2> QED BY <1>4, <1>6, <2>1, <2>2, NoMediaIsUnowned DEF OneOwner
  <1>7. \/ c.media = NoMedia
        \/ Owned(media) /\ c.media = Retained(media.holds) /\ ~c.ok
    BY <1>2
  <1> QED BY <1>5, <1>6, <1>7

\* A list described again tells of exactly the cleanups of the new table.
LEMMA DescribedList ==
  ASSUME NEW list \in [Drives -> Listings \cup {NotListed}], NEW table
  PROVE  ListOf(Describe(list, table), table)
  <1>1. \A d \in Drives : PendingFor(table, d) \in BOOLEAN
    BY DEF PendingFor
  <1>2. \A d \in Drives : list[d] # NotListed =>
          /\ [list[d] EXCEPT !.cleanupPending = PendingFor(table, d)] \in Listings
          /\ [list[d] EXCEPT !.cleanupPending = PendingFor(table, d)].cleanupPending
               = PendingFor(table, d)
    BY <1>1 DEF Listings
  <1> QED BY <1>2 DEF Describe, Described, ListOf

\* A table that only lost cleanups still fits, and the drives it let go of
\* are those restored.
LEMMA ShrunkenTable ==
  ASSUME IInv, NEW table \in SUBSET pending
  PROVE  /\ TableTyped(table) /\ FiledUnderItsDrive(table)
         /\ Restored(table) \subseteq Drives
         /\ OneOwner(Restored(table), table, media)
  <1>1. TableTyped(table)
    <2>1. TableTyped(pending)
      BY DEF IInv, TypeOK, TableTyped
    <2>2. IsFiniteSet(table) /\ Cardinality(table) <= Cardinality(pending)
      BY <2>1, FS_Subset DEF TableTyped
    <2>3. Cardinality(table) \in Nat /\ Cardinality(pending) \in Nat
      BY <2>1, <2>2, FS_CardinalityType DEF TableTyped
    <2> QED BY <2>1, <2>2, <2>3, DeviceAssumption DEF TableTyped
  <1>2. FiledUnderItsDrive(table) /\ Restored(table) \subseteq Drives
    BY DEF IInv, TypeOK, CleanupKeepsItsDrive, FiledUnderItsDrive, Restored
  <1>3. OneOwner(Restored(table), table, media)
    <2>1. OneOwner(unlocked, pending, media)
      BY DEF IInv, EveryDriveHasOneOwner, OneOwner
    <2>2. Restored(table) = {p.holds : p \in table} \cup ({media.holds} \cap Drives)
      BY <2>1 DEF OneOwner, Restored
    <2> QED BY <2>1, <2>2 DEF OneOwner
  <1> QED BY <1>1, <1>2, <1>3

-----------------------------------------------------------------------------
\* The parts of IInv that are about the drives, the cleanups and the session.
Holding ==
  /\ target \in Choices /\ selected \in Choices
  /\ media \in Medias /\ source \in {"physical", "image"}
  /\ unlocked \subseteq Drives
  /\ TableTyped(pending) /\ FiledUnderItsDrive(pending)
  /\ OneOwner(unlocked, pending, media)
  /\ media.holds \in Drives => target = media.holds
  /\ SessionIsOfChoice /\ MediaIsOfSource

\* ... and those about the list.
Listing ==
  /\ devices \in [Drives -> Listings \cup {NotListed}]
  /\ unlisted \in BOOLEAN /\ stopping \in BOOLEAN /\ playing \in BOOLEAN
  /\ ListShowsPending

\* Together they are the invariant.
LEMMA PartsOfIInv == /\ IInv <=> Holding /\ Listing
                     /\ IInv' <=> Holding' /\ Listing'
  BY DEF IInv, TypeOK, EveryDriveHasOneOwner, CleanupKeepsItsDrive, Holding, Listing,
         OneOwner, TableTyped, FiledUnderItsDrive

\* A step that changes neither drives, cleanups nor session keeps Holding.
LEMMA HoldingIsKept ==
  ASSUME Holding, UNCHANGED <<selected, target, media, source, pending, unlocked>>
  PROVE  Holding'
  BY DEF Holding, SessionIsOfChoice, MediaIsOfSource, Owned

\* A step that changes neither the list nor the cleanups keeps Listing.
LEMMA ListingIsKept ==
  ASSUME Listing, UNCHANGED <<devices, unlisted, pending, stopping>>, playing' \in BOOLEAN
  PROVE  Listing'
  BY DEF Listing, ListShowsPending, Listed

\* The runtime starts with nothing unlocked.
LEMMA InitIsHeld == Init => IInv
  <1> SUFFICES ASSUME Init PROVE IInv
    OBVIOUS
  <1>1. Holding
    <2>1. TableTyped(pending) /\ FiledUnderItsDrive(pending)
      BY FS_EmptySet, DeviceAssumption DEF Init, TableTyped, FiledUnderItsDrive
    <2>2. SessionIsOfChoice /\ MediaIsOfSource /\ OneOwner(unlocked, pending, media)
      BY NoMediaIsUnowned, DeviceAssumption
      DEF Init, SessionIsOfChoice, MediaIsOfSource, OneOwner
    <2> QED BY <2>1, <2>2, NoMediaIsUnowned, DeviceAssumption DEF Init, Holding, Choices
  <1>2. Listing
    BY DEF Init, Listing, ListShowsPending, Listed
  <1> QED BY <1>1, <1>2, PartsOfIInv

-----------------------------------------------------------------------------
(* The list. *)

\* An entry of the list is typed, whatever it says.
LEMMA EntryIsTyped ==
  ASSUME NEW c \in BOOLEAN, NEW r \in 0 .. 3, NEW p \in BOOLEAN
  PROVE  /\ [connected |-> c, rank |-> r, cleanupPending |-> p] \in Listings
         /\ [connected |-> c, rank |-> r, cleanupPending |-> p].cleanupPending = p
  BY DEF Listings

\* A refresh lists the cleanups of the table, and no others.
LEMMA RefreshKeeps == IInv /\ (Refresh \/ RefreshFails) => IInv'
  <1> SUFFICES ASSUME Holding, Listing, Refresh \/ RefreshFails PROVE Holding' /\ Listing'
    BY PartsOfIInv
  <1>1. Holding'
    BY HoldingIsKept DEF Refresh, RefreshFails, session
  <1>2. CASE Refresh
    <2>1. PICK found, ranks, kept :
            /\ ranks \in [found -> 0 .. 3] /\ kept \in Kept(found)
            /\ devices' = [d \in Drives |-> Shown(d, found, ranks, kept)]
      BY <1>2 DEF Refresh
    <2>2. \A d \in kept : PendingFor(pending, d) /\ d \notin found
      BY <2>1 DEF Kept
    <2>3. ASSUME NEW d \in Drives
          PROVE  /\ Shown(d, found, ranks, kept) \in Listings \cup {NotListed}
                 /\ Shown(d, found, ranks, kept) # NotListed =>
                      Shown(d, found, ranks, kept).cleanupPending = PendingFor(pending, d)
      <3>1. PendingFor(pending, d) \in BOOLEAN
        BY DEF PendingFor
      <3>2. CASE d \in found
        <4>1. Shown(d, found, ranks, kept)
                = [connected |-> TRUE, rank |-> ranks[d], cleanupPending |-> PendingFor(pending, d)]
          BY <2>2, <3>2 DEF Shown
        <4>2. ranks[d] \in 0 .. 3
          BY <2>1, <3>2
        <4> QED BY <3>1, <4>1, <4>2, EntryIsTyped, Zenon
      <3>3. CASE d \notin found /\ d \in kept
        <4>1. Shown(d, found, ranks, kept)
                = [connected |-> FALSE, rank |-> 0, cleanupPending |-> TRUE]
          BY <3>3, Zenon DEF Shown
        <4>2. PendingFor(pending, d) = TRUE
          BY <2>2, <3>1, <3>3
        <4>3. 0 \in 0 .. 3
          OBVIOUS
        <4> QED BY <4>1, <4>2, <4>3, EntryIsTyped, Zenon
      <3>4. CASE d \notin found /\ d \notin kept
        BY <3>4 DEF Shown
      <3> QED BY <3>2, <3>3, <3>4
    <2>4. UNCHANGED <<pending, stopping, playing>> /\ unlisted' = FALSE
      BY <1>2 DEF Refresh, session
    <2>5. devices' \in [Drives -> Listings \cup {NotListed}]
      BY <2>1, <2>3
    <2>6. ListShowsPending'
      <3> SUFFICES ASSUME NEW d \in Drives, devices'[d] # NotListed
                   PROVE  devices'[d].cleanupPending = PendingFor(pending', d)
        BY DEF ListShowsPending, Listed
      <3> QED BY <2>1, <2>3, <2>4
    <2>7. unlisted' \in BOOLEAN /\ stopping' \in BOOLEAN /\ playing' \in BOOLEAN
      BY <2>4 DEF Listing
    <2> QED BY <1>1, <2>5, <2>6, <2>7, Zenon DEF Listing
  <1>3. CASE RefreshFails
    <2>1. devices' = [d \in Drives |-> IF Listed(d) THEN [devices[d] EXCEPT !.connected = FALSE]
                                                    ELSE NotListed]
      BY <1>3 DEF RefreshFails
    <2>2. \A d \in Drives : Listed(d) =>
            /\ [devices[d] EXCEPT !.connected = FALSE] \in Listings
            /\ [devices[d] EXCEPT !.connected = FALSE].cleanupPending = devices[d].cleanupPending
      BY DEF Listing, Listings, Listed
    <2>3. UNCHANGED <<pending, stopping, playing>> /\ unlisted' = TRUE
      BY <1>3 DEF RefreshFails, session
    <2>4. ListShowsPending'
      BY <2>1, <2>2, <2>3 DEF Listing, ListShowsPending, Listed
    <2>5. devices' \in [Drives -> Listings \cup {NotListed}]
      BY <2>1, <2>2
    <2>6. unlisted' \in BOOLEAN /\ stopping' \in BOOLEAN /\ playing' \in BOOLEAN
      BY <2>3 DEF Listing
    <2> QED BY <1>1, <2>4, <2>5, <2>6, Zenon DEF Listing
  <1> QED BY <1>1, <1>2, <1>3

-----------------------------------------------------------------------------
(* The session. *)

\* After a close there is no open session, so none of another choice, and
\* what is retained is still of its target and source.
LEMMA ClosedHolding ==
  ASSUME IInv, NEW c \in Closings,
         media' = c.media, unlocked' = LeftUnlocked(c.media), UNCHANGED pending,
         selected' \in Choices, target' \in Choices, source' \in {"physical", "image"},
         c.media = NoMedia \/ UNCHANGED <<target, source>>
  PROVE  Holding'
  <1>1. Holding
    BY PartsOfIInv
  <1>2. media' \in Medias /\ ~media'.open /\ unlocked' \subseteq Drives
    BY ClosingKeepsTheOwner
  <1>3. OneOwner(unlocked, pending, media)'
    BY ClosingKeepsTheOwner DEF OneOwner
  <1>4. media'.holds = None \/ (media'.holds = media.holds /\ UNCHANGED <<target, source>>)
    BY ClosingKeepsTheOwner, NoMediaIsUnowned
  <1>5. SessionIsOfChoice' /\ MediaIsOfSource'
    BY <1>1, <1>2, <1>4, DeviceAssumption
    DEF Holding, SessionIsOfChoice, MediaIsOfSource
  <1>6. TableTyped(pending)' /\ FiledUnderItsDrive(pending)'
    BY <1>1 DEF Holding, TableTyped, FiledUnderItsDrive
  <1>7. media'.holds \in Drives => target' = media'.holds
    BY <1>1, <1>4, DeviceAssumption DEF Holding
  <1> QED BY <1>2, <1>3, <1>5, <1>6, <1>7 DEF Holding

\* Closing a session leaves one owner of every drive.
LEMMA CloseMediaKeeps == IInv /\ CloseMedia => IInv'
  <1> SUFFICES ASSUME IInv, CloseMedia PROVE Holding' /\ Listing'
    BY PartsOfIInv
  <1>1. Holding /\ Listing
    BY PartsOfIInv
  <1>2. Holding'
    BY <1>1, ClosedHolding DEF CloseMedia, Holding
  <1>3. Listing'
    BY <1>1, ListingIsKept DEF CloseMedia, Listing
  <1> QED BY <1>2, <1>3

\* So does going back to the physical source.
LEMMA UsePhysicalKeeps == IInv /\ UsePhysical => IInv'
  <1> SUFFICES ASSUME IInv, UsePhysical PROVE Holding' /\ Listing'
    BY PartsOfIInv
  <1>1. Holding /\ Listing
    BY PartsOfIInv
  <1>2. PICK c \in Closings :
          /\ media' = c.media /\ unlocked' = LeftUnlocked(c.media)
          /\ IF c.ok THEN target' = None /\ source' = "physical"
                     ELSE UNCHANGED <<target, source>>
    BY DEF UsePhysical
  <1>3. /\ target' \in Choices /\ source' \in {"physical", "image"}
        /\ c.media = NoMedia \/ UNCHANGED <<target, source>>
    BY <1>1, <1>2, ClosingKeepsTheOwner DEF Holding, Choices
  <1>4. Holding'
    BY <1>1, <1>2, <1>3, ClosedHolding DEF UsePhysical, Holding
  <1>5. Listing'
    BY <1>1, ListingIsKept DEF UsePhysical
  <1> QED BY <1>4, <1>5

\* So does opening an image, which unlocks nothing.
LEMMA OpenImageKeeps == IInv /\ OpenImage => IInv'
  <1> SUFFICES ASSUME IInv, OpenImage PROVE Holding' /\ Listing'
    BY PartsOfIInv
  <1>1. Holding /\ Listing
    BY PartsOfIInv
  <1>2. PICK c \in Closings :
          /\ IF c.ok THEN media' \in {NoMedia, Opened(Image)} /\ source' = "image"
                     ELSE media' = c.media /\ UNCHANGED source
          /\ unlocked' = LeftUnlocked(c.media)
    BY DEF OpenImage
  <1>3. UNCHANGED <<devices, unlisted, selected, target, pending, stopping>> /\ playing' = FALSE
    BY DEF OpenImage
  <1>4. Listing'
    BY <1>1, <1>3, ListingIsKept
  <1>5. CASE media' = c.media
    <2>1. source' \in {"physical", "image"} /\ (c.media = NoMedia \/ UNCHANGED <<target, source>>)
      BY <1>1, <1>2, <1>3, ClosingKeepsTheOwner DEF Holding
    <2> QED BY <1>1, <1>2, <1>3, <1>5, <1>4, <2>1, ClosedHolding DEF Holding
  <1>6. CASE c.ok /\ media' = Opened(Image) /\ source' = "image"
    <2>1. media' \in Medias /\ media'.holds = Image /\ media'.open /\ Owned(media')
      BY <1>6, NoMediaIsUnowned DEF Owned
    <2>2. c.media.holds = None /\ unlocked' \subseteq Drives /\ OneOwner(unlocked', pending, c.media)
      BY <1>2, <1>6, ClosingKeepsTheOwner, NoMediaIsUnowned
    <2>3. OneOwner(unlocked, pending, media)'
      BY <1>3, <2>1, <2>2, CleanupHoldsADrive, DeviceAssumption DEF OneOwner
    <2>4. SessionIsOfChoice' /\ MediaIsOfSource'
      BY <1>6, <2>1, DeviceAssumption DEF SessionIsOfChoice, MediaIsOfSource
    <2>5. TableTyped(pending)' /\ FiledUnderItsDrive(pending)'
      BY <1>1, <1>3 DEF Holding, TableTyped, FiledUnderItsDrive
    <2> QED BY <1>1, <1>3, <1>6, <1>4, <2>1, <2>2, <2>3, <2>4, <2>5, DeviceAssumption DEF Holding
  <1>7. media' = c.media \/ (c.ok /\ media' = Opened(Image) /\ source' = "image")
    BY <1>2, ClosingKeepsTheOwner
  <1> QED BY <1>5, <1>6, <1>7

\* Taking a drive into the session, when no cleanup holds it, gives it one
\* owner.
LEMMA TakenHolding ==
  ASSUME IInv, NEW m, NEW freed, NEW d \in Drives,
         OneOwner(freed, pending, NoMedia), freed \subseteq Drives,
         ~PendingFor(pending, d),
         media' = m, m = Retained(d) \/ (m = Opened(d) /\ selected \in {None, d}),
         unlocked' = freed \cup {d}, target' = d, source' = "physical",
         UNCHANGED <<selected, pending>>
  PROVE  Holding'
  <1>1. Holding
    BY PartsOfIInv
  <1>2. media' \in Medias /\ media'.holds = d /\ Owned(media') /\ unlocked' \subseteq Drives
    BY NoMediaIsUnowned DEF Owned
  <1>3. \A p \in pending : p.holds # d
    BY CleanupHoldsADrive DEF PendingFor
  <1>4. OneOwner(unlocked, pending, media)'
    BY <1>2, <1>3, NoMediaIsUnowned, DeviceAssumption DEF OneOwner
  <1>5. SessionIsOfChoice' /\ MediaIsOfSource'
    BY <1>2, NoMediaIsUnowned, DeviceAssumption DEF SessionIsOfChoice, MediaIsOfSource
  <1>6. TableTyped(pending)' /\ FiledUnderItsDrive(pending)'
    BY <1>1 DEF Holding, TableTyped, FiledUnderItsDrive
  <1> QED BY <1>1, <1>2, <1>4, <1>5, <1>6 DEF Holding, Choices

\* An observation opens no drive whose cleanup is pending, and none that was
\* not chosen.
LEMMA ObserveKeeps == IInv /\ Observe => IInv'
  <1> SUFFICES ASSUME IInv, Observe PROVE Holding' /\ Listing'
    BY PartsOfIInv
  <1>1. Holding /\ Listing
    BY PartsOfIInv
  <1>2. Listing'
    BY <1>1, ListingIsKept DEF Observe, Listing
  <1>3. PICK d \in Resolved :
          /\ target' = d
          /\ media' \in IF IsReady(d) THEN {NoMedia, Opened(d), Retained(d)} ELSE {NoMedia}
          /\ unlocked' = IF Owned(media') THEN unlocked \cup {d} ELSE unlocked
    BY DEF Observe
  <1>4. /\ ~stopping /\ media.holds = None /\ source' = "physical"
        /\ UNCHANGED <<selected, pending>>
    BY DEF Observe, Owned
  <1>5. d \in Drives /\ Listed(d) /\ selected \in {None, d}
    BY <1>1 DEF Resolved, Best, Eligible, Holding, Choices
  <1>6. OneOwner(unlocked, pending, NoMedia) /\ unlocked \subseteq Drives
    <2>1. NoMedia.holds = media.holds
      BY <1>4, NoMediaIsUnowned
    <2> QED BY <1>1, <2>1 DEF Holding, OneOwner
  <1>7. CASE media' = NoMedia
    <2>1. Owned(media') = FALSE
      BY <1>7, NoMediaIsUnowned
    <2>2. unlocked' = unlocked
      BY <1>3, <2>1
    <2>3. OneOwner(unlocked, pending, media)'
      BY <1>4, <1>6, <1>7, <2>2 DEF OneOwner
    <2>4. SessionIsOfChoice' /\ MediaIsOfSource'
      BY <1>4, <1>7, NoMediaIsUnowned, DeviceAssumption DEF SessionIsOfChoice, MediaIsOfSource
    <2>5. TableTyped(pending)' /\ FiledUnderItsDrive(pending)'
      BY <1>1, <1>4 DEF Holding, TableTyped, FiledUnderItsDrive
    <2>6. target' \in Choices /\ selected' \in Choices
      BY <1>1, <1>3, <1>4, <1>5 DEF Holding, Choices
    <2> QED BY <1>2, <1>4, <1>6, <1>7, <2>2, <2>3, <2>4, <2>5, <2>6, NoMediaIsUnowned,
               DeviceAssumption DEF Holding
  <1>8. CASE IsReady(d) /\ media' \in {Opened(d), Retained(d)}
    <2>1. ~PendingFor(pending, d)
      BY <1>1, <1>4, <1>5, <1>8 DEF Listing, ListShowsPending, IsReady
    <2>2. unlocked' = unlocked \cup {d}
      BY <1>3, <1>5, <1>8, NoMediaIsUnowned
    <2> QED BY <1>2, <1>3, <1>4, <1>5, <1>6, <1>8, <2>1, <2>2, TakenHolding
  <1> QED BY <1>3, <1>7, <1>8

\* A copy opens the drive anew only when the session that held it is closed,
\* and what it leaves is that drive.
LEMMA PreserveDiscKeeps == IInv /\ PreserveDisc => IInv'
  <1> SUFFICES ASSUME IInv, PreserveDisc PROVE Holding' /\ Listing'
    BY PartsOfIInv
  <1>1. Holding /\ Listing
    BY PartsOfIInv
  <1>2. Listing'
    BY <1>1, ListingIsKept DEF PreserveDisc, Listing
  <1>3. PICK c \in Closings :
          /\ media' \in IF c.ok THEN {NoMedia, Retained(target)} ELSE {c.media}
          /\ unlocked' = IF c.ok /\ Owned(media') THEN LeftUnlocked(c.media) \cup {target}
                                                  ELSE LeftUnlocked(c.media)
    BY DEF PreserveDisc
  <1>4. /\ media.open /\ source = "physical"
        /\ UNCHANGED <<selected, target, source, pending>>
    BY DEF PreserveDisc
  <1>5. media.holds \in Drives /\ target = media.holds
    BY <1>1, <1>4 DEF Holding, MediaIsOfSource, Owned, Medias, Choices
  <1>6. CASE media' = c.media
    <2>1. unlocked' = LeftUnlocked(c.media)
      BY <1>3, <1>6, ClosingKeepsTheOwner, NoMediaIsUnowned
    <2> QED BY <1>1, <1>2, <1>4, <1>6, <2>1, ClosedHolding DEF Holding
  <1>7. CASE c.ok /\ media' = Retained(target)
    <2>1. c.media = NoMedia
      BY <1>7, ClosingKeepsTheOwner
    <2>2. /\ OneOwner(LeftUnlocked(c.media), pending, NoMedia)
          /\ LeftUnlocked(c.media) \subseteq Drives
      BY <2>1, ClosingKeepsTheOwner
    <2>3. unlocked' = LeftUnlocked(c.media) \cup {target}
      BY <1>3, <1>5, <1>7, NoMediaIsUnowned
    <2>4. ~PendingFor(pending, target)
      BY <1>1, <1>5, CleanupHoldsADrive DEF Holding, OneOwner, PendingFor
    <2> QED BY <1>2, <1>4, <1>5, <1>7, <2>2, <2>3, <2>4, TakenHolding
  <1>8. media' = c.media \/ (c.ok /\ media' = Retained(target))
    BY <1>3, ClosingKeepsTheOwner
  <1> QED BY <1>6, <1>7, <1>8

-----------------------------------------------------------------------------
(* Pending cleanups. *)

\* A session keeps its place while cleanups are let go of.
LEMMA ShrunkenHolding ==
  ASSUME IInv, pending' \in SUBSET pending, unlocked' = Restored(pending'),
         UNCHANGED <<selected, target, media, source>>
  PROVE  Holding'
  <1>1. Holding
    BY PartsOfIInv
  <1>2. /\ TableTyped(pending') /\ FiledUnderItsDrive(pending')
        /\ Restored(pending') \subseteq Drives /\ OneOwner(Restored(pending'), pending', media)
    BY ShrunkenTable
  <1>3. SessionIsOfChoice' /\ MediaIsOfSource'
    BY <1>1 DEF Holding, SessionIsOfChoice, MediaIsOfSource, Owned
  <1> QED BY <1>1, <1>2, <1>3 DEF Holding, TableTyped, FiledUnderItsDrive, OneOwner

\* A retry that restores a drive takes its cleanup off the list.
LEMMA RetryCleanupKeeps == IInv /\ RetryCleanup => IInv'
  <1> SUFFICES ASSUME IInv, RetryCleanup PROVE Holding' /\ Listing'
    BY PartsOfIInv
  <1>1. Holding /\ Listing
    BY PartsOfIInv
  <1>2. Holding'
    BY ShrunkenHolding DEF RetryCleanup
  <1>3. ListOf(devices', pending')
    BY <1>1, DescribedList DEF RetryCleanup, Listing
  <1>4. unlisted' \in BOOLEAN /\ stopping' \in BOOLEAN /\ playing' \in BOOLEAN
    BY <1>1 DEF RetryCleanup, Listing
  <1>5. ListShowsPending'
    BY <1>3 DEF ListOf, ListShowsPending, Listed
  <1>6. devices' \in [Drives -> Listings \cup {NotListed}]
    BY <1>3 DEF ListOf
  <1> QED BY <1>2, <1>4, <1>5, <1>6, Zenon DEF Listing

\* A shutdown no longer tells of its cleanups, and nothing is opened then.
LEMMA ClosePendingKeeps == IInv /\ ClosePending => IInv'
  <1> SUFFICES ASSUME IInv, ClosePending PROVE Holding' /\ Listing'
    BY PartsOfIInv
  <1>1. Holding'
    BY ShrunkenHolding DEF ClosePending
  <1>2. Listing'
    BY PartsOfIInv DEF ClosePending, Listing, ListShowsPending
  <1> QED BY <1>1, <1>2

\* Launching, stopping the emulator and asking for a stop own nothing.
LEMMA FlagsKeep == IInv /\ (Launch \/ StopPlayback \/ Stop) => IInv'
  <1> SUFFICES ASSUME IInv, Launch \/ StopPlayback \/ Stop PROVE Holding' /\ Listing'
    BY PartsOfIInv
  <1>1. Holding /\ Listing
    BY PartsOfIInv
  <1>2. Holding'
    BY <1>1, HoldingIsKept DEF Launch, StopPlayback, Stop, session
  <1>3. CASE Launch \/ StopPlayback
    BY <1>1, <1>2, <1>3, ListingIsKept DEF Launch, StopPlayback
  <1>4. CASE Stop
    <2>1. ListShowsPending'
      BY <1>4 DEF Stop, ListShowsPending
    <2>2. devices' \in [Drives -> Listings \cup {NotListed}]
      BY <1>1, <1>4 DEF Stop, Listing
    <2>3. unlisted' \in BOOLEAN /\ stopping' \in BOOLEAN /\ playing' \in BOOLEAN
      BY <1>1, <1>4 DEF Stop, Listing, session
    <2> QED BY <1>2, <2>1, <2>2, <2>3, Zenon DEF Listing
  <1> QED BY <1>3, <1>4

-----------------------------------------------------------------------------
(* Selecting a drive. *)

\* A choice that is taken on is told by the list.
LEMMA ChooseKeepsListing ==
  ASSUME Listing, NEW id, NEW m, NEW table, Choose(id, m, table),
         UNCHANGED <<unlisted, playing, stopping>>
  PROVE  Listing'
  <1>1. ListOf(devices', pending')
    BY DescribedList DEF Choose, Listing
  <1>2. unlisted' \in BOOLEAN /\ stopping' \in BOOLEAN /\ playing' \in BOOLEAN
    BY DEF Listing
  <1>3. ListShowsPending'
    BY <1>1 DEF ListOf, ListShowsPending, Listed
  <1>4. devices' \in [Drives -> Listings \cup {NotListed}]
    BY <1>1 DEF ListOf
  <1> QED BY <1>2, <1>3, <1>4, Zenon DEF Listing

\* A session that need not be closed is of the new choice too.
LEMMA ChoosingKeepsTheSession ==
  ASSUME IInv, NEW id \in Choices, ~MustClose(id),
         Choose(id, media, pending), unlocked' = LeftUnlocked(media)
  PROVE  Holding'
  <1>1. Holding
    BY PartsOfIInv
  <1>2. selected' = id /\ media' = media /\ pending' = pending
    BY DEF Choose
  <1>3. unlocked' = unlocked
    BY <1>1, DeviceAssumption DEF LeftUnlocked, Owned, Holding
  <1>4. TableTyped(pending)' /\ FiledUnderItsDrive(pending)' /\ OneOwner(unlocked, pending, media)'
    BY <1>1, <1>2, <1>3 DEF Holding, TableTyped, FiledUnderItsDrive, OneOwner
  <1>5. CASE Owned(media)
    <2>1. /\ media.open /\ id \in {None, target} /\ source # "image"
          /\ UNCHANGED <<target, source>>
      BY <1>5 DEF MustClose, Choose
    <2>2. SessionIsOfChoice' /\ MediaIsOfSource'
      BY <1>1, <1>2, <1>5, <2>1 DEF Holding, SessionIsOfChoice, MediaIsOfSource, Owned
    <2> QED BY <1>1, <1>2, <1>3, <1>4, <2>1, <2>2 DEF Holding
  <1>6. CASE ~Owned(media)
    <2>1. media.holds = None /\ ~media.open /\ target' = None /\ source' = "physical"
      BY <1>1, <1>6 DEF Choose, Holding, MediaIsOfSource, Owned
    <2>2. SessionIsOfChoice' /\ MediaIsOfSource'
      BY <1>2, <2>1, DeviceAssumption DEF SessionIsOfChoice, MediaIsOfSource
    <2> QED BY <1>1, <1>2, <1>3, <1>4, <2>1, <2>2, DeviceAssumption DEF Holding, Choices
  <1> QED BY <1>5, <1>6

\* A handle that is filed as a pending cleanup has a free slot and is not in
\* the table yet: it changes its owner, and stays the only one of its drive.
LEMMA FilingKeepsTheOwner ==
  ASSUME IInv, NEW id \in Choices, NEW c \in Closings, CanRetain(c.media), Owned(c.media),
         Choose(id, NoMedia, pending \cup {CleanupOf(c.media, id)}),
         unlocked' = LeftUnlocked(c.media)
  PROVE  Holding'
  <1>1. Holding
    BY PartsOfIInv
  <1>2. c.media.holds = media.holds
    BY ClosingKeepsTheOwner, NoMediaIsUnowned
  <1>3. media.holds \in Drives /\ target = media.holds
    <2>1. media.holds # Image /\ media.holds # None
      BY <1>2 DEF CanRetain, Owned
    <2> QED BY <1>1, <2>1 DEF Holding, Medias, Choices
  <1>4. CleanupOf(c.media, id) = [device |-> media.holds, holds |-> media.holds]
    BY <1>2, <1>3 DEF CleanupOf
  <1>5. pending' = pending \cup {[device |-> media.holds, holds |-> media.holds]}
    BY <1>4 DEF Choose
  <1>6. /\ media' = NoMedia /\ selected' = id /\ target' = None /\ source' = "physical"
        /\ unlocked' = unlocked
    BY NoMediaIsUnowned DEF Choose, LeftUnlocked
  <1>7. TableTyped(pending')
    <2>1. TableTyped(pending)
      BY <1>1 DEF Holding
    <2>2. IsFiniteSet(pending') /\ Cardinality(pending') <= Cardinality(pending) + 1
      <3> DEFINE new == [device |-> media.holds, holds |-> media.holds]
      <3>1. /\ IsFiniteSet(pending \cup {new})
            /\ Cardinality(pending \cup {new})
                 = IF new \in pending THEN Cardinality(pending) ELSE Cardinality(pending) + 1
        BY <2>1, FS_AddElement, Zenon DEF TableTyped
      <3>2. Cardinality(pending) \in Nat
        BY <2>1, FS_CardinalityType DEF TableTyped
      <3> QED BY <1>5, <3>1, <3>2
    <2>3. Cardinality(pending) < MaxDevices /\ Cardinality(pending) \in Nat
          /\ Cardinality(pending') \in Nat
      BY <2>1, <2>2, FS_CardinalityType DEF CanRetain, TableTyped
    <2>4. [device |-> media.holds, holds |-> media.holds] \in Cleanups
      BY <1>3 DEF Cleanups, Choices
    <2>5. Cardinality(pending') <= MaxDevices
      BY <2>2, <2>3, DeviceAssumption
    <2>6. pending' \subseteq Cleanups
      BY <1>5, <2>1, <2>4 DEF TableTyped
    <2> QED BY <2>2, <2>5, <2>6 DEF TableTyped
  <1>8. FiledUnderItsDrive(pending')
    BY <1>1, <1>5 DEF Holding, FiledUnderItsDrive
  <1>9. OneOwner(unlocked, pending', NoMedia)
    <2> DEFINE new == [device |-> media.holds, holds |-> media.holds]
    <2>1. \A p \in pending' : p \in pending \/ p = new
      BY <1>5
    <2>2. \A p \in pending : p \in pending' /\ p.holds \in Drives /\ p.holds # media.holds
      BY <1>1, <1>5, CleanupHoldsADrive DEF Holding, OneOwner
    <2>3. new \in pending' /\ new.holds = media.holds
      BY <1>5
    <2>4. unlocked = {p.holds : p \in pending} \cup {media.holds}
      BY <1>1, <1>3 DEF Holding, OneOwner
    <2>5. unlocked = {p.holds : p \in pending'} \cup ({NoMedia.holds} \cap Drives)
      <3> HIDE DEF new
      <3> QED BY <2>1, <2>2, <2>3, <2>4, NoMediaIsUnowned, DeviceAssumption
    <2>6. \A p \in pending' : p.holds # NoMedia.holds
      <3> HIDE DEF new
      <3> QED BY <1>3, <2>1, <2>2, <2>3, NoMediaIsUnowned, DeviceAssumption
    <2>7. \A p, q \in pending' : p.holds = q.holds => p = q
      <3> HIDE DEF new
      <3>1. \A p, q \in pending : p.holds = q.holds => p = q
        BY <1>1 DEF Holding, OneOwner
      <3> QED BY <2>1, <2>2, <2>3, <3>1
    <2> QED BY <2>5, <2>6, <2>7 DEF OneOwner
  <1>10. SessionIsOfChoice' /\ MediaIsOfSource'
    BY <1>6, NoMediaIsUnowned, DeviceAssumption DEF SessionIsOfChoice, MediaIsOfSource
  <1>11. OneOwner(unlocked, pending, media)' /\ TableTyped(pending)' /\ FiledUnderItsDrive(pending)'
    BY <1>6, <1>7, <1>8, <1>9 DEF OneOwner, TableTyped, FiledUnderItsDrive
  <1> QED BY <1>1, <1>6, <1>10, <1>11, NoMediaIsUnowned, DeviceAssumption DEF Holding, Choices

\* Whatever becomes of the session, a selection leaves one owner of every
\* drive, and an open session of the choice it leaves.
LEMMA SelectKeeps == ASSUME NEW id \in Choices PROVE IInv /\ Select(id) => IInv'
  <1> SUFFICES ASSUME IInv, Select(id) PROVE Holding' /\ Listing'
    BY PartsOfIInv
  <1>1. Holding /\ Listing
    BY PartsOfIInv
  <1>2. UNCHANGED <<unlisted, playing, stopping>>
    BY DEF Select
  <1>3. CASE ~MustClose(id)
    <2>1. Choose(id, media, pending) /\ unlocked' = LeftUnlocked(media)
      BY <1>3 DEF Select
    <2> QED BY <1>1, <1>2, <1>3, <2>1, ChoosingKeepsTheSession, ChooseKeepsListing
  <1>4. CASE MustClose(id)
    <2>1. PICK c \in Closings :
            /\ \/ c.ok /\ Choose(id, c.media, pending)
               \/ /\ ~c.ok /\ CanRetain(c.media)
                  /\ Choose(id, NoMedia,
                            IF Owned(c.media) THEN pending \cup {CleanupOf(c.media, id)}
                                              ELSE pending)
               \/ /\ ~c.ok /\ ~CanRetain(c.media)
                  /\ media' = c.media
                  /\ UNCHANGED <<selected, target, source, pending, devices>>
            /\ unlocked' = LeftUnlocked(c.media)
      BY <1>4 DEF Select
    <2>2. CASE c.media = NoMedia /\ Choose(id, NoMedia, pending)
      <3>1. /\ media' = c.media /\ UNCHANGED pending /\ selected' = id
            /\ target' = None /\ source' = "physical"
        BY <2>2, NoMediaIsUnowned DEF Choose
      <3>2. Holding'
        BY <2>1, <2>2, <3>1, ClosedHolding DEF Choices
      <3> QED BY <1>1, <1>2, <2>2, <3>2, ChooseKeepsListing
    <2>3. CASE /\ CanRetain(c.media) /\ Owned(c.media)
               /\ Choose(id, NoMedia, pending \cup {CleanupOf(c.media, id)})
      BY <1>1, <1>2, <2>1, <2>3, FilingKeepsTheOwner, ChooseKeepsListing
    <2>4. CASE media' = c.media /\ UNCHANGED <<selected, target, source, pending, devices>>
      <3>1. Holding'
        BY <1>1, <2>1, <2>4, ClosedHolding DEF Holding
      <3>2. Listing'
        BY <1>1, <1>2, <2>4, ListingIsKept DEF Listing
      <3> QED BY <3>1, <3>2
    <2>5. c.ok => c.media = NoMedia
      BY ClosingKeepsTheOwner
    <2>6. ~Owned(c.media) => c.media = NoMedia
      BY ClosingKeepsTheOwner DEF Owned
    <2> QED BY <2>1, <2>2, <2>3, <2>4, <2>5, <2>6
  <1> QED BY <1>3, <1>4

-----------------------------------------------------------------------------
\* The invariant holds of every run, whatever is connected, chosen, closed,
\* retried or found on any number of drives.
LEMMA InvariantIsKept == Spec => []IInv
  <1>1. IInv /\ [Next]_vars => IInv'
    <2> SUFFICES ASSUME IInv, [Next]_vars PROVE IInv'
      OBVIOUS
    <2>1. CASE Refresh \/ RefreshFails
      BY <2>1, RefreshKeeps
    <2>2. CASE \E id \in Choices : Select(id)
      BY <2>2, SelectKeeps
    <2>3. CASE Observe
      BY <2>3, ObserveKeeps
    <2>4. CASE Launch \/ StopPlayback \/ Stop
      BY <2>4, FlagsKeep
    <2>5. CASE CloseMedia
      BY <2>5, CloseMediaKeeps
    <2>6. CASE UsePhysical
      BY <2>6, UsePhysicalKeeps
    <2>7. CASE OpenImage
      BY <2>7, OpenImageKeeps
    <2>8. CASE PreserveDisc
      BY <2>8, PreserveDiscKeeps
    <2>9. CASE RetryCleanup
      BY <2>9, RetryCleanupKeeps
    <2>10. CASE ClosePending
      BY <2>10, ClosePendingKeeps
    <2>11. CASE UNCHANGED vars
      <3>1. Holding'
        BY <2>11, PartsOfIInv, HoldingIsKept DEF vars, session
      <3>2. Listing'
        BY <2>11, PartsOfIInv, ListingIsKept DEF vars, session, Listing
      <3> QED BY <3>1, <3>2, PartsOfIInv
    <2> QED BY <2>1, <2>2, <2>3, <2>4, <2>5, <2>6, <2>7, <2>8, <2>9, <2>10, <2>11 DEF Next
  <1> QED BY <1>1, InitIsHeld, PTL DEF Spec

\* The state of gdox_runtime_drives_* is always typed, and never are more
\* cleanups pending than there are slots.
THEOREM TypeCorrect == Spec => []TypeOK
  <1>1. IInv => TypeOK
    BY DEF IInv
  <1> QED BY <1>1, InvariantIsKept, PTL

\* docs/SAFETY.md:10-14: a drive that is unlocked has exactly one owner that
\* will restore it, the session or one pending cleanup, and no other drive is
\* owned.
THEOREM OneOwnerOfEveryDrive == Spec => []EveryDriveHasOneOwner
  <1>1. IInv => EveryDriveHasOneOwner
    BY DEF IInv
  <1> QED BY <1>1, InvariantIsKept, PTL

\* A cleanup is filed under the drive it holds, so a retry is never made on
\* another drive, and the session's target is the drive it holds.
THEOREM CleanupsKeepTheirDrives == Spec => []CleanupKeepsItsDrive
  <1>1. IInv => CleanupKeepsItsDrive
    BY DEF IInv
  <1> QED BY <1>1, InvariantIsKept, PTL

\* docs/USER_GUIDE.md:65-68: after every selection, whether or not the drive
\* before it could be closed, an open session is of the chosen drive.
THEOREM SessionsAreOfTheChoice == Spec => []SessionIsOfChoice
  <1>1. IInv => SessionIsOfChoice
    BY DEF IInv
  <1> QED BY <1>1, InvariantIsKept, PTL

\* Every drive is accounted for, and the session is of the chosen one.
THEOREM DrivesStayAccountedFor == Spec => []DrivesAreAccountedFor
  BY OneOwnerOfEveryDrive, CleanupsKeepTheirDrives, SessionsAreOfTheChoice, PTL
     DEF DrivesAreAccountedFor


-----------------------------------------------------------------------------
(* The sources behind the registry, first the three whose drives hold fields. *)

\* A state of the memory that is not the game's for sure: the capacity is stock.
Cold(m) == m[Source!Capacity].state = "stock"
\* The memory is the one the game needs.
IsLive(m, p) == m = Source!Live(p)
\* The memory as a snapshot compares it: its first field was read before the others.
Seen(m, s) == [m EXCEPT ![Order[1]] = s.seen]
\* The memory is all of one disc.
AllOf(m, p) == \A f \in Source!Fields : m[f].of = p
\* What was written and is still there.
Landed(m, h) == {f \in h.wrote : m[f].state = "live"}

\* The places at which the restoration is armed.
Armed == {"write", "descriptor", "live", "reading", "recover", "reset"}
Looking == {"snapshot", "rest"}
Guarding == {"guard", "restored"}

\* What the source is about at its place: the call it serves, the disc it
\* opened, what it owes.
Placed(at, s) ==
  /\ s.active => s.media \in Profiles
  /\ at \in Armed => s.active
  /\ at \in Looking => (s.active <=> s.purpose # "select")
  /\ at = "evidence" => s.media \in Profiles
  /\ at \in {"ready", "evidence", "descriptor"} => s.task = "open"
  /\ at \in {"reading", "recover"} => s.task = "read"
  /\ at = "live" => s.task \in {"open", "read"}
  /\ at \in {"closed", "ready", "evidence", "release"} => ~s.active
  /\ at = "closed" => s = Source!NoSource
  /\ at = "write" => s.purpose \in {"restored", "applied"}
  /\ at \in Looking /\ s.purpose = "select" => s.task = "open"
  /\ at \in Looking /\ s.purpose = "ensure" => s.task = "read"
  /\ at \in Looking \cup {"write"} /\ s.purpose = "applied" => s.task \in {"open", "read"}
  /\ (at \in Looking \cup {"write"} /\ s.purpose \in Guarding) \/ at = "reset" =>
       /\ s.task = "read" => s.goal = "ensure" /\ s.purpose = "restored" /\ at # "reset"
       /\ s.task = "open" => s.goal \in {"normalize", "rollback", "cleanup"}
       /\ s.task = "close" => s.goal = "close"
  /\ at = "reset" => s.tries < RestoreAttempts
  /\ at = "recover" \/ (at \in Looking \cup {"write"} /\ s.task = "read") => s.tries < ReadAttempts

\* The first field was seen as it is, or the whole memory has changed since.
Knows(at, s, m, h) ==
  at = "rest" => m[Order[1]] = s.seen \/ (Cold(m) /\ h.wrote = {} /\ h.stale)

KnowsWrite(at, s, m, h) == at \in {"write", "evidence"} /\ ~h.stale => AllOf(m, s.media)

\* How far an activation has come.
Progress(s, m) ==
  IF s.failed THEN s.todo = 0 /\ (IsLive(m, s.media) \/ Cold(m))
  ELSE /\ \A i \in 1 .. Len(Order) - s.todo : m[Order[i]] = Source!Live(s.media)[Order[i]]
       /\ s.todo > 0 => Cold(m)

\* The memory is live as far as anyone can tell, or no READ succeeds under it,
\* or it was seen not to be and has had the time to change.
Sound(s, m, h, disc) ==
  h.gaveup \/ IsLive(m, s.media) \/ Cold(m)
  \/ (Seen(m, s) # Source!Live(s.media) /\ (h.stale \/ disc = None))

\* What a read that is under way knows: it is delivered from sound memory only.
Reads(at, s, m, h, disc) ==
  /\ at \in {"live", "reading", "recover"} \/ (at = "snapshot" /\ s.purpose = "ensure") => Sound(s, m, h, disc)
  /\ s.task = "read" /\ at \in Looking \cup {"write"} /\ s.purpose = "restored" =>
       ~IsLive(m, s.media) /\ Seen(m, s) # Source!Live(s.media)
  /\ s.task = "read" /\ at \in {"write", "snapshot"} /\ s.purpose = "applied" => s.seen.state = "stock"
  /\ s.task = "read" /\ at = "write" /\ s.purpose = "applied" /\ ~h.stale => Progress(s, m)

\* What landed is owed.
Owes(s, m, h) == ~s.active => Landed(m, h) = {}
\* A drive that is not there does not answer and has lost what landed.
Gone(d, h) == ~d.attached => ~d.answers /\ Landed(d.memory, h) = {}
\* No READ was of other memory before a recovery failed.
Told(h) == h.delivered = "other" => h.gaveup
\* A process that was killed has no source.
Mortal(at, h) == h.killed => at = "closed"

\* The sources of asus and gp08.
TwoInv ==
  /\ Placed(pc, context) /\ Knows(pc, context, opened.memory, history)
  /\ Reads(pc, context, opened.memory, history, opened.disc)
  /\ family = "gp08" /\ context.active => context.media = Source!Xgd1

\* The source of ad7701h.
AdPlaced(at, s) ==
  /\ s.active => s.media = Source!AdDisc
  /\ at \in {"snapshot", "write", "rest", "descriptor", "live", "reading"} => s.media = Source!AdDisc
  /\ at \in {"write", "rest", "descriptor", "live", "reading"} => s.active
  /\ at \in {"closed", "ready", "release"} => ~s.active
  /\ at = "closed" => s = Source!NoSource
  /\ at = "snapshot" => s.purpose \in {"applied", "guard"}
  /\ at = "snapshot" /\ s.purpose = "guard" => s.active
  /\ at = "write" => s.purpose \in {"applied", "restored"}
AdInv ==
  /\ AdPlaced(pc, context)
  /\ pc = "reading" => IsLive(opened.memory, Source!AdDisc) \/ Cold(opened.memory)
  /\ pc = "rest" => Landed(opened.memory, history) = {}

\* The invariant of the sources with fields.
FieldInv ==
  /\ Source!FieldTypeOK
  /\ KnowsWrite(pc, context, opened.memory, history)
  /\ Owes(context, opened.memory, history) /\ Gone(opened, history) /\ Told(history) /\ Mortal(pc, history)
  /\ IF family = "ad7701h" THEN AdInv ELSE TwoInv

DriveStates == [disc : Source!Discs \cup {None}, memory : [Source!Fields -> Source!Values], attached : BOOLEAN,
                answers : BOOLEAN, changes : 0 .. MaxChanges]

\* What the assumption about the constants says of profiles, fields and attempts.
LEMMA FieldConstants ==
  /\ Profiles # {} /\ Profiles \subseteq Source!Discs /\ "foreign" \in Source!Discs
  /\ None \notin Source!Discs /\ None \notin Profiles
  /\ Source!Xgd1 \in Profiles /\ Source!AdDisc = Source!Xgd1
  /\ Len(Order) \in Nat /\ Len(Order) > 1 /\ DOMAIN Order = 1 .. Len(Order)
  /\ \A i \in 1 .. Len(Order) : Order[i] \in Source!Fields
  /\ \A i, j \in 1 .. Len(Order) : Order[i] = Order[j] => i = j
  /\ \A f \in Source!Fields : \E i \in 1 .. Len(Order) : f = Order[i]
  /\ Source!Capacity \in Source!Fields /\ Order[1] \in Source!Fields /\ Order[1] # Source!Capacity
  /\ RestoreAttempts \in Nat \ {0} /\ ReadAttempts \in Nat \ {0} /\ MaxChanges \in Nat
  <1>1. /\ Profiles # {} /\ Profiles \subseteq Source!Discs /\ "foreign" \in Source!Discs
        /\ None \notin Source!Discs /\ None \notin Profiles
        /\ RestoreAttempts \in Nat \ {0} /\ ReadAttempts \in Nat \ {0} /\ MaxChanges \in Nat
    BY SourceAssumption DEF Source!FieldAssumption, Source!Discs
  <1>2. Source!Xgd1 \in Profiles /\ Source!AdDisc = Source!Xgd1
    BY <1>1 DEF Source!Xgd1, Source!AdDisc
  <1>3. Order \in Seq(Source!Fields) /\ Len(Order) > 1 /\ \A i, j \in DOMAIN Order : Order[i] = Order[j] => i = j
    BY SourceAssumption DEF Source!FieldAssumption
  <1>4. Len(Order) \in Nat /\ DOMAIN Order = 1 .. Len(Order) /\ \A i \in 1 .. Len(Order) : Order[i] \in Source!Fields
    BY <1>3
  <1>5. Source!Capacity \in Source!Fields /\ Order[1] \in Source!Fields /\ Order[1] # Source!Capacity
    BY <1>3, <1>4 DEF Source!Capacity
  <1>6. \A f \in Source!Fields : \E i \in 1 .. Len(Order) : f = Order[i]
    BY <1>4 DEF Source!Fields
  <1> QED BY <1>1, <1>2, <1>3, <1>4, <1>5, <1>6

\* The two states of a profile are states of the memory, and different ones.
LEMMA StockAndLive ==
  /\ \A d \in Source!Discs : /\ Source!Stock(d) \in [Source!Fields -> Source!Values] /\ Cold(Source!Stock(d)) /\ AllOf(Source!Stock(d), d)
                      /\ \A f \in Source!Fields : Source!Stock(d)[f] = [of |-> d, state |-> "stock"]
  /\ \A p \in Profiles : /\ Source!Live(p) \in [Source!Fields -> Source!Values] /\ ~Cold(Source!Live(p)) /\ Source!Live(p) # Source!Stock(p)
                         /\ AllOf(Source!Live(p), p)
                         /\ \A f \in Source!Fields : Source!Live(p)[f] = [of |-> p, state |-> "live"]
  <1> USE FieldConstants
  <1>1. ASSUME NEW d \in Source!Discs
        PROVE  /\ Source!Stock(d) \in [Source!Fields -> Source!Values] /\ Cold(Source!Stock(d)) /\ AllOf(Source!Stock(d), d)
               /\ \A f \in Source!Fields : Source!Stock(d)[f] = [of |-> d, state |-> "stock"]
    BY DEF Source!Stock, Source!Values, Cold, AllOf
  <1>2. ASSUME NEW p \in Profiles
        PROVE  /\ Source!Live(p) \in [Source!Fields -> Source!Values] /\ ~Cold(Source!Live(p)) /\ Source!Live(p) # Source!Stock(p)
               /\ AllOf(Source!Live(p), p)
               /\ \A f \in Source!Fields : Source!Live(p)[f] = [of |-> p, state |-> "live"]
    <2>1. Source!Live(p) \in [Source!Fields -> Source!Values] /\ \A f \in Source!Fields : Source!Live(p)[f] = [of |-> p, state |-> "live"]
      BY DEF Source!Live, Source!Values
    <2>2. Source!Live(p)[Source!Capacity].state = "live" /\ AllOf(Source!Live(p), p)
      BY <2>1 DEF AllOf
    <2>3. Source!Stock(p)[Source!Capacity].state = "stock"
      BY <1>1 DEF Cold
    <2> QED BY <2>1, <2>2, <2>3 DEF Cold
  <1> QED BY <1>1, <1>2

\* The state of a source, with the disc it opened.
Base(s) ==
  /\ s \in Source!Sources
  /\ s.active => s.media \in Profiles /\ (family = "gp08" => s.media = Source!Xgd1)

\* The restoration is of the call that asked for it.
GoalFits(s) ==
  /\ s.task = "read" => s.goal = "ensure"
  /\ s.task = "open" => s.goal \in {"normalize", "rollback", "cleanup"}
  /\ s.task = "close" => s.goal = "close"

\* The invariant is kept by a step within a session.
KeptOpen == FieldInv' /\ pc' # "closed"

\* All of the invariant that depends on the place and on the context.
Arrives(at, s, m, h, disc) ==
  /\ at \in Source!Places \ {"closed"} /\ Base(s) /\ Placed(at, s)
  /\ Knows(at, s, m, h) /\ KnowsWrite(at, s, m, h) /\ Reads(at, s, m, h, disc) /\ Owes(s, m, h)

\* A step that ends where a source arrives keeps the invariant.
LEMMA StepKeeps ==
  ASSUME FieldInv, family \in {"asus", "gp08"}, UNCHANGED family, opened' \in DriveStates, history' \in Source!Histories,
         Gone(opened', history'), Told(history'), ~history'.killed,
         Arrives(pc', context', opened'.memory, history', opened'.disc)
  PROVE  KeptOpen
  <1>1. Source!FieldTypeOK'
    BY DEF Source!FieldTypeOK, DriveStates, Arrives, Base
  <1>2. KnowsWrite(pc, context, opened.memory, history)'
    BY DEF Arrives, KnowsWrite, AllOf
  <1>3. (Owes(context, opened.memory, history) /\ Gone(opened, history) /\ Told(history) /\ Mortal(pc, history))'
    BY DEF Arrives, Owes, Gone, Landed, Told, Mortal
  <1>4. (Placed(pc, context) /\ Knows(pc, context, opened.memory, history))'
    BY DEF Arrives, Placed, Knows, Cold
  <1>5. Reads(pc, context, opened.memory, history, opened.disc)'
    BY DEF Arrives, Reads, Sound, IsLive, Cold, Seen, Progress
  <1>6. (family = "gp08" /\ context.active => context.media = Source!Xgd1)'
    BY DEF Arrives, Base, Source!Xgd1
  <1>7. pc' # "closed"
    BY DEF Arrives
  <1> QED BY <1>1, <1>2, <1>3, <1>4, <1>5, <1>6, <1>7 DEF FieldInv, TwoInv, KeptOpen

\* The two states of a profile, field by field.
LEMMA Fieldwise ==
  /\ \A d \in Source!Discs, f \in Source!Fields : Source!Stock(d)[f].state = "stock" /\ Source!Stock(d)[f].of = d
  /\ \A p \in Profiles, f \in Source!Fields : Source!Live(p)[f].state = "live" /\ Source!Live(p)[f].of = p
  BY DEF Source!Stock, Source!Live

-----------------------------------------------------------------------------
(* What follows a verdict about the memory: where the source arrives. *)

\* The counters at their first values are within their bounds.
LEMMA Sizes == Len(Order) \in 0 .. Len(Order) /\ 1 \in 0 .. RestoreAttempts + ReadAttempts
  BY FieldConstants

\* A restoration begins with a reset or a snapshot, its debt standing.
LEMMA RestoreArrives ==
  ASSUME NEW s, Base(s), s.active, NEW m, NEW h, NEW disc, NEW goal \in Source!Goals, Source!BeginRestore(s, goal),
         \/ s.task = "open" /\ goal \in {"normalize", "rollback", "cleanup"}
         \/ s.task = "close" /\ goal = "close"
  PROVE  Arrives(pc', context', m, h, disc)
  <1> DEFINE t == [s EXCEPT !.goal = goal, !.tries = 1, !.purpose = "guard"]
  <1>1. pc' = "snapshot" /\ context' = t
    BY DEF Source!BeginRestore, Source!TakeSnapshot, Source!Then, Base, Source!Sources
  <1>2. /\ Base(t) /\ t.active /\ t.task = s.task /\ t.goal = goal /\ t.purpose = "guard"
        /\ t.media \in Profiles
    BY Sizes DEF Base, Source!Sources, Source!Purposes
  <1> HIDE DEF t
  <1>3. Placed("snapshot", t)
    BY <1>2 DEF Placed, Armed, Looking, Guarding
  <1> QED BY <1>1, <1>2, <1>3 DEF Arrives, Knows, KnowsWrite, Reads, Owes, Looking, Source!Places

\* cleanup_failed_open restores first what is owed, and releases only then.
LEMMA CleanupArrives ==
  ASSUME NEW s, Base(s), s.task = "open", NEW m, NEW h, NEW disc, Owes(s, m, h), Source!AsusCleanup(s) \/ Source!Gp08Cleanup(s)
  PROVE  Arrives(pc', context', m, h, disc)
  <1>1. CASE s.active
    BY <1>1, RestoreArrives DEF Source!AsusCleanup, Source!Gp08Cleanup, Source!Goals
  <1>2. CASE ~s.active
    <2> DEFINE t == [s EXCEPT !.goal = "cleanup"]
    <2>1. pc' = "release" /\ context' = t
      BY <1>2 DEF Source!AsusCleanup, Source!Gp08Cleanup, Source!Then
    <2>2. Base(t) /\ ~t.active /\ Owes(t, m, h)
      BY <1>2 DEF Base, Source!Sources, Source!Goals, Owes
    <2> HIDE DEF t
    <2> QED BY <2>1, <2>2 DEF Arrives, Placed, Armed, Looking, Knows, KnowsWrite, Reads, Source!Places
  <1> QED BY <1>1, <1>2

\* A read goes on, or ends, with the memory as far as it is known.
LEMMA NextReadArrives ==
  ASSUME NEW s, Base(s), s.active, s.task = "read", NEW m, NEW h, NEW disc,
         Sound(s, m, h, disc), Source!NextRead(s)
  PROVE  Arrives(pc', context', m, h, disc)
  <1>1. CASE s.tries < ReadAttempts /\ Source!Then("reading", [s EXCEPT !.tries = @ + 1])
    <2> DEFINE t == [s EXCEPT !.tries = s.tries + 1]
    <2>1. pc' = "reading" /\ context' = t
      BY <1>1 DEF Source!Then
    <2>2. s.tries + 1 \in 0 .. RestoreAttempts + ReadAttempts
      BY <1>1, FieldConstants DEF Base, Source!Sources
    <2>3. Base(t) /\ t.active /\ t.task = "read" /\ t.media = s.media /\ t.seen = s.seen
      BY <2>2 DEF Base, Source!Sources
    <2>4. Sound(t, m, h, disc)
      BY <2>3 DEF Sound, Seen
    <2> HIDE DEF t
    <2> QED BY <2>1, <2>3, <2>4 DEF Arrives, Base, Placed, Armed, Looking, Knows, KnowsWrite, Reads, Owes, Source!Places
  <1>2. CASE Source!Then("live", s)
    BY <1>2 DEF Source!Then, Arrives, Base, Placed, Armed, Looking, Knows, KnowsWrite, Reads, Owes, Source!Places
  <1> QED BY <1>1, <1>2 DEF Source!NextRead

\* What an activation by a read has to know of the memory.
Stocked(s, m, h) ==
  s.task = "read" => s.tries < ReadAttempts /\ s.seen.state = "stock" /\ (~h.stale => Cold(m))

\* An activation starts from a memory known to be of the disc.
LEMMA ActivationArrives ==
  ASSUME NEW s, Base(s), s.active, s.task \in {"open", "read"}, NEW m, NEW h, NEW disc,
         ~h.stale => AllOf(m, s.media), Stocked(s, m, h), Source!StartWrites(s, "applied")
  PROVE  Arrives(pc', context', m, h, disc)
  <1> DEFINE t == [s EXCEPT !.purpose = "applied", !.todo = Len(Order), !.failed = FALSE]
  <1>1. pc' = "write" /\ context' = t
    BY DEF Source!StartWrites, Source!Then
  <1>2. /\ Base(t) /\ t.active /\ t.task = s.task /\ t.media = s.media /\ t.seen = s.seen /\ t.tries = s.tries
        /\ t.purpose = "applied" /\ t.todo = Len(Order) /\ ~t.failed
    BY Sizes DEF Base, Source!Sources, Source!Purposes
  <1> HIDE DEF t
  <1>3. Placed("write", t)
    BY <1>2 DEF Base, Placed, Armed, Looking, Guarding, Stocked
  <1>4. KnowsWrite("write", t, m, h)
    BY <1>2 DEF KnowsWrite
  <1>5. s.task = "read" /\ ~h.stale => Progress(t, m)
    BY <1>2, FieldConstants DEF Progress, Stocked
  <1>6. Reads("write", t, m, h, disc)
    BY <1>2, <1>5 DEF Reads, Looking, Stocked
  <1> QED BY <1>1, <1>2, <1>3, <1>4, <1>6 DEF Arrives, Knows, Owes, Source!Places

\* So does a restoration; within a read only when the memory was seen not to be live.
LEMMA PuttingBackArrives ==
  ASSUME NEW s, Base(s), s.active, GoalFits(s), NEW m, NEW h, NEW disc,
         ~h.stale => AllOf(m, s.media),
         s.task = "read" => s.tries < ReadAttempts /\ ~IsLive(m, s.media) /\ Seen(m, s) # Source!Live(s.media),
         Source!StartWrites(s, "restored")
  PROVE  Arrives(pc', context', m, h, disc)
  <1> DEFINE t == [s EXCEPT !.purpose = "restored", !.todo = Len(Order), !.failed = FALSE]
  <1>1. pc' = "write" /\ context' = t
    BY DEF Source!StartWrites, Source!Then
  <1>2. /\ Base(t) /\ t.active /\ t.task = s.task /\ t.media = s.media /\ t.seen = s.seen /\ t.tries = s.tries
        /\ t.purpose = "restored" /\ t.goal = s.goal
    BY Sizes DEF Base, Source!Sources, Source!Purposes
  <1> HIDE DEF t
  <1>3. Placed("write", t)
    BY <1>2 DEF Base, Placed, Armed, Looking, Guarding, GoalFits
  <1>4. KnowsWrite("write", t, m, h)
    BY <1>2 DEF KnowsWrite
  <1>5. Reads("write", t, m, h, disc)
    BY <1>2 DEF Reads, Looking, Seen
  <1> QED BY <1>1, <1>2, <1>3, <1>4, <1>5 DEF Arrives, Knows, Owes, Source!Places

\* After an activation that verified: the descriptor, or the read again.
LEMMA AppliedArrives ==
  ASSUME NEW s, Base(s), s.active, s.task \in {"open", "read"}, NEW m, NEW h, NEW disc,
         s.task = "read" => s.tries < ReadAttempts /\ Sound(s, m, h, disc),
         Source!AsusApplied(s) \/ Source!Gp08Applied(s)
  PROVE  Arrives(pc', context', m, h, disc)
  <1>1. CASE s.task = "read"
    <2>1. s.tries < ReadAttempts /\ Source!Then("reading", [s EXCEPT !.tries = @ + 1])
      BY <1>1 DEF Source!AsusApplied, Source!Gp08Applied
    <2> QED BY <1>1, <2>1, NextReadArrives DEF Source!NextRead
  <1>2. CASE s.task = "open"
    BY <1>2 DEF Source!AsusApplied, Source!Gp08Applied, Source!Then, Arrives, Base, Placed, Armed, Looking, Knows, KnowsWrite, Reads, Owes, Source!Places
  <1> QED BY <1>1, <1>2

\* After one that did not: the rollback, or the next attempt at the read.
LEMMA ApplyFailsArrives ==
  ASSUME NEW s, Base(s), s.active, s.task \in {"open", "read"}, NEW m, NEW h, NEW disc,
         s.task = "read" => Sound(s, m, h, disc),
         Source!AsusApplyFails(s) \/ Source!Gp08ApplyFails(s)
  PROVE  Arrives(pc', context', m, h, disc)
  <1>1. CASE s.task = "open"
    BY <1>1, RestoreArrives DEF Source!AsusApplyFails, Source!Gp08ApplyFails, Source!Goals
  <1>2. CASE s.task = "read"
    BY <1>2, NextReadArrives DEF Source!AsusApplyFails, Source!Gp08ApplyFails
  <1> QED BY <1>1, <1>2

\* After the memory was found stock.
LEMMA RestoredArrives ==
  ASSUME NEW s, Base(s), s.active, GoalFits(s), NEW m, NEW h, NEW disc, Landed(m, h) = {},
         ~h.stale => AllOf(m, s.media), Stocked(s, m, h),
         \/ family = "asus" /\ Source!AsusRestored(s)
         \/ family = "gp08" /\ Source!Gp08Restored(s)
  PROVE  Arrives(pc', context', m, h, disc)
  <1> DEFINE t == [s EXCEPT !.active = FALSE]
  <1>1. Base(t) /\ ~t.active /\ t.media = s.media /\ t.task = s.task /\ Owes(t, m, h) /\ s.media \in Profiles
    BY DEF Base, Source!Sources, Owes
  <1>2. s.task \in {"open", "read", "close"} /\ s.goal \in Source!Goals
    BY DEF Base, Source!Sources
  <1>3. CASE s.goal = "ensure"
    <2>1. Source!StartWrites(s, "applied") /\ s.task = "read"
      BY <1>2, <1>3 DEF Source!AsusRestored, Source!Gp08Restored, GoalFits
    <2> QED BY <2>1, ActivationArrives
  <1>4. CASE Source!AsusCleanup(t) \/ Source!Gp08Cleanup(t)
    <2>1. CASE s.task = "open"
      BY <1>1, <1>4, <2>1, CleanupArrives
    <2>2. CASE s.task # "open"
      <3> DEFINE u == [t EXCEPT !.goal = "cleanup"]
      <3>1. pc' = "release" /\ context' = u
        BY <1>1, <1>4 DEF Source!AsusCleanup, Source!Gp08Cleanup, Source!Then
      <3>2. Base(u) /\ ~u.active /\ Owes(u, m, h)
        BY <1>1 DEF Base, Source!Sources, Source!Goals, Owes
      <3> HIDE DEF t, u
      <3> QED BY <3>1, <3>2 DEF Arrives, Placed, Armed, Looking, Knows, KnowsWrite, Reads, Source!Places
    <2> QED BY <2>1, <2>2
  <1>5. CASE Source!Then("release", t)
    <2> HIDE DEF t
    <2> QED BY <1>1, <1>5 DEF Source!Then, Arrives, Placed, Armed, Looking, Knows, KnowsWrite, Reads, Source!Places
  <1>6. CASE Source!Then("evidence", t) /\ s.goal = "normalize"
    <2>1. s.task = "open"
      BY <1>2, <1>6 DEF GoalFits
    <2> HIDE DEF t
    <2> QED BY <1>1, <1>6, <2>1 DEF Source!Then, Arrives, Placed, Armed, Looking, Knows, KnowsWrite, Reads, Source!Places
  <1>7. s.goal = "ensure" \/ Source!AsusCleanup(t) \/ Source!Gp08Cleanup(t) \/ Source!Then("release", t)
        \/ (Source!Then("evidence", t) /\ s.goal = "normalize")
    <2> HIDE DEF t
    <2>1. CASE family = "asus"
      <3>1. Source!AsusRestored(s)
        BY <2>1
      <3> QED BY <1>2, <3>1 DEF Source!AsusRestored, Source!Goals, t
    <2>2. CASE family = "gp08"
      <3>1. Source!Gp08Restored(s)
        BY <2>2
      <3> QED BY <1>2, <3>1 DEF Source!Gp08Restored, Source!Goals, t
    <2> QED BY <2>1, <2>2
  <1> QED BY <1>3, <1>4, <1>5, <1>6, <1>7

\* After a restoration that failed.
LEMMA NotRestoredArrives ==
  ASSUME NEW s, Base(s), s.active, GoalFits(s), NEW m, NEW h, NEW disc,
         ~opened.attached => Landed(m, h) = {},
         s.task = "read" => Sound(s, m, h, disc),
         \/ family = "asus" /\ Source!AsusRestoreFails(s)
         \/ family = "gp08" /\ Source!Gp08NotRestored(s)
  PROVE  Arrives(pc', context', m, h, disc)
  <1> DEFINE t == [s EXCEPT !.active = FALSE]
  <1>1. s.task \in {"open", "read", "close"} /\ s.goal \in Source!Goals /\ s.media \in Profiles
    BY DEF Base, Source!Sources
  <1>2. CASE s.goal = "ensure"
    <2>1. Source!NextRead(s)
      BY <1>2 DEF Source!AsusRestoreFails, Source!AsusGivesUp, Source!Gp08NotRestored
    <2>2. s.task = "read"
      BY <1>1, <1>2 DEF GoalFits
    <2> QED BY <2>1, <2>2, NextReadArrives
  <1>3. CASE s.goal # "ensure" /\ s.tries < RestoreAttempts
    <2>1. Source!Then("reset", s)
      BY <1>3, FieldConstants DEF Source!AsusRestoreFails, Source!Gp08NotRestored, Base, Source!Sources
    <2>2. Placed("reset", s)
      BY <1>1, <1>3 DEF Base, Placed, Armed, Looking, Guarding, GoalFits
    <2> QED BY <2>1, <2>2 DEF Source!Then, Arrives, Knows, KnowsWrite, Reads, Owes, Source!Places, Looking
  <1>4. CASE s.goal # "ensure" /\ ~(s.tries < RestoreAttempts)
    <2>1. \/ (Source!AsusCleanup(s) \/ Source!Gp08Cleanup(s)) /\ s.goal \in {"normalize", "rollback"}
          \/ Source!Then("held", s)
          \/ Source!Then("release", t) /\ ~opened.attached
      <3>1. CASE family = "asus"
        <4>1. Source!AsusGivesUp(s)
          BY <1>4, <3>1 DEF Source!AsusRestoreFails
        <4> QED BY <1>1, <1>4, <4>1 DEF Source!AsusGivesUp, Source!AsusNotRestored, Source!Goals
      <3>2. CASE family = "gp08"
        <4>1. Source!Gp08NotRestored(s) /\ s.tries >= RestoreAttempts
          BY <1>4, <3>2, FieldConstants DEF Base, Source!Sources
        <4> QED BY <1>4, <4>1 DEF Source!Gp08NotRestored
      <3> QED BY <3>1, <3>2
    <2>2. CASE (Source!AsusCleanup(s) \/ Source!Gp08Cleanup(s)) /\ s.goal \in {"normalize", "rollback"}
      <3>1. s.task = "open" /\ Owes(s, m, h)
        BY <1>1, <2>2 DEF GoalFits, Owes
      <3> QED BY <2>2, <3>1, CleanupArrives
    <2>3. CASE Source!Then("held", s)
      BY <1>1, <2>3 DEF Source!Then, Arrives, Placed, Armed, Looking, Knows, KnowsWrite, Reads, Owes, Source!Places
    <2>4. CASE Source!Then("release", t) /\ ~opened.attached
      <3>1. Base(t) /\ ~t.active /\ Owes(t, m, h)
        BY <2>4 DEF Base, Source!Sources, Owes
      <3> HIDE DEF t
      <3> QED BY <2>4, <3>1 DEF Source!Then, Arrives, Placed, Armed, Looking, Knows, KnowsWrite, Reads, Source!Places
    <2> QED BY <2>1, <2>2, <2>3, <2>4
  <1> QED BY <1>2, <1>3, <1>4

-----------------------------------------------------------------------------
(* What a snapshot found, and what is so of the memory. *)

\* What a snapshot found tells the memory, though its first field was read earlier.
LEMMA FoundIs ==
  ASSUME NEW m \in [Source!Fields -> Source!Values], NEW s, s.seen \in Source!Values, NEW h, h.wrote \subseteq Source!Fields,
         Knows("rest", s, m, h), NEW p \in Profiles
  PROVE  /\ Seen(m, s) \in [Source!Fields -> Source!Values] /\ Seen(m, s)[Source!Capacity] = m[Source!Capacity]
         /\ Seen(m, s) = Source!Stock(p) =>
              Cold(m) /\ s.seen.state = "stock" /\ Landed(m, h) = {} /\ (~h.stale => AllOf(m, p))
         /\ Seen(m, s) = Source!Live(p) => IsLive(m, p) \/ Cold(m)
         /\ Seen(m, s) # Source!Live(p) => ~IsLive(m, p)
         /\ AllOf(Seen(m, s), p) => (~h.stale => AllOf(m, p))
         /\ AllOf(Seen(m, s), p) \/ \E f \in Source!Fields : Seen(m, s)[f].of # p
  <1> USE FieldConstants, StockAndLive
  <1> DEFINE found == Seen(m, s)
  <1>1. found \in [Source!Fields -> Source!Values] /\ found[Source!Capacity] = m[Source!Capacity] /\ found[Order[1]] = s.seen
    BY DEF Seen
  <1>2. found = m \/ (Cold(m) /\ h.wrote = {} /\ h.stale)
    BY DEF Seen, Knows
  <1> HIDE DEF found
  <1>3. ASSUME found = Source!Stock(p)
        PROVE  Cold(m) /\ s.seen.state = "stock" /\ Landed(m, h) = {} /\ (~h.stale => AllOf(m, p))
    <2>1. p \in Source!Discs /\ AllOf(Source!Stock(p), p)
      OBVIOUS
    <2>2. \A f \in Source!Fields : Source!Stock(p)[f].state = "stock"
      <3> QED BY <2>1 DEF Source!Stock
    <2>3. s.seen.state = "stock" /\ Cold(m)
      <3>1. found[Order[1]].state = "stock" /\ found[Source!Capacity].state = "stock"
        BY <1>3, <2>2
      <3> QED BY <1>1, <3>1 DEF Cold
    <2>4. CASE found = m
      <3>1. \A f \in h.wrote : m[f].state # "live"
        BY <1>3, <2>2, <2>4
      <3>2. Landed(m, h) = {}
        BY <3>1 DEF Landed
      <3>3. AllOf(m, p)
        <4>1. m = Source!Stock(p)
          BY <1>3, <2>4
        <4> HIDE FieldConstants, StockAndLive
        <4> QED BY <2>1, <4>1
      <3> QED BY <2>3, <3>2, <3>3
    <2>5. CASE h.wrote = {} /\ h.stale
      BY <2>3, <2>5 DEF Landed
    <2> QED BY <1>2, <2>4, <2>5
  <1>4. found = Source!Live(p) => IsLive(m, p) \/ Cold(m)
    BY <1>2 DEF IsLive
  <1>5. found # Source!Live(p) => ~IsLive(m, p)
    BY <1>2 DEF IsLive
  <1>6. AllOf(found, p) => (~h.stale => AllOf(m, p))
    BY <1>2
  <1>7. AllOf(found, p) \/ \E f \in Source!Fields : found[f].of # p
    BY DEF AllOf
  <1> QED BY <1>1, <1>3, <1>4, <1>5, <1>6, <1>7 DEF found

\* What a verdict of the profiles of asus says of what was found.
LEMMA AsusVerdicts ==
  ASSUME NEW p \in Profiles, NEW found \in [Source!Fields -> Source!Values], NEW size \in Source!Values,
         NEW class, class = Source!AsusClass(p, found, size)
  PROVE  /\ class \in {"stock", "live", "partial", "unknown"}
         /\ class = "stock" => found = Source!Stock(p)
         /\ class = "live" => found = Source!Live(p)
         /\ class \in {"live", "partial"} => AllOf(found, p)
         /\ size = found[Source!Capacity] /\ class # "live" => found # Source!Live(p)
         /\ size = found[Source!Capacity] /\ class = "unknown" => ~AllOf(found, p)
  <1>1. Source!Stock(p) # Source!Live(p) /\ AllOf(Source!Live(p), p) /\ Source!Capacity \in Source!Fields
    BY StockAndLive, FieldConstants
  <1>2. CASE found = Source!Stock(p) /\ size = Source!Stock(p)[Source!Capacity]
    BY <1>1, <1>2 DEF Source!AsusClass
  <1>3. CASE ~(found = Source!Stock(p) /\ size = Source!Stock(p)[Source!Capacity]) /\ found = Source!Live(p) /\ size = Source!Live(p)[Source!Capacity]
    <2>1. class = "live"
      BY <1>3 DEF Source!AsusClass
    <2> QED BY <1>1, <1>3, <2>1
  <1>4. CASE ~(found = Source!Stock(p) /\ size = Source!Stock(p)[Source!Capacity]) /\ ~(found = Source!Live(p) /\ size = Source!Live(p)[Source!Capacity])
    <2>1. class = IF \A f \in Source!Fields : found[f].of = p /\ size.of = p THEN "partial" ELSE "unknown"
      BY <1>4 DEF Source!AsusClass
    <2>2. class = "partial" => AllOf(found, p)
      BY <2>1 DEF AllOf
    <2>3. size = found[Source!Capacity] /\ AllOf(found, p) => class = "partial"
      BY <1>1, <2>1 DEF AllOf
    <2>4. size = found[Source!Capacity] => found # Source!Live(p)
      BY <1>4
    <2>5. class \in {"partial", "unknown"}
      BY <2>1
    <2> QED BY <2>2, <2>3, <2>4, <2>5
  <1> QED BY <1>2, <1>3, <1>4

\* What a verdict of gp08 says of what was found.
LEMMA Gp08Verdicts ==
  ASSUME NEW found \in [Source!Fields -> Source!Values], NEW size \in Source!Values
  PROVE  /\ Source!Gp08IsStock(found, size) => found = Source!Stock(Source!Xgd1)
         /\ Source!Gp08IsLive(found, size) => found = Source!Live(Source!Xgd1)
         /\ Source!Gp08IsKnown(found, size) => AllOf(found, Source!Xgd1)
         /\ size = found[Source!Capacity] /\ ~Source!Gp08IsLive(found, size) => found # Source!Live(Source!Xgd1)
         /\ size = found[Source!Capacity] /\ ~Source!Gp08IsKnown(found, size) => ~AllOf(found, Source!Xgd1)
         /\ Source!Gp08IsLive(found, size) => Source!Gp08IsKnown(found, size) /\ ~Source!Gp08IsStock(found, size)
  <1>1. Source!Capacity \in Source!Fields
    BY FieldConstants
  <1>2. Source!Xgd1 \in Profiles /\ Source!Live(Source!Xgd1) # Source!Stock(Source!Xgd1) /\ \A f \in Source!Fields : Source!Live(Source!Xgd1)[f].of = Source!Xgd1
    <2>1. Source!Xgd1 \in Profiles
      BY FieldConstants
    <2> DEFINE x == Source!Xgd1
    <2>2. x \in Profiles
      BY <2>1
    <2> HIDE DEF x
    <2>3. Source!Live(x) # Source!Stock(x) /\ \A f \in Source!Fields : Source!Live(x)[f] = [of |-> x, state |-> "live"]
      BY <2>2, StockAndLive
    <2>4. \A f \in Source!Fields : Source!Live(x)[f].of = x
      BY <2>3
    <2> QED BY <2>1, <2>3, <2>4 DEF x
  <1> QED BY <1>1, <1>2 DEF Source!Gp08IsStock, Source!Gp08IsLive, Source!Gp08IsKnown, AllOf

\* The source where it looks at the memory.
LEMMA LookingIs ==
  ASSUME NEW at \in Looking, NEW s, Base(s), Placed(at, s)
  PROVE  /\ s.purpose \in Source!Purposes /\ s.task \in {"open", "read", "close"}
         /\ s.purpose = "select" => ~s.active /\ s.task = "open"
         /\ s.purpose # "select" => s.active /\ s.media \in Profiles
         /\ s.purpose = "ensure" => s.task = "read"
         /\ s.purpose = "applied" => s.task \in {"open", "read"}
         /\ s.purpose \in Guarding => GoalFits(s)
         /\ s.purpose = "guard" => s.task # "read"
         /\ s.task = "read" => s.tries < ReadAttempts
  BY DEF Base, Source!Sources, Placed, Looking, Guarding, GoalFits

\* A snapshot that failed.
LEMMA FailedArrives ==
  ASSUME NEW at \in Looking, NEW s, Base(s), Placed(at, s), NEW m, NEW h, NEW disc, Owes(s, m, h),
         ~opened.attached => Landed(m, h) = {},
         s.task = "read" /\ pc' \in {"live", "reading"} => Sound(s, m, h, disc),
         \/ family = "asus" /\ Source!AsusFailed(s)
         \/ family = "gp08" /\ Source!Gp08Failed(s)
  PROVE  Arrives(pc', context', m, h, disc)
  <1> USE LookingIs
  <1>1. CASE s.purpose = "select"
    <2>1. Source!AsusCleanup(s) \/ Source!Gp08Cleanup(s)
      BY <1>1 DEF Source!AsusFailed, Source!Gp08Failed
    <2> QED BY <1>1, <2>1, CleanupArrives
  <1>2. CASE s.purpose = "ensure"
    <2>1. Source!NextRead(s)
      BY <1>2 DEF Source!AsusFailed, Source!Gp08Failed
    <2>2. pc' \in {"live", "reading"}
      BY <2>1 DEF Source!NextRead, Source!Then
    <2> QED BY <1>2, <2>1, <2>2, NextReadArrives
  <1>3. CASE s.purpose = "applied"
    <2>1. Source!AsusApplyFails(s) \/ Source!Gp08ApplyFails(s)
      BY <1>3 DEF Source!AsusFailed, Source!Gp08Failed
    <2>2. s.task = "read" => pc' \in {"live", "reading"}
      BY <2>1 DEF Source!AsusApplyFails, Source!Gp08ApplyFails, Source!NextRead, Source!Then
    <2> QED BY <1>3, <2>1, <2>2, ApplyFailsArrives
  <1>4. CASE s.purpose \in {"guard", "restored"}
    <2>1. \/ family = "asus" /\ Source!AsusRestoreFails(s)
          \/ family = "gp08" /\ Source!Gp08NotRestored(s)
      BY <1>4 DEF Source!AsusFailed, Source!Gp08Failed
    <2>2. s.active /\ GoalFits(s)
      BY <1>4 DEF Guarding
    <2>3. s.task = "read" => pc' \in {"live", "reading"}
      BY <2>1, <2>2 DEF GoalFits, Source!AsusRestoreFails, Source!AsusGivesUp, Source!Gp08NotRestored, Source!NextRead, Source!Then
    <2> QED BY <2>1, <2>2, <2>3, NotRestoredArrives
  <1> QED BY <1>1, <1>2, <1>3, <1>4 DEF Source!Purposes

\* A snapshot that succeeded: what it found, as the source compares it.
Decides(s, found, size) ==
  \/ family = "asus" /\ Source!AsusDecide(s, found, size)
  \/ family = "gp08" /\ Source!Gp08Decide(s, found, size)
Sized(s, m, disc, size) ==
  \/ disc # None /\ size = m[Source!Capacity]
  \/ s.purpose \in Guarding /\ s.media \in Profiles /\ size = Source!Stock(s.media)[Source!Capacity]

\* The size a snapshot compares is a value, and outside a restoration the capacity found.
LEMMA SizedIs ==
  ASSUME NEW m \in [Source!Fields -> Source!Values], NEW s, NEW disc, NEW size, Sized(s, m, disc, size)
  PROVE  size \in Source!Values /\ (s.purpose \notin Guarding => size = Seen(m, s)[Source!Capacity])
  <1>1. Seen(m, s)[Source!Capacity] = m[Source!Capacity] /\ m[Source!Capacity] \in Source!Values
    BY FieldConstants DEF Seen
  <1>2. ASSUME s.media \in Profiles PROVE Source!Stock(s.media)[Source!Capacity] \in Source!Values
    <2>1. s.media \in Source!Discs /\ Source!Capacity \in Source!Fields
      BY <1>2, FieldConstants
    <2>2. Source!Stock(s.media) \in [Source!Fields -> Source!Values]
      BY <2>1, StockAndLive
    <2> QED BY <2>1, <2>2
  <1> QED BY <1>1, <1>2 DEF Sized

\* The first snapshot of an open: the disc is chosen, and its debt is armed.
LEMMA SelectArrives ==
  ASSUME NEW s, Base(s), ~s.active, s.task = "open", s.purpose = "select",
         NEW m \in [Source!Fields -> Source!Values], NEW h \in Source!Histories, NEW disc, NEW size,
         Knows("rest", s, m, h), Owes(s, m, h), Sized(s, m, disc, size), Decides(s, Seen(m, s), size)
  PROVE  Arrives(pc', context', m, h, disc)
  <1> DEFINE found == Seen(m, s)
  <1>1. s.seen \in Source!Values /\ h.wrote \subseteq Source!Fields
    BY DEF Base, Source!Sources, Source!Histories
  <1>2. found \in [Source!Fields -> Source!Values] /\ size \in Source!Values
    BY <1>1, SizedIs, FoundIs, FieldConstants
  <1>3. CASE Source!AsusCleanup(s) \/ Source!Gp08Cleanup(s)
    BY <1>3, CleanupArrives
  <1>4. CASE family = "asus" /\ Source!AsusSelect(s, found, size) /\ ~Source!AsusCleanup(s)
    <2>1. PICK p \in Profiles :
            IF Source!AsusClass(p, found, size) = "stock" THEN Source!Then("evidence", [s EXCEPT !.media = p])
            ELSE Source!BeginRestore([s EXCEPT !.media = p, !.active = TRUE], "normalize")
      BY <1>4, Zenon DEF Source!AsusSelect
    <2> DEFINE class == Source!AsusClass(p, found, size)
               t == [s EXCEPT !.media = p]
    <2>5. CASE class = "stock"
      <3>1. pc' = "evidence" /\ context' = t
        BY <2>1, <2>5 DEF Source!Then
      <3>2. found = Source!Stock(p)
        BY <1>2, <2>5, AsusVerdicts
      <3>3. ~h.stale => AllOf(m, p)
        BY <1>1, <3>2, FoundIs
      <3>5. Base(t) /\ ~t.active /\ t.media = p /\ t.task = "open" /\ Owes(t, m, h)
        BY <1>4 DEF Base, Source!Sources, Owes
      <3> HIDE DEF t
      <3> QED BY <3>1, <3>3, <3>5 DEF Arrives, Placed, Armed, Looking, Knows, KnowsWrite, Reads, Source!Places
    <2>6. CASE class # "stock"
      <3> DEFINE u == [s EXCEPT !.media = p, !.active = TRUE]
      <3>1. Source!BeginRestore(u, "normalize")
        BY <2>1, <2>6
      <3>2. Base(u) /\ u.active /\ u.media = p /\ u.task = "open"
        BY <1>4 DEF Base, Source!Sources
      <3> HIDE DEF u
      <3> QED BY <3>1, <3>2, RestoreArrives DEF Source!Goals
    <2> QED BY <2>5, <2>6
  <1>5. CASE family = "gp08" /\ Source!Gp08IsStock(found, size) /\ Source!Gp08Apply([s EXCEPT !.media = Source!Xgd1])
    <2> DEFINE u == [[s EXCEPT !.media = Source!Xgd1] EXCEPT !.active = TRUE]
    <2>1. Source!StartWrites(u, "applied")
      BY <1>5 DEF Source!Gp08Apply
    <2>2. Base(u) /\ u.active /\ u.media = Source!Xgd1 /\ u.task = "open"
      BY FieldConstants DEF Base, Source!Sources
    <2>3. found = Source!Stock(Source!Xgd1)
      BY <1>2, <1>5, Gp08Verdicts
    <2>4. ~h.stale => AllOf(m, Source!Xgd1)
      BY <1>1, <2>3, FoundIs, FieldConstants
    <2> HIDE DEF u
    <2> QED BY <2>1, <2>2, <2>4, ActivationArrives DEF Stocked
  <1> QED
    <2>1. CASE family = "asus"
      <3>1. Source!AsusSelect(s, found, size)
        BY <2>1 DEF Decides, Source!AsusDecide
      <3> QED BY <1>3, <1>4, <2>1, <3>1
    <2>2. CASE family = "gp08"
      <3>1. Source!Gp08Decide(s, found, size)
        BY <2>2 DEF Decides
      <3>2. \/ Source!Gp08IsStock(found, size) /\ Source!Gp08Apply([s EXCEPT !.media = Source!Xgd1])
            \/ Source!Gp08Cleanup(s)
        BY <3>1 DEF Source!Gp08Decide
      <3> QED BY <1>3, <1>5, <2>2, <3>2
    <2> QED BY <2>1, <2>2 DEF Decides

\* Going on with a read from memory that was seen not to be live, though not
\* taken for a part of it.
Warned(s, found, h) ==
  /\ s.task = "read" /\ pc' \in {"live", "reading"}
  /\ found # Source!Live(s.media) /\ (s.purpose = "ensure" => ~AllOf(found, s.media))
  => h.gaveup

\* A snapshot before or after a restoration.
LEMMA GuardArrives ==
  ASSUME NEW s, Base(s), Placed("rest", s), s.purpose \in Guarding, family \in {"asus", "gp08"},
         NEW m \in [Source!Fields -> Source!Values], NEW h \in Source!Histories, NEW disc, NEW size,
         ~opened.attached => Landed(m, h) = {},
         Knows("rest", s, m, h), Reads("rest", s, m, h, disc), Sized(s, m, disc, size),
         Warned(s, Seen(m, s), h), Decides(s, Seen(m, s), size)
  PROVE  Arrives(pc', context', m, h, disc)
  <1> DEFINE found == Seen(m, s)
             p == s.media
             class == Source!AsusClass(p, found, size)
  <1>1. s.seen \in Source!Values /\ h.wrote \subseteq Source!Fields /\ "rest" \in Looking
    BY DEF Base, Source!Sources, Source!Histories, Looking
  <1>2. /\ s.active /\ p \in Profiles /\ GoalFits(s) /\ s.task \in {"open", "read", "close"}
        /\ s.purpose = "guard" => s.task # "read"
        /\ s.task = "read" => s.tries < ReadAttempts
    BY <1>1, LookingIs DEF Guarding
  <1>3. found \in [Source!Fields -> Source!Values] /\ size \in Source!Values
    BY <1>1, SizedIs, FoundIs, FieldConstants
  <1>4. s.task = "read" => ~IsLive(m, p) /\ found # Source!Live(p) /\ s.purpose = "restored"
    BY <1>1, <1>2 DEF Reads, Guarding
  <1>5. CASE found = Source!Stock(p) /\ ((family = "asus" /\ Source!AsusRestored(s)) \/ (family = "gp08" /\ Source!Gp08Restored(s)))
    <2>1. Landed(m, h) = {} /\ (~h.stale => AllOf(m, p)) /\ Stocked(s, m, h)
      BY <1>1, <1>2, <1>5, FoundIs DEF Stocked
    <2> QED BY <1>2, <1>5, <2>1, RestoredArrives
  <1>6. CASE (family = "asus" /\ Source!AsusRestoreFails(s)) \/ (family = "gp08" /\ Source!Gp08NotRestored(s))
    <2>1. s.task = "read" => pc' \in {"live", "reading"}
      BY <1>2, <1>6 DEF GoalFits, Source!AsusRestoreFails, Source!AsusGivesUp, Source!Gp08NotRestored, Source!NextRead, Source!Then
    <2>2. s.task = "read" => Sound(s, m, h, disc)
      BY <1>4, <2>1 DEF Warned, Sound
    <2> QED BY <1>2, <1>6, <2>2, NotRestoredArrives
  <1>7. CASE AllOf(found, p) /\ Source!StartWrites(s, "restored")
    <2>1. ~h.stale => AllOf(m, p)
      BY <1>1, <1>2, <1>7, FoundIs
    <2> QED BY <1>2, <1>4, <1>7, <2>1, PuttingBackArrives
  <1>8. CASE family = "asus"
    <2>1. Source!AsusDecide(s, found, size) /\ p # None
      BY <1>2, <1>8, FieldConstants DEF Decides
    <2>2. \/ s.purpose = "guard" /\ Source!AsusGuard(s, class)
          \/ s.purpose = "restored" /\ (IF class = "stock" THEN Source!AsusRestored(s) ELSE Source!AsusRestoreFails(s))
      BY <2>1 DEF Source!AsusDecide, Guarding
    <2>3. /\ class \in {"stock", "live", "partial", "unknown"}
          /\ class = "stock" => found = Source!Stock(p)
          /\ class \in {"live", "partial"} => AllOf(found, p)
      BY <1>2, <1>3, AsusVerdicts
    <2> HIDE DEF class, found, p
    <2>4. \/ class = "stock" /\ Source!AsusRestored(s)
          \/ Source!AsusRestoreFails(s)
          \/ class \in {"live", "partial"} /\ Source!StartWrites(s, "restored")
      <3>1. CASE s.purpose = "guard" /\ Source!AsusGuard(s, class)
        BY <2>3, <3>1 DEF Source!AsusGuard
      <3>2. CASE s.purpose = "restored" /\ (IF class = "stock" THEN Source!AsusRestored(s) ELSE Source!AsusRestoreFails(s))
        BY <3>2
      <3> QED BY <2>2, <3>1, <3>2
    <2>5. CASE class = "stock" /\ Source!AsusRestored(s)
      BY <1>5, <1>8, <2>3, <2>5
    <2>6. CASE Source!AsusRestoreFails(s)
      BY <1>6, <1>8, <2>6
    <2>7. CASE class \in {"live", "partial"} /\ Source!StartWrites(s, "restored")
      BY <1>7, <2>3, <2>7
    <2> QED BY <2>4, <2>5, <2>6, <2>7
  <1>9. CASE family = "gp08"
    <2>1. Source!Gp08Decide(s, found, size) /\ p = Source!Xgd1
      BY <1>2, <1>9 DEF Decides, Base
    <2>2. \/ s.purpose = "guard" /\ Source!Gp08Guard(s, found, size)
          \/ s.purpose = "restored" /\ (IF Source!Gp08IsStock(found, size) THEN Source!Gp08Restored(s) ELSE Source!Gp08NotRestored(s))
      BY <2>1 DEF Source!Gp08Decide, Guarding
    <2>3. /\ Source!Gp08IsStock(found, size) => found = Source!Stock(p)
          /\ Source!Gp08IsKnown(found, size) => AllOf(found, p)
      BY <1>3, <2>1, Gp08Verdicts
    <2>4. CASE found = Source!Stock(p) /\ Source!Gp08Restored(s)
      BY <1>5, <1>9, <2>4
    <2>5. CASE Source!Gp08NotRestored(s)
      BY <1>6, <1>9, <2>5
    <2> HIDE DEF found
    <2> QED BY <1>7, <2>2, <2>3, <2>4, <2>5 DEF Source!Gp08Guard, Source!Gp08GuardBlind
  <1> QED BY <1>8, <1>9

\* A snapshot after an activation.
LEMMA AppliedVerdictArrives ==
  ASSUME NEW s, Base(s), Placed("rest", s), s.purpose = "applied", family \in {"asus", "gp08"},
         NEW m \in [Source!Fields -> Source!Values], NEW h \in Source!Histories, NEW disc, NEW size,
         Knows("rest", s, m, h), Sized(s, m, disc, size),
         Warned(s, Seen(m, s), h), Decides(s, Seen(m, s), size)
  PROVE  Arrives(pc', context', m, h, disc)
  <1> DEFINE found == Seen(m, s)
             p == s.media
             class == Source!AsusClass(p, found, size)
  <1>1. s.seen \in Source!Values /\ h.wrote \subseteq Source!Fields /\ "rest" \in Looking
    BY DEF Base, Source!Sources, Source!Histories, Looking
  <1>2. /\ s.active /\ p \in Profiles /\ s.task \in {"open", "read"}
        /\ s.task = "read" => s.tries < ReadAttempts
    BY <1>1, LookingIs DEF Guarding
  <1>3. found \in [Source!Fields -> Source!Values] /\ size \in Source!Values /\ size = found[Source!Capacity]
    BY <1>1, SizedIs, FoundIs, FieldConstants DEF Guarding
  <1>4. CASE found = Source!Live(p) /\ (Source!AsusApplied(s) \/ Source!Gp08Applied(s))
    <2>1. Sound(s, m, h, disc)
      BY <1>1, <1>2, <1>4, FoundIs DEF Sound
    <2> QED BY <1>2, <1>4, <2>1, AppliedArrives
  <1>5. CASE found # Source!Live(p) /\ (Source!AsusApplyFails(s) \/ Source!Gp08ApplyFails(s))
    <2>1. s.task = "read" => pc' \in {"live", "reading"}
      BY <1>5 DEF Source!AsusApplyFails, Source!Gp08ApplyFails, Source!NextRead, Source!Then
    <2>2. s.task = "read" => Sound(s, m, h, disc)
      BY <1>5, <2>1 DEF Warned, Sound
    <2> QED BY <1>2, <1>5, <2>2, ApplyFailsArrives
  <1>6. CASE family = "asus"
    <2>1. IF class = "live" THEN Source!AsusApplied(s) ELSE Source!AsusApplyFails(s)
      BY <1>2, <1>6, FieldConstants DEF Decides, Source!AsusDecide
    <2>2. (class = "live" => found = Source!Live(p)) /\ (class # "live" => found # Source!Live(p))
      BY <1>2, <1>3, AsusVerdicts
    <2> HIDE DEF class, found
    <2> QED BY <1>4, <1>5, <2>1, <2>2
  <1>7. CASE family = "gp08"
    <2>1. IF Source!Gp08IsLive(found, size) THEN Source!Gp08Applied(s) ELSE Source!Gp08ApplyFails(s)
      BY <1>7 DEF Decides, Source!Gp08Decide
    <2>2. /\ Source!Gp08IsLive(found, size) => found = Source!Live(p)
          /\ ~Source!Gp08IsLive(found, size) => found # Source!Live(p)
      BY <1>2, <1>3, <1>7, Gp08Verdicts DEF Base
    <2> HIDE DEF found
    <2> QED BY <1>4, <1>5, <2>1, <2>2
  <1> QED BY <1>6, <1>7

\* A snapshot after a recovery, before the read is tried again (ensure_live).
LEMMA EnsureArrives ==
  ASSUME NEW s, Base(s), Placed("rest", s), s.purpose = "ensure", family \in {"asus", "gp08"},
         NEW m \in [Source!Fields -> Source!Values], NEW h \in Source!Histories, NEW disc, NEW size,
         Knows("rest", s, m, h), Sized(s, m, disc, size),
         Warned(s, Seen(m, s), h), Decides(s, Seen(m, s), size)
  PROVE  Arrives(pc', context', m, h, disc)
  <1> DEFINE found == Seen(m, s)
             p == s.media
             class == Source!AsusClass(p, found, size)
             t == [s EXCEPT !.goal = "ensure"]
  <1>1. s.seen \in Source!Values /\ h.wrote \subseteq Source!Fields /\ "rest" \in Looking
    BY DEF Base, Source!Sources, Source!Histories, Looking
  <1>2. s.active /\ p \in Profiles /\ s.task = "read" /\ s.tries < ReadAttempts
    BY <1>1, LookingIs DEF Guarding
  <1>3. found \in [Source!Fields -> Source!Values] /\ size \in Source!Values /\ size = found[Source!Capacity]
    BY <1>1, SizedIs, FoundIs, FieldConstants DEF Guarding
  <1>4. CASE found = Source!Live(p) /\ (Source!AsusApplied(s) \/ Source!Gp08Applied(s))
    <2>1. Sound(s, m, h, disc)
      BY <1>1, <1>2, <1>4, FoundIs DEF Sound
    <2> QED BY <1>2, <1>4, <2>1, AppliedArrives
  <1>5. CASE found # Source!Live(p) /\ ~AllOf(found, p) /\ Source!NextRead(s)
    <2>1. pc' \in {"live", "reading"}
      BY <1>5 DEF Source!NextRead, Source!Then
    <2>2. Sound(s, m, h, disc)
      BY <1>2, <1>5, <2>1 DEF Warned, Sound
    <2> QED BY <1>2, <1>5, <2>2, NextReadArrives
  <1>6. CASE found = Source!Stock(p) /\ Source!StartWrites(s, "applied")
    <2>1. (~h.stale => AllOf(m, p)) /\ Stocked(s, m, h)
      BY <1>1, <1>2, <1>6, FoundIs DEF Stocked
    <2> QED BY <1>2, <1>6, <2>1, ActivationArrives
  <1>7. CASE AllOf(found, p) /\ found # Source!Live(p) /\ Source!StartWrites(t, "restored")
    <2>1. (~h.stale => AllOf(m, p)) /\ ~IsLive(m, p)
      BY <1>1, <1>2, <1>7, FoundIs
    <2>2. /\ Base(t) /\ t.active /\ GoalFits(t) /\ t.media = p /\ t.seen = s.seen /\ t.tries = s.tries
          /\ Seen(m, t) = found
      BY <1>2 DEF Base, Source!Sources, Source!Goals, GoalFits, Seen
    <2> HIDE DEF t
    <2> QED BY <1>2, <1>7, <2>1, <2>2, PuttingBackArrives
  <1>8. CASE family = "asus"
    <2>1. Source!AsusEnsure(s, class)
      BY <1>2, <1>8, FieldConstants DEF Decides, Source!AsusDecide
    <2>2. /\ class \in {"stock", "live", "partial", "unknown"}
          /\ class = "stock" => found = Source!Stock(p)
          /\ class = "live" => found = Source!Live(p)
          /\ class \in {"live", "partial"} => AllOf(found, p)
          /\ class # "live" => found # Source!Live(p)
          /\ class = "unknown" => ~AllOf(found, p)
      BY <1>2, <1>3, AsusVerdicts
    <2> HIDE DEF class, found
    <2> QED BY <1>4, <1>5, <1>6, <1>7, <2>1, <2>2 DEF Source!AsusEnsure
  <1>9. CASE family = "gp08"
    <2>1. Source!Gp08EnsureLive(s, found, size)
      BY <1>9 DEF Decides, Source!Gp08Decide
    <2>2. /\ Source!Gp08IsStock(found, size) => found = Source!Stock(p)
          /\ Source!Gp08IsLive(found, size) => found = Source!Live(p)
          /\ Source!Gp08IsKnown(found, size) => AllOf(found, p)
          /\ ~Source!Gp08IsLive(found, size) => found # Source!Live(p)
          /\ ~Source!Gp08IsKnown(found, size) => ~AllOf(found, p)
          /\ Source!Gp08IsLive(found, size) => Source!Gp08IsKnown(found, size) /\ ~Source!Gp08IsStock(found, size)
      BY <1>2, <1>3, <1>9, Gp08Verdicts DEF Base
    <2> HIDE DEF found
    <2>3. \/ Source!Gp08IsLive(found, size) /\ Source!Gp08Applied(s)
          \/ ~Source!Gp08IsLive(found, size) /\ ~Source!Gp08IsKnown(found, size) /\ Source!NextRead(s)
          \/ Source!Gp08IsStock(found, size) /\ Source!StartWrites(s, "applied")
          \/ ~Source!Gp08IsLive(found, size) /\ Source!Gp08IsKnown(found, size) /\ Source!StartWrites(t, "restored")
      BY <2>1, <2>2 DEF Source!Gp08EnsureLive
    <2> HIDE DEF t
    <2> QED BY <1>4, <1>5, <1>6, <1>7, <2>2, <2>3
  <1> QED BY <1>8, <1>9

-----------------------------------------------------------------------------
(* The steps of the sources of asus and gp08. *)

\* What the invariant says of asus and gp08, part by part.
LEMMA TwoFacts ==
  ASSUME FieldInv, family \in {"asus", "gp08"}
  PROVE  /\ opened \in DriveStates /\ pc \in Source!Places /\ history \in Source!Histories /\ context \in Source!Sources
         /\ opened.memory \in [Source!Fields -> Source!Values] /\ history.wrote \subseteq Source!Fields /\ history.stale \in BOOLEAN
         /\ opened.attached \in BOOLEAN /\ opened.answers \in BOOLEAN
         /\ Base(context) /\ Placed(pc, context)
         /\ Knows(pc, context, opened.memory, history) /\ KnowsWrite(pc, context, opened.memory, history)
         /\ Reads(pc, context, opened.memory, history, opened.disc)
         /\ Owes(context, opened.memory, history) /\ Gone(opened, history) /\ Told(history)
         /\ ~opened.attached => Landed(opened.memory, history) = {} /\ ~opened.answers
         /\ pc # "closed" => ~history.killed
  BY DEF FieldInv, TwoInv, Source!FieldTypeOK, DriveStates, Base, Placed, Gone, Mortal, Source!Histories, Source!Xgd1

\* A step that leaves the drive and the auxiliary variables as they are.
LEMMA QuietKeeps ==
  ASSUME FieldInv, family \in {"asus", "gp08"}, UNCHANGED <<family, opened, history>>, pc # "closed",
         Arrives(pc', context', opened.memory, history, opened.disc)
  PROVE  KeptOpen
  BY TwoFacts, StepKeeps

\* Only a drive that answers answers.
LEMMA ReplyIs == \A ok \in Source!Reply : ok \in BOOLEAN /\ (ok => opened.answers)
  BY DEF Source!Reply

\* A field more of a snapshot, or its verdict.
LEMMA SnapshotKeeps ==
  ASSUME FieldInv, Source!AsusSnapshot \/ Source!Gp08Snapshot
  PROVE  KeptOpen
  <1> DEFINE m == opened.memory
             s == context
             h == history'
             found == Seen(m, s)
  <1>1. family \in {"asus", "gp08"} /\ UNCHANGED <<family, opened>>
    BY DEF Source!AsusSnapshot, Source!Gp08Snapshot, Source!Snapshot
  <1>2. Base(s) /\ Placed(pc, s) /\ m \in [Source!Fields -> Source!Values] /\ history \in Source!Histories
    BY <1>1, TwoFacts
  <1>3. CASE pc = "snapshot"
    <2>1. /\ h = [history EXCEPT !.stale = FALSE, !.gaveup = @ \/ Source!GivesUp(FALSE)]
          /\ \E ok \in Source!Reply :
               IF ok THEN Source!Then("rest", [s EXCEPT !.seen = m[Order[1]]])
               ELSE \/ family = "asus" /\ Source!AsusFailed(s)
                    \/ family = "gp08" /\ Source!Gp08Failed(s)
      BY <1>3 DEF Source!AsusSnapshot, Source!Gp08Snapshot, Source!Snapshot
    <2>2. /\ h \in Source!Histories /\ ~h.stale /\ h.wrote = history.wrote /\ h.killed = history.killed
          /\ h.delivered = history.delivered /\ (history.gaveup => h.gaveup) /\ (Source!GivesUp(FALSE) => h.gaveup)
      BY <1>2, <2>1 DEF Source!Histories
    <2>3. Owes(s, m, h) /\ Gone(opened', h) /\ Told(h) /\ ~h.killed /\ (~opened.attached => Landed(m, h) = {})
      BY <1>1, <1>3, <2>2, TwoFacts DEF Owes, Gone, Told, Landed
    <2> HIDE DEF h
    <2>4. Arrives(pc', context', m, h, opened.disc)
      <3>1. CASE Source!Then("rest", [s EXCEPT !.seen = m[Order[1]]])
        <4> DEFINE t == [s EXCEPT !.seen = m[Order[1]]]
        <4>1. pc' = "rest" /\ context' = t
          BY <3>1 DEF Source!Then
        <4>2. m[Order[1]] \in Source!Values
          BY <1>2, FieldConstants
        <4>3. /\ Base(t) /\ t.seen = m[Order[1]] /\ t.active = s.active /\ t.media = s.media /\ t.task = s.task
              /\ t.goal = s.goal /\ t.purpose = s.purpose /\ t.tries = s.tries
          BY <1>2, <4>2 DEF Base, Source!Sources
        <4>4. Seen(m, t) = m
          BY <1>2, <4>3 DEF Seen
        <4>5. Placed("rest", t)
          BY <1>2, <1>3, <4>3 DEF Placed, Armed, Looking, Guarding
        <4>6. Reads("rest", t, m, h, opened.disc)
          BY <1>1, <1>3, <4>3, <4>4, TwoFacts DEF Reads, Looking, IsLive
        <4>7. Owes(t, m, h)
          BY <2>3, <4>3 DEF Owes
        <4> HIDE DEF t
        <4> QED BY <4>1, <4>3, <4>5, <4>6, <4>7 DEF Arrives, Knows, KnowsWrite, Source!Places
      <3>2. CASE \/ family = "asus" /\ Source!AsusFailed(s)
                 \/ family = "gp08" /\ Source!Gp08Failed(s)
        <4>1. ASSUME s.task = "read", pc' \in {"live", "reading"}
              PROVE  Sound(s, m, h, opened.disc)
          <5>1. CASE found # Source!Live(s.media)
            <6>1. Source!GivesUp(FALSE)
              BY <4>1, <5>1 DEF Source!GivesUp, Seen
            <6> QED BY <2>2, <6>1 DEF Sound
          <5>2. CASE found = Source!Live(s.media)
            <6>1. s.active /\ s.media \in Profiles /\ s.purpose \in {"ensure", "applied", "restored"}
              BY <1>2, <1>3, <4>1, LookingIs DEF Source!Purposes, Looking
            <6>2. found[Order[1]] = s.seen
              BY <1>2, FieldConstants DEF Seen
            <6>3. s.seen.state # "stock"
              <7>1. Source!Live(s.media)[Order[1]].state = "live"
                BY <6>1, Fieldwise, FieldConstants
              <7> QED BY <5>2, <6>2, <7>1
            <6>4. s.purpose = "ensure"
              BY <1>1, <1>3, <4>1, <5>2, <6>1, <6>3, TwoFacts DEF Reads, Looking
            <6> QED BY <1>1, <1>3, <2>2, <5>2, <6>4, TwoFacts DEF Reads, Sound
          <5> QED BY <5>1, <5>2
        <4> QED BY <1>2, <1>3, <2>3, <3>2, <4>1, FailedArrives DEF Looking
      <3> QED BY <2>1, <3>1, <3>2
    <2> QED BY <1>1, <2>2, <2>3, <2>4, StepKeeps, TwoFacts DEF h
  <1>4. CASE pc = "rest"
    <2>1. PICK ok \in Source!Reply :
          /\ h = [history EXCEPT !.gaveup = @ \/ Source!GivesUp(ok)]
          /\ IF ok /\ (opened.disc # None \/ s.purpose \in {"guard", "restored"})
             THEN Decides(s, found, IF opened.disc # None THEN m[Source!Capacity] ELSE Source!Stock(s.media)[Source!Capacity])
             ELSE \/ family = "asus" /\ Source!AsusFailed(s)
                  \/ family = "gp08" /\ Source!Gp08Failed(s)
      BY <1>4 DEF Source!AsusSnapshot, Source!Gp08Snapshot, Source!Snapshot, Decides, Seen
    <2>2. /\ h \in Source!Histories /\ h.stale = history.stale /\ h.wrote = history.wrote /\ h.killed = history.killed
          /\ h.delivered = history.delivered /\ (history.gaveup => h.gaveup) /\ (Source!GivesUp(ok) => h.gaveup)
      BY <1>2, <2>1 DEF Source!Histories
    <2>3. /\ Owes(s, m, h) /\ Gone(opened', h) /\ Told(h) /\ ~h.killed /\ (~opened.attached => Landed(m, h) = {})
          /\ Knows("rest", s, m, h)
      BY <1>1, <1>4, <2>2, TwoFacts DEF Owes, Gone, Told, Landed, Knows
    <2>4. Reads("rest", s, m, h, opened.disc)
      BY <1>1, <1>4, TwoFacts DEF Reads, Looking
    <2> HIDE DEF h
    <2>5. ASSUME ok, s.task = "read", pc' \in {"live", "reading"}, found # Source!Live(s.media),
                 s.purpose = "ensure" => ~AllOf(found, s.media)
          PROVE  h.gaveup
      <3>1. Source!GivesUp(ok)
        BY <2>5 DEF Source!GivesUp, Seen, AllOf
      <3> QED BY <2>2, <3>1
    <2>6. CASE ok /\ (opened.disc # None \/ s.purpose \in {"guard", "restored"})
      <3> DEFINE size == IF opened.disc # None THEN m[Source!Capacity] ELSE Source!Stock(s.media)[Source!Capacity]
      <3>1. Decides(s, found, size)
        BY <2>1, <2>6
      <3>2. /\ s.purpose \in Source!Purposes
            /\ s.purpose = "select" => ~s.active /\ s.task = "open"
            /\ s.purpose # "select" => s.active /\ s.media \in Profiles
        BY <1>2, <1>4, LookingIs DEF Looking
      <3>3. Sized(s, m, opened.disc, size)
        BY <2>6, <3>2 DEF Sized, Guarding
      <3>4. Warned(s, found, h)
        BY <2>5, <2>6 DEF Warned
      <3> HIDE DEF size, found
      <3>5. Arrives(pc', context', m, h, opened.disc)
        <4>1. CASE s.purpose = "select"
          BY <1>2, <2>2, <2>3, <3>1, <3>2, <3>3, <4>1, SelectArrives DEF found
        <4>2. CASE s.purpose \in Guarding
          BY <1>1, <1>2, <1>4, <2>2, <2>3, <2>4, <3>1, <3>3, <3>4, <4>2, GuardArrives DEF found
        <4>3. CASE s.purpose = "applied"
          BY <1>1, <1>2, <1>4, <2>2, <2>3, <3>1, <3>3, <3>4, <4>3, AppliedVerdictArrives DEF found
        <4>4. CASE s.purpose = "ensure"
          BY <1>1, <1>2, <1>4, <2>2, <2>3, <3>1, <3>3, <3>4, <4>4, EnsureArrives DEF found
        <4> QED BY <3>2, <4>1, <4>2, <4>3, <4>4 DEF Source!Purposes, Guarding
      <3> QED BY <1>1, <2>2, <2>3, <3>5, StepKeeps, TwoFacts DEF h
    <2>7. CASE ~(ok /\ (opened.disc # None \/ s.purpose \in {"guard", "restored"}))
      <3>1. \/ family = "asus" /\ Source!AsusFailed(s)
            \/ family = "gp08" /\ Source!Gp08Failed(s)
        BY <2>1, <2>7
      <3>2. ASSUME s.task = "read", pc' \in {"live", "reading"}
            PROVE  Sound(s, m, h, opened.disc)
        <4>1. CASE found = Source!Live(s.media)
          <5>1. s.media \in Profiles /\ s.seen \in Source!Values
            BY <1>2, <1>4, <3>2, LookingIs DEF Looking, Base, Source!Sources
          <5> QED BY <1>2, <2>2, <2>3, <4>1, <5>1, FoundIs DEF Sound, Source!Histories
        <4>2. CASE found # Source!Live(s.media) /\ opened.disc = None
          BY <4>2 DEF Sound
        <4>3. CASE found # Source!Live(s.media) /\ ~ok
          <5>1. Source!GivesUp(ok)
            BY <3>2, <4>3 DEF Source!GivesUp, Seen
          <5> QED BY <2>2, <5>1 DEF Sound
        <4> QED BY <2>7, <4>1, <4>2, <4>3
      <3>3. Arrives(pc', context', m, h, opened.disc)
        BY <1>2, <1>4, <2>3, <3>1, <3>2, FailedArrives DEF Looking
      <3> QED BY <1>1, <2>2, <2>3, <3>3, StepKeeps, TwoFacts DEF h
    <2> QED BY <2>6, <2>7
  <1> QED BY <1>3, <1>4 DEF Source!AsusSnapshot, Source!Gp08Snapshot, Source!Snapshot

\* The world, and a drive that derived its memory again.
MovedOn ==
  /\ opened' \in DriveStates /\ history' \in Source!Histories /\ Gone(opened', history')
  /\ history.stale => history'.stale
  /\ history'.gaveup = history.gaveup /\ history'.delivered = history.delivered /\ history'.killed = history.killed
  /\ \/ opened'.memory = opened.memory /\ history'.wrote = history.wrote
     \/ Cold(opened'.memory) /\ history'.wrote = {} /\ history'.stale
  /\ opened'.disc = opened.disc \/ opened'.disc = None \/ history'.stale

\* What the world does to a memory leaves it as sound as it was.
LEMMA SoundMoves ==
  ASSUME NEW s, MovedOn, Sound(s, opened.memory, history, opened.disc)
  PROVE  Sound(s, opened'.memory, history', opened'.disc)
  BY DEF MovedOn, Sound

\* Nothing was written, so nothing is owed.
LEMMA NothingOwed ==
  ASSUME NEW m, NEW h, h.wrote = {}
  PROVE  Landed(m, h) = {}
  BY DEF Landed

\* What the world does keeps the invariant at every place of a source.
LEMMA MovedKeeps ==
  ASSUME FieldInv, UNCHANGED <<family, pc, context>>, MovedOn
  PROVE  FieldInv'
  <1> DEFINE m == opened.memory
             mm == opened'.memory
  <1>1. Source!FieldTypeOK'
    BY DEF FieldInv, Source!FieldTypeOK, MovedOn, DriveStates
  <1>2. Landed(mm, history') = Landed(m, history) \/ Landed(mm, history') = {}
    BY NothingOwed DEF MovedOn, Landed
  <1>3. KnowsWrite(pc, context, m, history)' /\ Owes(context, m, history)'
    BY <1>2 DEF FieldInv, KnowsWrite, AllOf, Owes, MovedOn, Landed
  <1>4. Gone(opened, history)' /\ Told(history)' /\ Mortal(pc, history)'
    BY DEF FieldInv, MovedOn, Gone, Told, Mortal, Landed
  <1>5. CASE family = "ad7701h"
    <2>1. AdPlaced(pc, context)'
      BY <1>5 DEF FieldInv, AdInv, AdPlaced
    <2>2. (pc = "reading" => IsLive(m, Source!AdDisc) \/ Cold(m))'
      BY <1>5 DEF FieldInv, AdInv, MovedOn, IsLive, Cold, Source!AdDisc
    <2>3. (pc = "rest" => Landed(m, history) = {})'
      BY <1>2, <1>5 DEF FieldInv, AdInv, Landed
    <2> QED BY <1>1, <1>3, <1>4, <1>5, <2>1, <2>2, <2>3 DEF FieldInv, AdInv
  <1>6. CASE family # "ad7701h"
    <2>1. TwoInv /\ context.seen \in Source!Values /\ m \in [Source!Fields -> Source!Values] /\ mm \in [Source!Fields -> Source!Values]
      BY <1>1, <1>6 DEF FieldInv, Source!FieldTypeOK, Source!Sources
    <2>2. Placed(pc, context)' /\ (family = "gp08" /\ context.active => context.media = Source!Xgd1)'
      BY <2>1 DEF TwoInv, Placed, Source!Xgd1
    <2>3. Knows(pc, context, m, history)'
      BY <2>1 DEF TwoInv, Knows, MovedOn, Cold
    <2>4. ASSUME context.task = "read", pc \in Looking \cup {"write"}, context.purpose = "restored"
          PROVE  ~IsLive(mm, context.media) /\ Seen(mm, context) # Source!Live(context.media)
      <3>1. context.media \in Profiles /\ ~IsLive(m, context.media) /\ Seen(m, context) # Source!Live(context.media)
        BY <2>1, <2>4 DEF TwoInv, Placed, Reads, Armed, Looking
      <3>2. CASE mm = m
        BY <3>1, <3>2
      <3>3. CASE Cold(mm)
        <4>1. Seen(mm, context)[Source!Capacity] = mm[Source!Capacity] /\ mm[Source!Capacity].state = "stock"
          BY <2>1, <3>3, FieldConstants DEF Seen, Cold
        <4>2. Source!Live(context.media)[Source!Capacity].state = "live"
          BY <3>1, Fieldwise, FieldConstants
        <4> QED BY <4>1, <4>2 DEF IsLive
      <3> QED BY <3>2, <3>3 DEF MovedOn
    <2>5. Reads(pc, context, m, history, opened.disc)'
      <3>1. Reads(pc, context, m, history, opened.disc)
        BY <2>1 DEF TwoInv
      <3>2. pc \in {"live", "reading", "recover"} \/ (pc = "snapshot" /\ context.purpose = "ensure")
              => Sound(context, mm, history', opened'.disc)
        BY <3>1, SoundMoves DEF Reads
      <3>3. ~history'.stale => mm = m /\ ~history.stale
        BY DEF MovedOn
      <3>4. Reads(pc, context, mm, history', opened'.disc)
        BY <2>4, <3>1, <3>2, <3>3 DEF Reads
      <3> QED BY <3>4 DEF Reads, Sound, IsLive, Cold, Seen, Progress
    <2> QED BY <1>1, <1>3, <1>4, <1>6, <2>2, <2>3, <2>5 DEF FieldInv, TwoInv
  <1> QED BY <1>5, <1>6

\* So does every step that ends in a closed source that owes nothing.
LEMMA ClosedKeeps ==
  ASSUME FieldInv, UNCHANGED <<family, opened>>, pc' = "closed", context' = Source!NoSource,
         history' \in Source!Histories, history'.wrote = {}, history'.delivered = "nothing"
  PROVE  FieldInv'
  <1>1. Source!NoSource \in Source!Sources /\ ~Source!NoSource.active
    BY FieldConstants DEF Source!NoSource, Source!Sources, Source!Goals, Source!Purposes, Source!Values
  <1>2. Source!FieldTypeOK'
    BY <1>1 DEF FieldInv, Source!FieldTypeOK, Source!Places
  <1>3. Landed(opened.memory, history)' = {}
    BY NothingOwed DEF Landed
  <1>4. (Gone(opened, history) /\ Told(history) /\ Mortal(pc, history) /\ Owes(context, opened.memory, history))'
    BY <1>3 DEF FieldInv, Gone, Told, Mortal, Owes, Landed
  <1>5. KnowsWrite(pc, context, opened.memory, history)'
    BY DEF KnowsWrite
  <1>6. CASE family = "ad7701h"
    <2>1. AdInv'
      BY <1>1 DEF AdInv, AdPlaced
    <2> QED BY <1>2, <1>4, <1>5, <1>6, <2>1 DEF FieldInv
  <1>7. CASE family # "ad7701h"
    <2>1. TwoInv'
      BY <1>1 DEF TwoInv, Placed, Knows, Reads, Armed, Looking
    <2> QED BY <1>2, <1>4, <1>5, <1>7, <2>1 DEF FieldInv
  <1> QED BY <1>6, <1>7

\* A disc exchanged or ejected and a drive unplugged or plugged in are moves of the world.
LEMMA WorldMoves ==
  ASSUME FieldInv, Source!ChangeDisc \/ Source!Unplug \/ Source!Plug \/ Source!Gp08Eject, UNCHANGED family
  PROVE  MovedOn /\ UNCHANGED <<pc, context>>
  <1> USE FieldConstants
  <1>1. opened \in DriveStates /\ history \in Source!Histories /\ Gone(opened, history) /\ UNCHANGED <<pc, context>>
    BY DEF FieldInv, Source!FieldTypeOK, DriveStates, Source!ChangeDisc, Source!Unplug, Source!Plug, Source!Gp08Eject
  <1>2. \A d \in Source!Discs : Source!Stock(d) \in [Source!Fields -> Source!Values] /\ Cold(Source!Stock(d))
    BY StockAndLive
  <1>3. ASSUME opened.changes < MaxChanges
        PROVE  opened.changes + 1 \in 0 .. MaxChanges
    BY <1>1, <1>3 DEF DriveStates
  <1> HIDE FieldConstants
  <1>4. CASE UNCHANGED history /\ opened.changes < MaxChanges
             /\ opened' = [opened EXCEPT !.disc = None, !.changes = @ + 1]
    <2>1. opened' \in DriveStates /\ opened'.memory = opened.memory /\ opened'.disc = None
          /\ opened'.attached = opened.attached /\ opened'.answers = opened.answers
      BY <1>1, <1>3, <1>4 DEF DriveStates
    <2> QED BY <1>1, <1>4, <2>1 DEF MovedOn, Gone, Landed
  <1>5. ASSUME NEW d \in Source!Discs, NEW c \in BOOLEAN, opened.changes < MaxChanges, opened.attached,
               opened' = [opened EXCEPT !.disc = d, !.changes = @ + 1, !.memory = IF c THEN Source!Stock(d) ELSE @],
               history' = [history EXCEPT !.stale = TRUE,
                             !.wrote = IF opened'.memory # opened.memory THEN {} ELSE @]
        PROVE  MovedOn
    <2>1. opened' \in DriveStates /\ (opened'.memory = opened.memory \/ opened'.memory = Source!Stock(d)) /\ opened'.attached
      BY <1>1, <1>2, <1>3, <1>5 DEF DriveStates
    <2>2. history' \in Source!Histories /\ history'.stale
          /\ history'.gaveup = history.gaveup /\ history'.delivered = history.delivered
          /\ history'.killed = history.killed
          /\ history'.wrote = IF opened'.memory # opened.memory THEN {} ELSE history.wrote
      BY <1>1, <1>5 DEF Source!Histories
    <2> QED BY <1>1, <1>2, <2>1, <2>2 DEF MovedOn, Gone
  <1>6. CASE Source!Unplug
    <2> DEFINE d == IF opened.disc = None THEN "foreign" ELSE opened.disc
    <2>1. d \in Source!Discs
      BY <1>1, FieldConstants DEF DriveStates
    <2>2. opened' = [opened EXCEPT !.attached = FALSE, !.answers = FALSE, !.changes = @ + 1, !.memory = Source!Stock(d)]
          /\ history' = [history EXCEPT !.stale = TRUE, !.wrote = {}] /\ opened.changes < MaxChanges
      BY <1>6 DEF Source!Unplug
    <2> HIDE DEF d
    <2>3. opened' \in DriveStates /\ opened'.memory = Source!Stock(d) /\ ~opened'.answers
      BY <1>1, <1>2, <1>3, <2>1, <2>2 DEF DriveStates
    <2>4. history' \in Source!Histories /\ history'.stale /\ history'.wrote = {}
          /\ history'.gaveup = history.gaveup /\ history'.delivered = history.delivered
          /\ history'.killed = history.killed
      BY <1>1, <2>2 DEF Source!Histories
    <2>5. Gone(opened', history')
      BY <2>3, <2>4, NothingOwed DEF Gone
    <2> QED BY <1>1, <1>2, <2>1, <2>3, <2>4, <2>5 DEF MovedOn
  <1>7. CASE Source!Plug
    <2>1. opened' \in DriveStates /\ opened'.memory = opened.memory /\ opened'.disc = opened.disc /\ opened'.attached
          /\ UNCHANGED history
      BY <1>1, <1>7 DEF DriveStates, Source!Plug
    <2> QED BY <1>1, <2>1 DEF MovedOn, Gone
  <1>8. CASE Source!ChangeDisc
    BY <1>4, <1>5, <1>8 DEF Source!ChangeDisc
  <1>9. CASE Source!Gp08Eject
    BY <1>4, <1>9 DEF Source!Gp08Eject
  <1> QED BY <1>1, <1>6, <1>7, <1>8, <1>9

\* The process killed at any place.
LEMMA KillKeeps ==
  ASSUME FieldInv, Source!Kill, UNCHANGED family
  PROVE  FieldInv'
  <1>1. history' \in Source!Histories /\ history'.wrote = {} /\ history'.delivered = "nothing"
    BY DEF Source!Kill, Source!NoHistory, Source!Histories
  <1> QED BY <1>1, ClosedKeeps DEF Source!Kill, Source!Then

\* All that the world does.
LEMMA FieldWorldKeeps ==
  ASSUME FieldInv, Source!FieldWorld, UNCHANGED family
  PROVE  FieldInv'
  BY WorldMoves, MovedKeeps, KillKeeps DEF Source!FieldWorld

\* A bus reset.
LEMMA ResetsMove ==
  ASSUME FieldInv, Source!Resets
  PROVE  MovedOn
  <1>1. opened \in DriveStates /\ history \in Source!Histories /\ Gone(opened, history)
    BY DEF FieldInv, Source!FieldTypeOK, DriveStates
  <1>2. PICK m \in {opened.memory} \cup {Source!Stock(d) : d \in {opened.disc} \ {None}}, a \in {opened.answers, opened.attached} :
          opened' = [opened EXCEPT !.memory = IF opened.attached THEN m ELSE @, !.answers = a]
    BY DEF Source!Resets
  <1>3. m \in [Source!Fields -> Source!Values] /\ (m = opened.memory \/ Cold(m))
    <2>1. CASE m = opened.memory
      BY <1>1, <2>1 DEF DriveStates
    <2>2. CASE m = Source!Stock(opened.disc) /\ opened.disc \in Source!Discs
      BY <2>2, StockAndLive
    <2> QED BY <1>1, <2>1, <2>2 DEF DriveStates
  <1>4. /\ opened' \in DriveStates /\ opened'.disc = opened.disc /\ opened'.attached = opened.attached
        /\ opened'.memory = opened.memory \/ (opened.attached /\ Cold(opened'.memory))
        /\ opened'.answers \in {opened.answers, opened.attached}
    BY <1>1, <1>2, <1>3 DEF DriveStates
  <1>5. /\ history' \in Source!Histories /\ history'.gaveup = history.gaveup /\ history'.delivered = history.delivered
        /\ history'.killed = history.killed
        /\ history'.stale = (history.stale \/ opened'.memory # opened.memory)
        /\ history'.wrote = IF opened'.memory # opened.memory THEN {} ELSE history.wrote
    BY <1>1 DEF Source!Resets, Source!Histories
  <1>6. Gone(opened', history')
    BY <1>1, <1>4, <1>5 DEF Gone, Landed
  <1> QED BY <1>4, <1>5, <1>6 DEF MovedOn

\* The transport opened.
LEMMA OpenKeeps ==
  ASSUME FieldInv, Source!AsusOpen \/ Source!Gp08Open
  PROVE  KeptOpen
  <1>1. /\ family \in {"asus", "gp08"} /\ UNCHANGED family /\ pc = "closed" /\ opened.attached
        /\ pc' \in {"ready", "held"} /\ context' = [Source!NoSource EXCEPT !.task = "open"]
        /\ opened' = [opened EXCEPT !.answers = TRUE] /\ history' = Source!NoHistory
    BY DEF Source!AsusOpen, Source!Gp08Open, Source!AsusAt, Source!Gp08At, Source!Then, Source!Handle
  <1>2. opened' \in DriveStates /\ opened'.attached /\ history' \in Source!Histories /\ ~history'.killed
        /\ history'.delivered = "nothing" /\ history'.wrote = {}
    BY <1>1, TwoFacts DEF DriveStates, Source!NoHistory, Source!Histories
  <1>3. Base(context') /\ ~context'.active /\ context'.task = "open"
    <2>1. Source!NoSource \in Source!Sources /\ ~Source!NoSource.active
      BY FieldConstants DEF Source!NoSource, Source!Sources, Source!Goals, Source!Purposes, Source!Values
    <2> QED BY <1>1, <2>1 DEF Base, Source!Sources
  <1>4. Owes(context', opened'.memory, history')
    BY <1>2, NothingOwed DEF Owes
  <1>5. Arrives(pc', context', opened'.memory, history', opened'.disc)
    BY <1>1, <1>3, <1>4 DEF Arrives, Placed, Armed, Looking, Knows, KnowsWrite, Reads, Source!Places
  <1> QED BY <1>1, <1>2, <1>5, StepKeeps DEF Gone, Told

\* The drive awaited.
LEMMA ReadyKeeps ==
  ASSUME FieldInv, Source!AsusReady \/ Source!Gp08Evidence
  PROVE  KeptOpen
  <1>1. /\ family \in {"asus", "gp08"} /\ UNCHANGED <<family, opened, history>> /\ pc = "ready"
        /\ Source!TakeSnapshot(context, "select") \/ Source!AsusCleanup(context) \/ Source!Gp08Cleanup(context)
    BY DEF Source!AsusReady, Source!Gp08Evidence, Source!AsusAt, Source!Gp08At, Source!AsusSame, Source!Gp08Same
  <1>2. Base(context) /\ ~context.active /\ context.task = "open" /\ Owes(context, opened.memory, history)
    BY <1>1, TwoFacts DEF Placed
  <1>3. CASE Source!TakeSnapshot(context, "select")
    <2> DEFINE t == [context EXCEPT !.purpose = "select"]
    <2>1. pc' = "snapshot" /\ context' = t
      BY <1>3 DEF Source!TakeSnapshot, Source!Then
    <2>2. Base(t) /\ ~t.active /\ t.task = "open" /\ t.purpose = "select" /\ Owes(t, opened.memory, history)
      BY <1>2 DEF Base, Source!Sources, Source!Purposes, Owes
    <2> HIDE DEF t
    <2>3. Arrives(pc', context', opened.memory, history, opened.disc)
      BY <2>1, <2>2 DEF Arrives, Placed, Armed, Looking, Guarding, Knows, KnowsWrite, Reads, Source!Places
    <2> QED BY <1>1, <2>3, QuietKeeps
  <1>4. CASE Source!AsusCleanup(context) \/ Source!Gp08Cleanup(context)
    BY <1>1, <1>2, <1>4, CleanupArrives, QuietKeeps
  <1> QED BY <1>1, <1>3, <1>4

\* The disc compared with the profile.
LEMMA EvidenceKeeps ==
  ASSUME FieldInv, Source!AsusEvidence
  PROVE  KeptOpen
  <1>1. /\ family = "asus" /\ UNCHANGED <<family, opened, history>> /\ pc = "evidence"
        /\ Source!AsusApply(context) \/ Source!AsusCleanup(context)
    BY DEF Source!AsusEvidence, Source!AsusAt, Source!AsusSame
  <1>2. /\ Base(context) /\ context.task = "open" /\ context.media \in Profiles
        /\ Owes(context, opened.memory, history) /\ (~history.stale => AllOf(opened.memory, context.media))
    BY <1>1, TwoFacts DEF Placed, KnowsWrite
  <1>3. CASE Source!AsusApply(context)
    <2> DEFINE t == [context EXCEPT !.active = TRUE]
    <2>1. Base(t) /\ t.active /\ t.task = "open" /\ t.media = context.media
      BY <1>1, <1>2 DEF Base, Source!Sources
    <2>2. Source!StartWrites(t, "applied")
      BY <1>3 DEF Source!AsusApply
    <2> HIDE DEF t
    <2>3. Arrives(pc', context', opened.memory, history, opened.disc)
      BY <1>2, <2>1, <2>2, ActivationArrives DEF Stocked
    <2> QED BY <1>1, <2>3, QuietKeeps
  <1>4. CASE Source!AsusCleanup(context)
    BY <1>1, <1>2, <1>4, CleanupArrives, QuietKeeps
  <1> QED BY <1>1, <1>3, <1>4

\* The end of the writes of a phase.
LEMMA VerifyKeeps ==
  ASSUME FieldInv, Source!AsusVerify \/ Source!Gp08Verify
  PROVE  KeptOpen
  <1> DEFINE m == opened.memory
  <1>1. /\ family \in {"asus", "gp08"} /\ UNCHANGED <<family, opened, history>> /\ pc = "write"
        /\ \/ context.failed /\ context.purpose = "applied" /\ (Source!AsusApplyFails(context) \/ Source!Gp08ApplyFails(context))
           \/ Source!TakeSnapshot(context, context.purpose)
    BY DEF Source!AsusVerify, Source!Gp08Verify, Source!AsusAt, Source!Gp08At, Source!AsusSame, Source!Gp08Same
  <1>2. /\ Base(context) /\ context.active /\ context.media \in Profiles /\ context.purpose \in {"restored", "applied"}
        /\ Reads("write", context, m, history, opened.disc) /\ context.seen \in Source!Values
        /\ context.purpose = "applied" => context.task \in {"open", "read"}
        /\ m \in [Source!Fields -> Source!Values] /\ history.stale \in BOOLEAN
    BY <1>1, TwoFacts DEF Placed, Armed, Source!Sources
  <1>3. CASE context.failed /\ context.purpose = "applied" /\ (Source!AsusApplyFails(context) \/ Source!Gp08ApplyFails(context))
    <2>1. ASSUME context.task = "read"
          PROVE  Sound(context, m, history, opened.disc)
      <3>1. context.seen.state = "stock" /\ (~history.stale => Progress(context, m))
        BY <1>2, <1>3, <2>1 DEF Reads
      <3>2. CASE ~history.stale
        BY <1>3, <3>1, <3>2 DEF Progress, Sound
      <3>3. CASE history.stale
        <4>1. Seen(m, context)[Order[1]].state = "stock"
          BY <1>2, <3>1, FieldConstants DEF Seen
        <4>2. Source!Live(context.media)[Order[1]].state = "live"
          BY <1>2, Fieldwise, FieldConstants
        <4> QED BY <3>3, <4>1, <4>2 DEF Sound
      <3> QED BY <1>2, <3>2, <3>3
    <2>2. Arrives(pc', context', m, history, opened.disc)
      BY <1>2, <1>3, <2>1, ApplyFailsArrives
    <2> QED BY <1>1, <2>2, QuietKeeps
  <1>4. CASE Source!TakeSnapshot(context, context.purpose)
    <2>1. pc' = "snapshot" /\ context' = context
      BY <1>2, <1>4 DEF Source!TakeSnapshot, Source!Then, Base, Source!Sources
    <2>2. Placed("snapshot", context)
      BY <1>1, <1>2, TwoFacts DEF Placed, Armed, Looking, Guarding
    <2>3. Reads("snapshot", context, m, history, opened.disc)
      BY <1>2 DEF Reads, Looking
    <2>4. Arrives(pc', context', m, history, opened.disc)
      BY <1>1, <1>2, <2>1, <2>2, <2>3, TwoFacts DEF Arrives, Knows, KnowsWrite, Source!Places
    <2> QED BY <1>1, <2>4, QuietKeeps
  <1> QED BY <1>1, <1>3, <1>4

\* The live descriptor validated.
LEMMA DescriptorKeeps ==
  ASSUME FieldInv, Source!AsusDescriptor \/ Source!Gp08Descriptor
  PROVE  KeptOpen
  <1> DEFINE m == opened.memory
  <1>1. /\ family \in {"asus", "gp08"} /\ UNCHANGED <<family, opened, history>> /\ pc = "descriptor"
        /\ \/ Source!Then("live", context) /\ (IF family = "asus" THEN m = Source!Live(context.media) ELSE m = Source!Live(Source!Xgd1))
           \/ Source!BeginRestore(context, "rollback")
    BY DEF Source!AsusDescriptor, Source!Gp08Descriptor, Source!AsusAt, Source!Gp08At, Source!AsusSame, Source!Gp08Same
  <1>2. Base(context) /\ context.active /\ context.media \in Profiles /\ context.task = "open"
    BY <1>1, TwoFacts DEF Placed, Armed
  <1>3. CASE Source!Then("live", context) /\ (IF family = "asus" THEN m = Source!Live(context.media) ELSE m = Source!Live(Source!Xgd1))
    <2>1. m = Source!Live(context.media)
      BY <1>1, <1>2, <1>3 DEF Base
    <2>2. Sound(context, m, history, opened.disc)
      BY <2>1 DEF Sound, IsLive
    <2>3. Arrives(pc', context', m, history, opened.disc)
      BY <1>2, <1>3, <2>2 DEF Source!Then, Arrives, Placed, Armed, Looking, Knows, KnowsWrite, Reads, Owes, Source!Places
    <2> QED BY <1>1, <2>3, QuietKeeps
  <1>4. CASE Source!BeginRestore(context, "rollback")
    BY <1>1, <1>2, <1>4, RestoreArrives, QuietKeeps DEF Source!Goals
  <1> QED BY <1>1, <1>3, <1>4

\* A reset between two attempts at a restoration.
LEMMA ResetDriveKeeps ==
  ASSUME FieldInv, Source!AsusResetDrive \/ Source!Gp08ResetDrive
  PROVE  KeptOpen
  <1> DEFINE t == [context EXCEPT !.tries = @ + 1]
             u == [t EXCEPT !.purpose = "guard"]
  <1>1. /\ family \in {"asus", "gp08"} /\ UNCHANGED family /\ pc = "reset" /\ Source!Resets /\ Source!TakeSnapshot(t, "guard")
    BY DEF Source!AsusResetDrive, Source!Gp08ResetDrive, Source!AsusAt, Source!Gp08At
  <1>2. Base(context) /\ Placed("reset", context)
    BY <1>1, TwoFacts
  <1>3. context.active /\ context.task # "read" /\ context.tries < RestoreAttempts
    BY <1>2 DEF Placed, Armed
  <1>4. context.tries + 1 \in 0 .. RestoreAttempts + ReadAttempts
    BY <1>2, <1>3, FieldConstants DEF Base, Source!Sources
  <1>5. pc' = "snapshot" /\ context' = u
    BY <1>1 DEF Source!TakeSnapshot, Source!Then
  <1>6. /\ Base(u) /\ u.active /\ u.task = context.task /\ u.goal = context.goal /\ u.purpose = "guard"
        /\ u.media = context.media
    <2>1. Base(t) /\ t.active /\ t.task = context.task /\ t.goal = context.goal /\ t.media = context.media
      BY <1>2, <1>3, <1>4 DEF Base, Source!Sources
    <2> HIDE DEF t
    <2> QED BY <2>1 DEF Base, Source!Sources, Source!Purposes
  <1> HIDE DEF t, u
  <1>7. Placed("snapshot", u)
    BY <1>2, <1>3, <1>6 DEF Base, Placed, Armed, Looking, Guarding
  <1>8. Arrives(pc', context', opened'.memory, history', opened'.disc)
    BY <1>3, <1>5, <1>6, <1>7 DEF Arrives, Knows, KnowsWrite, Reads, Owes, Looking, Source!Places
  <1>9. MovedOn
    BY <1>1, ResetsMove
  <1>10. Told(history') /\ ~history'.killed
    BY <1>1, <1>9, TwoFacts DEF MovedOn, Told
  <1> QED BY <1>1, <1>8, <1>9, <1>10, StepKeeps DEF MovedOn

\* A read begun.
LEMMA ReadKeeps ==
  ASSUME FieldInv, Source!AsusRead \/ Source!Gp08Read
  PROVE  KeptOpen
  <1> DEFINE t == [context EXCEPT !.task = "read", !.tries = 1]
             m == opened.memory
  <1>1. /\ family \in {"asus", "gp08"} /\ UNCHANGED <<family, opened, history>> /\ pc = "live"
        /\ pc' = "reading" /\ context' = t
    BY DEF Source!AsusRead, Source!Gp08Read, Source!AsusAt, Source!Gp08At, Source!AsusSame, Source!Gp08Same, Source!Then
  <1>2. Base(context) /\ context.active /\ Sound(context, m, history, opened.disc)
    BY <1>1, TwoFacts DEF Placed, Armed, Reads
  <1>3. Base(t) /\ t.active /\ t.media = context.media /\ t.seen = context.seen /\ t.task = "read"
    BY <1>2, Sizes DEF Base, Source!Sources
  <1>4. Sound(t, m, history, opened.disc)
    BY <1>2, <1>3 DEF Sound, Seen
  <1> HIDE DEF t
  <1>5. Arrives(pc', context', m, history, opened.disc)
    BY <1>1, <1>3, <1>4 DEF Arrives, Base, Placed, Armed, Looking, Knows, KnowsWrite, Reads, Owes, Source!Places
  <1> QED BY <1>1, <1>5, QuietKeeps

\* A READ, delivered or failed.
LEMMA ReadRangeKeeps ==
  ASSUME FieldInv, Source!AsusReadRange \/ Source!Gp08ReadRange
  PROVE  KeptOpen
  <1> DEFINE m == opened.memory
  <1>1. /\ family \in {"asus", "gp08"} /\ UNCHANGED <<family, opened>> /\ pc = "reading"
        /\ \/ Source!ReadableState /\ Source!Then("live", context) /\ Source!Deliver
           \/ /\ Source!Then("live", context) \/ (context.tries < ReadAttempts /\ Source!Then("recover", context))
              /\ UNCHANGED history
    BY DEF Source!AsusReadRange, Source!Gp08ReadRange, Source!AsusAt, Source!Gp08At
  <1>2. /\ Base(context) /\ context.active /\ context.task = "read" /\ Sound(context, m, history, opened.disc)
        /\ opened \in DriveStates /\ history \in Source!Histories /\ Gone(opened, history) /\ Told(history) /\ ~history.killed
    BY <1>1, TwoFacts DEF Placed, Armed, Reads
  <1>3. ASSUME NEW h, Sound(context, m, h, opened.disc), context' = context,
               pc' = "live" \/ (context.tries < ReadAttempts /\ pc' = "recover")
        PROVE  Arrives(pc', context', m, h, opened.disc)
    BY <1>2, <1>3 DEF Arrives, Base, Placed, Armed, Looking, Knows, KnowsWrite, Reads, Owes, Source!Places
  <1>4. CASE Source!ReadableState /\ Source!Then("live", context) /\ Source!Deliver
    <2>1. /\ history' \in Source!Histories /\ history'.stale = history.stale /\ history'.wrote = history.wrote
          /\ history'.gaveup = history.gaveup /\ history'.killed = history.killed
          /\ history'.delivered = IF m = Source!Live(context.media) THEN "live"
                                  ELSE IF history.stale THEN "changed" ELSE "other"
      BY <1>2, <1>4 DEF Source!Deliver, Source!Histories
    <2>2. opened.disc # None /\ ~Cold(m)
      BY <1>4 DEF Source!ReadableState, Cold
    <2>3. Told(history')
      BY <1>2, <2>1, <2>2 DEF Told, Sound, IsLive
    <2>4. Sound(context, m, history', opened.disc)
      BY <1>2, <2>1 DEF Sound
    <2>5. Gone(opened', history') /\ ~history'.killed
      BY <1>1, <1>2, <2>1 DEF Gone, Landed
    <2> QED BY <1>1, <1>2, <1>3, <1>4, <2>1, <2>3, <2>4, <2>5, StepKeeps DEF Source!Then
  <1>5. CASE /\ Source!Then("live", context) \/ (context.tries < ReadAttempts /\ Source!Then("recover", context))
             /\ UNCHANGED history
    BY <1>1, <1>2, <1>3, <1>5, QuietKeeps DEF Source!Then
  <1> QED BY <1>1, <1>4, <1>5

\* A recovery within a read.
LEMMA RecoverKeeps ==
  ASSUME FieldInv, Source!AsusRecover \/ Source!Gp08Recover
  PROVE  KeptOpen
  <1>1. /\ family \in {"asus", "gp08"} /\ UNCHANGED family /\ pc = "recover" /\ Source!Resets
        /\ Source!NextRead(context) \/ Source!TakeSnapshot(context, "ensure")
    BY DEF Source!AsusRecover, Source!Gp08Recover, Source!AsusAt, Source!Gp08At
  <1>2. /\ Base(context) /\ context.active /\ context.task = "read" /\ context.tries < ReadAttempts
        /\ Sound(context, opened.memory, history, opened.disc) /\ Told(history) /\ ~history.killed
    BY <1>1, TwoFacts DEF Placed, Armed, Reads
  <1>3. MovedOn
    BY <1>1, ResetsMove
  <1>4. Sound(context, opened'.memory, history', opened'.disc)
    BY <1>2, <1>3, SoundMoves
  <1>5. Arrives(pc', context', opened'.memory, history', opened'.disc) => KeptOpen
    BY <1>1, <1>2, <1>3, StepKeeps DEF MovedOn, Told
  <1>6. CASE Source!TakeSnapshot(context, "ensure")
    <2> DEFINE t == [context EXCEPT !.purpose = "ensure"]
    <2>1. pc' = "snapshot" /\ context' = t
      BY <1>6 DEF Source!TakeSnapshot, Source!Then
    <2>2. /\ Base(t) /\ t.active /\ t.task = "read" /\ t.purpose = "ensure" /\ t.media = context.media
          /\ t.seen = context.seen /\ t.tries = context.tries
      BY <1>2 DEF Base, Source!Sources, Source!Purposes
    <2>3. Sound(t, opened'.memory, history', opened'.disc)
      BY <1>4, <2>2 DEF Sound, Seen
    <2> HIDE DEF t
    <2>4. Arrives(pc', context', opened'.memory, history', opened'.disc)
      BY <1>2, <2>1, <2>2, <2>3
         DEF Arrives, Base, Placed, Armed, Looking, Guarding, Knows, KnowsWrite, Reads, Owes, Source!Places
    <2> QED BY <1>5, <2>4
  <1>7. CASE Source!NextRead(context)
    BY <1>2, <1>4, <1>5, <1>7, NextReadArrives
  <1> QED BY <1>1, <1>6, <1>7

\* A close begun.
LEMMA CloseKeeps ==
  ASSUME FieldInv, Source!AsusClose \/ Source!Gp08Close
  PROVE  KeptOpen
  <1> DEFINE m == opened.memory
             t == [context EXCEPT !.task = "close"]
             u == [context EXCEPT !.active = FALSE, !.task = "close", !.goal = "close"]
             v == [context EXCEPT !.task = "close", !.goal = "close"]
  <1>1. /\ family \in {"asus", "gp08"} /\ UNCHANGED <<family, opened, history>> /\ pc \in {"live", "held"}
        /\ \/ context.active /\ Source!BeginRestore(t, "close")
           \/ ~(context.active /\ opened.attached) /\ Source!Then("release", u)
           \/ ~context.active /\ Source!Then("release", v)
    BY DEF Source!AsusClose, Source!Gp08Close, Source!AsusSame, Source!Gp08Same, Source!AsusPrepareClose, Source!Gp08PrepareClose
  <1>2. /\ Base(context) /\ Owes(context, m, history)
        /\ (~opened.attached => Landed(m, history) = {})
    BY <1>1, TwoFacts
  <1>3. /\ Base(t) /\ t.active = context.active /\ t.task = "close"
        /\ Base(u) /\ ~u.active /\ Base(v) /\ v.active = context.active
    BY <1>2 DEF Base, Source!Sources, Source!Goals
  <1> HIDE DEF t, u, v
  <1>4. CASE context.active /\ Source!BeginRestore(t, "close")
    BY <1>1, <1>3, <1>4, RestoreArrives, QuietKeeps DEF Source!Goals
  <1>5. ASSUME NEW x \in {u, v}, Source!Then("release", x), ~x.active, Landed(m, history) = {}
        PROVE  KeptOpen
    <2>1. Arrives(pc', context', m, history, opened.disc)
      BY <1>3, <1>5 DEF Source!Then, Arrives, Placed, Armed, Looking, Knows, KnowsWrite, Reads, Owes, Source!Places
    <2> QED BY <1>1, <2>1, QuietKeeps
  <1> QED BY <1>1, <1>2, <1>3, <1>4, <1>5 DEF Owes

\* A transport closed, or not.
LEMMA ReleaseKeeps ==
  ASSUME FieldInv, Source!AsusRelease \/ Source!Gp08Release
  PROVE  FieldInv'
  <1>1. /\ family \in {"asus", "gp08"} /\ UNCHANGED <<family, opened>> /\ pc = "release"
        /\ \/ pc' = "closed" /\ context' = Source!NoSource /\ history' = Source!NoHistory
           \/ pc' = "held" /\ context' = context /\ UNCHANGED history
    BY DEF Source!AsusRelease, Source!Gp08Release, Source!AsusAt, Source!Gp08At, Source!Then
  <1>2. Source!NoHistory \in Source!Histories /\ Source!NoHistory.wrote = {} /\ Source!NoHistory.delivered = "nothing"
    BY DEF Source!NoHistory, Source!Histories
  <1>3. CASE pc' = "closed" /\ context' = Source!NoSource /\ history' = Source!NoHistory
    BY <1>1, <1>2, <1>3, ClosedKeeps
  <1>4. CASE pc' = "held" /\ context' = context /\ UNCHANGED history
    <2>1. Base(context) /\ ~context.active /\ Owes(context, opened.memory, history)
      BY <1>1, TwoFacts DEF Placed
    <2>2. Arrives(pc', context', opened.memory, history, opened.disc)
      BY <1>4, <2>1 DEF Arrives, Placed, Armed, Looking, Knows, KnowsWrite, Reads, Source!Places
    <2> QED BY <1>1, <1>4, <2>2, QuietKeeps DEF KeptOpen
  <1> QED BY <1>1, <1>3, <1>4

\* A write lands or not.
LEMMA LandingIs ==
  ASSUME NEW s, s \in Source!Sources, s = context, s.media \in Profiles, s.todo \in 1 .. Len(Order), opened \in DriveStates,
         history \in Source!Histories, Gone(opened, history), NEW ok \in BOOLEAN, NEW lands \in BOOLEAN, Source!Landing(ok, lands)
  PROVE  /\ Source!NextField \in Source!Fields /\ Source!NextValue \in Source!Values /\ Source!NextValue.of = s.media
         /\ Source!NextValue.state = (IF s.purpose = "applied" THEN "live" ELSE "stock")
         /\ Source!NextField = (IF s.purpose = "applied" THEN Order[Len(Order) + 1 - s.todo] ELSE Order[s.todo])
         /\ ok => lands
         /\ opened' \in DriveStates /\ opened'.disc = opened.disc /\ opened'.attached = opened.attached
         /\ opened'.memory \in [Source!Fields -> Source!Values] /\ opened.memory \in [Source!Fields -> Source!Values]
         /\ ~lands => opened'.memory = opened.memory /\ history'.wrote = history.wrote
         /\ lands => opened'.memory = [opened.memory EXCEPT ![Source!NextField] = Source!NextValue]
         /\ lands /\ s.purpose = "applied" => history'.wrote = history.wrote \cup {Source!NextField}
         /\ lands /\ s.purpose # "applied" => history'.wrote = history.wrote \ {Source!NextField}
         /\ history' \in Source!Histories /\ history'.stale = history.stale /\ history'.gaveup = history.gaveup
         /\ history'.delivered = history.delivered /\ history'.killed = history.killed
         /\ Gone(opened', history')
  <1>1. Source!NextField \in Source!Fields
    <2>1. s.todo \in 1 .. Len(Order) /\ Len(Order) + 1 - s.todo \in 1 .. Len(Order)
      BY FieldConstants
    <2> QED BY <2>1, FieldConstants DEF Source!NextField
  <1>2. Source!NextValue \in Source!Values /\ Source!NextValue.of = s.media
        /\ Source!NextValue.state = (IF s.purpose = "applied" THEN "live" ELSE "stock")
    BY FieldConstants DEF Source!NextValue, Source!Values
  <1> DEFINE f == Source!NextField
             v == Source!NextValue
  <1>3. /\ ok => lands
        /\ lands => opened.answers
        /\ opened' = IF lands THEN [opened EXCEPT !.memory[f] = v] ELSE opened
        /\ history' = [history EXCEPT !.wrote =
             IF ~lands THEN @ ELSE IF v.state = "live" THEN @ \cup {f} ELSE @ \ {f}]
    BY DEF Source!Landing
  <1>4. Source!NextField = (IF s.purpose = "applied" THEN Order[Len(Order) + 1 - s.todo] ELSE Order[s.todo])
    BY DEF Source!NextField
  <1> HIDE DEF f, v
  <1>5. f \in Source!Fields /\ v \in Source!Values /\ v.state = (IF s.purpose = "applied" THEN "live" ELSE "stock")
    BY <1>1, <1>2 DEF f, v
  <1>6. /\ opened' \in DriveStates /\ opened'.disc = opened.disc /\ opened'.attached = opened.attached
        /\ opened'.answers = opened.answers
        /\ opened'.memory \in [Source!Fields -> Source!Values] /\ opened.memory \in [Source!Fields -> Source!Values]
        /\ ~lands => opened'.memory = opened.memory
        /\ lands => opened'.memory = [opened.memory EXCEPT ![f] = v]
    BY <1>3, <1>5 DEF DriveStates
  <1>7. /\ history' \in Source!Histories /\ history'.stale = history.stale /\ history'.gaveup = history.gaveup
        /\ history'.delivered = history.delivered /\ history'.killed = history.killed
        /\ ~lands => history'.wrote = history.wrote
        /\ lands /\ s.purpose = "applied" => history'.wrote = history.wrote \cup {f}
        /\ lands /\ s.purpose # "applied" => history'.wrote = history.wrote \ {f}
    BY <1>3, <1>5 DEF Source!Histories
  <1>8. Gone(opened', history')
    BY <1>3, <1>6, <1>7 DEF Gone, Landed
  <1> QED BY <1>1, <1>2, <1>3, <1>4, <1>6, <1>7, <1>8 DEF f, v

\* A write of an activation: one field further, or the activation has failed.
LEMMA ProgressGoesOn ==
  ASSUME NEW s, NEW t, NEW m \in [Source!Fields -> Source!Values], NEW n \in [Source!Fields -> Source!Values], s.media \in Profiles,
         s.todo \in 1 .. Len(Order), t.media = s.media, Progress(s, m), NEW f, f = Order[Len(Order) + 1 - s.todo],
         NEW ok \in BOOLEAN, NEW lands \in BOOLEAN, ok => lands,
         ~lands => n = m, lands => n = [m EXCEPT ![f] = [of |-> s.media, state |-> "live"]],
         ok => t.todo = s.todo - 1 /\ ~t.failed,
         ~ok => t.todo = 0 /\ t.failed
  PROVE  Progress(t, n)
  <1> DEFINE k == Len(Order) + 1 - s.todo
             L == Source!Live(s.media)
  <1>0. k \in 1 .. Len(Order) /\ k = Len(Order) + 1 - s.todo /\ Len(Order) \in Nat
    BY FieldConstants
  <1>1. f = Order[k] /\ f \in Source!Fields
    BY <1>0, FieldConstants
  <1>2. ~s.failed /\ (\A i \in 1 .. k - 1 : m[Order[i]] = L[Order[i]]) /\ Cold(m)
    BY <1>0 DEF Progress
  <1>3. L \in [Source!Fields -> Source!Values] /\ \A g \in Source!Fields : L[g] = [of |-> s.media, state |-> "live"]
    BY StockAndLive
  <1> HIDE DEF k, L
  <1>4. lands => \A i \in 1 .. k : n[Order[i]] = L[Order[i]]
    <2>1. SUFFICES ASSUME lands, NEW i \in 1 .. k
                   PROVE  n[Order[i]] = L[Order[i]]
      OBVIOUS
    <2>2. Order[i] \in Source!Fields /\ L[Order[i]] = [of |-> s.media, state |-> "live"]
      BY <1>0, <1>3, FieldConstants
    <2>3. CASE i = k
      BY <1>1, <2>1, <2>2, <2>3
    <2>4. CASE i # k
      <3>1. i \in 1 .. k - 1
        BY <1>0, <2>4
      <3> QED BY <1>1, <1>2, <2>1, <2>2, <3>1
    <2> QED BY <2>3, <2>4
  <1>5. lands /\ k # Len(Order) => Cold(n)
    <2>1. k # Len(Order) => Source!Capacity # f
      BY <1>0, <1>1, FieldConstants DEF Source!Capacity
    <2> QED BY <1>1, <1>2, <2>1, FieldConstants DEF Cold
  <1>6. CASE ok
    <2>1. t.todo = Len(Order) - k /\ ~t.failed /\ lands /\ t.todo \in Nat
      BY <1>0, <1>6
    <2>2. Len(Order) - t.todo = k
      BY <1>0, <2>1
    <2>3. t.todo > 0 => k # Len(Order)
      BY <1>0, <2>1
    <2> QED BY <1>4, <1>5, <2>1, <2>2, <2>3 DEF Progress, L
  <1>7. CASE ~ok
    <2>1. CASE ~lands
      BY <1>2, <1>7, <2>1 DEF Progress
    <2>2. CASE lands /\ k # Len(Order)
      BY <1>5, <1>7, <2>2 DEF Progress
    <2>3. CASE lands /\ k = Len(Order)
      <3>1. \A g \in Source!Fields : n[g] = L[g]
        BY <1>4, <2>3, FieldConstants
      <3>2. n = L
        BY <1>3, <3>1
      <3> QED BY <1>7, <3>2 DEF Progress, IsLive, L
    <2> QED BY <2>1, <2>2, <2>3
  <1> QED BY <1>6, <1>7

\* A field written.
LEMMA WriteKeeps ==
  ASSUME FieldInv, Source!AsusWrite \/ Source!Gp08Write
  PROVE  KeptOpen
  <1> DEFINE m == opened.memory
             n == opened'.memory
  <1>1. family \in {"asus", "gp08"} /\ UNCHANGED family /\ pc = "write" /\ context.todo > 0
    BY DEF Source!AsusWrite, Source!Gp08Write, Source!AsusAt, Source!Gp08At
  <1>2. PICK ok \in BOOLEAN, lands \in BOOLEAN :
          /\ Source!Landing(ok, lands)
          /\ Source!Then("write", [context EXCEPT
               !.todo = IF ok \/ context.purpose = "restored" THEN @ - 1 ELSE 0,
               !.failed = @ \/ ~ok])
    BY DEF Source!AsusWrite, Source!Gp08Write, Source!Reply
  <1> DEFINE t == [context EXCEPT !.todo = IF ok \/ context.purpose = "restored" THEN @ - 1 ELSE 0,
                                 !.failed = @ \/ ~ok]
  <1>3. /\ Base(context) /\ context \in Source!Sources /\ context.active /\ context.media \in Profiles
        /\ context.purpose \in {"restored", "applied"} /\ context.todo \in 1 .. Len(Order)
        /\ opened \in DriveStates /\ history \in Source!Histories /\ Gone(opened, history) /\ Told(history) /\ ~history.killed
        /\ Reads("write", context, m, history, opened.disc) /\ KnowsWrite("write", context, m, history)
        /\ Placed("write", context) /\ context.seen \in Source!Values
    BY <1>1, TwoFacts, FieldConstants DEF Placed, Armed, Source!Sources
  <1>4. pc' = "write" /\ context' = t
    BY <1>2 DEF Source!Then
  <1>5. /\ Base(t) /\ t.active /\ t.media = context.media /\ t.purpose = context.purpose /\ t.task = context.task
        /\ t.goal = context.goal /\ t.seen = context.seen /\ t.tries = context.tries
        /\ t.todo = (IF ok \/ context.purpose = "restored" THEN context.todo - 1 ELSE 0)
        /\ t.failed = (context.failed \/ ~ok)
    <2>1. context.todo - 1 \in 0 .. Len(Order) /\ 0 \in 0 .. Len(Order)
      BY <1>3, FieldConstants
    <2> QED BY <1>3, <2>1 DEF Base, Source!Sources
  <1> HIDE DEF t
  <1> DEFINE f == Source!NextField
             v == Source!NextValue
  <1>6. /\ f \in Source!Fields /\ v \in Source!Values /\ v.of = context.media
        /\ v.state = (IF context.purpose = "applied" THEN "live" ELSE "stock")
        /\ f = (IF context.purpose = "applied" THEN Order[Len(Order) + 1 - context.todo] ELSE Order[context.todo])
        /\ ok => lands
        /\ opened' \in DriveStates /\ opened'.disc = opened.disc
        /\ n \in [Source!Fields -> Source!Values] /\ m \in [Source!Fields -> Source!Values]
        /\ ~lands => n = m
        /\ lands => n = [m EXCEPT ![f] = v]
        /\ history' \in Source!Histories /\ history'.stale = history.stale /\ history'.gaveup = history.gaveup
        /\ history'.delivered = history.delivered /\ history'.killed = history.killed
        /\ Gone(opened', history')
    BY <1>2, <1>3, LandingIs
  <1>7. context.purpose = "applied" => v = [of |-> context.media, state |-> "live"]
    BY DEF Source!NextValue
  <1> HIDE DEF f, v
  <1>8. Placed("write", t)
    BY <1>3, <1>5 DEF Placed, Armed, Looking, Guarding
  <1>9. KnowsWrite("write", t, n, history')
    BY <1>3, <1>5, <1>6 DEF KnowsWrite, AllOf
  <1>10. ASSUME t.task = "read", t.purpose = "restored"
         PROVE  ~IsLive(n, t.media) /\ Seen(n, t) # Source!Live(t.media)
    <2>1. ~IsLive(m, context.media) /\ Seen(m, context) # Source!Live(context.media) /\ Seen(n, t) = Seen(n, context)
      BY <1>3, <1>5, <1>10 DEF Reads, Seen
    <2>2. CASE ~lands
      BY <1>5, <1>6, <2>1, <2>2
    <2>3. CASE lands
      <3>1. n[f].state = "stock" /\ Source!Live(t.media)[f].state = "live"
        BY <1>3, <1>5, <1>6, <1>10, <2>3, Fieldwise
      <3>2. CASE f = Order[1]
        <4>1. Seen(n, context) = Seen(m, context)
          BY <1>6, <2>3, <3>2 DEF Seen
        <4> QED BY <1>5, <2>1, <3>1, <4>1 DEF IsLive
      <3>3. CASE f # Order[1]
        <4>1. Seen(n, context)[f] = n[f]
          BY <1>6, <3>3 DEF Seen
        <4> QED BY <2>1, <3>1, <4>1 DEF IsLive
      <3> QED BY <3>2, <3>3
    <2> QED BY <2>2, <2>3
  <1>11. ASSUME t.task = "read", t.purpose = "applied", ~history'.stale
         PROVE  Progress(t, n)
    <2>1. Progress(context, m) /\ context.purpose = "applied"
      BY <1>3, <1>5, <1>6, <1>11 DEF Reads
    <2>2. ~context.failed
      BY <1>1, <1>3, <2>1 DEF Progress
    <2>3. /\ ok => t.todo = context.todo - 1 /\ ~t.failed
          /\ ~ok => t.todo = 0 /\ t.failed
      BY <1>5, <2>1, <2>2
    <2>4. lands => n = [m EXCEPT ![f] = [of |-> context.media, state |-> "live"]]
      BY <1>6, <1>7, <2>1
    <2>5. f = Order[Len(Order) + 1 - context.todo]
      BY <1>6, <2>1
    <2>6. t.media = context.media /\ context.media \in Profiles /\ context.todo \in 1 .. Len(Order)
      BY <1>3, <1>5
    <2>7. n \in [Source!Fields -> Source!Values] /\ m \in [Source!Fields -> Source!Values] /\ (ok => lands) /\ (~lands => n = m)
      BY <1>6
    <2>8. Progress(context, m)
      BY <2>1
    <2> HIDE DEF m, n
    <2> QED BY <2>3, <2>4, <2>5, <2>6, <2>7, <2>8, ProgressGoesOn
  <1>12. Reads("write", t, n, history', opened'.disc)
    BY <1>3, <1>5, <1>6, <1>10, <1>11 DEF Reads, Looking
  <1>13. Arrives(pc', context', n, history', opened'.disc)
    BY <1>4, <1>5, <1>8, <1>9, <1>12 DEF Arrives, Knows, Owes, Source!Places
  <1>14. Told(history') /\ ~history'.killed
    BY <1>3, <1>6 DEF Told
  <1> QED BY <1>1, <1>6, <1>13, <1>14, StepKeeps

-----------------------------------------------------------------------------
(* The steps of the source of ad7701h. *)

\* A set of numbers below a bound has a greatest.
LEMMA Greatest ==
  ASSUME NEW N \in Nat, NEW S \in SUBSET (1 .. N), S # {}
  PROVE  \E i \in S : \A j \in S : j <= i
  <1> DEFINE T == {n \in 0 .. N : N - n \in S}
  <1>1. T \subseteq Nat /\ T # {}
    <2>1. PICK i \in S : TRUE
      OBVIOUS
    <2>2. N - i \in T
      <3>1. i \in 1 .. N /\ N - (N - i) = i /\ N - i \in 0 .. N
        BY <2>1
      <3> QED BY <2>1, <3>1
    <2>3. T \subseteq Nat
      OBVIOUS
    <2> QED BY <2>2, <2>3
  <1>2. PICK t \in T : \A u \in T : ~(<<u, t>> \in OpToRel(<, Nat))
    BY <1>1, NatLessThanWellFounded, WFMin
  <1>3. ASSUME NEW j \in S
        PROVE  j <= N - t
    <2>1. j \in 1 .. N /\ N - j \in 0 .. N /\ N - (N - j) = j
      OBVIOUS
    <2>2. N - j \in T
      BY <2>1
    <2>3. ~(N - j < t)
      BY <1>1, <1>2, <2>2 DEF OpToRel
    <2> QED BY <2>1, <2>3
  <1> QED BY <1>3

AdArrives(at, s, m, h) ==
  /\ at \in Source!Places \ {"closed"} /\ s \in Source!Sources /\ AdPlaced(at, s) /\ KnowsWrite(at, s, m, h) /\ Owes(s, m, h)
  /\ at = "reading" => IsLive(m, Source!AdDisc) \/ Cold(m)
  /\ at = "rest" => Landed(m, h) = {}

\* A step of ad7701h that ends where it arrives keeps the invariant.
LEMMA AdStepKeeps ==
  ASSUME FieldInv, family = "ad7701h", UNCHANGED family, opened' \in DriveStates, history' \in Source!Histories,
         Gone(opened', history'), Told(history'), ~history'.killed,
         AdArrives(pc', context', opened'.memory, history')
  PROVE  KeptOpen
  <1>1. Source!FieldTypeOK'
    BY DEF Source!FieldTypeOK, DriveStates, AdArrives
  <1>2. KnowsWrite(pc, context, opened.memory, history)'
    BY DEF AdArrives, KnowsWrite, AllOf
  <1>3. (Owes(context, opened.memory, history) /\ Gone(opened, history) /\ Told(history) /\ Mortal(pc, history))'
    BY DEF AdArrives, Owes, Gone, Landed, Told, Mortal
  <1>4. AdInv'
    BY DEF AdArrives, AdInv, AdPlaced, Landed, IsLive, Cold, Source!AdDisc
  <1>5. pc' # "closed"
    BY DEF AdArrives
  <1> QED BY <1>1, <1>2, <1>3, <1>4, <1>5 DEF FieldInv, KeptOpen

\* What the invariant says of ad7701h, part by part.
LEMMA AdFacts ==
  ASSUME FieldInv, family = "ad7701h"
  PROVE  /\ opened \in DriveStates /\ history \in Source!Histories /\ context \in Source!Sources
         /\ opened.memory \in [Source!Fields -> Source!Values]
         /\ AdPlaced(pc, context) /\ KnowsWrite(pc, context, opened.memory, history)
         /\ Owes(context, opened.memory, history) /\ Gone(opened, history) /\ Told(history)
         /\ pc = "reading" => IsLive(opened.memory, Source!AdDisc) \/ Cold(opened.memory)
         /\ pc = "rest" => Landed(opened.memory, history) = {}
         /\ pc # "closed" => ~history.killed
         /\ Source!AdDisc \in Profiles /\ Source!AdDisc # None
  BY FieldConstants DEF FieldInv, AdInv, Source!FieldTypeOK, DriveStates, Gone, Mortal

\* A step of ad7701h that only moves the source.
LEMMA AdQuietKeeps ==
  ASSUME FieldInv, family = "ad7701h", UNCHANGED <<family, opened, history>>, pc # "closed",
         AdArrives(pc', context', opened.memory, history)
  PROVE  KeptOpen
  BY AdFacts, AdStepKeeps

\* A snapshot is begun.
LEMMA FreshIs ==
  ASSUME FieldInv, family = "ad7701h", pc # "closed", UNCHANGED opened, history' = [history EXCEPT !.stale = FALSE]
  PROVE  /\ history' \in Source!Histories /\ Gone(opened', history') /\ Told(history') /\ ~history'.killed
         /\ Landed(opened.memory, history') = Landed(opened.memory, history)
         /\ Owes(context, opened.memory, history')
  <1>1. /\ history' \in Source!Histories /\ history'.wrote = history.wrote /\ history'.killed = history.killed
        /\ history'.gaveup = history.gaveup /\ history'.delivered = history.delivered
    BY AdFacts DEF Source!Histories
  <1> QED BY <1>1, AdFacts DEF Gone, Told, Landed, Owes

\* A close restores first what is owed.
LEMMA AdPrepareCloseArrives ==
  ASSUME NEW s, s \in Source!Sources, s.active => s.media = Source!AdDisc, NEW m, NEW h, Owes(s, m, h), Source!AdPrepareClose(s)
  PROVE  AdArrives(pc', context', m, h)
  <1> DEFINE t == [s EXCEPT !.task = "close", !.failed = TRUE]
             u == [t EXCEPT !.purpose = "guard"]
  <1>1. t \in Source!Sources /\ t.active = s.active /\ t.media = s.media
    BY DEF Source!Sources
  <1>2. CASE s.active /\ Source!TakeSnapshot(t, "guard")
    <2> HIDE DEF t
    <2>1. pc' = "snapshot" /\ context' = u
      BY <1>2 DEF Source!TakeSnapshot, Source!Then
    <2>2. u \in Source!Sources /\ u.active /\ u.media = Source!AdDisc /\ u.purpose = "guard"
      BY <1>1, <1>2 DEF Source!Sources, Source!Purposes
    <2> HIDE DEF u
    <2> QED BY <2>1, <2>2 DEF AdArrives, AdPlaced, KnowsWrite, Owes, Source!Places
  <1>3. CASE ~s.active /\ Source!Then("release", t)
    <2> HIDE DEF t
    <2> QED BY <1>1, <1>3 DEF Source!Then, AdArrives, AdPlaced, KnowsWrite, Owes, Source!Places
  <1> QED BY <1>2, <1>3 DEF Source!AdPrepareClose

\* The next byte to write is one that differs, until none does.
LEMMA AdNextByteArrives ==
  ASSUME NEW s \in Source!Sources, s.active, s.media = Source!AdDisc, NEW m \in [Source!Fields -> Source!Values], NEW h \in Source!Histories,
         AllOf(m, Source!AdDisc), Source!AdNextByte(s, m)
  PROVE  AdArrives(pc', context', m, h)
  <1> DEFINE differ == {i \in 1 .. s.todo : m[Order[i]] # Source!Stock(Source!AdDisc)[Order[i]]}
             top == CHOOSE i \in differ : \A j \in differ : j <= i
             r == [s EXCEPT !.purpose = "restored", !.todo = 0]
             w == [s EXCEPT !.purpose = "restored", !.todo = top]
  <1>1. CASE m = Source!Stock(Source!AdDisc) /\ Source!Then("rest", r)
    <2>1. \A f \in Source!Fields : m[f].state # "live"
      BY <1>1, Fieldwise, FieldConstants
    <2>2. Landed(m, h) = {}
      BY <2>1 DEF Landed, Source!Histories
    <2>3. r \in Source!Sources /\ r.active /\ r.media = Source!AdDisc
      <3>1. 0 \in 0 .. Len(Order)
        BY FieldConstants
      <3> QED BY <3>1 DEF Source!Sources, Source!Purposes
    <2> HIDE DEF r
    <2> QED BY <1>1, <2>2, <2>3 DEF Source!Then, AdArrives, AdPlaced, KnowsWrite, Owes, Source!Places
  <1>2. CASE Source!Then("held", s)
    BY <1>2 DEF Source!Then, AdArrives, AdPlaced, KnowsWrite, Owes, Source!Places
  <1>3. CASE differ # {} /\ Source!Then("write", w)
    <2>1. s.todo \in Nat /\ s.todo <= Len(Order) /\ differ \in SUBSET (1 .. s.todo)
      BY FieldConstants DEF Source!Sources
    <2>2. \E i \in differ : \A j \in differ : j <= i
      BY <1>3, <2>1, Greatest
    <2>3. top \in differ
      BY <2>2
    <2>4. top \in 0 .. Len(Order)
      BY <2>1, <2>3, FieldConstants
    <2> HIDE DEF top
    <2>5. w \in Source!Sources /\ w.active /\ w.media = Source!AdDisc /\ w.purpose = "restored"
      BY <2>4 DEF Source!Sources, Source!Purposes
    <2> HIDE DEF w
    <2> QED BY <1>3, <2>5 DEF Source!Then, AdArrives, AdPlaced, KnowsWrite, Owes, Source!Places
  <1>4. \/ m = Source!Stock(Source!AdDisc) /\ Source!Then("rest", r)
        \/ Source!Then("held", s)
        \/ differ # {} /\ Source!Then("write", w)
    BY DEF Source!AdNextByte
  <1> QED BY <1>1, <1>2, <1>3, <1>4

\* The transport opened and the disc told.
LEMMA AdOpenKeeps ==
  ASSUME FieldInv, Source!AdOpen
  PROVE  KeptOpen
  <1>1. /\ family = "ad7701h" /\ UNCHANGED family /\ opened.attached
        /\ pc' = "ready" /\ context' = [Source!NoSource EXCEPT !.task = "open"]
        /\ opened' = [opened EXCEPT !.answers = TRUE] /\ history' = Source!NoHistory
    BY DEF Source!AdOpen, Source!AdAt, Source!Then, Source!Handle
  <1>2. opened' \in DriveStates /\ opened'.attached /\ history' \in Source!Histories /\ ~history'.killed
        /\ history'.delivered = "nothing" /\ history'.wrote = {}
    BY <1>1, AdFacts DEF DriveStates, Source!NoHistory, Source!Histories
  <1>3. context' \in Source!Sources /\ ~context'.active
    <2>1. Source!NoSource \in Source!Sources /\ ~Source!NoSource.active
      BY FieldConstants DEF Source!NoSource, Source!Sources, Source!Goals, Source!Purposes, Source!Values
    <2> QED BY <1>1, <2>1 DEF Source!Sources
  <1>4. Owes(context', opened'.memory, history')
    BY <1>2, NothingOwed DEF Owes
  <1>5. AdArrives(pc', context', opened'.memory, history')
    BY <1>1, <1>3, <1>4 DEF AdArrives, AdPlaced, KnowsWrite, Source!Places
  <1> QED BY <1>1, <1>2, <1>5, AdStepKeeps DEF Gone, Told

\* The drive initialized.
LEMMA AdInitializeKeeps ==
  ASSUME FieldInv, Source!AdInitialize
  PROVE  KeptOpen
  <1> DEFINE t == [context EXCEPT !.media = Source!AdDisc]
             u == [t EXCEPT !.purpose = "applied"]
  <1>1. /\ family = "ad7701h" /\ pc = "ready" /\ UNCHANGED <<family, opened, history>>
        /\ Source!TakeSnapshot(t, "applied") \/ Source!AdPrepareClose(context)
    BY DEF Source!AdInitialize, Source!AdAt, Source!AdSame
  <1>2. context \in Source!Sources /\ ~context.active /\ Owes(context, opened.memory, history) /\ Source!AdDisc \in Profiles
    BY <1>1, AdFacts DEF AdPlaced
  <1>3. CASE Source!TakeSnapshot(t, "applied")
    <2>1. t \in Source!Sources /\ ~t.active /\ t.media = Source!AdDisc
      BY <1>2 DEF Source!Sources
    <2> HIDE DEF t
    <2>2. pc' = "snapshot" /\ context' = u
      BY <1>3 DEF Source!TakeSnapshot, Source!Then
    <2>3. u \in Source!Sources /\ ~u.active /\ u.media = Source!AdDisc /\ u.purpose = "applied"
      BY <2>1 DEF Source!Sources, Source!Purposes
    <2> HIDE DEF u
    <2>4. AdArrives(pc', context', opened.memory, history)
      BY <1>2, <2>2, <2>3 DEF AdArrives, AdPlaced, KnowsWrite, Owes, Source!Places
    <2> QED BY <1>1, <2>4, AdQuietKeeps
  <1>4. CASE Source!AdPrepareClose(context)
    <2>1. AdArrives(pc', context', opened.memory, history)
      BY <1>2, <1>4, AdPrepareCloseArrives
    <2> QED BY <1>1, <2>1, AdQuietKeeps
  <1> QED BY <1>1, <1>3, <1>4

\* The activation armed.
LEMMA AdActivateKeeps ==
  ASSUME FieldInv, Source!AdActivate
  PROVE  KeptOpen
  <1> DEFINE t == [context EXCEPT !.active = TRUE, !.todo = Len(Order)]
  <1>1. /\ family = "ad7701h" /\ pc = "snapshot" /\ context.purpose = "applied" /\ UNCHANGED <<family, opened>>
        /\ history' = [history EXCEPT !.stale = FALSE]
        /\ \/ opened.memory = Source!Stock(Source!AdDisc) /\ Source!Then("write", t)
           \/ Source!AdPrepareClose(context)
    BY DEF Source!AdActivate, Source!AdAt
  <1>2. context \in Source!Sources /\ context.media = Source!AdDisc /\ Source!AdDisc \in Source!Discs
    BY <1>1, AdFacts, FieldConstants DEF AdPlaced
  <1>3. /\ history' \in Source!Histories /\ Gone(opened', history') /\ Told(history') /\ ~history'.killed
        /\ Owes(context, opened.memory, history')
    BY <1>1, FreshIs
  <1>4. CASE opened.memory = Source!Stock(Source!AdDisc) /\ Source!Then("write", t)
    <2>1. t \in Source!Sources /\ t.active /\ t.media = Source!AdDisc /\ t.purpose = "applied"
      BY <1>1, <1>2, Sizes DEF Source!Sources
    <2>2. AllOf(opened.memory, Source!AdDisc)
      BY <1>2, <1>4, StockAndLive
    <2> HIDE DEF t
    <2>3. AdArrives(pc', context', opened.memory, history')
      BY <1>4, <2>1, <2>2 DEF Source!Then, AdArrives, AdPlaced, KnowsWrite, Owes, Source!Places
    <2> QED BY <1>1, <1>3, <2>3, AdStepKeeps, AdFacts
  <1>5. CASE Source!AdPrepareClose(context)
    <2>1. AdArrives(pc', context', opened.memory, history')
      BY <1>2, <1>3, <1>5, AdPrepareCloseArrives
    <2> QED BY <1>1, <1>3, <2>1, AdStepKeeps, AdFacts
  <1> QED BY <1>1, <1>4, <1>5

\* A byte written, and its verification.
LEMMA AdWriteKeeps ==
  ASSUME FieldInv, Source!AdWrite
  PROVE  KeptOpen
  <1> DEFINE s == context
             n == opened'.memory
             d == [s EXCEPT !.todo = 0]
             w == [s EXCEPT !.todo = @ - 1]
  <1>1. family = "ad7701h" /\ pc = "write" /\ s.todo > 0 /\ UNCHANGED family
    BY DEF Source!AdWrite, Source!AdAt
  <1>2. /\ s \in Source!Sources /\ s.active /\ s.media = Source!AdDisc /\ s.media \in Profiles /\ s.purpose \in {"applied", "restored"}
        /\ s.todo \in 1 .. Len(Order) /\ opened \in DriveStates /\ history \in Source!Histories /\ Gone(opened, history)
        /\ Told(history) /\ ~history.killed /\ (~history.stale => AllOf(opened.memory, Source!AdDisc))
    BY <1>1, AdFacts, FieldConstants DEF AdPlaced, Source!Sources, KnowsWrite
  <1>3. PICK ok \in BOOLEAN, lands \in BOOLEAN :
          /\ Source!Landing(ok, lands)
          /\ \E read \in BOOLEAN :
               LET verified == /\ ok /\ read /\ Source!AdKnown(n)
                               /\ n[Source!NextField] = Source!NextValue
               IN  CASE s.purpose = "applied" ->
                          IF ok /\ read /\ n = Source!AdExpected(s.todo - 1)
                          THEN IF s.todo = 1 THEN Source!Then("descriptor", d)
                               ELSE Source!Then("write", w)
                          ELSE Source!AdPrepareClose(s)
                     [] s.purpose = "restored" /\ verified -> Source!AdNextByte(s, n)
                     [] OTHER -> Source!Then("held", s)
    BY DEF Source!AdWrite, Source!Reply
  <1>4. /\ Source!NextField \in Source!Fields /\ Source!NextValue.of = s.media
        /\ opened' \in DriveStates
        /\ n \in [Source!Fields -> Source!Values] /\ opened.memory \in [Source!Fields -> Source!Values]
        /\ ~lands => n = opened.memory
        /\ lands => n = [opened.memory EXCEPT ![Source!NextField] = Source!NextValue]
        /\ history' \in Source!Histories /\ history'.stale = history.stale /\ history'.gaveup = history.gaveup
        /\ history'.delivered = history.delivered /\ history'.killed = history.killed
        /\ Gone(opened', history')
    BY <1>2, <1>3, LandingIs
  <1>5. ~history'.stale => AllOf(n, Source!AdDisc)
    BY <1>2, <1>4 DEF AllOf
  <1>6. Told(history') /\ ~history'.killed
    BY <1>2, <1>4 DEF Told
  <1>7. \/ Source!Then("descriptor", d)
        \/ s.purpose = "applied" /\ Source!Then("write", w)
        \/ Source!AdPrepareClose(s)
        \/ AllOf(n, Source!AdDisc) /\ Source!AdNextByte(s, n)
        \/ Source!Then("held", s)
    BY <1>3, Zenon DEF Source!AdKnown, AllOf
  <1>8. AdArrives(pc', context', n, history')
    <2>1. CASE Source!Then("descriptor", d)
      <3>1. d \in Source!Sources /\ d.active /\ d.media = Source!AdDisc
        BY <1>2, FieldConstants DEF Source!Sources
      <3> HIDE DEF d
      <3> QED BY <2>1, <3>1 DEF Source!Then, AdArrives, AdPlaced, KnowsWrite, Owes, Source!Places
    <2>2. CASE s.purpose = "applied" /\ Source!Then("write", w)
      <3>1. s.todo - 1 \in 0 .. Len(Order)
        BY <1>2, FieldConstants
      <3>2. w \in Source!Sources /\ w.active /\ w.media = Source!AdDisc /\ w.purpose = "applied"
        BY <1>2, <2>2, <3>1 DEF Source!Sources
      <3> HIDE DEF w
      <3> QED BY <1>5, <2>2, <3>2 DEF Source!Then, AdArrives, AdPlaced, KnowsWrite, Owes, Source!Places
    <2>3. CASE Source!AdPrepareClose(s)
      <3>1. Owes(s, n, history')
        BY <1>2 DEF Owes
      <3> QED BY <1>2, <2>3, <3>1, AdPrepareCloseArrives
    <2>4. CASE AllOf(n, Source!AdDisc) /\ Source!AdNextByte(s, n)
      BY <1>2, <1>4, <2>4, AdNextByteArrives
    <2>5. CASE Source!Then("held", s)
      BY <1>2, <2>5 DEF Source!Then, AdArrives, AdPlaced, KnowsWrite, Owes, Source!Places
    <2> QED BY <1>7, <2>1, <2>2, <2>3, <2>4, <2>5
  <1> QED BY <1>1, <1>4, <1>6, <1>8, AdStepKeeps

\* The descriptor validated; a close begun.
LEMMA AdDescriptorKeeps ==
  ASSUME FieldInv, Source!AdDescriptor \/ Source!AdClose
  PROVE  KeptOpen
  <1>1. /\ family = "ad7701h" /\ pc \in {"descriptor", "live", "held"} /\ UNCHANGED <<family, opened, history>>
        /\ (pc = "descriptor" /\ Source!Then("live", context)) \/ Source!AdPrepareClose(context)
    BY DEF Source!AdDescriptor, Source!AdClose, Source!AdAt, Source!AdSame
  <1>2. context \in Source!Sources /\ (context.active => context.media = Source!AdDisc) /\ Owes(context, opened.memory, history)
        /\ (pc = "descriptor" => context.active)
    BY <1>1, AdFacts DEF AdPlaced
  <1>3. CASE pc = "descriptor" /\ Source!Then("live", context)
    BY <1>1, <1>2, <1>3, AdQuietKeeps DEF Source!Then, AdArrives, AdPlaced, KnowsWrite, Source!Places
  <1>4. CASE Source!AdPrepareClose(context)
    <2>1. AdArrives(pc', context', opened.memory, history)
      BY <1>2, <1>4, AdPrepareCloseArrives
    <2> QED BY <1>1, <2>1, AdQuietKeeps
  <1> QED BY <1>1, <1>3, <1>4

\* A read begun.
LEMMA AdReadKeeps ==
  ASSUME FieldInv, Source!AdRead
  PROVE  KeptOpen
  <1> DEFINE t == [context EXCEPT !.task = "read"]
             u == [context EXCEPT !.failed = TRUE]
  <1>1. /\ family = "ad7701h" /\ pc = "live" /\ UNCHANGED <<family, opened, history>>
        /\ \/ opened.memory = Source!Live(Source!AdDisc) /\ Source!Then("reading", t)
           \/ Source!Then("live", u)
    BY DEF Source!AdRead, Source!AdAt, Source!AdSame
  <1>2. context \in Source!Sources /\ context.active /\ context.media = Source!AdDisc
    BY <1>1, AdFacts DEF AdPlaced
  <1>3. t \in Source!Sources /\ t.active /\ t.media = Source!AdDisc /\ u \in Source!Sources /\ u.active /\ u.media = Source!AdDisc
    BY <1>2 DEF Source!Sources
  <1> HIDE DEF t, u
  <1>4. AdArrives(pc', context', opened.memory, history)
    BY <1>1, <1>3 DEF Source!Then, AdArrives, AdPlaced, KnowsWrite, Owes, IsLive, Source!Places
  <1> QED BY <1>1, <1>4, AdQuietKeeps

\* A READ, delivered or failed.
LEMMA AdReadGameKeeps ==
  ASSUME FieldInv, Source!AdReadGame
  PROVE  KeptOpen
  <1> DEFINE u == [context EXCEPT !.failed = TRUE]
             m == opened.memory
  <1>1. /\ family = "ad7701h" /\ pc = "reading" /\ UNCHANGED <<family, opened>>
        /\ \/ Source!ReadableState /\ Source!Deliver /\ (Source!Then("reading", context) \/ Source!Then("live", context))
           \/ Source!Then("live", u) /\ UNCHANGED history
    BY DEF Source!AdReadGame, Source!AdAt
  <1>2. /\ context \in Source!Sources /\ context.active /\ context.media = Source!AdDisc /\ (IsLive(m, Source!AdDisc) \/ Cold(m))
        /\ opened \in DriveStates /\ history \in Source!Histories /\ Gone(opened, history) /\ Told(history) /\ ~history.killed
    BY <1>1, AdFacts DEF AdPlaced
  <1>3. CASE Source!ReadableState /\ Source!Deliver /\ (Source!Then("reading", context) \/ Source!Then("live", context))
    <2>1. m = Source!Live(context.media)
      BY <1>2, <1>3 DEF Source!ReadableState, Cold, IsLive
    <2>2. /\ history' \in Source!Histories /\ history'.wrote = history.wrote /\ history'.killed = history.killed
          /\ history'.delivered = "live"
      BY <1>2, <1>3, <2>1 DEF Source!Deliver, Source!Histories
    <2>3. Gone(opened', history') /\ Told(history') /\ ~history'.killed
      BY <1>1, <1>2, <2>2 DEF Gone, Landed, Told
    <2>4. AdArrives(pc', context', m, history')
      BY <1>2, <1>3 DEF Source!Then, AdArrives, AdPlaced, KnowsWrite, Owes, Source!Places
    <2> QED BY <1>1, <1>2, <2>2, <2>3, <2>4, AdStepKeeps
  <1>4. CASE Source!Then("live", u) /\ UNCHANGED history
    <2>1. u \in Source!Sources /\ u.active /\ u.media = Source!AdDisc
      BY <1>2 DEF Source!Sources
    <2> HIDE DEF u
    <2>2. AdArrives(pc', context', m, history)
      BY <1>4, <2>1 DEF Source!Then, AdArrives, AdPlaced, KnowsWrite, Owes, Source!Places
    <2> QED BY <1>1, <1>4, <2>2, AdQuietKeeps
  <1> QED BY <1>1, <1>3, <1>4

\* A byte put back.
LEMMA AdRestoreKeeps ==
  ASSUME FieldInv, Source!AdRestore
  PROVE  KeptOpen
  <1> DEFINE t == [context EXCEPT !.todo = Len(Order)]
             m == opened.memory
  <1>1. /\ family = "ad7701h" /\ pc = "snapshot" /\ context.purpose = "guard" /\ UNCHANGED <<family, opened>>
        /\ history' = [history EXCEPT !.stale = FALSE]
        /\ \/ Source!AdKnown(m) /\ Source!AdNextByte(t, m)
           \/ Source!Then("held", context)
    BY DEF Source!AdRestore, Source!AdAt
  <1>2. context \in Source!Sources /\ context.media = Source!AdDisc /\ context.active /\ m \in [Source!Fields -> Source!Values]
    BY <1>1, AdFacts DEF AdPlaced
  <1>3. history' \in Source!Histories /\ Gone(opened', history') /\ Told(history') /\ ~history'.killed
    BY <1>1, FreshIs
  <1>4. t \in Source!Sources /\ t.active /\ t.media = Source!AdDisc
    BY <1>2, Sizes DEF Source!Sources
  <1> HIDE DEF t
  <1>5. AdArrives(pc', context', m, history')
    <2>1. CASE Source!AdKnown(m) /\ Source!AdNextByte(t, m)
      <3>1. AllOf(m, Source!AdDisc)
        BY <2>1 DEF Source!AdKnown, AllOf
      <3> QED BY <1>2, <1>3, <1>4, <2>1, <3>1, AdNextByteArrives
    <2>2. CASE Source!Then("held", context)
      BY <1>2, <2>2 DEF Source!Then, AdArrives, AdPlaced, KnowsWrite, Owes, Source!Places
    <2> QED BY <1>1, <2>1, <2>2
  <1> QED BY <1>1, <1>3, <1>5, AdStepKeeps, AdFacts

\* The restoration verified, or not.
LEMMA AdRestoredKeeps ==
  ASSUME FieldInv, Source!AdRestored
  PROVE  KeptOpen
  <1> DEFINE t == [context EXCEPT !.active = FALSE]
  <1>1. /\ family = "ad7701h" /\ pc = "rest" /\ UNCHANGED <<family, opened, history>>
        /\ Source!Then("release", t) \/ Source!Then("held", context)
    BY DEF Source!AdRestored, Source!AdAt, Source!AdSame
  <1>2. context \in Source!Sources /\ context.media = Source!AdDisc /\ context.active /\ Landed(opened.memory, history) = {}
    BY <1>1, AdFacts DEF AdPlaced
  <1>3. t \in Source!Sources /\ ~t.active
    BY <1>2 DEF Source!Sources
  <1> HIDE DEF t
  <1>4. AdArrives(pc', context', opened.memory, history)
    BY <1>1, <1>2, <1>3 DEF Source!Then, AdArrives, AdPlaced, KnowsWrite, Owes, Source!Places
  <1> QED BY <1>1, <1>4, AdQuietKeeps

\* The transport closed, or not.
LEMMA AdReleaseKeeps ==
  ASSUME FieldInv, Source!AdRelease
  PROVE  FieldInv'
  <1>1. /\ family = "ad7701h" /\ UNCHANGED <<family, opened>> /\ pc = "release"
        /\ \/ pc' = "closed" /\ context' = Source!NoSource /\ history' = Source!NoHistory
           \/ pc' = "held" /\ context' = context /\ UNCHANGED history
    BY DEF Source!AdRelease, Source!AdAt, Source!Then
  <1>2. Source!NoHistory \in Source!Histories /\ Source!NoHistory.wrote = {} /\ Source!NoHistory.delivered = "nothing"
    BY DEF Source!NoHistory, Source!Histories
  <1>3. CASE pc' = "closed" /\ context' = Source!NoSource /\ history' = Source!NoHistory
    BY <1>1, <1>2, <1>3, ClosedKeeps
  <1>4. CASE pc' = "held" /\ context' = context /\ UNCHANGED history
    <2>1. context \in Source!Sources /\ ~context.active /\ Owes(context, opened.memory, history)
      BY <1>1, AdFacts DEF AdPlaced
    <2>2. AdArrives(pc', context', opened.memory, history)
      BY <1>4, <2>1 DEF AdArrives, AdPlaced, KnowsWrite, Source!Places
    <2> QED BY <1>1, <1>4, <2>2, AdQuietKeeps DEF KeptOpen
  <1> QED BY <1>1, <1>3, <1>4

-----------------------------------------------------------------------------
(* All steps together. *)

FieldNext == Source!AsusNext \/ Source!Gp08Next \/ Source!AdNext \/ (family # "gp63" /\ Source!FieldWorld /\ UNCHANGED family)

\* The invariant holds of a source that was not opened, whatever the drive is.
LEMMA FieldInitIs ==
  ASSUME Source!FieldInit \/ Source!FieldIdle
  PROVE  FieldInv
  <1> DEFINE Left == {Source!Stock(d) : d \in Source!Discs} \cup {Source!Live(p) : p \in Profiles}
                     \cup {[Source!Stock(p) EXCEPT ![Order[1]].state = "live"] : p \in Profiles}
  <1>0. /\ pc = "closed" /\ context = Source!NoSource /\ history = Source!NoHistory
        /\ \/ opened \in [disc : Profiles, attached : {TRUE}, answers : {FALSE}, changes : {0}, memory : Left]
           \/ opened = [disc |-> None, memory |-> Source!Stock("foreign"), attached |-> FALSE, answers |-> FALSE, changes |-> 0]
    BY DEF Source!FieldInit, Source!FieldIdle
  <1>1. Left \subseteq [Source!Fields -> Source!Values] /\ Source!Stock("foreign") \in [Source!Fields -> Source!Values]
    <2>1. "foreign" \in Source!Discs /\ Profiles \subseteq Source!Discs
      BY FieldConstants
    <2>2. ASSUME NEW p \in Profiles
          PROVE  [Source!Stock(p) EXCEPT ![Order[1]].state = "live"] \in [Source!Fields -> Source!Values]
      <3>1. Source!Stock(p) \in [Source!Fields -> Source!Values] /\ Order[1] \in Source!Fields
        BY <2>1, StockAndLive, FieldConstants
      <3>2. [Source!Stock(p)[Order[1]] EXCEPT !.state = "live"] \in Source!Values
        BY <3>1 DEF Source!Values
      <3> DEFINE f == Order[1]
                 S == Source!Stock(p)
                 v == [S[f] EXCEPT !.state = "live"]
      <3>3. [Source!Stock(p) EXCEPT ![Order[1]].state = "live"] = [S EXCEPT ![f] = v]
        OBVIOUS
      <3>4. S \in [Source!Fields -> Source!Values] /\ v \in Source!Values
        BY <3>1, <3>2
      <3> HIDE DEF S, v, f
      <3>5. [S EXCEPT ![f] = v] \in [Source!Fields -> Source!Values]
        BY <3>4
      <3> QED BY <3>3, <3>5
    <2>3. \A d \in Source!Discs : Source!Stock(d) \in [Source!Fields -> Source!Values]
      BY StockAndLive
    <2>4. \A p \in Profiles : Source!Live(p) \in [Source!Fields -> Source!Values]
      BY StockAndLive
    <2> QED BY <2>1, <2>2, <2>3, <2>4
  <1> HIDE DEF Left
  <1>2. Source!NoSource \in Source!Sources /\ ~Source!NoSource.active
    BY FieldConstants DEF Source!NoSource, Source!Sources, Source!Goals, Source!Purposes, Source!Values
  <1>3. Source!NoHistory \in Source!Histories /\ Source!NoHistory.wrote = {} /\ Source!NoHistory.delivered = "nothing" /\ ~Source!NoHistory.killed
    BY DEF Source!NoHistory, Source!Histories
  <1>4. pc = "closed" /\ context = Source!NoSource /\ history = Source!NoHistory
    BY <1>0
  <1>5. opened \in DriveStates /\ (~opened.attached => ~opened.answers)
    <2>1. CASE opened \in [disc : Profiles, attached : {TRUE}, answers : {FALSE}, changes : {0}, memory : Left]
      <3>1. \E x \in Profiles, y \in Left :
              opened = [disc |-> x, attached |-> TRUE, answers |-> FALSE, changes |-> 0, memory |-> y]
        BY <2>1
      <3>2. PICK x \in Profiles, y \in Left :
              opened = [disc |-> x, attached |-> TRUE, answers |-> FALSE, changes |-> 0, memory |-> y]
        BY <3>1
      <3>3. x \in Source!Discs \cup {None} /\ y \in [Source!Fields -> Source!Values] /\ 0 \in 0 .. MaxChanges
        BY <1>1, FieldConstants
      <3> QED BY <3>2, <3>3 DEF DriveStates
    <2>2. CASE opened = [disc |-> None, memory |-> Source!Stock("foreign"), attached |-> FALSE, answers |-> FALSE, changes |-> 0]
      <3>1. 0 \in 0 .. MaxChanges
        BY FieldConstants
      <3> QED BY <1>1, <2>2, <3>1 DEF DriveStates
    <2> QED BY <1>0, <2>1, <2>2
  <1>6. Source!FieldTypeOK
    BY <1>2, <1>3, <1>4, <1>5 DEF Source!FieldTypeOK, DriveStates, Source!Places
  <1>7. Landed(opened.memory, history) = {}
    BY <1>3, <1>4, NothingOwed
  <1>8. /\ KnowsWrite(pc, context, opened.memory, history)
        /\ Owes(context, opened.memory, history) /\ Gone(opened, history) /\ Told(history) /\ Mortal(pc, history)
    BY <1>3, <1>4, <1>5, <1>7 DEF KnowsWrite, Owes, Gone, Told, Mortal
  <1>9. AdInv /\ TwoInv
    BY <1>2, <1>4 DEF AdInv, AdPlaced, TwoInv, Placed, Knows, Reads, Armed, Looking
  <1> QED BY <1>6, <1>8, <1>9 DEF FieldInv

\* And every step of the three sources and of their world keeps it.
LEMMA FieldNextKeeps ==
  ASSUME FieldInv, FieldNext
  PROVE  FieldInv'
  <1>1. CASE Source!AsusNext
    BY <1>1, OpenKeeps, ReadyKeeps, SnapshotKeeps, EvidenceKeeps, WriteKeeps, VerifyKeeps, DescriptorKeeps,
       ResetDriveKeeps, ReadKeeps, ReadRangeKeeps, RecoverKeeps, CloseKeeps, ReleaseKeeps DEF Source!AsusNext, KeptOpen
  <1>2. CASE Source!Gp08Next
    <2>1. Source!Gp08Eject => UNCHANGED family
      BY DEF Source!Gp08Eject
    <2> QED BY <1>2, <2>1, OpenKeeps, ReadyKeeps, SnapshotKeeps, WriteKeeps, VerifyKeeps, DescriptorKeeps,
       ResetDriveKeeps, ReadKeeps, ReadRangeKeeps, RecoverKeeps, CloseKeeps, ReleaseKeeps, WorldMoves,
       MovedKeeps
       DEF Source!Gp08Next, KeptOpen
  <1>3. CASE Source!AdNext
    BY <1>3, AdOpenKeeps, AdInitializeKeeps, AdActivateKeeps, AdWriteKeeps, AdDescriptorKeeps, AdReadKeeps,
       AdReadGameKeeps, AdRestoreKeeps, AdRestoredKeeps, AdReleaseKeeps DEF Source!AdNext, KeptOpen
  <1>4. CASE Source!FieldWorld /\ UNCHANGED family
    BY <1>4, FieldWorldKeeps
  <1> QED BY <1>1, <1>2, <1>3, <1>4 DEF FieldNext

\* The promise, as far as it is about the fields.
FieldLife == CASE history.killed -> "killed" [] pc = "closed" /\ ~history.killed -> "idle" [] OTHER -> "open"
FieldChanged == {f \in history.wrote : opened.memory[f].state = "live"}
FieldOwed == IF context.active THEN Source!Fields ELSE {}
FieldLease == INSTANCE VolatileLease WITH changed <- FieldChanged, owed <- FieldOwed, life <- FieldLife

\* What a source owes covers what it changed, at every place; a closed one owes nothing.
LEMMA LeaseFacts ==
  ASSUME FieldInv
  PROVE  /\ FieldChanged \subseteq FieldOwed
         /\ FieldChanged = Landed(opened.memory, history)
         /\ pc # "closed" => ~history.killed /\ FieldLife = "open"
         /\ pc = "closed" => FieldOwed = {} /\ FieldLife \in {"idle", "killed"}
         /\ pc \in {"ready", "release"} => FieldOwed = {}
         /\ history.wrote = {} => FieldChanged = {}
  <1>1. history.wrote \subseteq Source!Fields /\ history.killed \in BOOLEAN /\ Owes(context, opened.memory, history)
        /\ (pc # "closed" => ~history.killed)
    BY DEF FieldInv, Source!FieldTypeOK, Source!Histories, Mortal
  <1>2. FieldChanged = Landed(opened.memory, history)
    BY DEF FieldChanged, Landed
  <1>3. FieldChanged \subseteq FieldOwed
    BY <1>1, <1>2 DEF Owes, FieldOwed, Landed
  <1>4. pc \in {"closed", "ready", "release"} => ~context.active
    BY DEF FieldInv, AdInv, AdPlaced, TwoInv, Placed, Source!NoSource
  <1> QED BY <1>1, <1>2, <1>3, <1>4 DEF FieldLife, FieldOwed, FieldChanged

\* Within a session: what was written is a change in one direction, or the
\* arming is.
LEMMA SessionLease ==
  ASSUME FieldInv, FieldInv', pc # "closed", pc' # "closed",
         \/ FieldChanged' = FieldChanged
         \/ FieldOwed' = FieldOwed /\ (FieldChanged \subseteq FieldChanged' \/ FieldChanged' \subseteq FieldChanged)
  PROVE  FieldLease!Next
  <1>1. FieldLife = "open" /\ FieldLife' = "open"
    <2>1. FieldLife = "open"
      BY LeaseFacts
    <2>2. ~history'.killed
      BY DEF FieldInv, Mortal
    <2> QED BY <2>1, <2>2 DEF FieldLife
  <1>2. FieldChanged' \subseteq FieldOwed'
    <2>1. history'.wrote \subseteq Source!Fields /\ Owes(context', opened'.memory, history')
      BY DEF FieldInv, Source!FieldTypeOK, Source!Histories, Owes, Landed
    <2> QED BY <2>1 DEF Owes, Landed, FieldChanged, FieldOwed
  <1>3. FieldOwed \subseteq FieldOwed' \/ FieldOwed' \subseteq FieldOwed
    BY DEF FieldOwed, Source!Fields
  <1> QED BY <1>1, <1>2, <1>3 DEF FieldLease!Next, FieldLease!Write, FieldLease!PutBack

Quiet == UNCHANGED opened /\ history'.wrote = history.wrote

\* A step that writes nothing and keeps the debt implements a stutter.
LEMMA QuietLease ==
  ASSUME FieldInv, KeptOpen, pc # "closed", Quiet
  PROVE  FieldLease!Next
  <1>1. FieldChanged' = FieldChanged
    BY DEF FieldChanged, Quiet
  <1> QED BY <1>1, SessionLease DEF KeptOpen

\* A memory lost to the world implements the lease putting it back.
LEMMA MovedLease ==
  ASSUME FieldInv, FieldInv', pc # "closed", pc' # "closed", MovedOn, context'.active = context.active
  PROVE  FieldLease!Next
  <1>1. FieldChanged' = FieldChanged \/ FieldChanged' = {}
    BY DEF FieldChanged, MovedOn
  <1>2. FieldOwed' = FieldOwed
    BY DEF FieldOwed, Source!Fields
  <1> QED BY <1>1, <1>2, SessionLease

\* A field written under a debt implements a write of the lease.
LEMMA WriteLease ==
  ASSUME FieldInv, FieldInv', pc # "closed", pc' # "closed", context'.active = context.active,
         context.media \in Profiles, context.todo > 0,
         NEW ok \in BOOLEAN, NEW lands \in BOOLEAN, Source!Landing(ok, lands)
  PROVE  FieldLease!Next
  <1>1. context \in Source!Sources /\ opened \in DriveStates /\ history \in Source!Histories /\ Gone(opened, history)
    BY DEF FieldInv, Source!FieldTypeOK, DriveStates
  <1>2. context.todo \in 1 .. Len(Order)
    BY <1>1, FieldConstants DEF Source!Sources
  <1> DEFINE f == Source!NextField
             v == Source!NextValue
             m == opened.memory
             n == opened'.memory
  <1>3. /\ f \in Source!Fields /\ m \in [Source!Fields -> Source!Values]
        /\ v.state = (IF context.purpose = "applied" THEN "live" ELSE "stock")
        /\ ~lands => n = m /\ history'.wrote = history.wrote
        /\ lands => n = [m EXCEPT ![f] = v]
        /\ lands /\ context.purpose = "applied" => history'.wrote = history.wrote \cup {f}
        /\ lands /\ context.purpose # "applied" => history'.wrote = history.wrote \ {f}
    BY <1>1, <1>2, LandingIs
  <1>4. history.wrote \subseteq Source!Fields
    BY <1>1 DEF Source!Histories
  <1> HIDE DEF f, v
  <1>5. FieldChanged \subseteq FieldChanged' \/ FieldChanged' \subseteq FieldChanged
    <2>1. CASE ~lands
      BY <1>3, <2>1 DEF FieldChanged
    <2>2. CASE lands /\ context.purpose = "applied"
      BY <1>3, <1>4, <2>2 DEF FieldChanged
    <2>3. CASE lands /\ context.purpose # "applied"
      BY <1>3, <1>4, <2>3 DEF FieldChanged
    <2> QED BY <2>1, <2>2, <2>3
  <1>6. FieldOwed' = FieldOwed
    BY DEF FieldOwed, Source!Fields
  <1> QED BY <1>5, <1>6, SessionLease

\* Where a debt stands for sure.
LEMMA SameKept ==
  ASSUME FieldInv
  PROVE  /\ context \in Source!Sources /\ history \in Source!Histories /\ opened \in DriveStates
         /\ family \in {"asus", "gp08"} /\ pc \in {"write", "recover", "reset"} => context.active /\ context.media \in Profiles
         /\ family = "ad7701h" /\ pc = "write" => context.active /\ context.media \in Profiles
  BY FieldConstants DEF FieldInv, Source!FieldTypeOK, DriveStates, TwoInv, AdInv, Placed, AdPlaced, Armed

\* Every step of asus and gp08 implements a step of the lease.
LEMMA TwoLease ==
  ASSUME FieldInv, Source!AsusNext \/ Source!Gp08Next
  PROVE  [FieldLease!Next]_<<FieldChanged, FieldOwed, FieldLife>>
  <1> DEFINE Goal == FieldLease!Next
  <1>1. CASE Source!AsusOpen \/ Source!Gp08Open
    <2>1. /\ pc = "closed" /\ pc' \in {"ready", "held"} /\ ~context'.active
          /\ history'.wrote = {} /\ ~history'.killed
      BY <1>1 DEF Source!AsusOpen, Source!Gp08Open, Source!AsusAt, Source!Gp08At, Source!Then, Source!Handle, Source!NoHistory, Source!NoSource
    <2>2. FieldChanged' = {} /\ FieldOwed' = {} /\ FieldLife' = "open"
      BY <2>1 DEF FieldChanged, FieldOwed, FieldLife
    <2> QED BY <2>1, <2>2, LeaseFacts DEF FieldLease!Next, FieldLease!Open
  <1>2. CASE \/ Source!AsusReady \/ Source!Gp08Evidence \/ Source!AsusEvidence \/ Source!AsusVerify \/ Source!Gp08Verify \/ Source!AsusDescriptor
             \/ Source!Gp08Descriptor \/ Source!AsusRead \/ Source!Gp08Read \/ Source!AsusClose \/ Source!Gp08Close
    <2>1. KeptOpen
      BY <1>2, ReadyKeeps, EvidenceKeeps, VerifyKeeps, DescriptorKeeps, ReadKeeps, CloseKeeps
    <2>2. Quiet /\ pc # "closed"
      BY <1>2 DEF Source!AsusReady, Source!Gp08Evidence, Source!AsusEvidence, Source!AsusVerify, Source!Gp08Verify, Source!AsusDescriptor,
                  Source!Gp08Descriptor, Source!AsusRead, Source!Gp08Read, Source!AsusClose, Source!Gp08Close, Source!AsusSame, Source!Gp08Same, Source!AsusAt, Source!Gp08At, Quiet
    <2> QED BY <2>1, <2>2, QuietLease
  <1>3. CASE Source!AsusSnapshot \/ Source!Gp08Snapshot
    <2>1. KeptOpen /\ pc # "closed" /\ UNCHANGED opened
      BY <1>3, SnapshotKeeps DEF Source!AsusSnapshot, Source!Gp08Snapshot, Source!Snapshot
    <2>2. \E g : \/ history' = [history EXCEPT !.stale = FALSE, !.gaveup = g]
                 \/ history' = [history EXCEPT !.gaveup = g]
      BY <1>3 DEF Source!AsusSnapshot, Source!Gp08Snapshot, Source!Snapshot
    <2>3. history'.wrote = history.wrote
      BY <2>2, SameKept DEF Source!Histories
    <2> QED BY <2>1, <2>3, QuietLease DEF Quiet
  <1>4. CASE Source!AsusWrite \/ Source!Gp08Write
    <2>1. KeptOpen /\ pc = "write" /\ context.todo > 0 /\ family \in {"asus", "gp08"}
      BY <1>4, WriteKeeps DEF Source!AsusWrite, Source!Gp08Write, Source!AsusAt, Source!Gp08At
    <2>2. PICK ok \in BOOLEAN, lands \in BOOLEAN :
            /\ Source!Landing(ok, lands)
            /\ Source!Then("write", [context EXCEPT
                 !.todo = IF ok \/ context.purpose = "restored" THEN @ - 1 ELSE 0,
                 !.failed = @ \/ ~ok])
      BY <1>4 DEF Source!AsusWrite, Source!Gp08Write, Source!Reply
    <2>3. context'.active = context.active /\ context.media \in Profiles
      BY <2>1, <2>2, SameKept DEF Source!Then, Source!Sources
    <2> QED BY <2>1, <2>2, <2>3, WriteLease DEF KeptOpen
  <1>5. CASE Source!AsusResetDrive \/ Source!Gp08ResetDrive
    <2>1. KeptOpen /\ pc = "reset" /\ Source!Resets /\ Source!TakeSnapshot([context EXCEPT !.tries = @ + 1], "guard")
      BY <1>5, ResetDriveKeeps DEF Source!AsusResetDrive, Source!Gp08ResetDrive, Source!AsusAt, Source!Gp08At
    <2>2. context'.active = context.active
      BY <2>1, SameKept DEF Source!TakeSnapshot, Source!Then, Source!Sources
    <2> QED BY <2>1, <2>2, ResetsMove, MovedLease DEF KeptOpen
  <1>6. CASE Source!AsusRecover \/ Source!Gp08Recover
    <2>1. KeptOpen /\ pc = "recover" /\ Source!Resets /\ (Source!NextRead(context) \/ Source!TakeSnapshot(context, "ensure"))
      BY <1>6, RecoverKeeps DEF Source!AsusRecover, Source!Gp08Recover, Source!AsusAt, Source!Gp08At
    <2>2. context'.active = context.active
      BY <2>1, SameKept DEF Source!NextRead, Source!TakeSnapshot, Source!Then, Source!Sources
    <2> QED BY <2>1, <2>2, ResetsMove, MovedLease DEF KeptOpen
  <1>7. CASE Source!AsusReadRange \/ Source!Gp08ReadRange
    <2>1. KeptOpen /\ pc # "closed" /\ UNCHANGED opened /\ (UNCHANGED history \/ Source!Deliver)
      BY <1>7, ReadRangeKeeps DEF Source!AsusReadRange, Source!Gp08ReadRange, Source!AsusAt, Source!Gp08At
    <2>2. history'.wrote = history.wrote
      BY <2>1, SameKept DEF Source!Deliver, Source!Histories
    <2> QED BY <2>1, <2>2, QuietLease DEF Quiet
  <1>8. CASE Source!AsusRelease \/ Source!Gp08Release
    <2>1. /\ pc = "release" /\ UNCHANGED opened
          /\ \/ pc' = "closed" /\ context' = Source!NoSource /\ history' = Source!NoHistory
             \/ pc' = "held" /\ UNCHANGED history
      BY <1>8 DEF Source!AsusRelease, Source!Gp08Release, Source!AsusAt, Source!Gp08At, Source!Then
    <2>2. CASE pc' = "closed" /\ context' = Source!NoSource /\ history' = Source!NoHistory
      <3>1. FieldChanged' = {} /\ FieldOwed' = {} /\ FieldLife' = "idle"
        BY <2>2 DEF FieldChanged, FieldOwed, FieldLife, Source!NoHistory, Source!NoSource
      <3>2. FieldChanged = {} /\ FieldOwed = {} /\ FieldLife = "open"
        BY <2>1, LeaseFacts
      <3> QED BY <3>1, <3>2 DEF FieldLease!Next, FieldLease!Release
    <2>3. CASE pc' = "held" /\ UNCHANGED history
      <3>1. FieldInv'
        BY <1>8, ReleaseKeeps
      <3> QED BY <2>1, <2>3, <3>1, QuietLease DEF Quiet, KeptOpen
    <2> QED BY <2>1, <2>2, <2>3
  <1>9. CASE Source!Gp08Eject
    <2>1. UNCHANGED <<pc, context, history>> /\ opened'.memory = opened.memory
      BY <1>9, SameKept DEF Source!Gp08Eject, DriveStates
    <2> QED BY <2>1 DEF FieldChanged, FieldOwed, FieldLife, Source!Fields
  <1> QED BY <1>1, <1>2, <1>3, <1>4, <1>5, <1>6, <1>7, <1>8, <1>9 DEF Source!AsusNext, Source!Gp08Next

\* So does every step of ad7701h.
LEMMA AdLease ==
  ASSUME FieldInv, Source!AdNext
  PROVE  [FieldLease!Next]_<<FieldChanged, FieldOwed, FieldLife>>
  <1>1. CASE Source!AdOpen
    <2>1. /\ pc = "closed" /\ pc' = "ready" /\ ~context'.active
          /\ history'.wrote = {} /\ ~history'.killed
      BY <1>1 DEF Source!AdOpen, Source!AdAt, Source!Then, Source!Handle, Source!NoHistory, Source!NoSource
    <2>2. FieldChanged' = {} /\ FieldOwed' = {} /\ FieldLife' = "open"
      BY <2>1 DEF FieldChanged, FieldOwed, FieldLife
    <2> QED BY <2>1, <2>2, LeaseFacts DEF FieldLease!Next, FieldLease!Open
  <1>2. CASE Source!AdInitialize \/ Source!AdDescriptor \/ Source!AdRead \/ Source!AdClose \/ Source!AdRestored
    <2>1. KeptOpen
      BY <1>2, AdInitializeKeeps, AdDescriptorKeeps, AdReadKeeps, AdRestoredKeeps
    <2>2. Quiet /\ pc # "closed"
      BY <1>2 DEF Source!AdInitialize, Source!AdDescriptor, Source!AdRead, Source!AdClose, Source!AdRestored, Source!AdSame, Source!AdAt, Quiet
    <2> QED BY <2>1, <2>2, QuietLease
  <1>3. CASE Source!AdActivate \/ Source!AdRestore
    <2>1. KeptOpen /\ pc # "closed" /\ UNCHANGED opened /\ history' = [history EXCEPT !.stale = FALSE]
      BY <1>3, AdActivateKeeps, AdRestoreKeeps DEF Source!AdActivate, Source!AdRestore, Source!AdAt
    <2>2. history'.wrote = history.wrote
      BY <2>1, SameKept DEF Source!Histories
    <2> QED BY <2>1, <2>2, QuietLease DEF Quiet
  <1>4. CASE Source!AdWrite
    <2>1. KeptOpen /\ pc = "write" /\ context.todo > 0 /\ family = "ad7701h"
      BY <1>4, AdWriteKeeps DEF Source!AdWrite, Source!AdAt
    <2>2. context \in Source!Sources /\ context.active /\ context.media \in Profiles
      BY <2>1, SameKept
    <2>3. PICK ok \in BOOLEAN, lands \in BOOLEAN :
            /\ Source!Landing(ok, lands)
            /\ \E m : \/ Source!Then("descriptor", [context EXCEPT !.todo = 0])
                      \/ Source!Then("write", [context EXCEPT !.todo = @ - 1])
                      \/ Source!AdPrepareClose(context) \/ Source!AdNextByte(context, m) \/ Source!Then("held", context)
      <3>1. PICK ok \in BOOLEAN, lands \in BOOLEAN :
              /\ Source!Landing(ok, lands)
              /\ \E read \in BOOLEAN :
                   LET verified == /\ ok /\ read /\ Source!AdKnown(opened'.memory)
                                   /\ opened'.memory[Source!NextField] = Source!NextValue
                   IN  CASE context.purpose = "applied" ->
                              IF ok /\ read /\ opened'.memory = Source!AdExpected(context.todo - 1)
                              THEN IF context.todo = 1 THEN Source!Then("descriptor", [context EXCEPT !.todo = 0])
                                   ELSE Source!Then("write", [context EXCEPT !.todo = @ - 1])
                              ELSE Source!AdPrepareClose(context)
                         [] context.purpose = "restored" /\ verified -> Source!AdNextByte(context, opened'.memory)
                         [] OTHER -> Source!Then("held", context)
        BY <1>4 DEF Source!AdWrite, Source!Reply
      <3>2. \/ Source!Then("descriptor", [context EXCEPT !.todo = 0])
            \/ Source!Then("write", [context EXCEPT !.todo = @ - 1])
            \/ Source!AdPrepareClose(context) \/ Source!AdNextByte(context, opened'.memory) \/ Source!Then("held", context)
        BY <3>1, Zenon
      <3> QED BY <3>1, <3>2
    <2>4. context'.active = context.active
      BY <2>2, <2>3 DEF Source!Then, Source!AdPrepareClose, Source!AdNextByte, Source!TakeSnapshot, Source!Sources
    <2> QED BY <2>1, <2>2, <2>3, <2>4, WriteLease DEF KeptOpen
  <1>5. CASE Source!AdReadGame
    <2>1. KeptOpen /\ pc # "closed" /\ UNCHANGED opened /\ (UNCHANGED history \/ Source!Deliver)
      BY <1>5, AdReadGameKeeps DEF Source!AdReadGame, Source!AdAt
    <2>2. history'.wrote = history.wrote
      BY <2>1, SameKept DEF Source!Deliver, Source!Histories
    <2> QED BY <2>1, <2>2, QuietLease DEF Quiet
  <1>6. CASE Source!AdRelease
    <2>1. /\ pc = "release" /\ UNCHANGED opened
          /\ \/ pc' = "closed" /\ context' = Source!NoSource /\ history' = Source!NoHistory
             \/ pc' = "held" /\ UNCHANGED history
      BY <1>6 DEF Source!AdRelease, Source!AdAt, Source!Then
    <2>2. CASE pc' = "closed" /\ context' = Source!NoSource /\ history' = Source!NoHistory
      <3>1. FieldChanged' = {} /\ FieldOwed' = {} /\ FieldLife' = "idle"
        BY <2>2 DEF FieldChanged, FieldOwed, FieldLife, Source!NoHistory, Source!NoSource
      <3>2. FieldChanged = {} /\ FieldOwed = {} /\ FieldLife = "open"
        BY <2>1, LeaseFacts
      <3> QED BY <3>1, <3>2 DEF FieldLease!Next, FieldLease!Release
    <2>3. CASE pc' = "held" /\ UNCHANGED history
      <3>1. FieldInv'
        BY <1>6, AdReleaseKeeps
      <3> QED BY <2>1, <2>3, <3>1, QuietLease DEF Quiet, KeptOpen
    <2> QED BY <2>1, <2>2, <2>3
  <1> QED BY <1>1, <1>2, <1>3, <1>4, <1>5, <1>6 DEF Source!AdNext

\* And of the three, and of their world.
LEMMA FieldLeaseStep ==
  ASSUME FieldInv, FieldNext
  PROVE  [FieldLease!Next]_<<FieldChanged, FieldOwed, FieldLife>>
  <1>1. CASE Source!FieldWorld /\ UNCHANGED family
    <2>1. FieldInv'
      BY <1>1, FieldWorldKeeps
    <2>2. CASE Source!Kill
      <3>1. FieldChanged' = {} /\ FieldOwed' = {} /\ FieldLife' = "killed"
        BY <2>2 DEF Source!Kill, Source!Then, FieldChanged, FieldOwed, FieldLife, Source!NoHistory, Source!NoSource
      <3>2. FieldLife = "open"
        BY <2>2, LeaseFacts DEF Source!Kill
      <3> QED BY <3>1, <3>2 DEF FieldLease!Next, FieldLease!Kill
    <2>3. CASE Source!ChangeDisc \/ Source!Unplug \/ Source!Plug
      <3>1. MovedOn /\ UNCHANGED <<pc, context>>
        BY <1>1, <2>3, WorldMoves
      <3>2. CASE pc # "closed"
        BY <2>1, <3>1, <3>2, MovedLease
      <3>3. CASE pc = "closed"
        <4>1. ~context.active /\ FieldOwed' = FieldOwed
          BY <3>1, <3>3 DEF FieldInv, TwoInv, AdInv, Placed, AdPlaced, FieldOwed, Source!Fields
        <4>2. Landed(opened.memory, history) = {} /\ Landed(opened'.memory, history') = {}
          <5>1. Owes(context, opened.memory, history) /\ Owes(context', opened'.memory, history')
            BY <2>1 DEF FieldInv, Owes, Landed
          <5> QED BY <3>1, <4>1, <5>1 DEF Owes
        <4>3. FieldChanged' = FieldChanged
          BY <4>2 DEF FieldChanged, Landed
        <4>4. FieldLife' = FieldLife
          BY <3>1, <3>3 DEF FieldLife, MovedOn
        <4> QED BY <4>1, <4>3, <4>4
      <3> QED BY <3>2, <3>3
    <2> QED BY <1>1, <2>2, <2>3 DEF Source!FieldWorld
  <1> QED BY <1>1, TwoLease, AdLease DEF FieldNext

ASequence(s) == s \in Seq({s[i] : i \in DOMAIN s})

ReaderPlaces == {"idle", "copy", "lock", "work", "schedule", "leave", "signal"}

\* The shape of the state: what nothing depends on has whatever type it has.
MechanismTyped ==
  mechanism \in [admission : [Source!Bytes -> BOOLEAN], attached : BOOLEAN, answers : BOOLEAN,
                 unplugs : 0 .. MaxUnplugs]
ContextTyped ==
  nintendo \in [poisoned : BOOLEAN, present : BOOLEAN, abort : BOOLEAN, gone : BOOLEAN,
               pending : SUBSET Source!Bytes, raw : SUBSET Source!Blocks, cache : {nintendo.cache},
               streams : {nintendo.streams}, recent : {nintendo.recent}, demand : SUBSET Readers]
CacheTyped == ASequence(nintendo.cache) /\ Len(nintendo.cache) <= BufferBlocks
WorkTyped ==
  work \in [by : {"free", "open", "close", "worker"} \cup Readers, block : {work.block},
            attempt : {work.attempt}, step : Source!Steps, at : 0 .. Addresses, ok : BOOLEAN,
            error : {"none", "transport", "other", "cancelled"}]
ReaderTyped ==
  /\ reader \in [Readers -> {reader[r] : r \in Readers}]
  /\ \A r \in Readers : reader[r] \in [place : ReaderPlaces, lba : {reader[r].lba},
                          blocks : {reader[r].blocks}, at : {reader[r].at}, ok : BOOLEAN]
WorkerTyped ==
  worker \in [place : {"look", "asleep", "lock", "work", "finish", "gone"},
              stream : {worker.stream}, lba : {worker.lba}, stale : BOOLEAN, ok : BOOLEAN]
OwnerTyped ==
  /\ owner \in {"closed", "selected", "opening", "open", "joining", "restoring", "release", "held"}
  /\ ghost \in [set : SUBSET Source!Bytes, killed : BOOLEAN, lost : BOOLEAN]
NinTyped ==
  MechanismTyped /\ ContextTyped /\ CacheTyped /\ WorkTyped /\ ReaderTyped /\ WorkerTyped /\ OwnerTyped

\* What is set is pending; a drive that is gone has lost it.
Debts ==
  /\ work.step = "admit" => work.at > 0 /\ \A a \in Source!Bytes : mechanism.admission[a] => a \in ghost.set
  /\ ghost.set \subseteq nintendo.pending
  /\ ~mechanism.answers => ghost.set = {}
  /\ nintendo.gone => ~mechanism.answers
  /\ ~mechanism.attached => ~mechanism.answers

\* What the owner is at: who can be at work, what is still owed.
Calls ==
  /\ owner \in {"closed", "selected"} => nintendo = Source!NoContext
  /\ owner = "release" => nintendo.pending = {}
  /\ owner \in {"closed", "selected", "release", "held"} => work = Source!NoWork
  /\ owner = "opening" => work.by = "open"
  /\ owner = "restoring" => work.by = "close" /\ work.step \in {"undo", "done"}
                            /\ (work.step = "done" /\ work.ok => nintendo.pending = {})
  /\ owner = "open" => work.by \in {"free", "worker"} \cup Readers
  /\ owner = "joining" => work.by \in {"free", "worker"} /\ nintendo.abort /\ worker.place # "asleep"
  /\ owner # "open" => \A r \in Readers : reader[r] = Source!NoReader
  /\ owner \notin {"open", "joining"} => worker.place = "gone"
  /\ ghost.killed => owner = "closed"

\* What the readers, the worker and the holder of "mutex" know of each other.
Shared ==
  /\ \A r \in Readers : /\ reader[r].place = "idle" => reader[r] = Source!NoReader
                        /\ reader[r].place \notin {"idle", "signal"} => r \in nintendo.demand
                        /\ reader[r].place = "work" => work.by = r /\ work.block = Source!BlockAt(r)
                        /\ work.by = r => reader[r].place = "work"
  /\ work.by = "worker" => worker.place = "work"
  /\ work.step = "done" /\ work.ok /\ work.by # "close" => Source!Within(nintendo.cache, work.block)
  /\ work.by = "free" => work.step = "done" /\ ~work.ok
  /\ ~ghost.lost

\* The invariant of the Nintendo source.
NinInv == NinTyped /\ Debts /\ Calls /\ Shared

\* What the assumption about the constants of the Nintendo source says.
LEMMA NinConstants ==
  /\ Addresses \in Nat \ {0} /\ BufferBlocks \in Nat \ {0} /\ MaxUnplugs \in Nat
  /\ {"open", "close", "worker", "free"} \cap Readers = {}
  BY SourceAssumption DEF Source!NintendoAssumption

\* A block appended to the buffer.
LEMMA AppendedIs ==
  ASSUME NEW s, ASequence(s), NEW x
  PROVE  /\ ASequence(Append(s, x)) /\ Len(s) \in Nat /\ Len(Append(s, x)) = Len(s) + 1
         /\ \A y : Source!Within(Append(s, x), y) <=> y = x \/ Source!Within(s, y)
  <1> DEFINE S == {s[i] : i \in DOMAIN s}
             t == Append(s, x)
  <1>1. s \in Seq(S) /\ s \in Seq(S \cup {x})
    BY DEF ASequence
  <1>2. /\ t \in Seq(S \cup {x}) /\ Len(t) = Len(s) + 1 /\ Len(s) \in Nat
        /\ DOMAIN s = 1 .. Len(s) /\ DOMAIN t = 1 .. Len(s) + 1
        /\ \A i \in 1 .. Len(s) : t[i] = s[i]
        /\ t[Len(s) + 1] = x
    BY <1>1
  <1>3. t \in Seq({t[i] : i \in DOMAIN t})
    <2> HIDE DEF t
    <2>1. t \in [1 .. Len(t) -> {t[i] : i \in DOMAIN t}]
      BY <1>2
    <2> QED BY <2>1, <1>2
  <1>4. \A y : Source!Within(t, y) <=> y = x \/ Source!Within(s, y)
    <2> HIDE DEF t
    <2> QED BY <1>2 DEF Source!Within
  <1> QED BY <1>2, <1>3, <1>4 DEF ASequence

\* The oldest block dropped.
LEMMA TailIs ==
  ASSUME NEW s, ASequence(s), Len(s) > 0
  PROVE  ASequence(Tail(s)) /\ Len(Tail(s)) = Len(s) - 1
  <1> DEFINE S == {s[i] : i \in DOMAIN s}
             t == Tail(s)
  <1>1. s \in Seq(S)
    BY DEF ASequence
  <1>2. t \in Seq(S) /\ Len(t) = Len(s) - 1 /\ Len(t) \in Nat /\ DOMAIN t = 1 .. Len(t)
    BY <1>1
  <1>3. t \in Seq({t[i] : i \in DOMAIN t})
    <2> HIDE DEF t
    <2>1. t \in [1 .. Len(t) -> {t[i] : i \in DOMAIN t}] /\ Len(t) \in Nat
      BY <1>2
    <2> QED BY <2>1
  <1> QED BY <1>2, <1>3 DEF ASequence

\* A block taken out of the buffer leaves the others.
LEMMA WithoutIs ==
  ASSUME NEW s, ASequence(s), NEW x, Source!Within(s, x)
  PROVE  /\ ASequence(Source!Without(s, x)) /\ Len(Source!Without(s, x)) = Len(s) - 1
         /\ \A y : Source!Within(s, y) /\ y # x => Source!Within(Source!Without(s, x), y)
         /\ \A y : Source!Within(Source!Without(s, x), y) => Source!Within(s, y)
  <1> DEFINE i == CHOOSE j \in DOMAIN s : s[j] = x
             t == [j \in 1 .. Len(s) - 1 |-> IF j < i THEN s[j] ELSE s[j + 1]]
  <1>1. Len(s) \in Nat /\ DOMAIN s = 1 .. Len(s)
    BY DEF ASequence
  <1>2. i \in 1 .. Len(s) /\ s[i] = x
    BY <1>1 DEF Source!Within
  <1>3. Source!Without(s, x) = t
    BY DEF Source!Without
  <1> HIDE DEF i
  <1>4. Len(s) - 1 \in Nat
    BY <1>1, <1>2
  <1>5. t \in [1 .. Len(s) - 1 -> {t[j] : j \in DOMAIN t}] /\ DOMAIN t = 1 .. Len(s) - 1
    OBVIOUS
  <1>6. t \in Seq({t[j] : j \in DOMAIN t}) /\ Len(t) = Len(s) - 1
    <2> HIDE DEF t
    <2> QED BY <1>4, <1>5
  <1>7. ASSUME NEW y, Source!Within(s, y), y # x
        PROVE  Source!Within(t, y)
    <2>1. PICK j \in 1 .. Len(s) : s[j] = y
      BY <1>1, <1>7 DEF Source!Within
    <2>2. CASE j < i
      <3>1. j \in 1 .. Len(s) - 1 /\ t[j] = y
        BY <1>1, <1>2, <2>1, <2>2
      <3> QED BY <3>1, <1>5 DEF Source!Within
    <2>3. CASE j > i
      <3>1. j - 1 \in 1 .. Len(s) - 1 /\ ~(j - 1 < i) /\ t[j - 1] = s[(j - 1) + 1] /\ (j - 1) + 1 = j
        BY <1>1, <1>2, <2>1, <2>3
      <3>2. t[j - 1] = y
        BY <3>1, <2>1
      <3> QED BY <3>1, <3>2, <1>5 DEF Source!Within
    <2> QED BY <1>1, <1>2, <1>7, <2>1, <2>2, <2>3
  <1>8. ASSUME NEW y, Source!Within(t, y)
        PROVE  Source!Within(s, y)
    <2>1. PICK j \in 1 .. Len(s) - 1 : t[j] = y
      BY <1>5, <1>8 DEF Source!Within
    <2>2. j \in 1 .. Len(s) /\ j + 1 \in 1 .. Len(s) /\ (t[j] = s[j] \/ t[j] = s[j + 1])
      BY <1>1, <2>1
    <2> HIDE DEF t
    <2> QED BY <1>1, <2>1, <2>2 DEF Source!Within
  <1> HIDE DEF t
  <1> QED BY <1>3, <1>6, <1>7, <1>8 DEF ASequence

\* Touching a block changes nothing about what is in the buffer.
LEMMA TouchIs ==
  ASSUME NEW s, ASequence(s), NEW x
  PROVE  /\ ASequence(Source!Touch(s, x)) /\ Len(Source!Touch(s, x)) = Len(s)
         /\ \A y : Source!Within(s, y) => Source!Within(Source!Touch(s, x), y)
  <1>1. CASE ~Source!Within(s, x)
    BY <1>1 DEF Source!Touch
  <1>2. CASE Source!Within(s, x)
    <2> DEFINE w == Source!Without(s, x)
    <2>1. /\ ASequence(w) /\ Len(w) = Len(s) - 1
          /\ \A y : Source!Within(s, y) /\ y # x => Source!Within(w, y)
      BY <1>2, WithoutIs
    <2> HIDE DEF w
    <2>2. /\ ASequence(Append(w, x)) /\ Len(w) \in Nat /\ Len(Append(w, x)) = Len(w) + 1
          /\ \A y : Source!Within(Append(w, x), y) <=> y = x \/ Source!Within(w, y)
      BY <2>1, AppendedIs
    <2>3. Len(s) \in Nat
      BY AppendedIs
    <2>4. Source!Touch(s, x) = Append(w, x)
      BY <1>2 DEF Source!Touch, w
    <2> QED BY <2>1, <2>2, <2>3, <2>4
  <1> QED BY <1>1, <1>2

\* A block that is retained is in the buffer, which does not outgrow its size.
LEMMA RetainIs ==
  ASSUME NEW s, ASequence(s), Len(s) <= BufferBlocks, NEW x
  PROVE  /\ ASequence(Source!Retain(s, x)) /\ Len(Source!Retain(s, x)) <= BufferBlocks
         /\ Source!Within(Source!Retain(s, x), x)
  <1>1. Len(s) \in Nat /\ BufferBlocks \in Nat \ {0}
    BY AppendedIs, NinConstants
  <1>2. CASE Source!Within(s, x)
    <2>1. ASequence(Source!Without(s, x)) /\ Len(Source!Without(s, x)) = Len(s) - 1
      BY <1>2, WithoutIs
    <2>2. Source!Retain(s, x) = Append(Source!Without(s, x), x)
      BY <1>2 DEF Source!Retain
    <2> QED BY <1>1, <2>1, <2>2, AppendedIs
  <1>3. CASE ~Source!Within(s, x) /\ Len(s) < BufferBlocks
    <2>1. Source!Retain(s, x) = Append(s, x)
      BY <1>3 DEF Source!Retain, Source!Without
    <2> QED BY <1>1, <1>3, <2>1, AppendedIs
  <1>4. CASE ~Source!Within(s, x) /\ ~(Len(s) < BufferBlocks)
    <2>1. ASequence(Tail(s)) /\ Len(Tail(s)) = Len(s) - 1
      BY <1>1, <1>4, TailIs
    <2>2. Source!Retain(s, x) = Append(Tail(s), x)
      BY <1>4 DEF Source!Retain
    <2> QED BY <1>1, <1>4, <2>1, <2>2, AppendedIs
  <1> QED BY <1>2, <1>3, <1>4

-----------------------------------------------------------------------------
(* The holder of "mutex". *)

\* What a step of an acquisition does not touch, and what its end means.
Acquires ==
  /\ UNCHANGED <<reader, worker, owner>>
  /\ work.step # "done" /\ work'.by = work.by /\ work'.block = work.block
  /\ work'.step = "done" /\ work'.ok /\ work.by # "close" => Source!Within(nintendo'.cache, work'.block)
  /\ work.step = "undo" /\ work.by = "close" =>
       work'.step \in {"undo", "done"} /\ (work'.step = "done" /\ work'.ok => nintendo'.pending = {})
  /\ nintendo'.demand = nintendo.demand /\ nintendo'.abort = nintendo.abort
  /\ ghost'.killed = ghost.killed /\ ghost'.lost = ghost.lost

\* A step that writes no admission byte forgets none that is owed.
AtRest63 ==
  /\ UNCHANGED <<mechanism, ghost>> /\ work'.step # "admit"
  /\ nintendo'.pending = nintendo.pending \/ nintendo.gone \/ nintendo.pending = {}
  /\ nintendo'.gone => nintendo.gone \/ ~mechanism.answers

\* A step of an acquisition disturbs only its types and the debts.
LEMMA AcquiresKeeps ==
  ASSUME NinInv, Acquires, NinTyped', Debts'
  PROVE  NinInv'
  <1> USE DEF NinInv, Acquires
  <1>1. owner \in {"opening", "open", "joining", "restoring"}
    BY DEF Calls, Source!NoWork, NinTyped, OwnerTyped
  <1>2. work.by # "free"
    BY DEF Shared
  <1>3. Calls'
    BY <1>1 DEF Calls
  <1>4. \A r \in Readers : Source!BlockAt(r)' = Source!BlockAt(r)
    BY DEF Source!BlockAt
  <1>5. Shared'
    BY <1>2, <1>4 DEF Shared
  <1> QED BY <1>3, <1>5

\* And without a write not the debts.
LEMMA QuietKeepsDebts ==
  ASSUME NinInv, AtRest63
  PROVE  Debts'
  BY DEF NinInv, AtRest63, Debts

\* The types of what a step of an acquisition leaves alone.
LEMMA OthersTyped ==
  ASSUME NinTyped, UNCHANGED <<reader, worker, owner>>
  PROVE  /\ ReaderTyped' /\ WorkerTyped'
         /\ UNCHANGED ghost => OwnerTyped'
         /\ UNCHANGED mechanism => MechanismTyped'
         /\ nintendo'.cache = nintendo.cache => CacheTyped'
         /\ UNCHANGED nintendo => ContextTyped' /\ CacheTyped'
  BY DEF NinTyped, ReaderTyped, WorkerTyped, OwnerTyped, MechanismTyped, CacheTyped, ContextTyped

\* Ends with a result, or goes to the step named.
LEMMA WorkMoves ==
  ASSUME NinTyped
  PROVE  /\ \A s \in Source!Steps : work' = [work EXCEPT !.step = s] =>
              WorkTyped' /\ work'.by = work.by /\ work'.block = work.block /\ work'.step = s
         /\ \A o \in BOOLEAN : work' = [work EXCEPT !.step = "done", !.ok = o] =>
              WorkTyped' /\ work'.by = work.by /\ work'.block = work.block /\ work'.step = "done" /\ work'.ok = o
         /\ \A e \in {"none", "transport", "other", "cancelled"} : Source!Fails(e) =>
              WorkTyped' /\ work'.by = work.by /\ work'.block = work.block /\ work'.step = "done" /\ ~work'.ok
         /\ \A o \in BOOLEAN : work' = [work EXCEPT !.step = "undo", !.at = Addresses, !.ok = o, !.error = "none"] =>
              WorkTyped' /\ work'.by = work.by /\ work'.block = work.block /\ work'.step = "undo"
         /\ \A s \in Source!Steps, n \in 0 .. Addresses : work' = [work EXCEPT !.step = s, !.at = n] =>
              WorkTyped' /\ work'.by = work.by /\ work'.block = work.block /\ work'.step = s /\ work'.at = n
         /\ \A n \in 0 .. Addresses : work' = [work EXCEPT !.at = n] =>
              WorkTyped' /\ work'.by = work.by /\ work'.block = work.block /\ work'.step = work.step /\ work'.at = n
         /\ work' = [work EXCEPT !.step = "check", !.attempt = @ + 1] =>
              WorkTyped' /\ work'.by = work.by /\ work'.block = work.block /\ work'.step = "check"
  <1> USE NinConstants DEF NinTyped, WorkTyped, Source!Steps, Source!Fails
  <1>0. Addresses \in 0 .. Addresses /\ "undo" \in Source!Steps
    OBVIOUS
  <1>1. \A s \in Source!Steps : work' = [work EXCEPT !.step = s] =>
              WorkTyped' /\ work'.by = work.by /\ work'.block = work.block /\ work'.step = s
    OBVIOUS
  <1>2. \A o \in BOOLEAN : work' = [work EXCEPT !.step = "done", !.ok = o] =>
              WorkTyped' /\ work'.by = work.by /\ work'.block = work.block /\ work'.step = "done" /\ work'.ok = o
    OBVIOUS
  <1>3. \A e \in {"none", "transport", "other", "cancelled"} : Source!Fails(e) =>
              WorkTyped' /\ work'.by = work.by /\ work'.block = work.block /\ work'.step = "done" /\ ~work'.ok
    OBVIOUS
  <1>4. \A o \in BOOLEAN : work' = [work EXCEPT !.step = "undo", !.at = Addresses, !.ok = o, !.error = "none"] =>
              WorkTyped' /\ work'.by = work.by /\ work'.block = work.block /\ work'.step = "undo"
    BY <1>0
  <1>5. \A s \in Source!Steps, n \in 0 .. Addresses : work' = [work EXCEPT !.step = s, !.at = n] =>
              WorkTyped' /\ work'.by = work.by /\ work'.block = work.block /\ work'.step = s /\ work'.at = n
    OBVIOUS
  <1>6. \A n \in 0 .. Addresses : work' = [work EXCEPT !.at = n] =>
              WorkTyped' /\ work'.by = work.by /\ work'.block = work.block /\ work'.step = work.step /\ work'.at = n
    OBVIOUS
  <1>7. work' = [work EXCEPT !.step = "check", !.attempt = @ + 1] =>
              WorkTyped' /\ work'.by = work.by /\ work'.block = work.block /\ work'.step = "check"
    OBVIOUS
  <1> QED BY <1>1, <1>2, <1>3, <1>4, <1>5, <1>6, <1>7

\* What the context can become when it stays what it is to readers.
Shape ==
  [poisoned : BOOLEAN, present : BOOLEAN, abort : {nintendo.abort}, gone : BOOLEAN,
   pending : SUBSET Source!Bytes, raw : SUBSET Source!Blocks, cache : {nintendo.cache},
   streams : {nintendo.streams}, recent : {nintendo.recent}, demand : {nintendo.demand}]

\* The context with a field of it changed is a context.
LEMMA Shaped ==
  ASSUME NinTyped
  PROVE  /\ nintendo \in Shape /\ Source!Noted(nintendo) \in Shape
         /\ Source!Noted(nintendo).pending = nintendo.pending
         /\ Source!Noted(nintendo).gone <=> nintendo.gone \/ ~mechanism.answers
         /\ \A c \in Shape, raw \in SUBSET Source!Blocks, owed \in SUBSET Source!Bytes, q \in BOOLEAN, u \in BOOLEAN :
              /\ [c EXCEPT !.raw = raw] \in Shape /\ [c EXCEPT !.pending = owed] \in Shape
              /\ [c EXCEPT !.poisoned = q] \in Shape /\ [c EXCEPT !.poisoned = q, !.present = u] \in Shape
         /\ nintendo' \in Shape =>
              /\ ContextTyped' /\ CacheTyped' /\ nintendo'.cache = nintendo.cache
              /\ nintendo'.demand = nintendo.demand /\ nintendo'.abort = nintendo.abort
  <1> USE DEF NinTyped, ContextTyped, CacheTyped, MechanismTyped
  <1>1. nintendo \in Shape
    BY DEF Shape
  <1>2. /\ Source!Noted(nintendo) \in Shape /\ Source!Noted(nintendo).pending = nintendo.pending
        /\ Source!Noted(nintendo).gone <=> nintendo.gone \/ ~mechanism.answers
    BY DEF Shape, Source!Noted
  <1>3. ASSUME NEW c \in Shape, NEW raw \in SUBSET Source!Blocks, NEW owed \in SUBSET Source!Bytes, NEW q \in BOOLEAN, NEW u \in BOOLEAN
        PROVE  /\ [c EXCEPT !.raw = raw] \in Shape /\ [c EXCEPT !.pending = owed] \in Shape
               /\ [c EXCEPT !.poisoned = q] \in Shape /\ [c EXCEPT !.poisoned = q, !.present = u] \in Shape
    BY DEF Shape
  <1>4. ASSUME nintendo' \in Shape
        PROVE  /\ ContextTyped' /\ CacheTyped' /\ nintendo'.cache = nintendo.cache
               /\ nintendo'.demand = nintendo.demand /\ nintendo'.abort = nintendo.abort
    BY <1>4 DEF Shape
  <1> QED BY <1>1, <1>2, <1>3, <1>4

\* The work goes on or ends, by the same call and for the same block.
Goes(s) == WorkTyped' /\ work'.by = work.by /\ work'.block = work.block /\ work'.step = s

\* A block that was not acquired: what is pending stays pending.
LEMMA NotAcquiredIs ==
  ASSUME NinTyped, NEW c \in Shape, NEW e \in {"transport", "other", "cancelled"}, Source!NotAcquired(c, e)
  PROVE  /\ Goes("done") /\ ~work'.ok
         /\ nintendo' \in Shape /\ nintendo'.pending = c.pending /\ nintendo'.gone = c.gone
  <1>1. Source!Fails(e) /\ nintendo' = [c EXCEPT !.poisoned = @ \/ (work.by = "worker" /\ e # "cancelled")]
    BY DEF Source!NotAcquired
  <1>2. Goes("done") /\ ~work'.ok
    BY <1>1, WorkMoves DEF Goes
  <1>3. nintendo' \in Shape /\ nintendo'.pending = c.pending /\ nintendo'.gone = c.gone
    BY <1>1 DEF Shape
  <1> QED BY <1>2, <1>3

\* A quiet step that ends without a block, or goes on to the step named.
LEMMA QuietStep ==
  ASSUME NinInv, UNCHANGED <<mechanism, reader, worker, owner, ghost>>, work.step \notin {"done", "undo"},
         NEW s \in Source!Steps \ {"admit"}, Goes(s), s = "done" /\ work.by # "close" => ~work'.ok,
         nintendo' \in Shape, nintendo'.pending = nintendo.pending,
         nintendo'.gone => nintendo.gone \/ ~mechanism.answers
  PROVE  NinInv'
  <1>1. /\ ReaderTyped' /\ WorkerTyped' /\ OwnerTyped' /\ MechanismTyped'
    BY OthersTyped DEF NinInv
  <1>2. /\ ContextTyped' /\ CacheTyped' /\ nintendo'.cache = nintendo.cache
        /\ nintendo'.demand = nintendo.demand /\ nintendo'.abort = nintendo.abort
    BY Shaped DEF NinInv
  <1>3. NinTyped'
    BY <1>1, <1>2 DEF NinTyped, Goes
  <1>4. Debts'
    BY QuietKeepsDebts DEF AtRest63, Goes
  <1>5. Acquires
    BY <1>2 DEF Acquires, Goes
  <1> QED BY <1>3, <1>4, <1>5, AcquiresKeeps

\* An acquisition that ends with its block in the buffer.
LEMMA FoundStep ==
  ASSUME NinInv, UNCHANGED <<mechanism, reader, worker, owner, ghost>>, work.step \notin {"done", "undo"},
         Goes("done"), Source!Within(nintendo'.cache, work.block),
         \/ UNCHANGED nintendo
         \/ nintendo' = [nintendo EXCEPT !.cache = Source!Retain(@, work.block)]
  PROVE  NinInv'
  <1>1. /\ ReaderTyped' /\ WorkerTyped' /\ OwnerTyped' /\ MechanismTyped'
    BY OthersTyped DEF NinInv
  <1>2. ASequence(Source!Retain(nintendo.cache, work.block)) /\ Len(Source!Retain(nintendo.cache, work.block)) <= BufferBlocks
    BY RetainIs DEF NinInv, NinTyped, CacheTyped
  <1>3. nintendo'.cache \in {nintendo.cache, Source!Retain(nintendo.cache, work.block)}
    BY DEF NinInv, NinTyped, ContextTyped
  <1>4. CacheTyped'
    BY <1>2, <1>3 DEF NinInv, NinTyped, CacheTyped
  <1>5. /\ ContextTyped' /\ nintendo'.pending = nintendo.pending /\ nintendo'.gone = nintendo.gone
        /\ nintendo'.demand = nintendo.demand /\ nintendo'.abort = nintendo.abort
    BY DEF NinInv, NinTyped, ContextTyped
  <1>6. NinTyped'
    BY <1>1, <1>4, <1>5 DEF NinTyped, Goes
  <1>7. Debts'
    BY <1>5, QuietKeepsDebts DEF AtRest63, Goes
  <1>8. Acquires
    BY <1>5 DEF Acquires, Goes
  <1> QED BY <1>6, <1>7, <1>8, AcquiresKeeps

\* The buffer looked at under the lock.
LEMMA LookupKeeps ==
  ASSUME NinInv, Source!Lookup
  PROVE  NinInv'
  <1> USE DEF NinInv
  <1>1. CASE Source!Within(nintendo.cache, work.block)
    <2>1. work' = [work EXCEPT !.step = "done", !.ok = TRUE] /\ UNCHANGED nintendo
      BY <1>1 DEF Source!Lookup
    <2>2. Goes("done") /\ Source!Within(nintendo'.cache, work.block)
      BY <1>1, <2>1, WorkMoves DEF Goes
    <2> QED BY <2>1, <2>2, FoundStep DEF Source!Lookup
  <1>2. CASE work.block \in nintendo.raw /\ ~Source!Within(nintendo.cache, work.block)
    <2>1. work' = [work EXCEPT !.step = "done", !.ok = TRUE] /\ nintendo' = [nintendo EXCEPT !.cache = Source!Retain(@, work.block)]
      BY <1>2 DEF Source!Lookup
    <2>2. Goes("done")
      BY <2>1, WorkMoves DEF Goes
    <2>3. Source!Within(nintendo'.cache, work.block)
      BY <2>1, RetainIs DEF NinTyped, CacheTyped, ContextTyped
    <2> QED BY <2>1, <2>2, <2>3, FoundStep DEF Source!Lookup
  <1>3. CASE ~Source!Within(nintendo.cache, work.block) /\ work.block \notin nintendo.raw
    <2>1. UNCHANGED nintendo /\ IF nintendo.abort THEN Source!Fails("cancelled") ELSE Source!Hold("check")
      BY <1>3 DEF Source!Lookup
    <2>2. nintendo' \in Shape /\ nintendo'.pending = nintendo.pending /\ nintendo'.gone = nintendo.gone
      BY <2>1, Shaped
    <2>3. (Goes("done") /\ ~work'.ok) \/ Goes("check")
      BY <2>1, WorkMoves DEF Goes, Source!Hold, Source!Steps
    <2> QED BY <2>2, <2>3, QuietStep DEF Source!Lookup, Source!Steps
  <1> QED BY <1>1, <1>2, <1>3

\* The drive looked at before anything is written.
LEMMA CheckKeeps ==
  ASSUME NinInv, Source!Check
  PROVE  NinInv'
  <1> USE DEF NinInv
  <1>1. work.step = "check" /\ UNCHANGED <<mechanism, reader, worker, owner, ghost>>
    BY DEF Source!Check
  <1>2. CASE nintendo.abort
    <2>1. Goes("done") /\ ~work'.ok /\ UNCHANGED nintendo
      BY <1>2, WorkMoves DEF Source!Check, Goes
    <2> QED BY <1>1, <2>1, QuietStep, Shaped DEF Source!Steps
  <1>3. CASE ~nintendo.abort /\ nintendo.poisoned
    <2>1. Source!NotAcquired(nintendo, "transport")
      BY <1>3 DEF Source!Check
    <2>2. Goes("done") /\ ~work'.ok
          /\ nintendo' \in Shape /\ nintendo'.pending = nintendo.pending /\ nintendo'.gone = nintendo.gone
      BY <2>1, NotAcquiredIs, Shaped
    <2> QED BY <1>1, <2>2, QuietStep DEF Source!Steps
  <1>4. CASE ~nintendo.abort /\ ~nintendo.poisoned
    <2> DEFINE emptied == [Source!Noted(nintendo) EXCEPT !.raw = {}]
    <2>1. emptied \in Shape
      BY Shaped
    <2>2. emptied.pending = nintendo.pending /\ (emptied.gone <=> nintendo.gone \/ ~mechanism.answers)
      BY Shaped DEF Shape
    <2>3. PICK ok \in Source!Reply63 :
            IF ok /\ \A a \in Source!Bytes : ~mechanism.admission[a]
            THEN work' = [work EXCEPT !.step = "admit", !.at = 1] /\ nintendo' = emptied
            ELSE \E e \in {"transport", "other"} : Source!NotAcquired(emptied, e)
      BY <1>4 DEF Source!Check
    <2> HIDE DEF emptied
    <2>4. CASE ok /\ \A a \in Source!Bytes : ~mechanism.admission[a]
      <3>1. work' = [work EXCEPT !.step = "admit", !.at = 1] /\ nintendo' = emptied
        BY <2>3, <2>4
      <3>2. 1 \in 0 .. Addresses
        BY NinConstants
      <3>3. Goes("admit") /\ work'.at = 1
        BY <3>1, <3>2, WorkMoves DEF Goes, Source!Steps
      <3>4. /\ ContextTyped' /\ CacheTyped' /\ nintendo'.cache = nintendo.cache
            /\ nintendo'.demand = nintendo.demand /\ nintendo'.abort = nintendo.abort
        BY <2>1, <3>1, Shaped
      <3>5. NinTyped'
        BY <1>1, <3>3, <3>4, OthersTyped DEF NinTyped, Goes
      <3>6. Debts'
        BY <1>1, <2>2, <2>4, <3>1, <3>3 DEF Debts, Goes
      <3>7. Acquires
        BY <1>1, <3>3, <3>4 DEF Acquires, Goes
      <3> QED BY <3>5, <3>6, <3>7, AcquiresKeeps
    <2>5. CASE ~(ok /\ \A a \in Source!Bytes : ~mechanism.admission[a])
      <3>1. PICK e \in {"transport", "other"} : Source!NotAcquired(emptied, e)
        BY <2>3, <2>5
      <3>2. Goes("done") /\ ~work'.ok
            /\ nintendo' \in Shape /\ nintendo'.pending = emptied.pending /\ nintendo'.gone = emptied.gone
        BY <2>1, <3>1, NotAcquiredIs
      <3> QED BY <1>1, <2>2, <3>2, QuietStep DEF Source!Steps
    <2> QED BY <2>4, <2>5
  <1> QED BY <1>2, <1>3, <1>4

\* A byte that is written: the drive that reports it took it.
LEMMA WrittenIs ==
  ASSUME NinInv, NEW a \in Source!Bytes, NEW v \in BOOLEAN, NEW ok \in Source!Reply63, Source!WriteByte(a, v, ok)
  PROVE  /\ MechanismTyped' /\ (UNCHANGED owner => OwnerTyped')
         /\ mechanism'.answers = mechanism.answers /\ mechanism'.attached = mechanism.attached
         /\ ghost'.killed = ghost.killed /\ ghost'.lost = ghost.lost
         /\ ghost'.set \subseteq IF v THEN ghost.set \cup {a} ELSE ghost.set
         /\ ok /\ ~v => a \notin ghost'.set
         /\ ok \/ ghost'.set # ghost.set => mechanism.answers
         /\ v => /\ ghost.set \subseteq ghost'.set
                 /\ \A b \in Source!Bytes : mechanism'.admission[b] => mechanism.admission[b] \/ b \in ghost'.set
  <1>1. PICK lands \in BOOLEAN :
          /\ ok => lands
          /\ lands => mechanism.answers
          /\ mechanism' = IF lands THEN [mechanism EXCEPT !.admission[a] = v] ELSE mechanism
          /\ ghost' = [ghost EXCEPT !.set = IF ~lands THEN @ ELSE IF v THEN @ \cup {a} ELSE @ \ {a}]
    BY DEF Source!WriteByte
  <1>2. CASE ~lands
    <2>1. mechanism' = mechanism /\ ghost' = [ghost EXCEPT !.set = ghost.set] /\ ~ok
      BY <1>1, <1>2
    <2> QED BY <2>1, <1>2 DEF NinInv, NinTyped, MechanismTyped, OwnerTyped
  <1>3. CASE lands /\ v
    <2>1. mechanism' = [mechanism EXCEPT !.admission[a] = v] /\ ghost' = [ghost EXCEPT !.set = ghost.set \cup {a}]
          /\ mechanism.answers
      BY <1>1, <1>3
    <2> QED BY <2>1, <1>3 DEF NinInv, NinTyped, MechanismTyped, OwnerTyped
  <1>4. CASE lands /\ ~v
    <2>1. mechanism' = [mechanism EXCEPT !.admission[a] = v] /\ ghost' = [ghost EXCEPT !.set = ghost.set \ {a}]
          /\ mechanism.answers
      BY <1>1, <1>4
    <2> QED BY <2>1, <1>4 DEF NinInv, NinTyped, MechanismTyped, OwnerTyped
  <1> QED BY <1>2, <1>3, <1>4

\* An admission byte set, noted before it is sent.
LEMMA AdmitKeeps ==
  ASSUME NinInv, Source!Admit
  PROVE  NinInv'
  <1> USE DEF NinInv
  <1>1. /\ work.step = "admit" /\ UNCHANGED <<reader, worker, owner>>
        /\ nintendo' = [Source!Noted(nintendo) EXCEPT !.pending = @ \cup {work.at}]
    BY DEF Source!Admit
  <1>2. PICK ok \in Source!Reply63 :
          /\ Source!WriteByte(work.at, TRUE, ok)
          /\ work' = IF ~ok THEN [work EXCEPT !.step = "undo", !.at = Addresses, !.ok = FALSE, !.error = "none"]
                     ELSE IF work.at < Addresses THEN [work EXCEPT !.at = @ + 1]
                     ELSE [work EXCEPT !.step = "scan"]
    BY DEF Source!Admit
  <1>3. work.at \in Source!Bytes /\ work.at \in 0 .. Addresses
    BY <1>1, NinConstants DEF Debts, NinTyped, WorkTyped, Source!Bytes
  <1> DEFINE owed == nintendo.pending \cup {work.at}
  <1>4. owed \in SUBSET Source!Bytes
    BY <1>3 DEF NinTyped, ContextTyped
  <1>5. nintendo' = [Source!Noted(nintendo) EXCEPT !.pending = owed]
    BY <1>1, Shaped
  <1> HIDE DEF owed
  <1>6. /\ nintendo' \in Shape /\ nintendo'.pending = owed
        /\ (nintendo'.gone <=> nintendo.gone \/ ~mechanism.answers)
    BY <1>4, <1>5, Shaped DEF Shape
  <1>7. /\ ContextTyped' /\ CacheTyped' /\ nintendo'.cache = nintendo.cache
        /\ nintendo'.demand = nintendo.demand /\ nintendo'.abort = nintendo.abort
    BY <1>6, Shaped
  <1>8. \/ Goes("undo")
        \/ Goes("admit") /\ work'.at = work.at + 1
        \/ Goes("scan")
    <2>1. CASE ~ok
      BY <1>2, <2>1, WorkMoves DEF Goes
    <2>2. CASE ok /\ work.at < Addresses
      <3>1. work' = [work EXCEPT !.at = work.at + 1] /\ work.at + 1 \in 0 .. Addresses
        BY <1>2, <1>3, <2>2, NinConstants
      <3> QED BY <1>1, <3>1, WorkMoves DEF Goes
    <2>3. CASE ok /\ ~(work.at < Addresses)
      BY <1>2, <2>3, WorkMoves DEF Goes, Source!Steps
    <2> QED BY <2>1, <2>2, <2>3
  <1>9. NinTyped'
    BY <1>1, <1>2, <1>3, <1>7, <1>8, OthersTyped, WrittenIs DEF NinTyped, Goes
  <1>10. Debts'
    <2>1. work'.step = "admit" => work'.at > 0
      BY <1>3, <1>8, NinConstants DEF Goes, Source!Bytes
    <2>2. \A b \in Source!Bytes : mechanism'.admission[b] => b \in ghost'.set
      BY <1>1, <1>2, <1>3, WrittenIs DEF Debts
    <2>3. ghost'.set \subseteq owed
      BY <1>2, <1>3, WrittenIs DEF Debts, owed
    <2>4. mechanism'.answers = mechanism.answers /\ mechanism'.attached = mechanism.attached
          /\ (ghost'.set # ghost.set => mechanism.answers)
      BY <1>2, <1>3, WrittenIs
    <2> QED BY <1>6, <2>1, <2>2, <2>3, <2>4 DEF Debts
  <1>11. Acquires
    BY <1>1, <1>2, <1>3, <1>7, <1>8, WrittenIs DEF Acquires, Goes
  <1> QED BY <1>9, <1>10, <1>11, AcquiresKeeps

\* The drive made to read the block.
LEMMA ScanKeeps ==
  ASSUME NinInv, Source!Scan
  PROVE  NinInv'
  <1> USE DEF NinInv
  <1>1. PICK ok \in Source!Reply63, lost \in BOOLEAN :
          /\ work' = [work EXCEPT !.step = "undo", !.at = Addresses, !.ok = ok, !.error = "none"]
          /\ nintendo' = [Source!Noted(nintendo) EXCEPT !.poisoned = @ \/ lost]
    BY DEF Source!Scan
  <1>2. work.step = "scan" /\ UNCHANGED <<mechanism, reader, worker, owner, ghost>>
    BY DEF Source!Scan
  <1>3. Goes("undo")
    BY <1>1, WorkMoves DEF Goes, Source!Reply63
  <1>4. /\ nintendo' \in Shape /\ nintendo'.pending = nintendo.pending
        /\ nintendo'.gone => nintendo.gone \/ ~mechanism.answers
    BY <1>1, Shaped DEF Shape
  <1> QED BY <1>2, <1>3, <1>4, QuietStep DEF Source!Steps

\* Its raw sectors copied out.
LEMMA CaptureKeeps ==
  ASSUME NinInv, Source!Capture
  PROVE  NinInv'
  <1> USE DEF NinInv
  <1>1. work.step = "capture" /\ UNCHANGED <<mechanism, reader, worker, owner, ghost>>
    BY DEF Source!Capture
  <1>2. CASE \E e \in {"transport", "other", "cancelled"}, c \in {nintendo, Source!Noted(nintendo)} : Source!NotAcquired(c, e)
    <2>1. PICK e \in {"transport", "other", "cancelled"}, c \in {nintendo, Source!Noted(nintendo)} : Source!NotAcquired(c, e)
      BY <1>2
    <2>2. c \in Shape /\ c.pending = nintendo.pending /\ (c.gone => nintendo.gone \/ ~mechanism.answers)
      BY <2>1, Shaped
    <2>3. Goes("done") /\ ~work'.ok
          /\ nintendo' \in Shape /\ nintendo'.pending = c.pending /\ nintendo'.gone = c.gone
      BY <2>1, <2>2, NotAcquiredIs
    <2> QED BY <1>1, <2>2, <2>3, QuietStep DEF Source!Steps
  <1>3. CASE \E raw \in SUBSET Source!Blocks : Source!Hold("decode") /\ nintendo' = [nintendo EXCEPT !.raw = raw]
    <2>1. PICK raw \in SUBSET Source!Blocks : Source!Hold("decode") /\ nintendo' = [nintendo EXCEPT !.raw = raw]
      BY <1>3
    <2>2. Goes("decode")
      BY <2>1, WorkMoves DEF Goes, Source!Hold, Source!Steps
    <2>3. nintendo' \in Shape /\ nintendo'.pending = nintendo.pending /\ nintendo'.gone = nintendo.gone
      BY <2>1, Shaped DEF Shape
    <2> QED BY <1>1, <2>2, <2>3, QuietStep DEF Source!Steps
  <1>4. CASE nintendo.abort
    BY <1>2, <1>4 DEF Source!Capture
  <1>5. CASE ~nintendo.abort
    <2>1. PICK ok \in Source!Reply63 :
            IF ok THEN \E intact \in Source!Validates(work.block), next \in Source!Validates(work.block + 1) :
                       \E found \in Source!Repaired(work.block, intact) :
                         Source!Hold("decode") /\ nintendo' = [nintendo EXCEPT !.raw = (found \cup next) \cap Source!Blocks]
            ELSE \E e \in {"transport", "other"} : Source!NotAcquired(Source!Noted(nintendo), e)
      BY <1>5 DEF Source!Capture
    <2>2. CASE ok
      <3>1. PICK found, next : Source!Hold("decode") /\ nintendo' = [nintendo EXCEPT !.raw = (found \cup next) \cap Source!Blocks]
        BY <2>1, <2>2
      <3> QED BY <1>3, <3>1
    <2>3. CASE ~ok
      BY <1>2, <2>1, <2>3
    <2> QED BY <2>2, <2>3
  <1> QED BY <1>4, <1>5

\* The block decoded, validated and retained.
LEMMA DecodeKeeps ==
  ASSUME NinInv, Source!Decode
  PROVE  NinInv'
  <1> USE DEF NinInv
  <1>1. work.step = "decode" /\ UNCHANGED <<mechanism, reader, worker, owner, ghost>>
    BY DEF Source!Decode
  <1>2. CASE ~nintendo.abort /\ work.block \in nintendo.raw
    <2>1. work' = [work EXCEPT !.step = "done", !.ok = TRUE] /\ nintendo' = [nintendo EXCEPT !.cache = Source!Retain(@, work.block)]
      BY <1>2 DEF Source!Decode
    <2>2. Goes("done")
      BY <2>1, WorkMoves DEF Goes
    <2>3. Source!Within(nintendo'.cache, work.block)
      BY <2>1, RetainIs DEF NinTyped, CacheTyped, ContextTyped
    <2> QED BY <1>1, <2>1, <2>2, <2>3, FoundStep
  <1>3. CASE nintendo.abort \/ work.block \notin nintendo.raw
    <2>1. UNCHANGED nintendo
      BY <1>3 DEF Source!Decode
    <2>2. nintendo' \in Shape /\ nintendo'.pending = nintendo.pending /\ nintendo'.gone = nintendo.gone
      BY <2>1, Shaped
    <2>3. Source!Fails("cancelled") \/ Source!Fails("other") \/ work' = [work EXCEPT !.step = "check", !.attempt = @ + 1]
      BY <1>3 DEF Source!Decode
    <2>4. (Goes("done") /\ ~work'.ok) \/ Goes("check")
      BY <2>3, WorkMoves DEF Goes
    <2> QED BY <1>1, <2>2, <2>4, QuietStep DEF Source!Steps
  <1> QED BY <1>2, <1>3

\* The end of a restoration: of the call that closes, or of an acquisition.
LEMMA UndoneStep ==
  ASSUME NinInv, work.step = "undo", UNCHANGED <<mechanism, reader, worker, owner, ghost>>,
         NEW c \in Shape, c.gone = nintendo.gone, ghost.set \subseteq c.pending,
         NEW failed \in BOOLEAN, ~failed => c.pending = {}, Source!Undone(c, failed)
  PROVE  NinInv'
  <1> USE DEF NinInv
  <1> DEFINE unsafe == [c EXCEPT !.poisoned = TRUE, !.present = FALSE]
  <1>1. unsafe \in Shape /\ unsafe.pending = c.pending /\ unsafe.gone = c.gone
    BY Shaped DEF Shape
  <1>2. /\ nintendo' \in Shape /\ nintendo'.pending = c.pending /\ nintendo'.gone = c.gone
        /\ \/ Goes("done") /\ (work'.ok => ~failed /\ work.by = "close")
           \/ Goes("capture") /\ work.by # "close"
    <2>1. CASE work.by = "close"
      <3>1. work' = [work EXCEPT !.step = "done", !.ok = ~failed] /\ nintendo' = c
        BY <2>1 DEF Source!Undone
      <3>2. Goes("done") /\ work'.ok = ~failed
        BY <3>1, WorkMoves DEF Goes
      <3> QED BY <2>1, <3>1, <3>2
    <2>2. CASE work.by # "close" /\ failed
      <3>1. Source!NotAcquired(unsafe, "transport")
        BY <2>2 DEF Source!Undone
      <3> HIDE DEF unsafe
      <3> QED BY <1>1, <3>1, NotAcquiredIs
    <2>3. CASE work.by # "close" /\ ~failed /\ work.ok
      <3>1. Source!Hold("capture") /\ nintendo' = c
        BY <2>3 DEF Source!Undone
      <3> QED BY <2>3, <3>1, WorkMoves DEF Goes, Source!Hold, Source!Steps
    <2>4. CASE work.by # "close" /\ ~failed /\ ~work.ok
      <3>1. PICK e \in {"transport", "other"} : Source!NotAcquired(c, e)
        BY <2>4 DEF Source!Undone
      <3> QED BY <3>1, NotAcquiredIs
    <2> QED BY <2>1, <2>2, <2>3, <2>4
  <1>3. /\ ContextTyped' /\ CacheTyped' /\ nintendo'.cache = nintendo.cache
        /\ nintendo'.demand = nintendo.demand /\ nintendo'.abort = nintendo.abort
    BY <1>2, Shaped
  <1>4. NinTyped'
    BY <1>2, <1>3, OthersTyped DEF NinTyped, Goes
  <1>5. Debts'
    BY <1>2 DEF Debts, Goes
  <1>6. Acquires
    BY <1>2, <1>3 DEF Acquires, Goes
  <1> QED BY <1>4, <1>5, <1>6, AcquiresKeeps

\* An undo that ends leaves pending what it could not clear.
LEMMA UndonePending ==
  ASSUME NEW c \in Shape, NEW failed \in BOOLEAN, Source!Undone(c, failed)
  PROVE  nintendo'.pending = c.pending
  <1> DEFINE unsafe == [c EXCEPT !.poisoned = TRUE, !.present = FALSE]
  <1>1. nintendo' = c \/ \E b \in {c, unsafe}, e \in {"transport", "other"} : Source!NotAcquired(b, e)
    BY DEF Source!Undone
  <1>2. unsafe \in Shape /\ unsafe.pending = c.pending
    BY DEF Shape
  <1> HIDE DEF unsafe
  <1>3. \A b \in Shape, e \in {"transport", "other"} : Source!NotAcquired(b, e) => nintendo'.pending = b.pending
    BY DEF Source!NotAcquired, Shape
  <1> QED BY <1>1, <1>2, <1>3

\* An admission byte cleared and read back.
LEMMA UndoKeeps ==
  ASSUME NinInv, Source!Undo
  PROVE  NinInv'
  <1> USE DEF NinInv
  <1>1. work.step = "undo" /\ UNCHANGED <<reader, worker, owner>>
    BY DEF Source!Undo
  <1>2. CASE nintendo.pending = {} \/ (work.at = Addresses /\ nintendo.gone)
    <2> DEFINE c == [nintendo EXCEPT !.pending = {}]
    <2>1. Source!Undone(c, FALSE) /\ UNCHANGED <<mechanism, ghost>>
      BY <1>2 DEF Source!Undo
    <2>2. c \in Shape /\ c.gone = nintendo.gone /\ c.pending = {}
      BY Shaped DEF Shape
    <2>3. ghost.set \subseteq c.pending
      BY <1>2, <2>2 DEF Debts
    <2> HIDE DEF c
    <2> QED BY <1>1, <2>1, <2>2, <2>3, UndoneStep
  <1>3. CASE ~(nintendo.pending = {} \/ (work.at = Addresses /\ nintendo.gone)) /\ work.at = 0
    <2>1. Source!Undone(nintendo, TRUE) /\ UNCHANGED <<mechanism, ghost>>
      BY <1>3 DEF Source!Undo
    <2> QED BY <1>1, <2>1, Shaped, UndoneStep DEF Debts
  <1>4. CASE ~(nintendo.pending = {} \/ (work.at = Addresses /\ nintendo.gone)) /\ work.at # 0
    <2>1. /\ work' = [work EXCEPT !.at = work.at - 1]
          /\ IF work.at \in nintendo.pending
             THEN \E ok \in Source!Reply63 :
                    /\ Source!WriteByte(work.at, FALSE, ok)
                    /\ nintendo' = [Source!Noted(nintendo) EXCEPT !.pending = IF ok THEN @ \ {work.at} ELSE @]
             ELSE UNCHANGED <<mechanism, nintendo, ghost>>
      BY <1>4 DEF Source!Undo
    <2>2. work.at \in Source!Bytes /\ work.at - 1 \in 0 .. Addresses
      BY <1>4, NinConstants DEF NinTyped, WorkTyped, Source!Bytes
    <2>3. Goes("undo")
      BY <1>1, <2>1, <2>2, WorkMoves DEF Goes
    <2>4. CASE work.at \notin nintendo.pending
      <3>1. UNCHANGED <<mechanism, nintendo, ghost>>
        BY <2>1, <2>4
      <3>2. /\ ContextTyped' /\ CacheTyped' /\ nintendo'.cache = nintendo.cache
        BY <3>1, OthersTyped, <1>1
      <3>3. NinTyped'
        BY <1>1, <2>3, <3>1, <3>2, OthersTyped DEF NinTyped, Goes
      <3>4. Debts'
        BY <2>3, <3>1 DEF Debts, Goes
      <3>5. Acquires
        BY <1>1, <2>3, <3>1 DEF Acquires, Goes
      <3> QED BY <3>3, <3>4, <3>5, AcquiresKeeps
    <2>5. CASE work.at \in nintendo.pending
      <3>1. PICK ok \in Source!Reply63 :
              /\ Source!WriteByte(work.at, FALSE, ok)
              /\ nintendo' = [Source!Noted(nintendo) EXCEPT !.pending = IF ok THEN @ \ {work.at} ELSE @]
        BY <2>1, <2>5
      <3> DEFINE owed == IF ok THEN nintendo.pending \ {work.at} ELSE nintendo.pending
      <3>2. owed \in SUBSET Source!Bytes
        BY DEF NinTyped, ContextTyped
      <3>3. nintendo' = [Source!Noted(nintendo) EXCEPT !.pending = owed]
        BY <3>1, Shaped
      <3>4. ghost'.set \subseteq owed
        BY <2>2, <3>1, WrittenIs DEF Debts
      <3> HIDE DEF owed
      <3>5. /\ nintendo' \in Shape /\ nintendo'.pending = owed
            /\ (nintendo'.gone <=> nintendo.gone \/ ~mechanism.answers)
        BY <3>2, <3>3, Shaped DEF Shape
      <3>6. /\ ContextTyped' /\ CacheTyped' /\ nintendo'.cache = nintendo.cache
            /\ nintendo'.demand = nintendo.demand /\ nintendo'.abort = nintendo.abort
        BY <3>5, Shaped
      <3>7. NinTyped'
        BY <1>1, <2>2, <2>3, <3>1, <3>6, OthersTyped, WrittenIs DEF NinTyped, Goes
      <3>8. /\ mechanism'.answers = mechanism.answers /\ mechanism'.attached = mechanism.attached
            /\ ghost'.set \subseteq ghost.set /\ ghost'.killed = ghost.killed /\ ghost'.lost = ghost.lost
        BY <2>2, <3>1, WrittenIs
      <3>9. Debts'
        BY <2>3, <3>4, <3>5, <3>8 DEF Debts, Goes
      <3>10. Acquires
        BY <1>1, <2>3, <3>6, <3>8 DEF Acquires, Goes
      <3> QED BY <3>7, <3>9, <3>10, AcquiresKeeps
    <2> QED BY <2>4, <2>5
  <1> QED BY <1>2, <1>3, <1>4

-----------------------------------------------------------------------------
(* The readers. *)

\* A record of a reader.
ReaderShape(x) ==
  x \in [place : ReaderPlaces, lba : {x.lba}, blocks : {x.blocks}, at : {x.at}, ok : BOOLEAN]

\* A step of a reader leaves the others where they are.
LEMMA ReaderMoves ==
  ASSUME NinTyped, NEW r \in Readers, NEW x, ReaderShape(x), reader' = [reader EXCEPT ![r] = x]
  PROVE  /\ ReaderTyped' /\ reader'[r] = x
         /\ \A q \in Readers : q # r => reader'[q] = reader[q] /\ Source!BlockAt(q)' = Source!BlockAt(q)
  <1>1. reader'[r] = x /\ \A q \in Readers : q # r => reader'[q] = reader[q] /\ Source!BlockAt(q)' = Source!BlockAt(q)
    BY DEF NinTyped, ReaderTyped, Source!BlockAt
  <1>2. reader' = [q \in Readers |-> IF q = r THEN x ELSE reader[q]]
    BY DEF NinTyped, ReaderTyped
  <1>3. (reader \in [Readers -> {reader[q] : q \in Readers}])'
    BY <1>1, <1>2
  <1>4. \A q \in Readers : ReaderShape(reader'[q])
    BY <1>1 DEF NinTyped, ReaderTyped, ReaderShape
  <1> QED BY <1>1, <1>3, <1>4 DEF ReaderTyped, ReaderShape

\* What a reader becomes keeps its shape.
LEMMA ReaderShapes ==
  ASSUME NinTyped, NEW r \in Readers
  PROVE  /\ ReaderShape(reader[r])
         /\ ReaderShape(Source!Advanced(r)) /\ Source!Advanced(r).place \in {"schedule", "copy"}
         /\ ReaderShape(Source!Broken(r)) /\ Source!Broken(r).place = "leave"
         /\ ReaderShape(Source!NoReader) /\ Source!NoReader.place = "idle"
         /\ \A p \in ReaderPlaces :
              /\ ReaderShape([reader[r] EXCEPT !.place = p]) /\ [reader[r] EXCEPT !.place = p].place = p
              /\ [reader[r] EXCEPT !.place = p].at = reader[r].at
              /\ Source!Go(r, p) => reader' = [reader EXCEPT ![r] = [reader[r] EXCEPT !.place = p]]
  <1> USE DEF NinTyped, ReaderTyped, ReaderShape, ReaderPlaces
  <1>1. ReaderShape(reader[r])
    OBVIOUS
  <1>2. ReaderShape(Source!Broken(r)) /\ Source!Broken(r).place = "leave"
    BY DEF Source!Broken
  <1>3. ReaderShape(Source!NoReader) /\ Source!NoReader.place = "idle"
    BY DEF Source!NoReader
  <1>4. ASSUME NEW p \in ReaderPlaces
        PROVE  /\ ReaderShape([reader[r] EXCEPT !.place = p]) /\ [reader[r] EXCEPT !.place = p].place = p
               /\ [reader[r] EXCEPT !.place = p].at = reader[r].at
               /\ Source!Go(r, p) => reader' = [reader EXCEPT ![r] = [reader[r] EXCEPT !.place = p]]
    BY DEF Source!Go
  <1>5. ReaderShape(Source!Advanced(r)) /\ Source!Advanced(r).place \in {"schedule", "copy"}
    <2> DEFINE next == (Source!BlockAt(r) + 1) * BlockSectors
    <2>1. Source!Advanced(r) = [reader[r] EXCEPT !.place = "schedule"]
          \/ Source!Advanced(r) = [reader[r] EXCEPT !.place = "copy", !.at = next]
      BY DEF Source!Advanced
    <2> HIDE DEF next
    <2> QED BY <2>1
  <1> QED BY <1>1, <1>2, <1>3, <1>4, <1>5

\* A reader is inside a session.
LEMMA ReaderInSession ==
  ASSUME NinInv, NEW r \in Readers, reader[r].place # "idle"
  PROVE  owner = "open"
  BY DEF NinInv, Calls, Source!NoReader

\* A step within a session that touches neither the drive nor what is owed.
LEMMA SessionStep ==
  ASSUME NinInv, owner = "open", UNCHANGED <<mechanism, owner>>, NinTyped',
         ghost'.set = ghost.set, ghost'.killed = ghost.killed,
         UNCHANGED work \/ (work'.step # "admit" /\ work'.by \in {"free", "worker"} \cup Readers),
         nintendo'.pending = nintendo.pending, nintendo'.gone = nintendo.gone
  PROVE  Debts' /\ Calls'
  BY DEF NinInv, Debts, Calls

\* The types after a step of a reader or of the worker.
LEMMA MovesTyped ==
  ASSUME NinTyped
  PROVE  /\ UNCHANGED mechanism => MechanismTyped'
         /\ UNCHANGED work => WorkTyped'
         /\ UNCHANGED worker => WorkerTyped'
         /\ UNCHANGED reader => ReaderTyped'
         /\ UNCHANGED <<owner, ghost>> => OwnerTyped'
         /\ UNCHANGED nintendo => ContextTyped' /\ CacheTyped'
         /\ work' = Source!NoWork => WorkTyped' /\ work'.by = "free" /\ work'.step = "done" /\ ~work'.ok
         /\ \A t \in {"free", "open", "close", "worker"} \cup Readers, s \in Source!Steps : \A b : work' = Source!Working(t, b, s) =>
              WorkTyped' /\ work'.by = t /\ work'.block = b /\ work'.step = s /\ ~work'.ok
         /\ Source!Wake => WorkerTyped' /\ worker'.place # "asleep"
                    /\ (worker.place # "asleep" => worker'.place = worker.place)
         /\ worker' = Source!NoWorker => WorkerTyped' /\ worker'.place = "gone"
  <1> USE NinConstants DEF NinTyped
  <1>1. /\ UNCHANGED mechanism => MechanismTyped'
        /\ UNCHANGED work => WorkTyped'
        /\ UNCHANGED worker => WorkerTyped'
        /\ UNCHANGED reader => ReaderTyped'
        /\ UNCHANGED <<owner, ghost>> => OwnerTyped'
        /\ UNCHANGED nintendo => ContextTyped' /\ CacheTyped'
    BY DEF MechanismTyped, WorkTyped, WorkerTyped, ReaderTyped, OwnerTyped, ContextTyped, CacheTyped
  <1>2. work' = Source!NoWork => WorkTyped' /\ work'.by = "free" /\ work'.step = "done" /\ ~work'.ok
    BY DEF WorkTyped, Source!NoWork, Source!Steps
  <1>3. ASSUME NEW t \in {"free", "open", "close", "worker"} \cup Readers, NEW s \in Source!Steps, NEW b, work' = Source!Working(t, b, s)
        PROVE  WorkTyped' /\ work'.by = t /\ work'.block = b /\ work'.step = s /\ ~work'.ok
    <2>1. work' = [by |-> t, block |-> b, attempt |-> 1, step |-> s, at |-> 0, ok |-> FALSE, error |-> "none"]
      BY <1>3 DEF Source!Working, Source!NoWork
    <2> QED BY <2>1 DEF WorkTyped
  <1>4. Source!Wake => WorkerTyped' /\ worker'.place # "asleep"
                    /\ (worker.place # "asleep" => worker'.place = worker.place)
    BY DEF WorkerTyped, Source!Wake
  <1>5. worker' = Source!NoWorker => WorkerTyped' /\ worker'.place = "gone"
    <2> DEFINE any == CHOOSE s \in Streams : TRUE
    <2>1. Source!NoWorker = [place |-> "gone", stream |-> any, lba |-> 0, stale |-> FALSE, ok |-> FALSE]
      BY DEF Source!NoWorker
    <2> HIDE DEF any
    <2> QED BY <2>1 DEF WorkerTyped
  <1> QED BY <1>1, <1>2, <1>3, <1>4, <1>5

\* A read begun: its demand counts.
LEMMA ReadBeginKeeps ==
  ASSUME NinInv, NEW r \in Readers, Source!ReadBegin(r)
  PROVE  NinInv'
  <1> USE DEF NinInv
  <1>1. /\ owner = "open" /\ UNCHANGED <<mechanism, work, worker, owner, ghost>> /\ reader[r].place = "idle"
        /\ nintendo' = [nintendo EXCEPT !.demand = @ \cup {r}]
    BY DEF Source!ReadBegin, Source!At63
  <1>2. PICK q : reader' = [reader EXCEPT ![r] = [place |-> "copy", lba |-> q[1], blocks |-> q[2],
                                        at |-> q[1], ok |-> TRUE]]
    BY DEF Source!ReadBegin
  <1> DEFINE x == [place |-> "copy", lba |-> q[1], blocks |-> q[2], at |-> q[1], ok |-> TRUE]
  <1>3. ReaderShape(x) /\ x.place = "copy"
    BY DEF ReaderShape, ReaderPlaces
  <1>4. reader' = [reader EXCEPT ![r] = x]
    BY <1>2
  <1> HIDE DEF x
  <1>5. /\ ReaderTyped' /\ reader'[r] = x
        /\ \A p \in Readers : p # r => reader'[p] = reader[p] /\ Source!BlockAt(p)' = Source!BlockAt(p)
    BY <1>3, <1>4, ReaderMoves
  <1>6. ContextTyped' /\ CacheTyped' /\ nintendo'.cache = nintendo.cache
        /\ nintendo'.pending = nintendo.pending /\ nintendo'.gone = nintendo.gone
        /\ nintendo'.demand = nintendo.demand \cup {r}
    BY <1>1 DEF NinTyped, ContextTyped, CacheTyped
  <1>7. NinTyped'
    BY <1>1, <1>5, <1>6, MovesTyped DEF NinTyped
  <1>8. Debts' /\ Calls'
    BY <1>1, <1>6, <1>7, SessionStep
  <1>9. Shared'
    BY <1>1, <1>3, <1>5, <1>6 DEF Shared
  <1> QED BY <1>7, <1>8, <1>9

\* A step of a reader that leaves the work of the drive alone.
LEMMA ReaderStep ==
  ASSUME NinInv, NEW r \in Readers, reader[r].place \notin {"idle", "work"}, NEW x, ReaderShape(x),
         x.place # "work", x.place = "idle" => x = Source!NoReader,
         x.place \notin {"idle", "signal"} => r \in nintendo'.demand,
         reader' = [reader EXCEPT ![r] = x],
         UNCHANGED <<mechanism, work, owner, ghost>>, WorkerTyped', worker.place = "work" => worker'.place = "work",
         ContextTyped', CacheTyped', nintendo'.pending = nintendo.pending, nintendo'.gone = nintendo.gone,
         nintendo.demand \ {r} \subseteq nintendo'.demand,
         \A b : Source!Within(nintendo.cache, b) => Source!Within(nintendo'.cache, b)
  PROVE  NinInv'
  <1> USE DEF NinInv
  <1>1. owner = "open"
    BY ReaderInSession
  <1>2. /\ ReaderTyped' /\ reader'[r] = x
        /\ \A p \in Readers : p # r => reader'[p] = reader[p] /\ Source!BlockAt(p)' = Source!BlockAt(p)
    BY ReaderMoves
  <1>3. NinTyped'
    BY <1>2, MovesTyped DEF NinTyped
  <1>4. Debts' /\ Calls'
    BY <1>1, <1>3, SessionStep
  <1>5. work.by # r
    BY DEF Shared
  <1>6. Shared'
    BY <1>2, <1>5 DEF Shared
  <1> QED BY <1>3, <1>4, <1>6

\* A block copied from the buffer, or missing.
LEMMA ReadCopyKeeps ==
  ASSUME NinInv, NEW r \in Readers, Source!ReadCopy(r)
  PROVE  NinInv'
  <1> USE DEF NinInv
  <1>1. reader[r].place = "copy" /\ UNCHANGED <<mechanism, work, worker, owner, ghost>>
    BY DEF Source!ReadCopy, Source!At63
  <1> DEFINE x == IF ~Source!Readable THEN Source!Broken(r)
                  ELSE IF Source!Within(nintendo.cache, Source!BlockAt(r)) THEN Source!Advanced(r)
                  ELSE [reader[r] EXCEPT !.place = "lock"]
  <1>2. reader' = [reader EXCEPT ![r] = x]
    BY DEF Source!ReadCopy
  <1>3. ReaderShape(x) /\ x.place \notin {"work", "idle"}
    BY ReaderShapes DEF ReaderPlaces
  <1> HIDE DEF x
  <1>4. \/ UNCHANGED nintendo
        \/ nintendo' = [nintendo EXCEPT !.cache = Source!Touch(@, Source!BlockAt(r))]
    BY DEF Source!ReadCopy
  <1>5. ASequence(Source!Touch(nintendo.cache, Source!BlockAt(r))) /\ Len(Source!Touch(nintendo.cache, Source!BlockAt(r))) = Len(nintendo.cache)
        /\ \A b : Source!Within(nintendo.cache, b) => Source!Within(Source!Touch(nintendo.cache, Source!BlockAt(r)), b)
    BY TouchIs DEF NinTyped, CacheTyped
  <1>6. nintendo'.cache \in {nintendo.cache, Source!Touch(nintendo.cache, Source!BlockAt(r))}
    BY <1>4 DEF NinTyped, ContextTyped
  <1>7. CacheTyped' /\ \A b : Source!Within(nintendo.cache, b) => Source!Within(nintendo'.cache, b)
    BY <1>5, <1>6 DEF NinTyped, CacheTyped
  <1>8. ContextTyped' /\ nintendo'.pending = nintendo.pending /\ nintendo'.gone = nintendo.gone
        /\ nintendo'.demand = nintendo.demand
    BY <1>4 DEF NinTyped, ContextTyped
  <1>9. r \in nintendo.demand
    BY <1>1 DEF Shared
  <1>10. WorkerTyped'
    BY <1>1, MovesTyped
  <1> QED BY <1>1, <1>2, <1>3, <1>7, <1>8, <1>9, <1>10, ReaderStep

\* A reader takes the drive.
LEMMA ReadLockKeeps ==
  ASSUME NinInv, NEW r \in Readers, Source!ReadLock(r)
  PROVE  NinInv'
  <1> USE DEF NinInv
  <1>1. reader[r].place = "lock" /\ work.by = "free" /\ UNCHANGED <<mechanism, worker, owner, ghost>>
    BY DEF Source!ReadLock, Source!At63
  <1>2. r \in nintendo.demand /\ owner = "open" /\ WorkerTyped' /\ MechanismTyped' /\ OwnerTyped'
    BY <1>1, ReaderInSession, MovesTyped DEF Shared
  <1>3. CASE Source!Readable
    <2> DEFINE x == [reader[r] EXCEPT !.place = "work"]
    <2>1. reader' = [reader EXCEPT ![r] = x] /\ work' = Source!Working(r, Source!BlockAt(r), "lookup") /\ UNCHANGED nintendo
      BY <1>3, ReaderShapes DEF Source!ReadLock, ReaderPlaces
    <2>2. ReaderShape(x) /\ x.place = "work" /\ x.at = reader[r].at
      <3>1. "work" \in ReaderPlaces
        BY DEF ReaderPlaces
      <3> QED BY <3>1, ReaderShapes
    <2> HIDE DEF x
    <2>3. /\ ReaderTyped' /\ reader'[r] = x
          /\ \A p \in Readers : p # r => reader'[p] = reader[p] /\ Source!BlockAt(p)' = Source!BlockAt(p)
      BY <2>1, <2>2, ReaderMoves
    <2>4. WorkTyped' /\ work'.by = r /\ work'.block = Source!BlockAt(r) /\ work'.step = "lookup" /\ ~work'.ok
      BY <2>1, MovesTyped DEF Source!Steps
    <2>5. NinTyped'
      BY <1>2, <2>1, <2>3, <2>4, MovesTyped DEF NinTyped
    <2>6. Debts' /\ Calls'
      BY <1>1, <1>2, <2>1, <2>4, <2>5, SessionStep
    <2>7. Source!BlockAt(r)' = Source!BlockAt(r)
      BY <2>2, <2>3 DEF Source!BlockAt
    <2>8. \A p \in Readers : p # r => reader[p].place # "work"
      BY <1>1, NinConstants DEF Shared
    <2>9. r \notin {"open", "close", "worker", "free"}
      BY NinConstants
    <2>10. Shared'
      BY <1>1, <1>2, <2>1, <2>2, <2>3, <2>4, <2>7, <2>8, <2>9 DEF Shared
    <2> QED BY <2>5, <2>6, <2>10
  <1>4. CASE ~Source!Readable
    <2>1. /\ reader' = [reader EXCEPT ![r] = Source!Broken(r)] /\ UNCHANGED work
          /\ nintendo' = nintendo \/ nintendo' = [nintendo EXCEPT !.present = FALSE]
      BY <1>4 DEF Source!ReadLock
    <2>2. ContextTyped' /\ nintendo'.cache = nintendo.cache /\ nintendo'.pending = nintendo.pending
          /\ nintendo'.gone = nintendo.gone /\ nintendo'.demand = nintendo.demand
      BY <2>1 DEF NinTyped, ContextTyped
    <2>3. CacheTyped'
      BY <2>2 DEF NinTyped, CacheTyped
    <2> QED BY <1>1, <1>2, <2>1, <2>2, <2>3, ReaderShapes, ReaderStep
  <1> QED BY <1>3, <1>4

\* A reader gives it up, with its block or an error.
LEMMA ReadUnlockKeeps ==
  ASSUME NinInv, NEW r \in Readers, Source!ReadUnlock(r)
  PROVE  NinInv'
  <1> USE DEF NinInv
  <1>1. reader[r].place = "work" /\ work.step = "done" /\ work' = Source!NoWork /\ UNCHANGED <<mechanism, worker, owner>>
    BY DEF Source!ReadUnlock, Source!At63
  <1>2. /\ r \in nintendo.demand /\ owner = "open" /\ work.by = r /\ work.block = Source!BlockAt(r)
        /\ WorkerTyped' /\ MechanismTyped'
    BY <1>1, ReaderInSession, MovesTyped DEF Shared
  <1>3. \A p \in Readers : p \notin {"open", "close", "worker", "free"}
    BY NinConstants
  <1>4. WorkTyped' /\ work'.by = "free" /\ work'.step = "done" /\ ~work'.ok
    BY <1>1, MovesTyped
  <1>5. PICK x \in {Source!Advanced(r), Source!Broken(r)} : reader' = [reader EXCEPT ![r] = x]
    BY DEF Source!ReadUnlock
  <1>6. ReaderShape(x) /\ x.place \notin {"work", "idle"}
    BY <1>5, ReaderShapes
  <1>7. /\ ReaderTyped' /\ reader'[r] = x
        /\ \A p \in Readers : p # r => reader'[p] = reader[p] /\ Source!BlockAt(p)' = Source!BlockAt(p)
    BY <1>5, <1>6, ReaderMoves
  <1>8. work.ok => Source!Within(nintendo.cache, Source!BlockAt(r))
    BY <1>1, <1>2, <1>3 DEF Shared
  <1>9. UNCHANGED ghost
    <2>1. CASE work.ok
      <3>1. ghost' = [ghost EXCEPT !.lost = FALSE] /\ ghost.lost = FALSE
        BY <1>8, <2>1 DEF Source!ReadUnlock, Shared, NinTyped, OwnerTyped
      <3> QED BY <3>1 DEF NinTyped, OwnerTyped
    <2>2. CASE ~work.ok
      BY <2>2 DEF Source!ReadUnlock
    <2> QED BY <2>1, <2>2
  <1>10. \/ nintendo' = [nintendo EXCEPT !.cache = Source!Touch(@, Source!BlockAt(r))]
         \/ nintendo' = [nintendo EXCEPT !.present = @ /\ work.error # "transport"]
    BY DEF Source!ReadUnlock
  <1>11. ASequence(Source!Touch(nintendo.cache, Source!BlockAt(r))) /\ Len(Source!Touch(nintendo.cache, Source!BlockAt(r))) = Len(nintendo.cache)
    BY TouchIs DEF NinTyped, CacheTyped
  <1>12. ContextTyped' /\ nintendo'.cache \in {nintendo.cache, Source!Touch(nintendo.cache, Source!BlockAt(r))}
         /\ nintendo'.pending = nintendo.pending /\ nintendo'.gone = nintendo.gone /\ nintendo'.demand = nintendo.demand
    BY <1>10 DEF NinTyped, ContextTyped
  <1>13. CacheTyped'
    BY <1>11, <1>12 DEF NinTyped, CacheTyped
  <1>14. NinTyped'
    BY <1>1, <1>2, <1>4, <1>7, <1>9, <1>12, <1>13, MovesTyped DEF NinTyped
  <1>15. Debts' /\ Calls'
    BY <1>1, <1>2, <1>4, <1>9, <1>12, <1>14, SessionStep
  <1>16. \A p \in Readers : p # r => reader[p].place # "work"
    BY <1>2 DEF Shared
  <1>17. Shared'
    BY <1>2, <1>3, <1>4, <1>6, <1>7, <1>9, <1>12, <1>16 DEF Shared
  <1> QED BY <1>14, <1>15, <1>17

\* Speculation scheduled after a read.
LEMMA ReadScheduleKeeps ==
  ASSUME NinInv, NEW r \in Readers, Source!ReadSchedule(r)
  PROVE  NinInv'
  <1> USE DEF NinInv
  <1> DEFINE x == [reader[r] EXCEPT !.place = "leave"]
  <1>1. reader[r].place = "schedule" /\ UNCHANGED <<mechanism, work, owner, ghost>>
    BY DEF Source!ReadSchedule, Source!At63
  <1>2. reader' = [reader EXCEPT ![r] = x] /\ ReaderShape(x) /\ x.place = "leave"
    BY ReaderShapes DEF Source!ReadSchedule, ReaderPlaces
  <1> HIDE DEF x
  <1>3. r \in nintendo.demand
    BY <1>1 DEF Shared
  <1>4. \/ UNCHANGED <<nintendo, worker>>
        \/ \E streams, recent, stale : nintendo' = [nintendo EXCEPT !.streams = streams, !.recent = recent]
                                       /\ worker' = [worker EXCEPT !.stale = stale] /\ stale \in BOOLEAN
    <2> DEFINE slot == Source!Slot(reader[r].lba)
               follows == \E s \in Streams : Source!Follows(s, reader[r].lba)
               end == reader[r].lba + reader[r].blocks
               skip == IF follows THEN end <= nintendo.streams[slot].last ELSE reader[r].blocks < MinStart
    <2>1. IF ~Source!Readable \/ skip THEN UNCHANGED <<nintendo, worker>>
          ELSE /\ nintendo' = [nintendo EXCEPT !.streams[slot] = Source!Moved(@, follows, end),
                                             !.recent = Append(Source!Without(@, slot), slot)]
               /\ worker' = [worker EXCEPT !.stale = @ \/ worker.stream = slot]
      BY DEF Source!ReadSchedule
    <2> HIDE DEF slot, follows, end, skip
    <2>2. CASE ~Source!Readable \/ skip
      BY <2>1, <2>2
    <2>3. CASE ~(~Source!Readable \/ skip)
      <3>1. nintendo' = [nintendo EXCEPT
                !.streams = [nintendo.streams EXCEPT ![slot] = Source!Moved(nintendo.streams[slot], follows, end)],
                !.recent = Append(Source!Without(nintendo.recent, slot), slot)]
        BY <2>1, <2>3
      <3>2. worker' = [worker EXCEPT !.stale = worker.stale \/ worker.stream = slot]
        BY <2>1, <2>3
      <3>3. (worker.stale \/ worker.stream = slot) \in BOOLEAN
        BY DEF NinTyped, WorkerTyped
      <3> QED BY <3>1, <3>2, <3>3
    <2> QED BY <2>2, <2>3
  <1>5. ContextTyped' /\ nintendo'.cache = nintendo.cache /\ nintendo'.pending = nintendo.pending
        /\ nintendo'.gone = nintendo.gone /\ nintendo'.demand = nintendo.demand
    BY <1>4 DEF NinTyped, ContextTyped
  <1>6. CacheTyped'
    BY <1>5 DEF NinTyped, CacheTyped
  <1>7. WorkerTyped' /\ worker'.place = worker.place
    BY <1>4 DEF NinTyped, WorkerTyped
  <1> QED BY <1>1, <1>2, <1>3, <1>5, <1>6, <1>7, ReaderStep

\* The demand withdrawn.
LEMMA ReadLeaveKeeps ==
  ASSUME NinInv, NEW r \in Readers, Source!ReadLeave(r)
  PROVE  NinInv'
  <1> USE DEF NinInv
  <1> DEFINE x == [reader[r] EXCEPT !.place = "signal"]
  <1>1. reader[r].place = "leave" /\ UNCHANGED <<mechanism, work, worker, owner, ghost>>
        /\ nintendo' = [nintendo EXCEPT !.demand = @ \ {r}]
    BY DEF Source!ReadLeave, Source!At63
  <1>2. reader' = [reader EXCEPT ![r] = x] /\ ReaderShape(x) /\ x.place = "signal"
    BY ReaderShapes DEF Source!ReadLeave, ReaderPlaces
  <1> HIDE DEF x
  <1>3. ContextTyped' /\ nintendo'.cache = nintendo.cache /\ nintendo'.pending = nintendo.pending
        /\ nintendo'.gone = nintendo.gone /\ nintendo'.demand = nintendo.demand \ {r}
    BY <1>1 DEF NinTyped, ContextTyped
  <1>4. CacheTyped' /\ WorkerTyped'
    BY <1>1, <1>3, MovesTyped DEF NinTyped, CacheTyped
  <1> QED BY <1>1, <1>2, <1>3, <1>4, ReaderStep

\* The worker signalled.
LEMMA ReadSignalKeeps ==
  ASSUME NinInv, NEW r \in Readers, Source!ReadSignal(r)
  PROVE  NinInv'
  <1> USE DEF NinInv
  <1>1. reader[r].place = "signal" /\ UNCHANGED <<mechanism, nintendo, work, owner, ghost>> /\ Source!Wake
        /\ reader' = [reader EXCEPT ![r] = Source!NoReader]
    BY DEF Source!ReadSignal, Source!At63
  <1>2. ContextTyped' /\ CacheTyped' /\ WorkerTyped' /\ (worker.place = "work" => worker'.place = "work")
    BY <1>1, MovesTyped
  <1> QED BY <1>1, <1>2, ReaderShapes, ReaderStep

-----------------------------------------------------------------------------
(* The worker. *)

\* A step of the worker: what it does to the drive's work and to the context.
LEMMA WorkerStep ==
  ASSUME NinInv, worker.place \notin {"gone", "asleep"}, UNCHANGED <<mechanism, reader, owner, ghost>>,
         WorkerTyped', owner = "joining" => worker'.place # "asleep",
         \/ UNCHANGED work /\ (work.by = "worker" => worker'.place = "work")
         \/ /\ WorkTyped' /\ ~work'.ok /\ work.by \in {"free", "worker"}
            /\ \/ work'.by = "free" /\ work'.step = "done"
               \/ work'.by = "worker" /\ work'.step = "lookup" /\ worker'.place = "work",
         ContextTyped', nintendo'.cache = nintendo.cache, nintendo'.pending = nintendo.pending,
         nintendo'.gone = nintendo.gone, nintendo'.demand = nintendo.demand, nintendo'.abort = nintendo.abort
  PROVE  NinInv'
  <1> USE DEF NinInv
  <1>1. owner \in {"open", "joining"}
    BY DEF Calls
  <1>2. CacheTyped' /\ WorkTyped' /\ MechanismTyped' /\ ReaderTyped' /\ OwnerTyped'
    BY MovesTyped DEF NinTyped, CacheTyped
  <1>3. NinTyped'
    BY <1>2 DEF NinTyped
  <1>4. Debts'
    BY DEF Debts
  <1>5. Calls'
    BY <1>1 DEF Calls
  <1>6. \A r \in Readers : Source!BlockAt(r)' = Source!BlockAt(r) /\ r \notin {"open", "close", "worker", "free"}
    BY NinConstants DEF Source!BlockAt
  <1>7. Shared'
    BY <1>6 DEF Shared
  <1> QED BY <1>3, <1>4, <1>5, <1>7

\* The worker looks for work, sleeps or ends.
LEMMA WorkerLookKeeps ==
  ASSUME NinInv, Source!WorkerLook
  PROVE  NinInv'
  <1> USE DEF NinInv
  <1>1. worker.place = "look" /\ UNCHANGED <<mechanism, nintendo, work, reader, owner, ghost>>
    BY DEF Source!WorkerLook
  <1>2. work.by # "worker"
    BY <1>1 DEF Shared
  <1>3. WorkerTyped' /\ (owner = "joining" => worker'.place # "asleep")
    <2>1. CASE nintendo.abort \/ nintendo.poisoned
      BY <2>1, MovesTyped DEF Source!WorkerLook
    <2>2. CASE ~(nintendo.abort \/ nintendo.poisoned)
      <3> DEFINE s == Source!Newest
                 n == nintendo.streams[Source!Newest].next
      <3>1. \/ worker' = [worker EXCEPT !.place = "lock", !.stream = s, !.stale = FALSE, !.lba = n]
            \/ worker' = [worker EXCEPT !.place = "asleep"]
        BY <2>2 DEF Source!WorkerLook
      <3> HIDE DEF s, n
      <3>2. WorkerTyped'
        BY <3>1 DEF NinTyped, WorkerTyped
      <3>3. owner # "joining"
        BY <2>2 DEF Calls
      <3> QED BY <3>2, <3>3
    <2> QED BY <2>1, <2>2
  <1>4. ContextTyped'
    BY <1>1, MovesTyped
  <1> QED BY <1>1, <1>2, <1>3, <1>4, WorkerStep

\* The worker takes the drive when no reader waits for it.
LEMMA WorkerLockKeeps ==
  ASSUME NinInv, Source!WorkerLock
  PROVE  NinInv'
  <1> USE DEF NinInv
  <1>1. worker.place = "lock" /\ work.by = "free" /\ UNCHANGED <<mechanism, nintendo, reader, owner, ghost>>
    BY DEF Source!WorkerLock
  <1>2. ContextTyped'
    BY <1>1, MovesTyped
  <1>3. CASE nintendo.demand # {}
    <2>1. worker' = [worker EXCEPT !.place = "look"] /\ UNCHANGED work
      BY <1>3 DEF Source!WorkerLock
    <2>2. WorkerTyped' /\ worker'.place = "look"
      BY <2>1 DEF NinTyped, WorkerTyped
    <2> QED BY <1>1, <1>2, <2>1, <2>2, WorkerStep
  <1>4. CASE nintendo.demand = {}
    <2> DEFINE b == worker.lba \div BlockSectors
    <2>1. worker' = [worker EXCEPT !.place = "work"] /\ work' = Source!Working("worker", b, "lookup")
      BY <1>4 DEF Source!WorkerLock
    <2> HIDE DEF b
    <2>2. WorkerTyped' /\ worker'.place = "work"
      BY <2>1 DEF NinTyped, WorkerTyped
    <2>3. WorkTyped' /\ work'.by = "worker" /\ work'.step = "lookup" /\ ~work'.ok
      BY <2>1, MovesTyped DEF Source!Steps
    <2> QED BY <1>1, <1>2, <2>2, <2>3, WorkerStep
  <1> QED BY <1>3, <1>4

\* The worker gives it up.
LEMMA WorkerUnlockKeeps ==
  ASSUME NinInv, Source!WorkerUnlock
  PROVE  NinInv'
  <1> USE DEF NinInv
  <1>1. /\ worker.place = "work" /\ work.by = "worker" /\ work' = Source!NoWork
        /\ worker' = [worker EXCEPT !.place = "finish", !.ok = work.ok]
        /\ nintendo' = [nintendo EXCEPT !.poisoned = @ \/ work.error = "transport"]
        /\ UNCHANGED <<mechanism, reader, owner, ghost>>
    BY DEF Source!WorkerUnlock
  <1>2. work.ok \in BOOLEAN
    BY DEF NinTyped, WorkTyped
  <1>3. WorkerTyped' /\ worker'.place = "finish"
    BY <1>1, <1>2 DEF NinTyped, WorkerTyped
  <1>4. WorkTyped' /\ work'.by = "free" /\ work'.step = "done" /\ ~work'.ok
    BY <1>1, MovesTyped
  <1>5. /\ ContextTyped' /\ nintendo'.cache = nintendo.cache /\ nintendo'.pending = nintendo.pending
        /\ nintendo'.gone = nintendo.gone /\ nintendo'.demand = nintendo.demand /\ nintendo'.abort = nintendo.abort
    BY <1>1 DEF NinTyped, ContextTyped
  <1> QED BY <1>1, <1>3, <1>4, <1>5, WorkerStep

\* And files the result.
LEMMA WorkerFinishKeeps ==
  ASSUME NinInv, Source!WorkerFinish
  PROVE  NinInv'
  <1> USE DEF NinInv
  <1>1. /\ worker.place = "finish" /\ UNCHANGED <<mechanism, work, reader, owner, ghost>>
        /\ worker' = [worker EXCEPT !.place = "look", !.ok = FALSE, !.stale = FALSE, !.lba = 0]
    BY DEF Source!WorkerFinish
  <1>2. work.by # "worker"
    BY <1>1 DEF Shared
  <1>3. WorkerTyped' /\ worker'.place = "look"
    BY <1>1 DEF NinTyped, WorkerTyped
  <1>4. \E streams : nintendo' = [nintendo EXCEPT !.streams = streams]
    <2> DEFINE next == worker.lba + BlockSectors
    <2>1. CASE worker.stale
      <3>1. nintendo' = nintendo
        BY <2>1 DEF Source!WorkerFinish
      <3>2. nintendo' = [nintendo EXCEPT !.streams = nintendo.streams]
        BY <3>1 DEF NinTyped, ContextTyped
      <3> QED BY <3>2
    <2>2. CASE ~worker.stale /\ worker.ok
      <3>1. nintendo' = [nintendo EXCEPT !.streams = [nintendo.streams EXCEPT ![worker.stream].next = next]]
        BY <2>2 DEF Source!WorkerFinish
      <3> QED BY <3>1
    <2>3. CASE ~worker.stale /\ ~worker.ok
      <3>1. nintendo' = [nintendo EXCEPT !.streams = [nintendo.streams EXCEPT
               ![worker.stream] = [nintendo.streams[worker.stream] EXCEPT !.next = next, !.retry = next, !.end = next]]]
        BY <2>3 DEF Source!WorkerFinish
      <3> QED BY <3>1
    <2> QED BY <2>1, <2>2, <2>3
  <1>5. /\ ContextTyped' /\ nintendo'.cache = nintendo.cache /\ nintendo'.pending = nintendo.pending
        /\ nintendo'.gone = nintendo.gone /\ nintendo'.demand = nintendo.demand /\ nintendo'.abort = nintendo.abort
    BY <1>4 DEF NinTyped, ContextTyped
  <1> QED BY <1>1, <1>2, <1>3, <1>5, WorkerStep

-----------------------------------------------------------------------------
(* The owner. *)

\* A new context: nothing is owed, nothing is buffered.
LEMMA NoContextIs ==
  /\ Source!NoContext.pending = {} /\ ~Source!NoContext.gone /\ ~Source!NoContext.abort
  /\ nintendo' = Source!NoContext => ContextTyped' /\ CacheTyped'
  <1> DEFINE streams == [s \in Streams |-> Source!NoStream]
  <1>1. Source!NoContext = [poisoned |-> FALSE, present |-> FALSE, abort |-> FALSE, gone |-> FALSE, pending |-> {},
              raw |-> {}, cache |-> <<>>, streams |-> streams, recent |-> <<>>, demand |-> {}]
    BY DEF Source!NoContext
  <1> HIDE DEF streams
  <1>2. Source!NoContext.pending = {} /\ ~Source!NoContext.gone /\ ~Source!NoContext.abort /\ Source!NoContext.cache = <<>>
    BY <1>1
  <1>3. ASequence(<<>>) /\ Len(<<>>) <= BufferBlocks
    BY NinConstants DEF ASequence
  <1>4. ASSUME nintendo' = Source!NoContext
        PROVE  ContextTyped' /\ CacheTyped'
    <2>1. CacheTyped'
      BY <1>2, <1>3, <1>4 DEF CacheTyped
    <2>2. ContextTyped'
      BY <1>1, <1>4 DEF ContextTyped
    <2> QED BY <2>1, <2>2
  <1> QED BY <1>2, <1>4

\* Outside a session no reader and no worker is about.
LEMMA OwnerAlone ==
  ASSUME NinInv, UNCHANGED reader, owner \notin {"open"}, work'.by \notin Readers \cup {"worker"},
         work'.by = "free" => work'.step = "done" /\ ~work'.ok,
         work'.by # "close" => ~(work'.step = "done" /\ work'.ok), ghost'.lost = ghost.lost
  PROVE  Shared'
  <1>1. \A r \in Readers : reader'[r] = Source!NoReader
    BY DEF NinInv, Calls
  <1> QED BY <1>1 DEF NinInv, Shared, Source!NoReader

\* A drive selected.
LEMMA NinSelectKeeps ==
  ASSUME NinInv, Source!NinSelect
  PROVE  NinInv'
  <1> USE DEF NinInv
  <1>1. /\ owner = "closed" /\ mechanism.attached /\ owner' = "selected"
        /\ mechanism' = [mechanism EXCEPT !.answers = TRUE] /\ ghost' = [ghost EXCEPT !.killed = FALSE]
        /\ UNCHANGED <<nintendo, work, reader, worker>>
    BY DEF Source!NinSelect
  <1>2. MechanismTyped' /\ mechanism'.answers /\ mechanism'.attached /\ mechanism'.admission = mechanism.admission
    BY <1>1 DEF NinTyped, MechanismTyped
  <1>3. OwnerTyped' /\ ghost'.set = ghost.set /\ ~ghost'.killed /\ ghost'.lost = ghost.lost
    BY <1>1 DEF NinTyped, OwnerTyped
  <1>4. NinTyped'
    BY <1>1, <1>2, <1>3, MovesTyped DEF NinTyped
  <1>5. nintendo = Source!NoContext /\ work = Source!NoWork
    BY <1>1 DEF Calls
  <1>6. Debts'
    BY <1>1, <1>2, <1>3, <1>5, NoContextIs DEF Debts
  <1>7. Calls'
    BY <1>1, <1>3, <1>5 DEF Calls
  <1>8. work'.by = "free" /\ ~work'.ok /\ work'.step = "done"
    BY <1>1, <1>5 DEF Source!NoWork
  <1>9. Shared'
    BY <1>1, <1>3, <1>8, OwnerAlone, NinConstants
  <1> QED BY <1>4, <1>6, <1>7, <1>9

\* The context made.
LEMMA NinOpenKeeps ==
  ASSUME NinInv, Source!NinOpen
  PROVE  NinInv'
  <1> USE DEF NinInv
  <1>1. owner = "selected" /\ UNCHANGED <<mechanism, reader, worker, ghost>>
    BY DEF Source!NinOpen
  <1>2. nintendo = Source!NoContext /\ work = Source!NoWork /\ worker.place = "gone"
    BY <1>1 DEF Calls
  <1>3. ghost.set = {}
    BY <1>2, NoContextIs DEF Debts
  <1>4. ~ghost.killed
    BY <1>1 DEF Calls
  <1>5. CASE owner' = "closed" /\ UNCHANGED <<nintendo, work>>
    <2>1. OwnerTyped'
      BY <1>1, <1>5 DEF NinTyped, OwnerTyped
    <2>2. NinTyped'
      BY <1>1, <1>5, <2>1, MovesTyped DEF NinTyped
    <2>3. Debts'
      BY <1>1, <1>5 DEF Debts
    <2>4. Calls'
      BY <1>1, <1>2, <1>4, <1>5 DEF Calls
    <2>5. work'.by = "free" /\ ~work'.ok /\ work'.step = "done"
      BY <1>2, <1>5 DEF Source!NoWork
    <2>6. Shared'
      BY <1>1, <2>5, OwnerAlone, NinConstants
    <2> QED BY <2>2, <2>3, <2>4, <2>6
  <1>6. CASE /\ mechanism.answers /\ owner' = "opening"
             /\ work' = Source!Working("open", 0, "lookup") /\ nintendo' = Source!NoContext
    <2>1. OwnerTyped'
      BY <1>1, <1>6 DEF NinTyped, OwnerTyped
    <2>2. WorkTyped' /\ work'.by = "open" /\ work'.step = "lookup" /\ ~work'.ok
      BY <1>6, MovesTyped DEF Source!Steps
    <2>3. NinTyped'
      BY <1>1, <1>6, <2>1, <2>2, MovesTyped, NoContextIs DEF NinTyped
    <2>4. Debts'
      BY <1>1, <1>3, <1>6, <2>2, NoContextIs DEF Debts
    <2>5. Calls'
      BY <1>1, <1>2, <1>4, <1>6, <2>2 DEF Calls
    <2>6. Shared'
      BY <1>1, <2>2, OwnerAlone, NinConstants
    <2> QED BY <2>3, <2>4, <2>5, <2>6
  <1> QED BY <1>5, <1>6 DEF Source!NinOpen

\* The first block acquired before there is a worker.
LEMMA NinHeaderKeeps ==
  ASSUME NinInv, Source!NinHeader
  PROVE  NinInv'
  <1> USE DEF NinInv
  <1>1. owner = "opening" /\ UNCHANGED <<mechanism, nintendo, reader, worker, owner, ghost>>
    BY DEF Source!NinHeader
  <1>2. PICK b \in Source!Blocks : work' = Source!Working("open", b, "lookup")
    BY DEF Source!NinHeader
  <1>3. WorkTyped' /\ work'.by = "open" /\ work'.step = "lookup" /\ ~work'.ok
    BY <1>2, MovesTyped DEF Source!Steps
  <1>4. NinTyped'
    BY <1>1, <1>3, MovesTyped DEF NinTyped
  <1>5. Debts'
    BY <1>1, <1>3 DEF Debts
  <1>6. Calls'
    BY <1>1, <1>3 DEF Calls
  <1>7. Shared'
    BY <1>1, <1>3, OwnerAlone, NinConstants
  <1> QED BY <1>4, <1>5, <1>6, <1>7

\* The open ends: the worker starts, or all is put back.
LEMMA NinOpenedKeeps ==
  ASSUME NinInv, Source!NinOpened
  PROVE  NinInv'
  <1> USE DEF NinInv
  <1>1. owner = "opening" /\ work' = Source!NoWork /\ UNCHANGED <<mechanism, reader, ghost>>
    BY DEF Source!NinOpened
  <1>2. WorkTyped' /\ work'.by = "free" /\ work'.step = "done" /\ ~work'.ok
    BY <1>1, MovesTyped
  <1>3. worker.place = "gone" /\ ~ghost.killed
    BY <1>1 DEF Calls
  <1>4. CASE owner' = "held" /\ UNCHANGED <<nintendo, worker>>
    <2>1. OwnerTyped'
      BY <1>1, <1>4 DEF NinTyped, OwnerTyped
    <2>2. NinTyped'
      BY <1>1, <1>2, <1>4, <2>1, MovesTyped DEF NinTyped
    <2>3. Debts'
      BY <1>1, <1>2, <1>4 DEF Debts
    <2>4. Calls'
      BY <1>1, <1>2, <1>3, <1>4 DEF Calls
    <2>5. Shared'
      BY <1>1, <1>2, OwnerAlone, NinConstants
    <2> QED BY <2>2, <2>3, <2>4, <2>5
  <1>5. CASE nintendo.pending = {} /\ owner' = "closed" /\ nintendo' = Source!NoContext /\ UNCHANGED worker
    <2>1. OwnerTyped'
      BY <1>1, <1>5 DEF NinTyped, OwnerTyped
    <2>2. NinTyped'
      BY <1>1, <1>2, <1>5, <2>1, MovesTyped, NoContextIs DEF NinTyped
    <2>3. Debts'
      BY <1>1, <1>2, <1>5, NoContextIs DEF Debts
    <2>4. Calls'
      BY <1>1, <1>2, <1>3, <1>5 DEF Calls
    <2>5. Shared'
      BY <1>1, <1>2, OwnerAlone, NinConstants
    <2> QED BY <2>2, <2>3, <2>4, <2>5
  <1>6. CASE /\ owner' = "open" /\ nintendo' = [nintendo EXCEPT !.present = TRUE]
             /\ worker' = [Source!NoWorker EXCEPT !.place = "look"]
    <2>1. OwnerTyped'
      BY <1>1, <1>6 DEF NinTyped, OwnerTyped
    <2>2. /\ ContextTyped' /\ nintendo'.cache = nintendo.cache /\ nintendo'.pending = nintendo.pending
          /\ nintendo'.gone = nintendo.gone
      BY <1>6 DEF NinTyped, ContextTyped
    <2>3. CacheTyped'
      BY <2>2 DEF NinTyped, CacheTyped
    <2>4. WorkerTyped' /\ worker'.place = "look"
      <3> DEFINE any == CHOOSE s \in Streams : TRUE
      <3>1. worker' = [place |-> "look", stream |-> any, lba |-> 0, stale |-> FALSE, ok |-> FALSE]
        BY <1>6 DEF Source!NoWorker
      <3> HIDE DEF any
      <3> QED BY <3>1 DEF WorkerTyped
    <2>5. NinTyped'
      BY <1>1, <1>2, <2>1, <2>2, <2>3, <2>4, MovesTyped DEF NinTyped
    <2>6. Debts'
      BY <1>1, <1>2, <2>2 DEF Debts
    <2>7. Calls'
      BY <1>1, <1>2, <1>3, <1>6 DEF Calls
    <2>8. Shared'
      BY <1>1, <1>2, OwnerAlone, NinConstants
    <2> QED BY <2>5, <2>6, <2>7, <2>8
  <1> QED BY <1>4, <1>5, <1>6 DEF Source!NinOpened, Source!FailOpen

\* The session is told to end.
LEMMA AbortIs ==
  ASSUME NinInv, Source!SetAbort, Source!Wake
  PROVE  /\ ContextTyped' /\ CacheTyped' /\ WorkerTyped' /\ worker'.place # "asleep"
         /\ (worker.place # "asleep" => worker'.place = worker.place)
         /\ nintendo'.abort /\ nintendo'.cache = nintendo.cache /\ nintendo'.pending = nintendo.pending
         /\ nintendo'.gone = nintendo.gone /\ nintendo'.demand = nintendo.demand
  <1>1. /\ ContextTyped' /\ nintendo'.abort /\ nintendo'.cache = nintendo.cache /\ nintendo'.pending = nintendo.pending
        /\ nintendo'.gone = nintendo.gone /\ nintendo'.demand = nintendo.demand
    BY DEF NinInv, NinTyped, ContextTyped, Source!SetAbort
  <1>2. CacheTyped'
    BY <1>1 DEF NinInv, NinTyped, CacheTyped
  <1> QED BY <1>1, <1>2, MovesTyped DEF NinInv

\* The readers aborted.
LEMMA NinAbortKeeps ==
  ASSUME NinInv, Source!NinAbort
  PROVE  NinInv'
  <1> USE DEF NinInv
  <1>1. owner = "open" /\ Source!SetAbort /\ Source!Wake /\ UNCHANGED <<mechanism, work, reader, owner, ghost>>
    BY DEF Source!NinAbort
  <1>2. NinTyped'
    BY <1>1, AbortIs, MovesTyped DEF NinTyped
  <1>3. Debts' /\ Calls'
    BY <1>1, <1>2, AbortIs, SessionStep
  <1>4. \A r \in Readers : Source!BlockAt(r)' = Source!BlockAt(r)
    BY <1>1 DEF Source!BlockAt
  <1>5. Shared'
    BY <1>1, <1>4, AbortIs DEF Shared
  <1> QED BY <1>2, <1>3, <1>5

\* A close begun, once the readers are gone.
LEMMA NinCloseKeeps ==
  ASSUME NinInv, Source!NinClose
  PROVE  NinInv'
  <1> USE DEF NinInv
  <1>1. /\ owner \in {"open", "held"} /\ owner' = "joining" /\ Source!SetAbort /\ Source!Wake
        /\ UNCHANGED <<mechanism, work, reader, ghost>> /\ \A r \in Readers : reader[r].place = "idle"
    BY DEF Source!NinClose, Source!At63
  <1>2. OwnerTyped'
    BY <1>1 DEF NinTyped, OwnerTyped
  <1>3. NinTyped'
    BY <1>1, <1>2, AbortIs, MovesTyped DEF NinTyped
  <1>4. Debts'
    BY <1>1, AbortIs DEF Debts
  <1>5. \A r \in Readers : reader[r] = Source!NoReader /\ work.by # r
    BY <1>1 DEF Shared
  <1>6. work.by \in {"free", "worker"}
    BY <1>1, <1>5 DEF Calls, Source!NoWork
  <1>7. ~ghost.killed
    BY <1>1 DEF Calls
  <1>8. Calls'
    BY <1>1, <1>5, <1>6, <1>7, AbortIs DEF Calls
  <1>9. \A r \in Readers : Source!BlockAt(r)' = Source!BlockAt(r)
    BY <1>1 DEF Source!BlockAt
  <1>10. Shared'
    BY <1>1, <1>9, AbortIs DEF Shared
  <1> QED BY <1>3, <1>4, <1>8, <1>10

\* The worker joined.
LEMMA NinJoinKeeps ==
  ASSUME NinInv, Source!NinJoin
  PROVE  NinInv'
  <1> USE DEF NinInv
  <1>1. /\ owner = "joining" /\ worker.place = "gone" /\ owner' = "restoring"
        /\ UNCHANGED <<mechanism, nintendo, reader, worker, ghost>>
        /\ work' = [Source!Working("close", 0, "undo") EXCEPT !.at = Addresses]
    BY DEF Source!NinJoin
  <1>2. work' = [by |-> "close", block |-> 0, attempt |-> 1, step |-> "undo", at |-> Addresses,
                 ok |-> FALSE, error |-> "none"]
    BY <1>1 DEF Source!Working, Source!NoWork
  <1>3. WorkTyped' /\ work'.by = "close" /\ work'.step = "undo" /\ ~work'.ok
    BY <1>2, NinConstants DEF WorkTyped, Source!Steps
  <1>4. OwnerTyped'
    BY <1>1 DEF NinTyped, OwnerTyped
  <1>5. NinTyped'
    BY <1>1, <1>3, <1>4, MovesTyped DEF NinTyped
  <1>6. Debts'
    BY <1>1, <1>3 DEF Debts
  <1>7. Calls'
    BY <1>1, <1>3 DEF Calls
  <1>8. Shared'
    BY <1>1, <1>3, OwnerAlone, NinConstants
  <1> QED BY <1>5, <1>6, <1>7, <1>8

\* What was pending put back, or not.
LEMMA NinRestoredKeeps ==
  ASSUME NinInv, Source!NinRestored
  PROVE  NinInv'
  <1> USE DEF NinInv
  <1>1. /\ owner = "restoring" /\ work.step = "done" /\ work' = Source!NoWork
        /\ owner' = IF work.ok THEN "release" ELSE "held"
        /\ UNCHANGED <<mechanism, nintendo, reader, worker, ghost>>
    BY DEF Source!NinRestored
  <1>2. WorkTyped' /\ work'.by = "free" /\ work'.step = "done" /\ ~work'.ok
    BY <1>1, MovesTyped
  <1>3. OwnerTyped'
    BY <1>1 DEF NinTyped, OwnerTyped
  <1>4. NinTyped'
    BY <1>1, <1>2, <1>3, MovesTyped DEF NinTyped
  <1>5. Debts'
    BY <1>1, <1>2 DEF Debts
  <1>6. work.ok => nintendo.pending = {}
    BY <1>1 DEF Calls
  <1>7. Calls'
    BY <1>1, <1>2, <1>6 DEF Calls
  <1>8. Shared'
    BY <1>1, <1>2, OwnerAlone, NinConstants
  <1> QED BY <1>4, <1>5, <1>7, <1>8

\* The transport closed, or not.
LEMMA NinReleaseKeeps ==
  ASSUME NinInv, Source!NinRelease
  PROVE  NinInv'
  <1> USE DEF NinInv
  <1>1. /\ owner = "release" /\ owner' = "closed" /\ nintendo' = Source!NoContext
        /\ UNCHANGED <<mechanism, work, reader, worker, ghost>>
    BY DEF Source!NinRelease
  <1>2. nintendo.pending = {} /\ work = Source!NoWork
    BY <1>1 DEF Calls
  <1>3. OwnerTyped'
    BY <1>1 DEF NinTyped, OwnerTyped
  <1>4. NinTyped'
    BY <1>1, <1>3, MovesTyped, NoContextIs DEF NinTyped
  <1>5. Debts'
    BY <1>1, <1>2, NoContextIs DEF Debts
  <1>6. Calls'
    BY <1>1, <1>2 DEF Calls
  <1>7. work'.by = "free" /\ ~work'.ok /\ work'.step = "done"
    BY <1>1, <1>2 DEF Source!NoWork
  <1>8. Shared'
    BY <1>1, <1>7, OwnerAlone, NinConstants
  <1> QED BY <1>4, <1>5, <1>6, <1>8

\* The process killed.
LEMMA NinKillKeeps ==
  ASSUME NinInv, Source!NinKill
  PROVE  NinInv'
  <1> USE DEF NinInv
  <1>1. /\ owner' = "closed" /\ nintendo' = Source!NoContext /\ work' = Source!NoWork /\ worker' = Source!NoWorker
        /\ reader' = [r \in Readers |-> Source!NoReader]
        /\ ghost' = [ghost EXCEPT !.set = {}, !.killed = TRUE] /\ UNCHANGED mechanism
    BY DEF Source!NinKill
  <1>2. WorkTyped' /\ work'.by = "free" /\ work'.step = "done" /\ ~work'.ok
    BY <1>1, MovesTyped
  <1>3. OwnerTyped' /\ ghost'.set = {} /\ ghost'.lost = ghost.lost
    BY <1>1 DEF NinTyped, OwnerTyped
  <1>4. \A r \in Readers : reader'[r] = Source!NoReader
    BY <1>1
  <1>5. ReaderTyped'
    BY <1>1, <1>4 DEF ReaderTyped, Source!NoReader, ReaderPlaces
  <1>6. NinTyped'
    BY <1>1, <1>2, <1>3, <1>5, MovesTyped, NoContextIs DEF NinTyped
  <1>7. Debts'
    BY <1>1, <1>2, <1>3, NoContextIs DEF Debts
  <1>8. worker'.place = "gone"
    BY <1>1, MovesTyped
  <1>9. Calls'
    BY <1>1, <1>2, <1>4, <1>8 DEF Calls
  <1>10. Shared'
    BY <1>2, <1>3, <1>4, NinConstants DEF Shared, Source!NoReader
  <1> QED BY <1>6, <1>7, <1>9, <1>10

\* The power goes, and with it the bytes.
LEMMA NinWorldKeeps ==
  ASSUME NinInv, Source!NinUnplug \/ Source!NinPlug
  PROVE  NinInv'
  <1> USE DEF NinInv
  <1>1. UNCHANGED <<nintendo, work, reader, worker, owner>>
    BY DEF Source!NinUnplug, Source!NinPlug
  <1>2. /\ MechanismTyped' /\ OwnerTyped' /\ ghost'.killed = ghost.killed /\ ghost'.lost = ghost.lost
        /\ \/ ghost'.set = {} /\ ~mechanism'.answers /\ \A a \in Source!Bytes : ~mechanism'.admission[a]
           \/ ghost' = ghost /\ mechanism'.answers = mechanism.answers /\ mechanism'.admission = mechanism.admission
                             /\ mechanism'.attached
    <2>1. CASE Source!NinUnplug
      <3>1. mechanism' = [admission |-> [a \in Source!Bytes |-> FALSE], attached |-> FALSE, answers |-> FALSE,
                          unplugs |-> mechanism.unplugs + 1] /\ ghost' = [ghost EXCEPT !.set = {}]
        BY <2>1 DEF Source!NinUnplug
      <3>2. mechanism.unplugs + 1 \in 0 .. MaxUnplugs
        BY <2>1, NinConstants DEF Source!NinUnplug, NinTyped, MechanismTyped
      <3> QED BY <1>1, <3>1, <3>2 DEF NinTyped, MechanismTyped, OwnerTyped
    <2>2. CASE Source!NinPlug
      <3>1. mechanism' = [mechanism EXCEPT !.attached = TRUE] /\ UNCHANGED ghost
        BY <2>2 DEF Source!NinPlug
      <3> QED BY <1>1, <3>1 DEF NinTyped, MechanismTyped, OwnerTyped
    <2> QED BY <2>1, <2>2
  <1>3. NinTyped'
    BY <1>1, <1>2, MovesTyped DEF NinTyped
  <1>4. Debts'
    BY <1>1, <1>2 DEF Debts
  <1>5. Calls'
    BY <1>1, <1>2 DEF Calls
  <1>6. \A r \in Readers : Source!BlockAt(r)' = Source!BlockAt(r)
    BY <1>1 DEF Source!BlockAt
  <1>7. Shared'
    BY <1>1, <1>2, <1>6 DEF Shared
  <1> QED BY <1>3, <1>4, <1>5, <1>7

\* Every step of the Nintendo source keeps its invariant.
LEMMA NinNextKeeps == NinInv /\ [Source!NinNext]_Source!ninVars => NinInv'
  <1> SUFFICES ASSUME NinInv, [Source!NinNext]_Source!ninVars
               PROVE  NinInv'
    OBVIOUS
  <1>1. CASE Source!Acquisition
    BY <1>1, LookupKeeps, CheckKeeps, AdmitKeeps, ScanKeeps, UndoKeeps, CaptureKeeps, DecodeKeeps DEF Source!Acquisition
  <1>2. CASE \E r \in Readers : \/ Source!ReadBegin(r) \/ Source!ReadCopy(r) \/ Source!ReadLock(r) \/ Source!ReadUnlock(r)
                                \/ Source!ReadSchedule(r) \/ Source!ReadLeave(r) \/ Source!ReadSignal(r)
    BY <1>2, ReadBeginKeeps, ReadCopyKeeps, ReadLockKeeps, ReadUnlockKeeps, ReadScheduleKeeps, ReadLeaveKeeps,
       ReadSignalKeeps
  <1>3. CASE Source!WorkerLook \/ Source!WorkerLock \/ Source!WorkerUnlock \/ Source!WorkerFinish
    BY <1>3, WorkerLookKeeps, WorkerLockKeeps, WorkerUnlockKeeps, WorkerFinishKeeps
  <1>4. CASE Source!NinSelect \/ Source!NinOpen \/ Source!NinHeader \/ Source!NinOpened \/ Source!NinAbort \/ Source!NinClose \/ Source!NinJoin
    BY <1>4, NinSelectKeeps, NinOpenKeeps, NinHeaderKeeps, NinOpenedKeeps, NinAbortKeeps, NinCloseKeeps, NinJoinKeeps
  <1>5. CASE Source!NinRestored \/ Source!NinRelease \/ Source!NinKill \/ Source!NinUnplug \/ Source!NinPlug
    BY <1>5, NinRestoredKeeps, NinReleaseKeeps, NinKillKeeps, NinWorldKeeps
  <1>6. CASE UNCHANGED Source!ninVars
    <2>1. UNCHANGED <<mechanism, nintendo, work, reader, worker, owner, ghost>>
      BY <1>6 DEF Source!ninVars
    <2>2. NinTyped'
      BY <2>1, MovesTyped DEF NinTyped, NinInv
    <2>3. Debts' /\ Calls'
      BY <2>1 DEF NinInv, Debts, Calls
    <2>4. \A r \in Readers : Source!BlockAt(r)' = Source!BlockAt(r)
      BY <2>1 DEF Source!BlockAt
    <2>5. Shared'
      BY <2>1, <2>4 DEF NinInv, Shared
    <2> QED BY <2>2, <2>3, <2>5 DEF NinInv
  <1> QED BY <1>1, <1>2, <1>3, <1>4, <1>5, <1>6 DEF Source!NinNext

\* The invariant holds of a source that was not opened.
LEMMA NinRestIs ==
  ASSUME Source!NinRest, MechanismTyped, ~mechanism.answers
  PROVE  NinInv
  <1> USE DEF Source!NinRest
  <1>1. ContextTyped /\ CacheTyped /\ nintendo.pending = {} /\ ~nintendo.gone
    <2> DEFINE streams == [s \in Streams |-> Source!NoStream]
    <2>1. nintendo = [poisoned |-> FALSE, present |-> FALSE, abort |-> FALSE, gone |-> FALSE, pending |-> {},
                raw |-> {}, cache |-> <<>>, streams |-> streams, recent |-> <<>>, demand |-> {}]
      BY DEF Source!NoContext
    <2> HIDE DEF streams
    <2>2. ASequence(<<>>) /\ Len(<<>>) <= BufferBlocks
      BY NinConstants DEF ASequence
    <2> QED BY <2>1, <2>2 DEF ContextTyped, CacheTyped
  <1>2. WorkTyped /\ work.by = "free" /\ work.step = "done" /\ ~work.ok
    BY NinConstants DEF WorkTyped, Source!NoWork, Source!Steps
  <1>3. ReaderTyped /\ \A r \in Readers : reader[r] = Source!NoReader
    <2>1. \A r \in Readers : reader[r] = Source!NoReader
      OBVIOUS
    <2> QED BY <2>1 DEF ReaderTyped, Source!NoReader, ReaderPlaces
  <1>4. WorkerTyped /\ worker.place = "gone"
    <2> DEFINE any == CHOOSE s \in Streams : TRUE
    <2>1. worker = [place |-> "gone", stream |-> any, lba |-> 0, stale |-> FALSE, ok |-> FALSE]
      BY DEF Source!NoWorker
    <2> HIDE DEF any
    <2> QED BY <2>1 DEF WorkerTyped
  <1>5. OwnerTyped /\ ghost.set = {} /\ ~ghost.killed /\ ~ghost.lost
    BY DEF OwnerTyped
  <1>6. NinTyped
    BY <1>1, <1>2, <1>3, <1>4, <1>5 DEF NinTyped
  <1>7. Debts
    BY <1>1, <1>2, <1>5 DEF Debts
  <1>8. Calls
    BY <1>1, <1>2, <1>3, <1>4, <1>5 DEF Calls
  <1>9. Shared
    BY <1>2, <1>3, <1>5, NinConstants DEF Shared, Source!NoReader
  <1> QED BY <1>6, <1>7, <1>8, <1>9 DEF NinInv

\* And so initially.
LEMMA NinInitIs == Source!NinInit \/ Source!NinIdle => NinInv
  <1>1. Source!NinInit => Source!NinRest /\ MechanismTyped /\ ~mechanism.answers
    <2> SUFFICES ASSUME Source!NinInit
                 PROVE  Source!NinRest /\ MechanismTyped /\ ~mechanism.answers
      OBVIOUS
    <2>1. mechanism \in [admission : [Source!Bytes -> BOOLEAN], attached : {TRUE}, answers : {FALSE}, unplugs : {0}]
      BY DEF Source!NinInit
    <2>2. 0 \in 0 .. MaxUnplugs
      BY NinConstants
    <2> QED BY <2>1, <2>2 DEF Source!NinInit, MechanismTyped
  <1>2. Source!NinIdle => Source!NinRest /\ MechanismTyped /\ ~mechanism.answers
    BY NinConstants DEF Source!NinIdle, MechanismTyped
  <1> QED BY <1>1, <1>2, NinRestIs

\* Speculation starts no acquisition while a reader waits for the drive, the
\* reader that acquired a block finds it, and closing waits for no sleeper.
LEMMA NinReaders ==
  ASSUME NinInv, [Source!NinNext]_Source!ninVars
  PROVE  /\ work.by = "free" /\ work'.by = "worker" => \A r \in Readers : ~Source!At63(r, "lock")
         /\ ~ghost'.lost
         /\ owner' = "joining" => worker'.place # "asleep"
  <1>1. NinInv'
    BY NinNextKeeps
  <1>2. ~ghost'.lost /\ (owner' = "joining" => worker'.place # "asleep")
    BY <1>1 DEF NinInv, Shared, Calls
  <1>3. ASSUME work.by = "free", work'.by = "worker", NEW r \in Readers, Source!At63(r, "lock")
        PROVE  FALSE
    <2>1. r \in nintendo.demand /\ owner = "open" /\ work.step = "done"
      BY <1>3, ReaderInSession DEF NinInv, Shared, Source!At63
    <2>2. CASE Source!Acquisition
      <3>1. work.step # "done"
        BY <2>2 DEF Source!Acquisition, Source!Lookup, Source!Check, Source!Admit, Source!Scan, Source!Undo, Source!Capture, Source!Decode
      <3> QED BY <2>1, <3>1
    <2>3. CASE \E q \in Readers : \/ Source!ReadBegin(q) \/ Source!ReadCopy(q) \/ Source!ReadLock(q) \/ Source!ReadUnlock(q)
                                  \/ Source!ReadSchedule(q) \/ Source!ReadLeave(q) \/ Source!ReadSignal(q)
      <3>1. UNCHANGED work \/ work' = Source!NoWork \/ \E q \in Readers : work' = Source!Working(q, Source!BlockAt(q), "lookup")
        BY <2>3 DEF Source!ReadBegin, Source!ReadCopy, Source!ReadLock, Source!ReadUnlock, Source!ReadSchedule, Source!ReadLeave, Source!ReadSignal
      <3>2. work'.by \in {"free"} \cup Readers
        BY <1>3, <3>1, MovesTyped DEF NinInv, Source!Steps
      <3> QED BY <1>3, <3>2, NinConstants
    <2>4. CASE Source!WorkerLook \/ Source!WorkerLock \/ Source!WorkerUnlock \/ Source!WorkerFinish
      <3>1. UNCHANGED work \/ work' = Source!NoWork
        BY <2>1, <2>4 DEF Source!WorkerLook, Source!WorkerLock, Source!WorkerUnlock, Source!WorkerFinish
      <3> QED BY <1>3, <3>1 DEF Source!NoWork
    <2>5. CASE Source!NinSelect \/ Source!NinOpen \/ Source!NinHeader \/ Source!NinOpened \/ Source!NinAbort \/ Source!NinClose \/ Source!NinJoin
               \/ Source!NinRestored \/ Source!NinRelease \/ Source!NinKill \/ Source!NinUnplug \/ Source!NinPlug
      <3>1. UNCHANGED work \/ work' = Source!NoWork
        BY <2>1, <2>5 DEF Source!NinSelect, Source!NinOpen, Source!NinHeader, Source!NinOpened, Source!NinAbort, Source!NinClose, Source!NinJoin,
                          Source!NinRestored, Source!NinRelease, Source!NinKill, Source!NinUnplug, Source!NinPlug
      <3> QED BY <1>3, <3>1 DEF Source!NoWork
    <2>6. CASE UNCHANGED Source!ninVars
      BY <1>3, <2>6 DEF Source!ninVars
    <2> QED BY <2>2, <2>3, <2>4, <2>5, <2>6 DEF Source!NinNext
  <1> QED BY <1>2, <1>3

NinLife == CASE ghost.killed -> "killed" [] owner = "closed" /\ ~ghost.killed -> "idle" [] OTHER -> "open"

\* A step of the source or of the world is one of the lease: of what is owed.
NinLease == INSTANCE VolatileLease WITH changed <- ghost.set, owed <- nintendo.pending, life <- NinLife

\* Every step of the Nintendo source implements a step of the lease.
LEMMA NinLeaseStep ==
  ASSUME NinInv, [Source!NinNext]_Source!ninVars
  PROVE  [NinLease!Next]_<<ghost.set, nintendo.pending, NinLife>>
  <1> DEFINE Steps1 == [NinLease!Next]_<<ghost.set, nintendo.pending, NinLife>>
  <1>1. NinInv'
    BY NinNextKeeps
  <1>2. ghost.set \subseteq nintendo.pending /\ ghost'.set \subseteq nintendo'.pending
    BY <1>1 DEF NinInv, Debts
  <1>3. /\ ghost.killed => owner = "closed"
        /\ owner \in {"closed", "selected"} => nintendo.pending = {} /\ ghost.set = {}
    BY <1>2, NoContextIs DEF NinInv, Calls
  <1>4. ASSUME UNCHANGED owner, ghost'.killed = ghost.killed, owner # "closed",
               \/ ghost.set \subseteq ghost'.set /\ nintendo.pending \subseteq nintendo'.pending
               \/ ghost'.set \subseteq ghost.set /\ nintendo'.pending \subseteq nintendo.pending
        PROVE  Steps1
    <2>1. NinLife = "open" /\ NinLife' = "open"
      BY <1>3, <1>4 DEF NinLife
    <2> QED BY <1>2, <1>4, <2>1 DEF NinLease!Next, NinLease!Write, NinLease!PutBack
  <1>5. ASSUME ghost'.killed = ghost.killed, owner' # "closed", owner # "closed",
               UNCHANGED ghost, nintendo'.pending = nintendo.pending
        PROVE  Steps1
    <2>1. NinLife = "open" /\ NinLife' = "open"
      BY <1>3, <1>5 DEF NinLife
    <2> QED BY <1>5, <2>1
  <1>6. CASE Source!NinSelect
    <2>1. owner = "closed" /\ owner' = "selected" /\ nintendo' = nintendo /\ ghost' = [ghost EXCEPT !.killed = FALSE]
      BY <1>6 DEF Source!NinSelect
    <2>2. ghost'.set = ghost.set /\ ~ghost'.killed /\ ghost.killed \in BOOLEAN
      BY <2>1 DEF NinInv, NinTyped, OwnerTyped
    <2>3. NinLife \in {"idle", "killed"} /\ NinLife' = "open"
      BY <2>1, <2>2 DEF NinLife
    <2>4. nintendo'.pending = {} /\ ghost'.set = {}
      BY <1>3, <2>1, <2>2
    <2> QED BY <2>3, <2>4 DEF NinLease!Next, NinLease!Open
  <1>7. CASE Source!NinKill
    <2>1. owner # "closed" /\ owner' = "closed" /\ nintendo' = Source!NoContext /\ ghost' = [ghost EXCEPT !.set = {}, !.killed = TRUE]
      BY <1>7 DEF Source!NinKill
    <2>2. ghost'.set = {} /\ ghost'.killed /\ nintendo'.pending = {}
      BY <2>1, NoContextIs DEF NinInv, NinTyped, OwnerTyped
    <2>3. NinLife = "open" /\ NinLife' = "killed"
      BY <1>3, <2>1, <2>2 DEF NinLife
    <2> QED BY <2>2, <2>3 DEF NinLease!Next, NinLease!Kill
  <1>8. CASE Source!NinRelease \/ Source!NinOpen \/ Source!NinOpened
    <2>1. owner # "closed" /\ UNCHANGED ghost /\ ~ghost.killed
      BY <1>3, <1>8 DEF Source!NinRelease, Source!NinOpen, Source!NinOpened
    <2>2. CASE owner' = "closed"
      <3>1. nintendo.pending = {} /\ nintendo'.pending = {}
        BY <1>3, <1>8, <2>2, NoContextIs DEF Source!NinRelease, Source!NinOpen, Source!NinOpened, Source!FailOpen, NinInv, Calls
      <3>2. NinLife = "open" /\ NinLife' = "idle"
        BY <2>1, <2>2 DEF NinLife
      <3> QED BY <1>2, <2>1, <3>1, <3>2 DEF NinLease!Next, NinLease!Release
    <2>3. CASE owner' # "closed"
      <3>1. nintendo'.pending = nintendo.pending
        BY <1>3, <1>8, <2>3, NoContextIs DEF Source!NinRelease, Source!NinOpen, Source!NinOpened, Source!FailOpen, NinInv, NinTyped, ContextTyped
      <3> QED BY <1>5, <2>1, <2>3, <3>1
    <2> QED BY <2>2, <2>3
  <1>9. CASE Source!NinHeader \/ Source!NinAbort \/ Source!NinClose \/ Source!NinJoin \/ Source!NinRestored
    <2>1. owner # "closed" /\ owner' # "closed" /\ UNCHANGED ghost
      BY <1>9 DEF Source!NinHeader, Source!NinAbort, Source!NinClose, Source!NinJoin, Source!NinRestored
    <2>2. nintendo'.pending = nintendo.pending
      BY <1>9 DEF Source!NinHeader, Source!NinAbort, Source!NinClose, Source!NinJoin, Source!NinRestored, Source!SetAbort, NinInv, NinTyped, ContextTyped
    <2> QED BY <1>5, <2>1, <2>2
  <1>10. CASE Source!NinUnplug \/ Source!NinPlug
    <2>1. UNCHANGED <<nintendo, owner>> /\ ghost'.killed = ghost.killed /\ ghost'.set \subseteq ghost.set
      BY <1>10 DEF Source!NinUnplug, Source!NinPlug, NinInv, NinTyped, OwnerTyped
    <2>2. CASE owner = "closed"
      <3>1. ghost'.set = ghost.set /\ NinLife' = NinLife
        BY <1>3, <2>1, <2>2 DEF NinLife
      <3> QED BY <2>1, <3>1
    <2> QED BY <1>4, <2>1, <2>2
  <1>11. CASE Source!Acquisition
    <2>1. UNCHANGED owner /\ work.step # "done"
      BY <1>11 DEF Source!Acquisition, Source!Lookup, Source!Check, Source!Admit, Source!Scan, Source!Undo, Source!Capture, Source!Decode
    <2>2. owner # "closed"
      BY <2>1 DEF NinInv, Calls, Source!NoWork
    <2>3. /\ ghost'.killed = ghost.killed
          /\ \/ ghost.set \subseteq ghost'.set /\ nintendo.pending \subseteq nintendo'.pending
             \/ ghost'.set \subseteq ghost.set /\ nintendo'.pending \subseteq nintendo.pending
      <3>1. CASE Source!Lookup \/ Source!Decode
        <4>1. UNCHANGED ghost /\ nintendo'.pending = nintendo.pending
          BY <3>1 DEF Source!Lookup, Source!Decode, NinInv, NinTyped, ContextTyped
        <4> QED BY <4>1
      <3>2. CASE Source!Check \/ Source!Scan \/ Source!Capture
        <4>1. UNCHANGED ghost /\ nintendo'.pending = nintendo.pending
          BY <3>2 DEF Source!Check, Source!Scan, Source!Capture, Source!NotAcquired, Source!Noted, NinInv, NinTyped, ContextTyped
        <4> QED BY <4>1
      <3>3. CASE Source!Admit
        <4>1. nintendo' = [Source!Noted(nintendo) EXCEPT !.pending = @ \cup {work.at}]
              /\ \E ok \in Source!Reply63 : Source!WriteByte(work.at, TRUE, ok)
          BY <3>3 DEF Source!Admit
        <4>2. work.at \in Source!Bytes
          BY <3>3, NinConstants DEF NinInv, Debts, NinTyped, WorkTyped, Source!Bytes, Source!Admit
        <4>3. ghost'.killed = ghost.killed /\ ghost.set \subseteq ghost'.set
          BY <4>1, <4>2, WrittenIs
        <4>4. nintendo.pending \subseteq nintendo'.pending
          BY <4>1 DEF Source!Noted, NinInv, NinTyped, ContextTyped
        <4> QED BY <4>3, <4>4
      <3>4. CASE Source!Undo
        <4>1. CASE UNCHANGED <<mechanism, ghost>>
          <5>1. CASE Source!Undone(nintendo, TRUE) \/ Source!Undone([nintendo EXCEPT !.pending = {}], FALSE)
            <6>1. [nintendo EXCEPT !.pending = {}] \in Shape /\ [nintendo EXCEPT !.pending = {}].pending = {}
              BY Shaped DEF NinInv, NinTyped, ContextTyped
            <6> QED BY <4>1, <5>1, <6>1, UndonePending, Shaped DEF NinInv
          <5>2. CASE UNCHANGED nintendo
            BY <4>1, <5>2
          <5>3. CASE \E ok \in Source!Reply63 : nintendo' = [Source!Noted(nintendo) EXCEPT !.pending = IF ok THEN @ \ {work.at} ELSE @]
            <6>1. PICK ok \in Source!Reply63 : nintendo' = [Source!Noted(nintendo) EXCEPT !.pending = IF ok THEN @ \ {work.at} ELSE @]
              BY <5>3
            <6> DEFINE owed == IF ok THEN nintendo.pending \ {work.at} ELSE nintendo.pending
            <6>2. nintendo' = [Source!Noted(nintendo) EXCEPT !.pending = owed]
              BY <6>1, Shaped DEF NinInv
            <6>3. nintendo'.pending = owed
              BY <6>2, Shaped DEF Shape, NinInv
            <6> QED BY <4>1, <6>3
          <5>4. QED
            <6>1. CASE nintendo.pending = {} \/ (work.at = Addresses /\ nintendo.gone)
              BY <3>4, <5>1, <6>1 DEF Source!Undo
            <6>2. CASE ~(nintendo.pending = {} \/ (work.at = Addresses /\ nintendo.gone)) /\ work.at = 0
              BY <3>4, <5>1, <6>2 DEF Source!Undo
            <6>3. CASE ~(nintendo.pending = {} \/ (work.at = Addresses /\ nintendo.gone)) /\ work.at # 0
              BY <3>4, <5>2, <5>3, <6>3 DEF Source!Undo
            <6> QED BY <6>1, <6>2, <6>3
        <4>2. CASE ~UNCHANGED <<mechanism, ghost>>
          <5>1. /\ work.at # 0 /\ \E ok \in Source!Reply63 :
                     /\ Source!WriteByte(work.at, FALSE, ok)
                     /\ nintendo' = [Source!Noted(nintendo) EXCEPT !.pending = IF ok THEN @ \ {work.at} ELSE @]
            BY <3>4, <4>2 DEF Source!Undo
          <5>2. work.at \in Source!Bytes
            BY <5>1, NinConstants DEF NinInv, NinTyped, WorkTyped, Source!Bytes
          <5>3. ghost'.killed = ghost.killed /\ ghost'.set \subseteq ghost.set
            BY <5>1, <5>2, WrittenIs
          <5>4. nintendo'.pending \subseteq nintendo.pending
            BY <5>1 DEF Source!Noted, NinInv, NinTyped, ContextTyped
          <5> QED BY <5>3, <5>4
        <4> QED BY <4>1, <4>2
      <3> QED BY <1>11, <3>1, <3>2, <3>3, <3>4 DEF Source!Acquisition
    <2> QED BY <1>4, <2>1, <2>2, <2>3
  <1>12. CASE \E r \in Readers : \/ Source!ReadBegin(r) \/ Source!ReadCopy(r) \/ Source!ReadLock(r) \/ Source!ReadUnlock(r)
                                 \/ Source!ReadSchedule(r) \/ Source!ReadLeave(r) \/ Source!ReadSignal(r)
    <2>1. PICK r \in Readers : \/ Source!ReadBegin(r) \/ Source!ReadCopy(r) \/ Source!ReadLock(r) \/ Source!ReadUnlock(r)
                               \/ Source!ReadSchedule(r) \/ Source!ReadLeave(r) \/ Source!ReadSignal(r)
      BY <1>12
    <2>2. UNCHANGED owner
      BY <2>1 DEF Source!ReadBegin, Source!ReadCopy, Source!ReadLock, Source!ReadUnlock, Source!ReadSchedule, Source!ReadLeave, Source!ReadSignal
    <2>3. owner = "open"
      BY <2>1, ReaderInSession DEF Source!ReadBegin, Source!ReadCopy, Source!ReadLock, Source!ReadUnlock, Source!ReadSchedule, Source!ReadLeave, Source!ReadSignal, Source!At63
    <2>4. ghost'.killed = ghost.killed /\ ghost'.set = ghost.set
      BY <2>1 DEF Source!ReadBegin, Source!ReadCopy, Source!ReadLock, Source!ReadUnlock, Source!ReadSchedule, Source!ReadLeave, Source!ReadSignal, NinInv, NinTyped, OwnerTyped
    <2>5. nintendo'.pending = nintendo.pending
      BY <2>1 DEF Source!ReadBegin, Source!ReadCopy, Source!ReadLock, Source!ReadUnlock, Source!ReadSchedule, Source!ReadLeave, Source!ReadSignal, NinInv, NinTyped, ContextTyped
    <2> QED BY <1>4, <2>2, <2>3, <2>4, <2>5
  <1>13. CASE Source!WorkerLook \/ Source!WorkerLock \/ Source!WorkerUnlock \/ Source!WorkerFinish
    <2>1. UNCHANGED <<owner, ghost>> /\ worker.place # "gone"
      BY <1>13 DEF Source!WorkerLook, Source!WorkerLock, Source!WorkerUnlock, Source!WorkerFinish
    <2>2. owner \in {"open", "joining"}
      BY <2>1 DEF NinInv, Calls
    <2>3. nintendo'.pending = nintendo.pending
      BY <1>13 DEF Source!WorkerLook, Source!WorkerLock, Source!WorkerUnlock, Source!WorkerFinish, NinInv, NinTyped, ContextTyped
    <2> QED BY <1>4, <2>1, <2>2, <2>3
  <1>14. CASE UNCHANGED Source!ninVars
    BY <1>14 DEF Source!ninVars, NinLife
  <1> QED BY <1>6, <1>7, <1>8, <1>9, <1>10, <1>11, <1>12, <1>13, <1>14 DEF Source!NinNext


-----------------------------------------------------------------------------
(* The sources behind the registry: the four properties. *)

SourceInv == FieldInv /\ NinInv

\* Initially one source is closed over some drive, the others at rest.
LEMMA SourceInitIs == Source!Init => SourceInv
  BY FieldInitIs, NinInitIs DEF Source!Init, SourceInv

\* A step is one of the three sources with fields, or of the Nintendo source.
LEMMA SourceNextIs ==
  ASSUME Source!Next
  PROVE  /\ UNCHANGED family
         /\ (FieldNext /\ family # "gp63" /\ UNCHANGED Source!ninVars) \/ (Source!NinNext /\ family = "gp63" /\ UNCHANGED Source!fieldVars)
  <1>1. Source!AsusNext => family = "asus" /\ UNCHANGED family
    <2>1. Source!AsusSnapshot => family = "asus" /\ UNCHANGED family
      BY DEF Source!AsusSnapshot
    <2>2. Source!AsusOpen => family = "asus" /\ UNCHANGED family
      BY Zenon DEF Source!AsusOpen, Source!AsusAt
    <2>7. Source!AsusWrite => family = "asus" /\ UNCHANGED family
      BY Zenon DEF Source!AsusWrite, Source!AsusAt
    <2>8. Source!AsusReady => family = "asus" /\ UNCHANGED family
      BY Zenon DEF Source!AsusReady, Source!AsusAt, Source!AsusSame
    <2>5. Source!AsusEvidence => family = "asus" /\ UNCHANGED family
      BY Zenon DEF Source!AsusEvidence, Source!AsusAt, Source!AsusSame
    <2>6. Source!AsusVerify => family = "asus" /\ UNCHANGED family
      BY Zenon DEF Source!AsusVerify, Source!AsusAt, Source!AsusSame
    <2>3. Source!AsusDescriptor \/ Source!AsusResetDrive \/ Source!AsusRead \/ Source!AsusReadRange => family = "asus" /\ UNCHANGED family
      BY DEF Source!AsusDescriptor, Source!AsusResetDrive, Source!AsusRead, Source!AsusReadRange, Source!AsusAt, Source!AsusSame
    <2>4. Source!AsusRecover \/ Source!AsusClose \/ Source!AsusRelease => family = "asus" /\ UNCHANGED family
      BY DEF Source!AsusRecover, Source!AsusClose, Source!AsusRelease, Source!AsusAt, Source!AsusSame
    <2> QED BY <2>1, <2>2, <2>3, <2>4, <2>5, <2>6, <2>7, <2>8 DEF Source!AsusNext
  <1>2. Source!Gp08Next => family = "gp08" /\ UNCHANGED family
    <2>1. Source!Gp08Snapshot => family = "gp08" /\ UNCHANGED family
      BY DEF Source!Gp08Snapshot
    <2>2. Source!Gp08Open => family = "gp08" /\ UNCHANGED family
      BY Zenon DEF Source!Gp08Open, Source!Gp08At
    <2>7. Source!Gp08Write => family = "gp08" /\ UNCHANGED family
      BY Zenon DEF Source!Gp08Write, Source!Gp08At
    <2>8. Source!Gp08Evidence => family = "gp08" /\ UNCHANGED family
      BY Zenon DEF Source!Gp08Evidence, Source!Gp08At, Source!Gp08Same
    <2>5. Source!Gp08Verify => family = "gp08" /\ UNCHANGED family
      BY Zenon DEF Source!Gp08Verify, Source!Gp08At, Source!Gp08Same
    <2>3. Source!Gp08Descriptor \/ Source!Gp08ResetDrive \/ Source!Gp08Read \/ Source!Gp08ReadRange => family = "gp08" /\ UNCHANGED family
      BY DEF Source!Gp08Descriptor, Source!Gp08ResetDrive, Source!Gp08Read, Source!Gp08ReadRange, Source!Gp08At, Source!Gp08Same
    <2>4. Source!Gp08Recover \/ Source!Gp08Close \/ Source!Gp08Release \/ Source!Gp08Eject => family = "gp08" /\ UNCHANGED family
      BY DEF Source!Gp08Recover, Source!Gp08Close, Source!Gp08Release, Source!Gp08Eject, Source!Gp08At, Source!Gp08Same
    <2> QED BY <2>1, <2>2, <2>3, <2>4, <2>5, <2>7, <2>8 DEF Source!Gp08Next
  <1>3. Source!AdNext => family = "ad7701h" /\ UNCHANGED family
    BY DEF Source!AdNext, Source!AdOpen, Source!AdInitialize, Source!AdActivate, Source!AdWrite, Source!AdDescriptor, Source!AdRead, Source!AdReadGame, Source!AdClose,
           Source!AdRestore, Source!AdRestored, Source!AdRelease, Source!AdAt, Source!AdSame
  <1> QED BY <1>1, <1>2, <1>3 DEF Source!Next, FieldNext

\* The sources with fields keep their invariant while the other moves.
LEMMA FieldRests ==
  ASSUME FieldInv, UNCHANGED <<family, Source!fieldVars>>
  PROVE  FieldInv'
  <1>1. MovedOn
    BY DEF FieldInv, Source!FieldTypeOK, DriveStates, MovedOn, Source!fieldVars, Gone, Landed
  <1> QED BY <1>1, MovedKeeps DEF Source!fieldVars

\* Every step keeps the invariant.
LEMMA SourceNextKeeps ==
  ASSUME SourceInv, [Source!Next]_Source!vars
  PROVE  SourceInv'
  <1>1. CASE Source!Next
    BY <1>1, SourceNextIs, FieldNextKeeps, NinNextKeeps, FieldRests DEF SourceInv
  <1>2. CASE UNCHANGED Source!vars
    BY <1>2, FieldRests, NinNextKeeps DEF SourceInv, Source!vars
  <1> QED BY <1>1, <1>2

\* So it always holds.
LEMMA SourceInvIs == Source!Spec => []SourceInv
  BY SourceInitIs, SourceNextKeeps, PTL DEF Source!Spec

\* It tells that reads are of live memory.
LEMMA LiveReadsIs == SourceInv => Source!LiveReads
  <1>1. SourceInv => Source!NinTypeOK
    BY NinConstants DEF SourceInv, NinInv, NinTyped, MechanismTyped, ContextTyped, CacheTyped, WorkTyped, ReaderTyped,
       WorkerTyped, OwnerTyped, Source!NinTypeOK, ReaderPlaces
  <1> QED BY <1>1 DEF SourceInv, FieldInv, Told, Source!LiveReads, Source!TypeOK

\* A closed source owes nothing.
LEMMA SourceLeaseInit == Source!Init => Source!Lease!Init
  <1> SUFFICES ASSUME Source!Init
               PROVE  Source!Lease!Init
    OBVIOUS
  <1>1. CASE family = "gp63"
    <2>1. owner = "closed" /\ ghost.set = {} /\ ~ghost.killed /\ nintendo.pending = {}
      BY <1>1 DEF Source!Init, Source!NinInit, Source!NinRest, Source!NoContext
    <2> QED BY <1>1, <2>1 DEF Source!Lease!Init, Source!Changed, Source!Owed, Source!Life
  <1>2. CASE family # "gp63"
    <2>1. pc = "closed" /\ context = Source!NoSource /\ history = Source!NoHistory
      BY <1>2 DEF Source!Init, Source!FieldInit
    <2>2. Source!Changed = {} /\ Source!Owed = {} /\ Source!Life = "idle"
      BY <1>2, <2>1 DEF Source!Changed, Source!Owed, Source!Life, Source!NoSource, Source!NoHistory
    <2> QED BY <2>2 DEF Source!Lease!Init
  <1> QED BY <1>1, <1>2

\* Every step implements a step of the lease.
LEMMA SourceLeaseStep ==
  ASSUME SourceInv, [Source!Next]_Source!vars
  PROVE  [Source!Lease!Next]_Source!Lease!vars
  <1>1. CASE Source!Next /\ family # "gp63"
    <2>1. [FieldLease!Next]_<<FieldChanged, FieldOwed, FieldLife>>
      BY <1>1, SourceNextIs, FieldLeaseStep DEF SourceInv
    <2>2. /\ Source!Changed = FieldChanged /\ Source!Changed' = FieldChanged' /\ Source!Owed = FieldOwed /\ Source!Owed' = FieldOwed'
          /\ Source!Life = FieldLife /\ Source!Life' = FieldLife'
      BY <1>1, SourceNextIs DEF Source!Changed, FieldChanged, Source!Owed, FieldOwed, Source!Life, FieldLife
    <2> QED BY <2>1, <2>2 DEF FieldLease!Next, FieldLease!Open, FieldLease!Write, FieldLease!PutBack,
            FieldLease!Release, FieldLease!Kill, Source!Lease!Next, Source!Lease!Open, Source!Lease!Write, Source!Lease!PutBack, Source!Lease!Release,
            Source!Lease!Kill, Source!Lease!vars
  <1>2. CASE Source!Next /\ family = "gp63"
    <2>1. [NinLease!Next]_<<ghost.set, nintendo.pending, NinLife>>
      BY <1>2, SourceNextIs, NinLeaseStep DEF SourceInv
    <2>2. /\ Source!Changed = ghost.set /\ Source!Changed' = ghost'.set /\ Source!Owed = nintendo.pending /\ Source!Owed' = nintendo'.pending
          /\ Source!Life = NinLife /\ Source!Life' = NinLife'
      BY <1>2, SourceNextIs DEF Source!Changed, Source!Owed, Source!Life, NinLife
    <2> QED BY <2>1, <2>2 DEF NinLease!Next, NinLease!Open, NinLease!Write, NinLease!PutBack,
            NinLease!Release, NinLease!Kill, Source!Lease!Next, Source!Lease!Open, Source!Lease!Write, Source!Lease!PutBack, Source!Lease!Release,
            Source!Lease!Kill, Source!Lease!vars
  <1>3. CASE UNCHANGED Source!vars
    BY <1>3 DEF Source!vars, Source!fieldVars, Source!ninVars, Source!Lease!vars, Source!Changed, Source!Owed, Source!Life, Source!Fields
  <1> QED BY <1>1, <1>2, <1>3

\* The invariant tells what memory is written.
LEMMA OnlyKnownStep ==
  ASSUME SourceInv, Source!Next
  PROVE  /\ opened'.memory # opened.memory /\ pc = "write" /\ ~history.stale =>
              \A f \in Source!Fields : opened.memory[f].of = context.media
         /\ mechanism'.admission # mechanism.admission /\ work.step = "admit" =>
              \A a \in Source!Bytes : mechanism.admission[a] => a \in ghost.set
  BY DEF SourceInv, FieldInv, KnowsWrite, AllOf, NinInv, Debts

\* And that nothing speculative comes before a reader.
LEMMA ReadersStep ==
  ASSUME SourceInv, Source!Next
  PROVE  /\ work.by = "free" /\ work'.by = "worker" => \A r \in Readers : ~Source!At63(r, "lock")
         /\ ~ghost'.lost
         /\ owner' = "joining" => worker'.place # "asleep"
  <1>1. [Source!NinNext]_Source!ninVars
    BY SourceNextIs
  <1> QED BY <1>1, NinReaders DEF SourceInv

-----------------------------------------------------------------------------
(* The specification that is checked: the sources beside the selection. *)

\* The specification that is checked shows, of the selection, a behaviour of
\* DriveSelection and, of the sources, one of OpticalDrives: what is proved of
\* either holds of it.
THEOREM DrivesAreBoth == DrivesSpec => Spec /\ Source!Spec
  <1>1. DrivesInit => Init /\ Source!Init
    BY DEF DrivesInit, SelectionAtRest, SourceAtRest
  <1>2. [DrivesNext]_<<part, vars, sourceVars>> => [Next]_vars
    BY DEF DrivesNext
  <1>3. [DrivesNext]_<<part, vars, sourceVars>> => [Source!Next]_Source!vars
    BY DEF DrivesNext, sourceVars, Source!vars, Source!fieldVars, Source!ninVars
  <1> QED BY <1>1, <1>2, <1>3, PTL DEF DrivesSpec, Spec, Source!Spec

\* What every source is in whatever it does: the inductive invariant from
\* which the four properties follow.
THEOREM SourcesAreSound == DrivesSpec => []SourceInv
  BY DrivesAreBoth, SourceInvIs, PTL

\* Whatever layout a disc has, whatever order its fields are written in and
\* however often the source tries: a READ (read_range_with_recovery) succeeds
\* only on a memory that is live as a whole, until a recovery has failed.
THEOREM ReadsAreLive == DrivesSpec => []LiveReads
  <1>1. SourceInv => LiveReads
    BY LiveReadsIs DEF LiveReads
  <1> QED BY <1>1, SourcesAreSound, PTL

\* Memory is written only when all of it is known to be of the disc that was
\* opened, and admission bytes are set (set_admission) only when all are clear.
THEOREM WritesAreOfTheKnown == DrivesSpec => OnlyKnownIsWritten
  <1>1. ASSUME SourceInv, [Source!Next]_Source!vars
        PROVE  [/\ opened'.memory # opened.memory /\ pc = "write" /\ ~history.stale =>
                     \A f \in Source!Fields : opened.memory[f].of = context.media
                /\ mechanism'.admission # mechanism.admission /\ work.step = "admit" =>
                     \A a \in Source!Bytes : mechanism.admission[a] => a \in ghost.set]_Source!vars
    BY <1>1, OnlyKnownStep
  <1> QED BY <1>1, SourceInvIs, DrivesAreBoth, PTL
          DEF Source!Spec, OnlyKnownIsWritten, Source!OnlyKnownIsWritten

\* Each of the four sources implements VolatileLease: what it wrote to its
\* drive it owes until it has verified the restoration or the drive has lost
\* its memory, whatever fails, is exchanged, unplugged or killed on the way.
THEOREM SourcesKeepThePromise == DrivesSpec => PromiseKept
  <1>1. Source!Init => Source!Lease!Init
    BY SourceLeaseInit
  <1>2. ASSUME SourceInv, [Source!Next]_Source!vars
        PROVE  [Source!Lease!Next]_<<Source!Changed, Source!Owed, Source!Life>>
    BY <1>2, SourceLeaseStep DEF Source!Lease!vars
  <1> QED BY <1>1, <1>2, SourceInvIs, DrivesAreBoth, PTL
          DEF Source!Spec, PromiseKept, Source!PromiseKept, Source!Lease!Spec, Source!Lease!vars

\* Whatever the readers and the read-ahead do, speculation takes the drive from
\* no reader that waits for it, a reader finds the block it acquired, and a
\* close never joins a worker that sleeps.
THEOREM ReadersComeBeforeSpeculation == DrivesSpec => ReadersComeFirst
  <1>1. ASSUME SourceInv, [Source!Next]_Source!vars
        PROVE  [/\ work.by = "free" /\ work'.by = "worker" => \A r \in Readers : ~Source!At63(r, "lock")
                /\ ~ghost'.lost
                /\ owner' = "joining" => worker'.place # "asleep"]_Source!vars
    BY <1>1, ReadersStep
  <1> QED BY <1>1, SourceInvIs, DrivesAreBoth, PTL
          DEF Source!Spec, ReadersComeFirst, Source!ReadersComeFirst
=============================================================================
