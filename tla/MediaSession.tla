---------------------------- MODULE MediaSession ----------------------------
(***************************************************************************)
(* What a media session owns, and what opening and closing it can leave   *)
(* owned (src/app/runtime_media.c).  A session record keeps one flag per  *)
(* owner: the NBD export of the disc, a validated disc that is not        *)
(* exported, and a source retained only because closing it failed.        *)
(***************************************************************************)
CONSTANTS
  Backends,         \* the emulators the user has discs for
  XeniaPrivateNbd   \* this build's Xenia reads the disc through the export,
                    \* not from the image file

ASSUME BackendsAssumption == Backends \subseteq {"xemu", "xenia", "dolphin"}
ASSUME XeniaTargetAssumption == XeniaPrivateNbd \in BOOLEAN

Medias == [open : BOOLEAN, exported : BOOLEAN, validated : BOOLEAN,
           retained : BOOLEAN, backend : Backends \cup {"none"}]

NoMedia == [open |-> FALSE, exported |-> FALSE, validated |-> FALSE,
            retained |-> FALSE, backend |-> "none"]

Owned(m) == m.open \/ m.exported \/ m.validated \/ m.retained

-----------------------------------------------------------------------------
(* Opening. *)

LiveMedia(backend) == [NoMedia EXCEPT !.open = TRUE, !.exported = TRUE,
                                      !.backend = backend]

\* A physical Xbox 360 disc can be played only through the export.
PlayableLive == IF XeniaPrivateNbd THEN Backends ELSE Backends \ {"xenia"}

PhysicalSessions == {LiveMedia(b) : b \in PlayableLive}

\* An Original Xbox image is exported when opened, an Xbox 360 image is
\* validated and exported only at launch.
ImageSessions ==
  {m \in {LiveMedia("xemu"),
          [NoMedia EXCEPT !.open = TRUE, !.validated = TRUE, !.backend = "xenia"]} :
     m.backend \in Backends}

\* A failed open retains what it could not close.
PhysicalLeftovers == {m \in Medias : ~m.open /\ ~m.exported /\ m.backend = "none"}
ImageLeftovers    == {m \in PhysicalLeftovers : ~m.retained}

-----------------------------------------------------------------------------
(* Closing (gdox_runtime_media_close). *)

Owners(m) == [exported : {FALSE, m.exported}, validated : {FALSE, m.validated},
              retained : {FALSE, m.retained}]

Remaining(m, kept) ==
  IF kept.exported \/ kept.validated \/ kept.retained
    THEN [m EXCEPT !.open = FALSE, !.exported = kept.exported,
                   !.validated = kept.validated, !.retained = kept.retained]
    ELSE NoMedia

Leftovers(m) == {Remaining(m, kept) : kept \in Owners(m)}

\* Bug variant: only the export is reported when it does not close.
CloseOutcomesOfExport(m) ==
  {o \in [media : Leftovers(m), ok : BOOLEAN] :
     IF o.ok THEN ~o.media.exported
             ELSE Owned(o.media) \/ m.validated \/ m.retained}

\* A failed close of the export keeps it.  A disc or source whose close
\* fails is either kept, to be retried, or gone for good: then the call
\* fails with nothing owned.
CloseOutcomes(m) ==
  {o \in [media : Leftovers(m), ok : BOOLEAN] :
     IF o.ok THEN ~Owned(o.media)
             ELSE Owned(o.media) \/ m.validated \/ m.retained}

-----------------------------------------------------------------------------
(* gdox_runtime_media_prepare_xenia_target: the export takes a validated   *)
(* disc over; the call can still fail after that.                          *)

ExportedForXenia(m) == IF m.validated /\ XeniaPrivateNbd
                         THEN [m EXCEPT !.exported = TRUE, !.validated = FALSE]
                         ELSE m

TargetReady(m) == IF XeniaPrivateNbd THEN m.exported ELSE m.validated

XeniaTargets(m) ==
  {t \in [media : {m, ExportedForXenia(m)}, ok : BOOLEAN] :
     t.ok => TargetReady(t.media)}
=============================================================================
