---------------------------- MODULE Preservation ----------------------------
(***************************************************************************)
(* A preservation run: the request from the interface (app/runtime_        *)
(* controls.c), the worker's session around it (app/runtime_preservation.  *)
(* c), the image writer (core/preserve.c, preservation_manifest.c) and its *)
(* files (platform/preservation_io_posix.c, preservation_io_windows.c).    *)
(*                                                                         *)
(* Sectors are read in blocks of BlockSectors.  The image being written is *)
(* one file with up to two names, "<path>.part" and "<path>"; somebody     *)
(* else may create a file under either name at any time.  A power loss     *)
(* tears what was not synchronised and ends the process.                   *)
(***************************************************************************)
EXTENDS Naturals, FiniteSets, Sequences

CONSTANTS Sectors,        \* sectors of the disc: 0 .. Sectors - 1
          BlockSectors,   \* PRESERVATION_READ_BLOCKS
          SecurityRanges, \* sectors inside the map's security ranges
          Jobs,           \* format, verification and evidence of a request
          MaxRequests,    \* bound: requests accepted
          MaxFaults       \* bound: failing operations, intrusions, power losses

PreservationAssumption ==
    /\ Sectors \in Nat \ {0} /\ BlockSectors \in Nat \ {0}
    /\ SecurityRanges \subseteq 0 .. Sectors - 1
    /\ MaxRequests \in Nat /\ MaxFaults \in Nat

Disc == 0 .. Sectors - 1

\* A request with the evidence of the disc it is for; "external" says what
\* a user's map is worth beside the disc's own security sector.
JobRecords == [format : {"xiso", "redump"}, verify : BOOLEAN,
               ss : {"none", "invalid", "authentic"}, pfi : BOOLEAN, dmi : BOOLEAN,
               external : {"none", "invalid", "agrees", "differs"}, listed : BOOLEAN]

JobsAssumption == Jobs \subseteq JobRecords /\ Jobs # {}

VARIABLES
    disc,        \* [Disc -> "good" or "bad"]
    job,         \* the request's format, verification and evidence
    platform,    \* "posix" or "windows"
    canPreserve, \* snapshot.can_preserve
    preserving,  \* snapshot.phase = GDOX_RUNTIME_PRESERVING
    cancelled,   \* preservation_cancelled
    queued,      \* requests waiting for the worker
    requests,    \* requests accepted so far
    pc,          \* what the worker is doing
    owned,       \* a source is held: "none", "run", "retained"
    result,      \* the gdox_preservation_result
    image,       \* what has been written: a sequence of "data" and "zero"
    whole,       \* is the written file complete and synchronised or unharmed
    synced,      \* has it been synchronised
    part, final, \* whose file the two names lead to
    sidecars,    \* how many sidecars have been written
    manifest,    \* what the manifest beside the image claims
    intruders,   \* names under which somebody else put a file
    warned,      \* was this run cancelled before its last look at the flag
    faults       \* faults so far

given == <<disc, job, platform>>
ui == <<canPreserve, preserving, cancelled, queued, requests>>
files == <<image, whole, synced, part, final, sidecars, manifest, intruders>>
vars == <<given, ui, pc, owned, result, files, warned, faults>>

PcStates == {"idle", "taken", "inspect", "validate", "create", "write", "sync",
             "verify", "commit", "unlink", "bundle", "cleanup", "finish", "off"}

NoResult == [unreadable |-> {}, verified |-> FALSE, status |-> "none",
             map |-> "none", success |-> FALSE]

NoManifest == [readback |-> FALSE, authenticated |-> FALSE, status |-> "none",
               unreadable |-> {}]

Init ==
    /\ disc \in [Disc -> {"good", "bad"}]
    /\ job \in Jobs /\ platform \in {"posix", "windows"}
    /\ canPreserve = TRUE /\ preserving = FALSE /\ cancelled = FALSE
    /\ queued = 0 /\ requests = 0
    /\ pc = "idle" /\ owned = "none" /\ result = NoResult
    /\ image = <<>> /\ whole = FALSE /\ synced = FALSE
    /\ part = "none" /\ final = "none" /\ sidecars = 0
    /\ manifest = NoManifest /\ intruders = {}
    /\ warned = FALSE /\ faults = 0

Fault == faults < MaxFaults /\ faults' = faults + 1
Goto(s) == pc' = s

-----------------------------------------------------------------------------
(* The interface and the environment.                                      *)

\* A slip: a run in progress is no reason to refuse another request.
BeginAnyTime ==
    /\ requests < MaxRequests
    /\ queued' = queued + 1 /\ requests' = requests + 1
    /\ cancelled' = FALSE
    /\ canPreserve' = FALSE
    /\ UNCHANGED <<given, preserving, pc, owned, result, files, warned, faults>>

\* gdox_runtime_begin_preservation: queued, and an earlier cancellation is
\* forgotten.
BeginPreservation ==
    /\ canPreserve /\ ~preserving
    /\ requests < MaxRequests
    /\ queued' = queued + 1 /\ requests' = requests + 1
    /\ cancelled' = FALSE
    /\ canPreserve' = FALSE
    /\ UNCHANGED <<given, preserving, pc, owned, result, files, warned, faults>>

\* The sectors of the next block of write_image.
Block == {s \in Disc : Len(image) <= s /\ s < Len(image) + BlockSectors}

\* The points from which the writer looks at the flag again.
LooksAgain == \/ pc \in {"inspect", "validate", "create"}
              \/ pc = "write" /\ (Block # {} \/ job.verify)
              \/ pc \in {"sync", "verify"} /\ job.verify

CancelPreservation ==
    /\ ~cancelled
    /\ cancelled' = TRUE
    /\ warned' = (warned \/ LooksAgain)
    /\ UNCHANGED <<given, canPreserve, preserving, queued, requests, pc,
                   owned, result, files, faults>>

\* Somebody else creates a file under one of the names.
Intrude(n) ==
    /\ Fault
    /\ intruders' = intruders \cup {n}
    /\ \/ n = "part" /\ part = "none" /\ part' = "foreign" /\ UNCHANGED final
       \/ n = "final" /\ final = "none" /\ final' = "foreign" /\ UNCHANGED part
    /\ UNCHANGED <<given, ui, pc, owned, result, image, whole, synced, sidecars, manifest,
                   warned>>

PowerLoss ==
    /\ pc # "off" /\ Fault
    /\ Goto("off")
    /\ whole' \in {whole, whole /\ synced}
    /\ canPreserve' = FALSE /\ preserving' = FALSE /\ cancelled' = FALSE
    /\ queued' = 0 /\ owned' = "none" /\ result' = NoResult /\ warned' = FALSE
    /\ UNCHANGED <<given, requests, image, synced, part, final, sidecars,
                   manifest, intruders>>

\* GDOX starts again; the disc is found again and may be preserved.
StartAgain ==
    /\ pc = "off"
    /\ Goto("idle")
    /\ canPreserve' = TRUE
    /\ UNCHANGED <<given, preserving, cancelled, queued, requests, owned,
                   result, files, warned, faults>>

-----------------------------------------------------------------------------
(* The worker around the run.                                              *)

\* Until a run has been published as begun, any publication of the worker
\* offers preservation again, queued request or not.
Publish ==
    /\ pc \in {"idle", "taken"} /\ owned = "none" /\ ~preserving
    /\ canPreserve' = TRUE
    /\ UNCHANGED <<given, preserving, cancelled, queued, requests, pc,
                   owned, result, files, warned, faults>>

\* preserve_requested_disc: playback is stopped and the live session closed.
TakeRequest ==
    /\ pc = "idle" /\ queued > 0
    /\ queued' = queued - 1
    /\ Goto("taken")
    /\ UNCHANGED <<given, canPreserve, preserving, cancelled, requests,
                   owned, result, files, warned, faults>>

\* gdox_runtime_run_preservation up to the publication; nothing is begun
\* while a source of an earlier run is retained.
StartRun ==
    /\ pc = "taken"
    /\ IF owned # "none"
       THEN Goto("idle") /\ UNCHANGED <<canPreserve, preserving>>
       ELSE Goto("inspect") /\ preserving' = TRUE /\ canPreserve' = FALSE
    /\ result' = NoResult /\ warned' = FALSE
    /\ UNCHANGED <<given, cancelled, queued, requests, owned, files, faults>>

\* The retained source lets itself be closed at last.
CloseRetained ==
    /\ pc = "idle" /\ owned = "retained"
    /\ owned' = "none"
    /\ UNCHANGED <<given, ui, pc, result, files, warned, faults>>

\* inspect_preservation_source and build_compact_source: whatever of the
\* chain of sources has been made is this run's to close.
InspectSource ==
    /\ pc = "inspect"
    /\ \/ owned' = "run" /\ Goto("validate") /\ UNCHANGED faults
       \/ owned' \in {"none", "run"} /\ Goto("finish") /\ Fault
    /\ UNCHANGED <<given, ui, result, files, warned>>

-----------------------------------------------------------------------------
(* core/preserve.c                                                         *)

\* gdox_preservation_catalog_match, with entry_matches: one entry lists both.
CatalogMatch(j) == j.pfi /\ j.dmi /\ j.listed

\* resolve_map: "error", "none", or the source of the map that is used.  The
\* disc's own ranges win; a user's map has to agree with them.
ResolveMap(j) ==
    IF j.format # "redump" THEN IF j.external = "none" THEN "none" ELSE "error"
    ELSE IF j.external = "invalid" \/ (j.external = "differs" /\ j.ss = "authentic")
    THEN "error"
    ELSE IF j.ss = "authentic" THEN "authenticated"
    ELSE IF j.external # "none" THEN "user"
    ELSE IF CatalogMatch(j) THEN "catalog"
    ELSE "none"

\* lba_is_normalized.
Normalized == IF result.map = "none" THEN {} ELSE SecurityRanges

\* validate_request: an image, a sidecar or a partial image has the name.
Taken == final # "none" \/ sidecars # 0 \/ part # "none"

\* gdox_preservation_run's preamble: the map, the paths, the free space.
ValidateRequest ==
    /\ pc = "validate"
    /\ result' = [result EXCEPT !.map = ResolveMap(job)]
    /\ \/ /\ ResolveMap(job) # "error" /\ ~Taken
          /\ Goto("create") /\ UNCHANGED faults
       \/ /\ ResolveMap(job) = "error" \/ Taken
          /\ Goto("finish") /\ UNCHANGED faults
       \/ Goto("finish") /\ Fault
    /\ UNCHANGED <<given, ui, owned, files, warned>>

\* gdox_preservation_file_create: O_EXCL and CREATE_NEW refuse a name that
\* is taken, and only then is the partial file ours to discard.
CreatePart ==
    /\ pc = "create"
    /\ IF part = "none"
       THEN /\ part' = "ours" /\ image' = <<>> /\ whole' = FALSE /\ synced' = FALSE
            /\ Goto("write")
       ELSE Goto("finish") /\ UNCHANGED <<part, image, whole, synced>>
    /\ UNCHANGED <<given, ui, owned, result, final, sidecars, manifest,
                   intruders, warned, faults>>

\* is_cancelled, looked at before each block.
WriteCancelled ==
    /\ pc = "write" /\ Block # {} /\ cancelled
    /\ Goto("cleanup")
    /\ UNCHANGED <<given, ui, owned, result, files, warned, faults>>

\* The sectors of a block as they are appended when those of "lost" cannot
\* be read: zeros for them and for the normalised ones.
Appended(lost) ==
    image \o [i \in 1 .. Cardinality(Block) |->
                 IF Len(image) + i - 1 \in lost \cup Normalized THEN "zero" ELSE "data"]

\* A slip: a sector that could not be read is filled and not counted.
ReadUncounted ==
    /\ pc = "write" /\ Block # {} /\ ~cancelled
    /\ image' = Appended({s \in Block : disc[s] = "bad"})
    /\ UNCHANGED <<given, ui, pc, owned, result, whole, synced, part, final,
                   sidecars, manifest, intruders, warned, faults>>

\* write_image with recover_block: the block as a whole if it touches no
\* normalised sector and can be read, else sector by sector.  A good sector
\* may fail once in a while.
ReadBlock ==
    /\ pc = "write" /\ Block # {} /\ ~cancelled
    /\ \E failing \in SUBSET Block :
           /\ {s \in Block \ Normalized : disc[s] = "bad"} \subseteq failing
           /\ failing \cap Normalized = {}
           /\ IF \E s \in failing : disc[s] = "good" THEN Fault ELSE UNCHANGED faults
           /\ result' = [result EXCEPT !.unreadable = @ \cup failing]
           /\ image' = Appended(failing)
    /\ UNCHANGED <<given, ui, pc, owned, whole, synced, part, final,
                   sidecars, manifest, intruders, warned>>

\* The medium has gone, or the file cannot be written.
ReadEnds ==
    /\ pc = "write" /\ Block # {} /\ Fault
    /\ Goto("cleanup")
    /\ UNCHANGED <<given, ui, owned, result, files, warned>>

WriteDone ==
    /\ pc = "write" /\ Block = {}
    /\ whole' = TRUE
    /\ Goto("sync")
    /\ UNCHANGED <<given, ui, owned, result, image, synced, part, final,
                   sidecars, manifest, intruders, warned, faults>>

\* A slip: the file is closed without being synchronised.
CloseUnsynced ==
    /\ pc = "sync"
    /\ Goto(IF job.verify THEN "verify" ELSE "commit")
    /\ UNCHANGED <<given, ui, owned, result, files, warned, faults>>

\* gdox_preservation_file_sync_close.
SyncClose ==
    /\ pc = "sync"
    /\ \/ /\ synced' = TRUE /\ UNCHANGED faults
          /\ Goto(IF job.verify THEN "verify" ELSE "commit")
       \/ UNCHANGED synced /\ Goto("cleanup") /\ Fault
    /\ UNCHANGED <<given, ui, owned, result, image, whole, part, final,
                   sidecars, manifest, intruders, warned>>

\* hash_file: the file is read back, unless the run is cancelled; a length
\* or a hash that differs ends the run.
VerifyImage ==
    /\ pc = "verify"
    /\ \/ /\ ~cancelled /\ part = "ours" /\ whole
          /\ result' = [result EXCEPT !.verified = TRUE]
          /\ Goto("commit") /\ UNCHANGED faults
       \/ cancelled /\ Goto("cleanup") /\ UNCHANGED <<result, faults>>
       \/ Goto("cleanup") /\ Fault /\ UNCHANGED result
    /\ UNCHANGED <<given, ui, owned, files, warned>>

\* evidence_is_complete.
EvidenceComplete ==
    /\ job.verify /\ result.unreadable = {}
    /\ job.pfi /\ job.dmi /\ job.ss # "none"
    /\ result.map = "authenticated"

\* classify_preservation.
Classified ==
    IF job.format = "xiso" THEN "playable-xiso"
    ELSE IF EvidenceComplete THEN "evidence-complete" ELSE "candidate"

\* gdox_preservation_path_commit: link or a move without replacement, which
\* fails if the name is taken.  From here on the image is kept whatever
\* fails; the move takes the partial name with it.
CommitFails ==
    /\ pc = "commit"
    /\ \/ final # "none" /\ UNCHANGED faults
       \/ Fault
    /\ result' = [result EXCEPT !.status = Classified]
    /\ Goto("finish")
    /\ UNCHANGED <<given, ui, owned, files, warned>>

LinkImage ==
    /\ pc = "commit" /\ platform = "posix" /\ final = "none"
    /\ result' = [result EXCEPT !.status = Classified]
    /\ final' = "ours"
    /\ Goto("unlink")
    /\ UNCHANGED <<given, ui, owned, image, whole, synced, part, sidecars,
                   manifest, intruders, warned, faults>>

MoveImage ==
    /\ pc = "commit" /\ platform = "windows" /\ final = "none"
    /\ result' = [result EXCEPT !.status = Classified]
    /\ final' = part /\ part' = "none"
    /\ Goto("bundle")
    /\ UNCHANGED <<given, ui, owned, image, whole, synced, sidecars, manifest, intruders,
                   warned, faults>>

\* The second half of the POSIX commit: if the partial name stays, the final one goes again.
UnlinkPart ==
    /\ pc = "unlink"
    /\ \/ part' = "none" /\ Goto("bundle") /\ UNCHANGED <<final, faults>>
       \/ final' = "none" /\ Goto("finish") /\ Fault /\ UNCHANGED part
    /\ UNCHANGED <<given, ui, owned, result, image, whole, synced,
                   sidecars, manifest, intruders, warned>>

\* gdox_preservation_sidecars_available looks for these names ...
SidecarsNeeded(j, map) ==
    {".gdox.json", ".crc32", ".md5", ".sha1", ".sha256", ".log"}
    \cup (IF j.pfi THEN {".pfi.bin"} ELSE {})
    \cup (IF j.dmi THEN {".dmi.bin"} ELSE {})
    \cup (IF j.ss # "none" THEN {".ss.bin"} ELSE {})
    \cup (IF map # "none" THEN {".security-map.json"} ELSE {})
    \cup (IF j.format = "redump" THEN {".dvd", ".sectors.txt"} ELSE {})

\* ... and gdox_preservation_write_bundle writes these, in this order.
Bundle(j, map) ==
    <<".gdox.json", ".crc32", ".md5", ".sha1", ".sha256">>
    \o (IF j.pfi THEN <<".pfi.bin">> ELSE <<>>)
    \o (IF j.dmi THEN <<".dmi.bin">> ELSE <<>>)
    \o (IF j.ss # "none" THEN <<".ss.bin">> ELSE <<>>)
    \o (IF map # "none" THEN <<".security-map.json">> ELSE <<>>)
    \o (IF j.format = "redump" THEN <<".dvd", ".sectors.txt">> ELSE <<>>)
    \o <<".log">>

\* build_manifest's claims.
BuildManifest == [readback |-> result.verified, authenticated |-> result.map = "authenticated",
                  status |-> result.status, unreadable |-> result.unreadable]

\* write_new under the next name.
WriteSidecar ==
    /\ pc = "bundle" /\ sidecars < Len(Bundle(job, result.map))
    /\ sidecars' = sidecars + 1
    /\ manifest' = IF sidecars = 0 THEN BuildManifest ELSE manifest
    /\ UNCHANGED <<given, ui, pc, owned, result, image, whole, synced, part, final,
                   intruders, warned, faults>>

\* The name is taken, or the file cannot be written whole: it stays behind
\* as far as it came.
SidecarFails ==
    /\ pc = "bundle" /\ sidecars < Len(Bundle(job, result.map)) /\ Fault
    /\ sidecars' \in {sidecars, sidecars + 1}
    /\ Goto("finish")
    /\ UNCHANGED <<given, ui, owned, result, image, whole, synced, part, final,
                   manifest, intruders, warned>>

BundleDone ==
    /\ pc = "bundle" /\ sidecars = Len(Bundle(job, result.map))
    /\ result' = [result EXCEPT !.success = TRUE]
    /\ Goto("finish")
    /\ UNCHANGED <<given, ui, owned, files, warned, faults>>

\* cleanup_preservation with discard_partial: the name is removed, whoever
\* has it by now.
CleanupPart ==
    /\ pc = "cleanup"
    /\ \/ part' = "none" /\ UNCHANGED faults
       \/ UNCHANGED part /\ Fault
    /\ Goto("finish")
    /\ UNCHANGED <<given, ui, owned, result, image, whole, synced, final,
                   sidecars, manifest, intruders, warned>>

\* preservation_session_finish and what is published: the source is closed,
\* or retained and the run a failure.
FinishRun ==
    /\ pc = "finish"
    /\ preserving' = FALSE
    /\ \/ /\ owned' = "none" /\ UNCHANGED <<result, faults>>
          /\ canPreserve' = result.success
       \/ /\ owned = "run" /\ owned' = "retained" /\ Fault
          /\ canPreserve' = FALSE /\ result' = NoResult
    /\ Goto("idle")
    /\ UNCHANGED <<given, cancelled, queued, requests, files, warned>>

-----------------------------------------------------------------------------

Interface == BeginPreservation \/ CancelPreservation

Environment == PowerLoss \/ StartAgain \/ \E n \in {"part", "final"} : Intrude(n)

Run ==
    \/ Publish \/ TakeRequest \/ StartRun \/ CloseRetained \/ InspectSource
    \/ ValidateRequest \/ CreatePart \/ WriteCancelled \/ ReadBlock \/ ReadEnds
    \/ WriteDone \/ SyncClose \/ VerifyImage \/ CommitFails \/ LinkImage
    \/ MoveImage \/ UnlinkPart
    \/ WriteSidecar \/ SidecarFails \/ BundleDone \/ CleanupPart \/ FinishRun

Next == Interface \/ Environment \/ Run

Spec == Init /\ [][Next]_vars

-----------------------------------------------------------------------------
(* Properties.                                                             *)

TypeOK ==
    /\ disc \in [Disc -> {"good", "bad"}] /\ job \in Jobs
    /\ canPreserve \in BOOLEAN /\ preserving \in BOOLEAN /\ cancelled \in BOOLEAN
    /\ requests \in 0 .. MaxRequests /\ queued \in 0 .. requests
    /\ pc \in PcStates /\ owned \in {"none", "run", "retained"}
    /\ result.unreadable \subseteq Disc
    /\ image \in Seq({"data", "zero"}) /\ Len(image) <= Sectors
    /\ whole \in BOOLEAN /\ synced \in BOOLEAN /\ warned \in BOOLEAN
    /\ part \in {"none", "ours", "foreign"} /\ final \in {"none", "ours", "foreign"}
    /\ sidecars \in 0 .. 14 /\ faults \in 0 .. MaxFaults

\* The final name leads to a whole image or to somebody else's file, through
\* every failure and power loss; a file that was there before is never
\* replaced; a bundle belongs to an image, and has exactly the sidecars whose
\* names were looked for before anything was written.  (core/preserve.c:
\* write_and_verify_preservation before gdox_preservation_path_commit.)
CommittedIsWhole ==
    /\ TypeOK
    /\ final = "ours" => whole /\ Len(image) = Sectors
    /\ "final" \in intruders => final = "foreign"
    /\ sidecars > 0 => final # "none"
    /\ result.success => /\ sidecars = Cardinality(SidecarsNeeded(job, result.map))
                         /\ \A i \in 1 .. sidecars :
                                Bundle(job, result.map)[i] \in SidecarsNeeded(job, result.map)

\* A result that is published says what the image is: every sector filled
\* with zeros is a normalised one or listed as unreadable, no sector of a
\* finished image is both listed and data, and "evidence complete" is said
\* only of a verified image without unreadable sectors whose security ranges
\* came from the disc itself.  The manifest claims no more, whatever
\* happened since.  (core/preserve.c: recover_block and
\* classify_preservation; core/preservation_manifest.c: build_manifest.)
ResultIsHonest ==
    /\ result.success =>
        /\ \A s \in Disc : image[s + 1] = "zero" <=> s \in result.unreadable \cup Normalized
        /\ \A s \in Disc : disc[s] = "bad" => s \in result.unreadable \cup Normalized
        /\ result.verified = job.verify
        /\ result.status = "evidence-complete" =>
               job.verify /\ job.ss = "authentic" /\ result.unreadable = {}
    /\ manifest # NoManifest =>
        /\ whole /\ Len(image) = Sectors
        /\ manifest.readback = job.verify
        /\ manifest.authenticated => job.ss = "authentic"
        /\ \A s \in Disc \ SecurityRanges : image[s + 1] = "zero" <=> s \in manifest.unreadable

\* A run that is cancelled while the writer still looks at the flag never
\* commits its image: no later request withdraws the cancellation, because
\* none is accepted while the run is published as preserving.  (app/runtime_
\* controls.c: gdox_runtime_begin_preservation.)
CancelIsHonoured == warned => pc \notin {"commit", "unlink", "bundle"} /\ ~result.success
=============================================================================
