---------------------------- MODULE PrivateFiles ----------------------------
(***************************************************************************)
(* The small files GDOX keeps for its user and how it reads, writes and    *)
(* removes them (platform/user_storage_posix.c, user_storage_windows.c):   *)
(* the settings (app/preferences.c), the firmware and the EEPROM that are  *)
(* adopted for xemu (app/runtime_bundle.c), and a file that is removed     *)
(* only if it is exactly the one that is known.                            *)
(*                                                                         *)
(* A behaviour is about one managed file, of one use, and one source it    *)
(* may be taken from.  One thread at a time makes calls; other programs,   *)
(* xemu among them, write, exchange and delete the files meanwhile, the    *)
(* process can be killed and the power lost between any two operations.    *)
(***************************************************************************)
EXTENDS Naturals, Sequences

CONSTANTS Inodes,    \* what st_ino and nFileIndex tell apart
          NoFile,
          Values,    \* what a line, or a block, can say
          Size,      \* lines, or blocks, of a complete file
          Genuine,   \* the one content whose digest is known
          Others,    \* bound: what other programs leave in a file
          MaxEvents  \* bound: what other programs do, power losses

Texts == [1 .. Size -> Values]
Contents == UNION {[1 .. n -> Values] : n \in 0 .. Size}

FilesAssumption ==
    /\ NoFile \notin Inodes /\ Size \in Nat \ {0} /\ Genuine \in Texts
    /\ Others \subseteq Contents /\ MaxEvents \in Nat

VARIABLES
    system,   \* "posix" or "windows"
    use,      \* what the managed file is
    file,     \* [Inodes -> content, what it was to be, whose, whether synchronised]
    bound,    \* what the names "managed" and "source" lead to
    lasting,  \* what the managed name may lead to after a power loss
    task,     \* the call under way
    at,       \* its place in the code
    from,     \* the name it reads
    inode,    \* the file it has open, or has made
    text,     \* what it has read, or is to write
    was,      \* that file as it was opened
    touched,  \* the times of that file are not those of then
    unseen,   \* the managed file could not be read, or has changed since (auxiliary)
    last,     \* what the last call did (auxiliary)
    events    \* events so far

names == <<bound, lasting>>
opened == <<from, inode, was, touched, unseen>>
given == <<system, use>>
vars == <<given, file, names, task, at, text, opened, last, events>>

Uses == {"settings", "mcpx", "flash", "eeprom", "exact"}

\* What is in a file nobody can tell of is not looked at.
Foreign == [text |-> <<>>, meant |-> <<>>, ours |-> FALSE, synced |-> TRUE]

\* read: a content was used; put: a file was given the managed name; there and
\* lost: the file that had it, if one had.
NoResult == [task |-> "none", ok |-> TRUE, read |-> FALSE, put |-> FALSE, text |-> <<>>,
             touched |-> FALSE, was |-> Foreign, there |-> FALSE, lost |-> Foreign,
             unseen |-> FALSE]

Init ==
    /\ system \in {"posix", "windows"} /\ use \in Uses
    /\ file \in [Inodes -> {[Foreign EXCEPT !.text = t] : t \in Others}]
    /\ bound \in [{"managed", "source"} -> Inodes \cup {NoFile}]
    /\ bound.managed = bound.source => bound.managed = NoFile
    /\ \A i \in Inodes \ {bound.managed, bound.source} : file[i] = Foreign
    /\ lasting = {bound.managed}
    /\ task = "none" /\ at = "idle" /\ from = "managed" /\ inode = NoFile /\ text = <<>>
    /\ was = Foreign /\ touched = FALSE /\ unseen = FALSE /\ last = NoResult /\ events = 0

Exists(n) == bound[n] # NoFile
Content(n) == file[bound[n]]
Unused(i) == i \notin lasting \cup {bound.managed, bound.source, inode}

-----------------------------------------------------------------------------
(* What is made of a content.                                              *)

\* validate_firmware_data and validate_managed_eeprom: the digest of the boot
\* ROM is known, of the others the length.
Fits(t) == IF use = "mcpx" THEN t = Genuine ELSE Len(t) = Size

\* gdox_preferences_defaults: they are settings like any other.
Defaults == Genuine

\* decode, with assign_field, from the defaults on: the schema is in the first
\* line, and what the others do not say stays as it was.
Settings(t) == [i \in 1 .. Size |-> IF i <= Len(t) THEN t[i] ELSE Defaults[i]]
\* A line of somebody else's may be one that does not decode.
Decodes(t, ours) == IF ours THEN {t # <<>>} ELSE {t # <<>>, FALSE}

-----------------------------------------------------------------------------
(* The calls.                                                              *)

Goto(place) == at' = place /\ last' = NoResult
Report == [NoResult EXCEPT !.task = task]
Ends == /\ task' = "none" /\ at' = "idle" /\ from' = "managed" /\ inode' = NoFile
        /\ text' = <<>> /\ was' = Foreign /\ touched' = FALSE /\ unseen' = FALSE
Return(r) == Ends /\ last' = r
Fails == Return([Report EXCEPT !.ok = FALSE])

\* What replaces a file that is there: gdox_preferences_save, and the firmware.
Replaces == task \in {"save", "import", "adopt"}

Called(t, place, n) == task' = t /\ Goto(place) /\ from' = n

\* gdox_preferences_load and gdox_preferences_save.
Load == use = "settings" /\ Called("load", "open", "managed") /\ text' = <<>>
Save == use = "settings" /\ Called("save", "create", "managed") /\ text' \in Texts

\* gdox_runtime_bundle_import_firmware, adopt_configured_firmware,
\* adopt_configured_eeprom.
Import == use \in {"mcpx", "flash"} /\ Called("import", "open", "source") /\ text' = <<>>
Adopt == use \in {"mcpx", "flash"} /\ Called("adopt", "open", "managed") /\ text' = <<>>
Keep == use = "eeprom" /\ Called("keep", "stat", "managed") /\ text' = <<>>

\* gdox_storage_remove_exact_file.
RemoveExact == use = "exact" /\ Called("remove", "open", "managed") /\ text' = <<>>

Begin ==
    /\ at = "idle"
    /\ Load \/ Save \/ Import \/ Adopt \/ Keep \/ RemoveExact
    /\ file' = [i \in Inodes |-> IF Unused(i) THEN Foreign ELSE file[i]]
    /\ UNCHANGED <<given, names, inode, was, touched, unseen, events>>

\* gdox_storage_file_size: an EEPROM that is there is left alone; one that
\* cannot be looked at counts as absent.
Stat ==
    /\ at = "stat"
    /\ \/ Exists("managed") /\ Return([Report EXCEPT !.ok = Fits(Content("managed").text)])
       \/ Goto("open") /\ from' = "source" /\ UNCHANGED <<task, inode, text, was, touched, unseen>>
    /\ UNCHANGED <<given, file, names, events>>

\* There is no file, no valid one, or it cannot be read.  A file to be
\* adopted is looked for elsewhere; for a configured source, and for a
\* configuration without one, that is no error.
NothingRead(error) ==
    IF task = "adopt" /\ from = "managed"
    THEN /\ Goto("open") /\ from' = "source" /\ inode' = NoFile /\ text' = <<>>
         /\ unseen' = IF error THEN TRUE ELSE unseen
         /\ UNCHANGED <<task, was, touched>>
    ELSE Return([Report EXCEPT !.ok = ~error \/ task \in {"adopt", "keep"}])

\* gdox_storage_read and gdox_storage_remove_exact_file open the file and
\* look at its length.
Open ==
    /\ at = "open"
    /\ \/ ~Exists(from) /\ NothingRead(task = "import")
       \/ NothingRead(TRUE)
       \/ Exists(from) /\ task = "remove" /\ Len(Content(from).text) # Size /\ Return(Report)
       \/ /\ Exists(from) /\ (task = "remove" => Len(Content(from).text) = Size)
          /\ Goto("read") /\ inode' = bound[from] /\ text' = <<>> /\ was' = Content(from)
          /\ touched' = FALSE /\ unseen' = IF from = "managed" THEN FALSE ELSE unseen
          /\ UNCHANGED <<task, from>>
    /\ UNCHANGED <<given, file, names, events>>

\* read and ReadFile, up to the length it had: a shorter file is an error.
ReadOn ==
    LET n == Len(text) + 1
    IN  /\ at = "read" /\ n <= Len(was.text)
        /\ \/ /\ n <= Len(file[inode].text)
              /\ text' = Append(text, file[inode].text[n])
              /\ UNCHANGED <<task, at, opened, last>>
           \/ NothingRead(TRUE)
        /\ UNCHANGED <<given, file, names, events>>

\* The file is closed and its content used.
WhatIsRead == [Report EXCEPT !.read = TRUE, !.text = text, !.touched = touched, !.was = was]
UseText ==
    \/ /\ task = "load"
       /\ \E valid \in Decodes(text, was.ours) :
             Return([WhatIsRead EXCEPT !.ok = valid, !.text = Settings(text)])
    \/ /\ task \in {"import", "adopt", "keep"}
       /\ \/ ~Fits(text) /\ NothingRead(task = "import")
          \/ Fits(text) /\ task = "adopt" /\ from = "managed" /\ Return(WhatIsRead)
          \/ /\ Fits(text) /\ ~(task = "adopt" /\ from = "managed")
             /\ Goto("create") /\ inode' = NoFile
             /\ UNCHANGED <<task, from, text, was, touched, unseen>>
    \/ /\ task = "remove"
       /\ \/ touched /\ Fails
          \/ ~touched /\ text # Genuine /\ Return(Report)
          \/ ~touched /\ text = Genuine /\ Goto("verified") /\ UNCHANGED <<task, text, opened>>

ReadEnds ==
    /\ at = "read" /\ Len(text) = Len(was.text)
    /\ UseText \/ NothingRead(TRUE)
    /\ UNCHANGED <<given, file, names, events>>

-----------------------------------------------------------------------------
(* gdox_storage_write_private.                                             *)

\* create_parent_directories fails, or the new file cannot be made.
CannotCreate == Fails /\ UNCHANGED file

\* A file that must not be replaced is not there, and a new file gets a
\* temporary name of its own (O_EXCL, CREATE_NEW).
Create ==
    /\ at = "create"
    /\ \/ CannotCreate
       \/ /\ Replaces \/ ~Exists("managed")
          /\ \E i \in Inodes :
                /\ Unused(i) /\ inode' = i
                /\ file' = [file EXCEPT ![i] = [text |-> <<>>, meant |-> text, ours |-> TRUE,
                                                synced |-> FALSE]]
          /\ Goto("write") /\ UNCHANGED <<task, from, text, was, touched, unseen>>
    /\ UNCHANGED <<given, names, events>>

\* write and write_all.
Write ==
    /\ at = "write"
    /\ LET n == Len(file[inode].text) + 1
       IN  \/ /\ n <= Len(text)
              /\ file' = [file EXCEPT ![inode].text = Append(@, text[n])]
              /\ UNCHANGED <<task, at, text, opened, last>>
           \/ n > Len(text) /\ Goto("sync") /\ UNCHANGED <<file, task, text, opened>>
           \/ Fails /\ UNCHANGED file
    /\ UNCHANGED <<given, names, events>>

\* A slip: the file is closed and never synchronised.
CloseOnly ==
    /\ at = "sync" /\ Goto("commit")
    /\ UNCHANGED <<given, file, names, task, text, opened, events>>

\* fsync and close, FlushFileBuffers and CloseHandle.
Synchronize ==
    /\ at = "sync"
    /\ \/ /\ file' = [file EXCEPT ![inode].synced = TRUE] /\ Goto("commit")
          /\ UNCHANGED <<task, text, opened>>
       \/ Fails /\ UNCHANGED file
    /\ UNCHANGED <<given, names, events>>

Taken == [Report EXCEPT !.there = Exists("managed"), !.unseen = unseen,
                        !.lost = IF Exists("managed") THEN Content("managed") ELSE Foreign]

\* Where the managed name leads is durable on Windows (MOVEFILE_WRITE_THROUGH);
\* on POSIX the directory is not synchronised.
Lead(i) == /\ bound' = [bound EXCEPT !.managed = i]
           /\ lasting' = IF system = "windows" THEN {i} ELSE lasting \cup {i}

\* rename, link and MoveFileExW: the last two refuse a name that is taken,
\* if it is not to be replaced.
Commit ==
    /\ at = "commit"
    /\ \/ Fails /\ UNCHANGED names
       \/ /\ Replaces \/ (system = "windows" /\ ~Exists("managed"))
          /\ Lead(inode) /\ Return([Taken EXCEPT !.put = TRUE])
       \/ /\ ~Replaces /\ system = "posix" /\ ~Exists("managed")
          /\ Lead(inode) /\ Goto("linked") /\ UNCHANGED <<task, text, opened>>
    /\ UNCHANGED <<given, file, events>>

\* The temporary name of the link is removed, or the call fails although the
\* file is in its place.
Unlinked ==
    /\ at = "linked"
    /\ \E ok \in BOOLEAN : Return([Report EXCEPT !.ok = ok, !.put = TRUE])
    /\ UNCHANGED <<given, file, names, events>>

-----------------------------------------------------------------------------
(* gdox_storage_remove_exact_file, when the digest agrees.                 *)

\* A slip: the name is not looked at again.
RemoveUnlooked ==
    /\ at = "verified" /\ Goto("remove") /\ unseen' = FALSE
    /\ UNCHANGED <<given, file, names, task, text, from, inode, was, touched, events>>

\* lstat and same_file_times, against the file as it was opened.
IsStillThere == bound.managed = inode /\ ~touched

\* POSIX looks once more where the name leads; a Windows handle that nobody
\* else may write or delete through needs no second look.
LookAgain ==
    /\ at = "verified"
    /\ IF system = "windows" \/ IsStillThere
       THEN Goto("remove") /\ unseen' = FALSE /\ UNCHANGED <<task, text, from, inode, was, touched>>
       ELSE Fails
    /\ UNCHANGED <<given, file, names, events>>

\* unlink, or the deletion of what the handle is of; its close can fail then.
Remove ==
    /\ at = "remove"
    /\ \/ Fails /\ UNCHANGED names
       \/ /\ Exists("managed")
          /\ \E ok \in BOOLEAN : (ok \/ system = "windows") /\ Return([Taken EXCEPT !.ok = ok])
          /\ bound' = [bound EXCEPT !.managed = NoFile] /\ lasting' = lasting \cup {NoFile}
    /\ UNCHANGED <<given, file, events>>

-----------------------------------------------------------------------------
(* Other programs, and the end of this one.                                *)

\* Windows lets nobody write, exchange or delete a file that is open here.
Held(n) == system = "windows" /\ at \in {"read", "verified", "remove"} /\ bound[n] = inode

Event == events < MaxEvents /\ events' = events + 1
Disturbs(n) == unseen' = IF n = "managed" /\ at # "idle" THEN TRUE ELSE unseen

\* xemu writes its EEPROM, the user edits a file.
Edit(n, t) ==
    /\ Exists(n) /\ ~Held(n) /\ Event /\ Disturbs(n)
    /\ file' = [file EXCEPT ![bound[n]] = [Foreign EXCEPT !.text = t]]
    /\ touched' = IF inode = bound[n] THEN TRUE ELSE touched
    /\ UNCHANGED <<given, names, task, at, from, inode, text, was, last>>

\* Another file gets the name, or none.
Exchange(n, i) ==
    /\ ~Held(n) /\ Event /\ Disturbs(n)
    /\ i = NoFile \/ Unused(i)
    /\ \E t \in Others :
          file' = [j \in Inodes |-> IF j = i THEN [Foreign EXCEPT !.text = t] ELSE file[j]]
    /\ bound' = [bound EXCEPT ![n] = i]
    /\ lasting' = IF n = "managed" THEN lasting \cup {i} ELSE lasting
    /\ UNCHANGED <<given, task, at, from, inode, text, was, touched, last>>

\* The system has written back its directories.
Settle ==
    /\ lasting' = {bound.managed}
    /\ UNCHANGED <<given, file, bound, task, at, text, opened, last, events>>

Kill ==
    /\ at # "idle" /\ Ends
    /\ UNCHANGED <<given, file, names, last, events>>

\* Of a file that was not synchronised any beginning may be left.
PowerLoss ==
    /\ Event /\ Ends
    /\ \E i \in lasting, cut \in [Inodes -> 0 .. Size] :
          /\ bound' = [bound EXCEPT !.managed = i] /\ lasting' = {i}
          /\ file' = [j \in Inodes |->
                         IF file[j].synced \/ Len(file[j].text) <= cut[j] THEN file[j]
                         ELSE [file[j] EXCEPT !.text = SubSeq(@, 1, cut[j])]]
    /\ UNCHANGED <<given, last>>

Next ==
    \/ Begin \/ Stat \/ Open \/ ReadOn \/ ReadEnds
    \/ Create \/ Write \/ Synchronize \/ Commit \/ Unlinked \/ LookAgain \/ Remove
    \/ \E n \in {"managed", "source"} :
          \/ \E t \in Others : Edit(n, t)
          \/ \E i \in Inodes \cup {NoFile} : Exchange(n, i)
    \/ Settle \/ Kill \/ PowerLoss

Spec == Init /\ [][Next]_vars

-----------------------------------------------------------------------------
\* Wherever the managed name leads, now and after a power loss, if GDOX put
\* the file there and nobody has written to it since, it is all of what a
\* call was to write, synchronised, and what a file of this use has to be.
\* (gdox_storage_write_private, read_validated_firmware.)
StoredIsWhole ==
    \A i \in (lasting \cup {bound.managed}) \ {NoFile} :
        file[i].ours => /\ file[i].synced /\ file[i].text = file[i].meant
                        /\ Fits(file[i].text)

\* What a call did is what it was to do, and what it says: settings that were
\* saved are loaded again as they were; an EEPROM that is there is never
\* replaced, and a firmware that fits by an import alone, unless it could not
\* be read; what is removed has the known content, unless somebody else changed
\* it after the last look, which nobody can on Windows; and a call that was to
\* write succeeds exactly if the file is in its place.
\* (gdox_preferences_load, adopt_configured_firmware, adopt_configured_eeprom,
\* gdox_storage_remove_exact_file, gdox_storage_write_private.)
CallsKeepTheirWord ==
    /\ last.task = "load" /\ last.read /\ last.was.ours /\ ~last.touched =>
          last.ok /\ last.text = last.was.meant
    /\ last.task = "keep" => ~last.there
    /\ last.task = "adopt" /\ last.put /\ last.lost.ours => last.unseen
    /\ last.task = "remove" /\ last.there =>
          last.lost.text = Genuine \/ (last.unseen /\ system = "posix")
    /\ last.task \in {"save", "import"} => (last.ok <=> last.put)
=============================================================================
