# gdox: a TLA+ verification project

gdox plays original game discs (Xbox, Xbox 360, GameCube, Wii) from an optical
drive or a disc image: it unlocks the drive, exports the disc over a private NBD
server, and runs an emulator (xemu, Xenia, Dolphin) on the export; it also
preserves discs into image files. The modules here are translated from the C
source (paths below are relative to the repository's `src/` directory);
`docs/ARCHITECTURE.md`, `docs/SAFETY.md` and the tests say what the code is meant
to promise, and three runs hold the code against a sentence of theirs.

## 1. The system

| Component | State it keeps | Operations | Hard behaviour | Correct means |
|---|---|---|---|---|
| Optical monitor (`app/optical_monitor.c`) | dwell and rearm counters, permission, retry budget, latch | observe, fail, retry, block, session ended, eject completed | counters at their limits, failed observations between good ones | one attempt per dwell, bounded retries, a latched disc left alone |
| Physical media monitor (`app/physical_media_monitor.c`) | generation baseline, confirmation counters, latched event | observe media, connection, fault | stale generation, flapping presence | an event is real, latched once, bound to its disc |
| Runtime worker (`app/runtime.c`, `runtime_{actions,session,physical}.c`) | the loop, the owed cleanup, holds | one action per request, session end by event, cleanup retry, shutdown | every call blocks and can fail while disc, drive, child and export change | nothing closed beneath an emulator, nothing forgotten, nothing opened twice |
| Media session (`app/runtime_media.c`) | export, validated disc, retained source | open disc or image, close, retarget for Xenia | half-failed open or close keeps what it could not release | one launch source; ownership until released |
| Playback owner (`app/runtime_playback.c`, `runtime_{xemu,xenia,dolphin}.c`) | tagged owner, process, Xenia storage | start, stop, poll, shutdown | exits by itself, failed start that cannot be undone | tag and process agree |
| Emulator processes, disc bridge (`platform/emulator_*.c`, `xenia_process_*.c`, `dolphin_process_linux.c`, `disc_bridge_linux.c`) | child, process group, bridge, deadlines | launch, query, stop, mount, unmount | a leader that ends before its group, a reused process number, a mount that stays busy | a released process is not alive; no mount taken from its reader or left behind |
| Session storage, xemu saves (`platform/session_storage_*.c`, `app/xemu_save_storage.c`) | session directory with lock and marker; old disk, quarantine, vault | recover, create, clean up; migrate, validate, reject | several processes, crashes between any two file operations, a helper that fails or lies | an active session is left alone, leftover data is recoverable, a save is never lost |
| Private files (`platform/user_storage_*.c`, `app/preferences.c`, `runtime_bundle.c`) | settings, firmware, EEPROM, and a file under a temporary name | load, save, import, adopt, remove exactly | other programs at every step, kills, power loss, a failing step | whole or as it was; the user's EEPROM and a file of other content are never lost |
| Request side (`app/runtime_{commands,controls,setup,state}.c`) | queue of 16, pending flags, settings and their dirty flags, published snapshot | the public API on the UI thread; dequeue, setup and flush on the worker | two threads, one mutex, decisions on published copies | FIFO, no accepted setup lost, settings saved or the failure reported |
| Drive selection (`app/runtime_{drives,drive_loop}.c`) | inventory, target, table of pending cleanups | refresh, resolve, select, retry cleanup | switching away from a drive that could not be restored | every unlocked drive keeps exactly one owner |
| Preservation (`app/runtime_preservation.c`, `core/preserve.c`, `preservation_manifest.c`) | job, cancel flag, `.part` output, sidecars | run, cancel, verify, commit, bundle | cancel against completion, unreadable sectors, power loss | output whole or absent, report honest |
| NBD export (`platform/nbd_*.c`) | listener, client thread, stop flag, active socket | start, serve, inspect, close | close and inspection against an in-flight read | one user of the disc; a close ends |
| Read-ahead (`core/file_readahead_source.c`) | windows, cache and its epoch, verdict on the session | read, observe, abort, close | verdict and epoch change under a read that holds no lock of theirs | a reply is as fresh as the last invalidation before it |
| MMC commands and media tracker (`platform/mmc_commands.c`) | media generation, pending event | observe, drain | events lost or duplicated by the drive | generation advances with every change |
| Drive transactions (`platform/mt1887_source.c`, `asus_nr09_source.c`, `gp08_source.c`, `ad7701h_source.c`, `gp63_*.c`) | original bytes, what is owed, block buffer and read-ahead worker (GP63) | open, activate, read, recover, restore, close | any command can fail or be lost with the transport; disc exchanged, drive unplugged, process killed | stock state restored or owed |
| SCSI transports (`platform/usb_bot_libusb*.c`, `usb_bot_linux_devices.c`; `usb_bot_windows.c`; `usb_bot_macos.c`, `macos_scsi.c`, `macos_mount_guard.h`) | handle, claim, displaced kernel driver, tag, identity; on macOS the guards against mounts and the unmounts under way | open, command, reset, reopen, close | timed-out commands, a drive that comes back elsewhere, a half-failed claim, an answer later than its deadline | what was taken from the system given back, replies of their own command, same drive |
| Desktop (`ui/main.cpp`, `app/background_lifecycle.c`, `platform/{background_host,background_menu}_*`, `instance_guard_*`, `termination_signal_posix.c`) | lifecycle, the host's pending events, lock or mutex, socket name or event, outcome of the shutdown | launch, acquire, knock, poll, frame, hide, reopen, quit, signal, session end, release | launches, crashes and the guard's files in any order; a shutdown entered again from its own message pump | one process has the drive and can be reached; the exit code is the one shutdown's |
| Formats, configuration, pages of the UI, Android, packaging | | | | not modelled; see section 6 and `PROJECT.json` |

The UI thread calls the functions of `runtime_controls.c`, which only change
state under one mutex and read a published snapshot. One worker thread runs
`run_runtime_cycle` every 100 ms and is the only one to touch the media session,
the playback owner and the drive. The worker calls down into the media session
(which owns the NBD export's server thread) and the playback owner (which owns a
child process, and a mount for Xenia and Dolphin); it learns of the outside by
polling: the child, the export's error record, the media tracker of the owned
source, and the list of drives. The server thread and the worker meet at the
export's state mutex and at the read-ahead context; below it the source of one
drive family runs its transaction over a transport.

## 2. Modules

| Module | Models | Uses |
|---|---|---|
| `OpticalMonitor` | `app/optical_monitor.c`: every transition an operator from monitor to monitor | |
| `MediaDiscovery` | the monitor driven by the worker's idle look, with drives that appear, fail and change | `OpticalMonitor` |
| `Desktop` | `ui/main.cpp` around the runtime: instance guard, background host and lifecycle, both shutdowns, on Linux and Windows | |
| `PrivateFiles` | `platform/user_storage_*.c`, with what `app/preferences.c` and `runtime_bundle.c` make of them: one file GDOX keeps, on Linux/macOS and Windows | |
| `PhysicalMediaMonitor` | `app/physical_media_monitor.c`, operators on a watch | |
| `MediaSession` | `app/runtime_media.c`: the sets of sessions that open, close and retargeting can leave | |
| `PlaybackOwner` | `app/runtime_playback.c`, `runtime_xenia.c`: the outcomes of start, stop and poll | `MediaSession` |
| `RuntimeSession` | `app/runtime.c`, `runtime_{actions,session,physical}.c`: the worker against the world | the four above |
| `PlaybackCalls` | abstract: the calls of `PlaybackOwner`, each one step | `PlaybackOwner` |
| `EmulatorProcess` | the processes and the disc bridge, step by step; implements `PlaybackCalls` | `PlaybackOwner` |
| `XemuSaves`, `Playback` | the migration of an old xemu disk before a start; both composed | `EmulatorProcess` |
| `RequestQueue` | abstract: what the command queue promises, on a sequence | |
| `RequestRing` | the queue as `runtime_commands.c` and `runtime_setup.c` keep it; implements `RequestQueue` | |
| `RuntimeRequests` | the user's thread and the worker at the mutex: submissions, setup, selection, settings, saves | `RequestQueue` |
| `DriveSelection` | `app/runtime_{drives,drive_loop}.c`: the list, the choice, the table of pending cleanups | |
| `VolatileLease` | abstract: what every source promises of a drive's volatile memory | |
| `FieldMemory` | a drive written field by field, and what three sources do alike | |
| `AsusNr09`, `Gp08`, `Ad7701h` | the three sources, command by command | `FieldMemory` |
| `NintendoSource` | `platform/gp63_gamecube_source.c`, `gp63_sg_linux.c`: readers, worker and owner of a GameCube or Wii disc | |
| `OpticalDrives` | the registry's choice of a source; implements `VolatileLease` | the four above |
| `Mt1887Transaction` | `platform/mt1887_source.c`, `mt1887_media_profile.c`: the drive's volatile memory byte by byte | |
| `LiveMedia` | `mt1887_source.c` (reads and recovery), `mmc_commands.c` (the tracker of medium changes), the verdict of the read-ahead and the worker's watch, at one disc | `PhysicalMediaMonitor` |
| `FileReadahead` | `core/file_readahead_source.c`: operators on its context | |
| `NbdExport` | `platform/nbd_*.c`: server thread, worker and clients over the read-ahead | `FileReadahead` |
| `UsbBot` | the Linux Bulk-Only transport with its call stack, the drives and the kernel's driver | |
| `ScsiChannels` | the Windows and macOS transports over the system's own driver: several at once, guards, unmounts | |
| `SessionStorage` | `platform/session_storage_{posix,windows}.c`: several processes in one directory | |
| `Preservation` | a preservation from the request to the sidecars | |
| `MC*` | constants for TLC; six of them join two or three parts into one root (below) | |
| `*Proofs` | the theorems of section 5 | |

Detail and promise meet in these places. `RequestRing` implements `RequestQueue`,
`EmulatorProcess` implements `PlaybackCalls` (which is written with the very
operators `RuntimeSession` uses), and the four sources of `OpticalDrives`
implement `VolatileLease`; all three are checked as refinements. `RuntimeSession`
takes the media tracker as something that notices a change of disc at once, and a
close as one step that releases the drive or does not; `LiveMedia` and
`Mt1887Transaction` are what is behind those two steps. `DriveSelection` and
`RuntimeRequests` abstract the session of `RuntimeSession` to whether a session
or an emulator is there. `Preservation` refines the one step `RuntimeSession`
makes of a preservation.

The six roots `MCMediaDiscovery`, `MCRuntimeSession`, `MCDriveSelection`,
`MCMt1887Transaction`, `MCSessionStorage` and `MCUsbBot` check parts that share no
state in one run: `part` (in `MCUsbBot` the `platform`, of whose transports a build
has one) is chosen initially, the others stand still. This is a disjoint union of behaviours, not an
abstraction; every property speaks of one part.

**`RuntimeSession`.** `pc` names the places of the worker's cycle between which
the world can act: before and after each call that blocks (stop, close, open,
start, eject) and each check of `stopping`. One action is the code from one such
place to the next, so `CloseForTask` contains the close and everything its caller
does with the result. `play`, `media`, `physical`, `monitor`, `hold`, `stopping`
are the fields `playback_owner`/`process`/`xenia_storage`, `media`,
`loop->physical`, `loop->optical_monitor`, `preservation_hold`, `stopping`.
`disc` and `fault` are outside the program: what is in the drive, the tracker's
generation and pending eject request, and the export's recorded error. `history`
is auxiliary: how the last session was left, and whether the disc that asked for
the eject was still in at the last check. Simplifications, each towards more
behaviour unless said otherwise: timers that only delay a look are left out; any
request may be next; a preservation is one step with its three outcomes for
ownership. The check of an eject request precedes the close of the session and
is not repeated after it, in the code and in the model: the property says
"verified at the last check", not "at the moment the tray moves".

**`MediaDiscovery`.** `Observe` is one look of the idle cycle with what it makes
of the monitor; `Prepare` and `PrepareFails` are the initialization it allows.
`drive` is the world; `history` counts attempts, looks and latches on its own,
so that the properties do not restate the monitor's counters.

**`Desktop`.** `at` is the call of `run_application`, of the guard or of a shutdown
each process is at; `holder`, `path`, `trusted`, `handles`, `events` and `mail` are
what the kernel keeps of the guards (the lock, the socket's name and mode, the
handles of the mutex and the event, what was sent); `app` is the process's own:
lifecycle, host, icon, the two slots of pending events, and the fields of
`native_shutdown_context`. The calls of the bus (`HandleItem`, `HandleMenu`) and the
messages of the tray (`TrayClicked`, `ShowTrayMenu`, `TaskbarCreated`) are modelled by
what they do to the slots. Messages are handled where the code pumps: in a poll,
and on Windows in a frame too, also inside the shutdown, so that `SessionEnds` can
enter `complete_native_shutdown` a second time. A process can be killed at any
place. The runtime is present or not; what its destruction takes is
`RuntimeSession`. `failed` is auxiliary: that a shutdown ended with an error, or
the start or the window failed.

**`PrivateFiles`.** A behaviour is about one managed file of one use (settings, boot
ROM, BIOS, EEPROM, or a file to be removed exactly) and one source it may be taken
from. `at` is the place of the call under way: opening, each `read`, each `write`,
synchronising, committing (`rename`, `link` and `unlink`, `MoveFileExW`), the look
before the unlink. `file` is what is in each inode, with what it was meant to be,
whose it is and whether it is synchronised; `bound` is where the names lead now and
`lasting` where the managed name may lead after a power loss, since POSIX never
synchronises the directory. Of a file that is not synchronised any beginning may be
left. Other programs edit and exchange the files at any step, except what Windows
holds open. Calls are made by one thread at a time. A text is a sequence of lines, or
of blocks; one `Size` stands for the boot ROM's, the EEPROM's and the three valid
sizes of a BIOS, `Genuine` for the content whose digest is known. The temporary name
that a killed process leaves, and that its successor on POSIX removes if it is given
the same process number, is not modelled: a file under it has no name here.
`gdox_storage_remove_exact_file` is called by tests alone.

**`EmulatorProcess`, `PlaybackCalls`.** `op` is the call under way and its place;
`handle` is the process object (number known, reaped, group, bridge, mount
helper), `world` the processes themselves: the leader, the emulators that left other
processes in their group (`helpers`), a stranger that was given a reaped number, the
mount and its server. Off Windows xemu and Xenia both lead a group; Xenia's is waited
for to its last process, while xemu's is signalled but only its leader counts.
Waits are counted in queries (`WaitPolls`, `ClosePolls`). `Shown` is what the
runtime sees: nothing of a call before it returns, except that the child may end
at any time. `ghost.hurt` records signals that met a stranger.

**`XemuSaves`.** `mig.child` and `mig.open` are the helper's process and the pipes it
and its heirs hold: it is spawned, found to have ended, read to the end of its pipes,
or killed with its group at the deadline (`HelperSpawned`, `HelperReaped`,
`HelperKilled`, `HelperReports`). What it does to the files is external: it may
restore, export, tear, rename or remove in any order and be stopped after any step,
but what it writes as a whole
vault is one, and a second program does not change the files while xemu is being
granted its start. Files are represented by their sizes, because the code
compares sizes and presence, not contents. `disk.kept` is auxiliary: the disk in
whose place a refused migration was let pass, until the user changes it.

**`RequestQueue`, `RequestRing`, `RuntimeRequests`.** `Enqueued` and the taking
of the next request are `enqueue_request`, `gdox_runtime_take_request` and
`gdox_runtime_setup_take_request`. In `RuntimeRequests` the user's actions are
the public functions of `runtime_controls.c`; each accepted submission carries a
number that stands for its path, display settings or drive. `SetDisplay` stands
also for the other settings that only raise the dirty flag. All imports are one
kind, a launch ends the cycle, and the two checks of a pending selection in one
poll are merged. What an action does to the disc belongs to `RuntimeSession`;
here it decides what the user may ask for.

**`DriveSelection`.** `unlocked` is the set of drives themselves; `pending` the
owned slots of `runtime->pending_cleanup`, each with the identity it is filed
under and the drive its handle really holds, which the code could confuse. The
order of the list and ties of the score are left open. An observation that
resolves nothing is a stutter; a failed open of an image retains nothing; a
close that lets go of a drive has restored it first (that is what the sources
are about). Ejecting is left to `RuntimeSession`.

**`FieldMemory`, `AsusNr09`, `Gp08`, `Ad7701h`.** A field is one place of the
drive's memory; its value says of which disc it is and whether it is the drive's
own or the game's. The code's eight, five or two fields are any number of them
here, the last of which is the capacity. Reading takes two steps so that an
exchange tears it; every write is one step that lands, fails, or fails after it
landed; a reset may put stock values back in any field. The three differ in what
the code differs in: which states are recognised, what a recovery checks, when
the debt (`source.active`) ends, whether a failed open is retained. `Gp08Evidence`,
`AsusEvidence` and `AdInitialize` decide by the disc in the drive where the code
decides by the physical-format structure the drive serves of it; a drive that serves
another disc's structure is not modelled.

**`NintendoSource`.** `work` is the holder of the drive's mutex and its step
through an acquisition (check, admit byte by byte, scan, undo, capture, decode);
one action outside it is one critical section of `cache_mutex`. Decoding and
parity repair are the sets of blocks they may yield. `reader`, `worker`, `owner`
are the threads of `gc_read`, `readahead_worker` and open/close.

**`Mt1887Transaction`.** `drive.memory` holds the two or three triplets that
opening overwrites; every byte is one `SendWrite`, with the outcomes landed,
refused, and reported as failed although it landed. Reading the memory takes two
steps (`ReadCapacityBytes`, `ReadRest`) so that an exchange of the disc can tear
it. `Recover` is the bus reset and what follows it up to the retry READ; `Close`,
`ResetDrive`, `Release` are the guarded restoration with its attempts. `Kill` is
the end of the process at any point, with the memory as it is. Two excuses appear
in the properties because the code has them: `history.stale`, the disc was
changed (or a reset let the drive derive its memory again) between the reading
of the memory and the writes that depend on it, after which nothing checks
again; and `history.retarget`, the bytes of another profile were being replaced,
a mixture the code refuses to touch until a power cycle. Deadlines and the
splitting of ranges are left to nondeterminism.

**`LiveMedia`.** `reader` is one call of `mt_read`, a step per command; `observer`
is the opening of the session (`BeginSession`, `Baseline`) and then the worker's
observation, split where the source's mutex is taken and given back; `gate` is the
read-ahead's `media_invalid` with its observed generation; `watch` is the worker's
monitor. `drive` is external: it reports an exchange to one command and perhaps
in its event queue. A command the transport loses is assumed not to reach the
drive. Two excuses bound what the code can promise: `history.blind`, the disc was
exchanged while the session was being opened, before the baseline;
`history.lost`, the one report went to a command whose sense nobody notes (the
diagnostic reads of `ensure_xgd`, `SET CD SPEED`, the last attempt of a read).

**`FileReadahead`, `NbdExport`.** A buffer is where it was read from and in which
epoch. `server` and `worker` are the places of the two threads between which the
other can act: every critical section of the state mutex is one action, except an
inspection, which holds it while it runs. The gate of a read, the judgement of a
copied request, the inner read and its publication are separate, because the
epoch and the verdict are read there without a lock. Clients connect, send, stop
and leave at will; the wake of a close is one more connection.

**`UsbBot`.** The procedures of the transport call each other recursively, so
`stack` holds frames. `driver` says who has each drive's interface, `pipe` what
waits in its endpoint, each packet marked with the command it answers. `usb` is
the context. `usb.grip` is what libusb and usbfs hold for the handle, which the
context's own flag (`claimed`) may not show after a handle was overwritten. A drive's
id is its port and its serial number, if it has one (`DeviceId`): serial numbers may
be missing, or shared, and then two drives of a model in the same port, one after
the other, have the same id. `usb.first` and `abandoned` are auxiliary.

**`ScsiChannels`.** `channels` are the contexts of the transports, several of which
can be open; one at a time is being opened, by the worker. `seats` says where each
drive is attached and how often it has been: a registry entry or a device path lives
for one such stay, and a handle to an earlier one answers no command. `guards` is
`mount_guards` with its references, `contexts` the memory an unmount shares between
the one who waits and Disk Arbitration's queue, whose answer may come after the
deadline, or never. The Windows transport is selected by path, identity and serial
number (`Selected`); a drive that reports no serial number, or the same, can be
exchanged for one of the same model in the same place, and `SelectedIsKept` does not
say otherwise. On macOS a registry entry is one stay of one drive.

**`SessionStorage`.** A creation and a cleanup are sequences of file operations
(`PosixCreation`, `WindowsCreation`, ...), interpreted one operation at a time by
each process; a recovery goes through the directory entry by entry. A crash frees
the locks and leaves the files.

**`Preservation`.** `pc` is the place in `gdox_preservation_run`; one step of the
write loop is one block, recovered sector by sector when it cannot be read.
`image` is the file, under up to two names; `result` is what
`gdox_preservation_result` will say. The controls (`canPreserve`, `preserving`,
`cancelled`) are the published snapshot and the atomic flag.

## 3. Runs

| Run | Instance | Distinct states | Shows |
|---|---|---|---|
| `MediaDiscovery` | discovery: the code's thresholds (4, 10, 2), two drives; desktop: two launches on either platform, two tries to knock; private: three files, two values, a size of two, one disturbance | 926,988 | failures are limited, every attempt follows a full dwell, an armed disc is tried in the end; one process has the drive, can be reached and returns its shutdown's outcome; what is stored is whole and each call on it did what it reports |
| `RuntimeSession` | worker: all three emulators, one exchange of the disc, confirmations and dwells of 1; ring: three slots, two payloads; playback: three kinds, one query after the first of a wait, one poll of an unmount, two sizes, two vaults | 1,538,108 | ownership, boundaries, eject identity, owed rearm and cleanup at every interleaving of the worker and the world; the ring implements the queue; the processes implement `PlaybackCalls`, leave nothing behind and spare the readers of a mount; a migration is granted only as its proof says, and what a refused one left is kept |
| `RuntimeSessionLive` | xemu, with images, `LiveSpec` | 151,426 | a stop finishes; what an event condemned, or a failed open retained, is released |
| `RuntimeRequests` | a queue of two, four submissions | 879,060 | requests accounted for, order, saved settings; setup and selection are served although every save, launch and cleanup may fail |
| `RuntimeRequestsUnsaved` | one submission | violation | a drive selection whose save failed is neither saved at the end nor reported |
| `DriveSelection` | selection: three symmetric drives, room for two; sources: two kinds of disc over two fields, three changes, a disc of three blocks, one reader, one unplugging | 769,240 | one owner per unlocked drive; each of the four sources keeps the lease, writes only over what it knows and reads only live memory; speculation yields to readers |
| `Mt1887Transaction` | transaction: four drives with the code's bytes, two disc movements, two attempts of each kind; session: one other disc, one eject request, an event queue of two | 4,811,905 | restoration armed and own state recognised, memory written only in a known state and released stock; an exchange of the disc is noticed and the read-ahead refuses every further read |
| `Mt1887Recovery` | the transaction, one disc | violation | the retry READ after a half-failed re-activation delivers sectors |
| `SessionStorage` | storage: two processes, two names, two faults, both platforms; preservation: three sectors in blocks of two, eight jobs, two requests, two faults | 1,274,419 | active sessions kept (POSIX), leftovers recoverable, recovery complete; image whole, result honest, cancellation honoured |
| `SessionStorageWindows` | two processes, two names | violation | on Windows a recovery removes a session that is being created |
| `NbdExport` | three sectors, windows of two, one slot, two invalidations, one connection | 502,693 | one user of the disc, replies fresh, a close gets past its join |
| `UsbBot` | Linux: two ports, four drives (two with one serial number, one with none), three calls, three troubles; Windows and macOS: the same drives, one of them attached twice, two symmetric transports, two symmetric unmounts, two attempts, two guards | 1,162,445 | what is taken from the system (kernel driver, mounts) is given back, replies and sense data are of their command, a transport keeps to the place, the identity and the serial number it was opened with |

**Findings.** `RuntimeRequestsUnsaved`: the drive selection has a save of its own
(`app/runtime_drives.c:326`) which, unlike the others, neither marks the settings
dirty nor reports the failure at the end. `Mt1887Recovery`:
`read_range_with_recovery` goes on to the retry READ when `ensure_xgd` failed
half way (`platform/mt1887_source.c:1076`), against the tests' "read recovery
leaves live state". `SessionStorageWindows`: the Windows file publishes the
marker before it takes the lock (`platform/session_storage_windows.c:936`), so
the test's "recovery leaves an active session alone" depends on when the
recovery runs; the POSIX file locks first.

**Differences observed without a run.** Met while modelling, kept in the models
as the code has them, and excused in the properties where needed:

- `app/runtime_actions.c:106`, `runtime_physical.c:289`: a preservation that fails
  after it closed a session, or a close that the cleanup cycle completes, leaves
  discovery unarmed until the drive was seen empty, where `docs/ARCHITECTURE.md:89`
  says that a completed session boundary rearms it. `EventEndsRearm` is about
  sessions that an event ended.
- `platform/mt1887_source.c:1043`: the sense of the last attempt of a READ is
  not noted, so the drive's one report of a change can be lost
  (`docs/ARCHITECTURE.md:224`); `history.lost` excuses it.
- `platform/usb_bot_libusb.c:279`: an INQUIRY that fails inside a reopening
  resets and reopens again, recursively, so the attempts multiply
  (`docs/ARCHITECTURE.md:293` calls the recovery bounded). A handle that was
  retained because its driver could not be given back is overwritten by the next
  candidate (`abandoned`); `claimed` is then left from the old handle, and if the
  candidate's claim fails, every later release is answered by "not found", so the
  handle can be neither reopened nor closed. An INQUIRY that fails in the first open reopens with
  the identity of the registry's first entry.
- `platform/usb_bot_linux_devices.c:77-97`: the serial number is part of a drive's
  id only if sysfs has one, and nothing requires it to be unique. A reopening that
  finds another drive of the model in the same port, with the same serial number or
  like the first without one, goes on with it: `docs/ARCHITECTURE.md:291` promises
  only "the same allowlisted USB identity", `CHANGELOG.md:58` that the active
  session stays "on its drive", and for Windows, where the same holds
  (`usb_bot_windows.c:439`), that recovery is "tied to the selected physical
  device". `SameDrive` and `SelectedIsKept` claim the port, the identity and the
  serial number.
- `app/runtime_xenia.c:18`: when a launch fails after the bridge was mounted and
  the mount does not go, the object is freed and the storage closed over it;
  `NothingOutlives` excepts that mount.
- `app/runtime_xemu.c:60`: a rejected migration stays rejected for the process, and
  its later launches look at neither the disk nor the vault, even after the user
  replaced or removed the old disk. `docs/SAFETY.md:96-99` lets such a migration
  continue "only while the same-size ordinary source remains" and has a changed
  source fail closed (likewise `docs/ARCHITECTURE.md:207-213`).
  `OldSavesAreAccountedFor` therefore claims less: that what the refusal left is kept
  for as long as the user leaves it alone, and the vault never torn.
- `platform/xenia_process_posix.c`: the group number is kept after the leader was
  reaped, so a signal can meet a stranger (`ghost.hurt` excepts Xenia).
- A recovery of the ASUS or GP08 source that failed is followed by further READs
  (`history.gaveup`); an AD-7701H that is unplugged while dirty cannot be
  restored until it is plugged in and opened again.
- `platform/background_host_linux.c:357`, `background_host_windows.c:224`: the host
  keeps one pending event, so an Open that follows the loss of the icon in the same
  poll replaces the report of the loss, and a window closed later is hidden without
  an icon (`docs/TROUBLESHOOTING.md:69` says it is kept or restored).
- A launch whose request reaches a process that is already shutting down exits
  with 0, although no window will come.
- `app/runtime.c:464`: settings that are there and could not be read are taken for
  defaults. On a handheld, whose resolution differs from the defaults', these are
  saved at once over the file (`app/runtime.c:477`); elsewhere at the next change.
- `app/runtime_bundle.c:318`: a firmware that is there and could not be read counts
  as absent, and the adoption replaces it (`unseen` in `CallsKeepTheirWord`).
- `app/runtime_bundle.c:411`: on POSIX an adoption whose EEPROM is in place fails if
  the temporary name cannot be removed (`user_storage_posix.c:684`).
- The worker may publish `can_preserve` again between taking a request and
  publishing its start; a second request is then queued and runs after the first.

**Fairness.** `MediaDiscovery` assumes weak fairness of the idle look, which the
worker repeats every 100 ms. `RuntimeSession`'s `LiveSpec` assumes weak fairness
of the worker as a whole, a thread in a loop that sleeps 100 ms (one second while
stopping) and never waits on another, and strong fairness of the successful
outcome of a stop, close or storage call that is retried for ever: without that a
teardown can fail for ever, which is what the code's unbounded retry is for.
`RuntimeRequests` assumes only weak fairness of the worker; there every save,
launch and cleanup may fail every time, because the point is that setup does not
wait for them. `NbdExport` assumes weak fairness of the steps that wait for no
client: the two threads' own code, an accept with somebody waiting, a socket that
was shut down, and an inner read, which the drive's command timeouts end. Nothing
is assumed of the world: child, disc, drive, client, helper and user may act or
not. The other modules make no liveness claim. Deadlock is checked in
`MediaDiscovery`, `RuntimeSession`, `RuntimeSessionLive` and `NbdExport`; the
others may stop (the worker has finished, a session is over, a drive is gone for
good, every bounded event has happened), as their configurations say.

## 4. Bounds

Launches. Two meet at every step of the guard: one owns, the other knocks, or takes
over what the first left behind. Three launches (about 1.5 million states) show
nothing else; the proof of section 5 is for any set of them. Two tries are one
that misses and the last.

Private files. Three inodes are the managed file, its source and the one being
written, or the one an exchange puts there; two values tell the known content from
another; two blocks are the fewest that a read or a write can be cut between. One
disturbance comes between any two steps, or it is the power loss; a second is left to
the proof, which is for any number.

Thresholds. In `RuntimeSession` dwells and confirmations are 1 where the code has
4, 10 and 2 or more: they only delay, and their own arithmetic is checked with
the real values in `MediaDiscovery`. In the liveness run there is one emulator
and no retry, since the teardown does not look at which one it is; in the safety
run all three are there.

Counts. One exchange of the disc per live session (`MaxReplacements`) suffices
for `RuntimeSession`: what matters is whether a generation equals the one that
was kept. `RequestRing` has three slots so that head, tail and seam fall on every
slot with the ring empty, partly full and full; section 5 proves the rest. Four
submissions fill a queue of two twice. In `EmulatorProcess` two queries of a wait
are the first, which decides, and one that repeats and is the last; with one poll of
an unmount the mount is busy at every poll, or goes at one. In `DriveSelection` three drives compete for
two slots, so the table and the list both overflow.

Drives. Two fields are the fewest that can be half written; two disc kinds
are the one that was opened and another; three changes take a disc out, put
another in and unplug the drive. For the GP63, two admission bytes can be half
set, three blocks exceed a buffer of one, and reads of one and of more than one
block both start a stream. In `Mt1887Transaction` two restoration attempts stand
for the code's three (first and repeated), two READs for the first and the
retried; two movements take one disc out and put another in. The four drives
GP63, GP65, MT1862 and GP57 cover each combination of profiles, write order and
auxiliary triplet; SP80 behaves as GP65 without the auxiliary. In `LiveMedia` one
other disc makes two changes, the removal of the first and its own insertion, so the
second can fall into the latch of the first; two events
are more than one poll drains; the generation's bound is one that it never
passes (`GenerationsSuffice`, section 5). Its wrap-around at 64 bits is out of reach of any
session.

Export, transport, files. Three sectors with windows of two give hits, partial
overlaps and a window cut at a file's end; with one slot every publication
evicts; two invalidations put one before and one during a read. One connection
at a time is what the server serves; the wake is a second. Three troubles in
`UsbBot` are an exchange of the drive (one is unplugged, another plugged in) and a
reset, or an operation, its recovery and what follows, all failing; four drives are
the wanted one, one with the same bridge, another mechanism and no serial number, and
two that appear later, of the same model, one with the same serial number and one
with its own. In
`ScsiChannels` two transports compete for an entry and its guard, two attempts are
the first, which finds the entry, and one that must find it again, and a drive that
is attached twice has an old and a new entry. Two
processes and two names let each have a session, or one leave two, by dying twice,
to the recovery of the other; two faults
are a crash and a failing operation, or two crashes. Three sectors are a full
block and a rest, with one normalised sector inside.

## 5. Proofs

TLAPS proves the following for every value of the constants that the named
assumptions allow: `MonitorAssumption`, `WatchAssumption` and `DevicesAssumption`
for discovery; `DesktopIsBounded` for the desktop; `PrivateIsBounded` for the
private files; `BackendsAssumption`,
`XeniaTargetAssumption`, `BoundAssumption`, `CapacityAssumption`, `RingAssumption`
(`RingIsSized`), `PollsAreBounded` and `SavesAreNamed` for the worker, its ring and
its emulators; `SubmissionAssumption`
for requests; `DeviceAssumption` and `SourceAssumption` for drives and their sources; `SessionAssumption`, `CopyIsBounded`
and `JobsAreKnown` for the files GDOX makes; `ReadaheadAssumption` and
`NbdAssumption` for the export; `UsbBotAssumption` and `TransportsAssumption` for the
transports;
`ProfileAssumption`, `HardwareAssumption`, `LimitAssumption`,
`GenerationsAreNatural`, `SessionIsBounded`, `ConfirmationsAreCounted` and
`GenerationsSuffice` for the MT1887. They bound what the models count and say what
sort of thing a constant is, so that the theorems speak of any thresholds, disc
changes and emulators, any launches, any drives and any size of their table, any length of the
queue, any processes, session names and faults, any files, cache slots and
invalidations, any disc, block size and security map, any profile of a drive, any content and length of a
private file and any number of programs' changes to it. One
theorem has a hypothesis of its own, `MaxCommands + 2 < TagLimit`.

*Discovery* (`MediaDiscoveryProofs`). `KInv` relates the monitor's counters to
the independent `history`: `Agree` says that the dwell and rearm counters never
run ahead of the looks in a row that `history` counted, that a disc still
permitted has failed no more often than the retry counter shows, and that a
latched disc has its permission withdrawn. `FailuresAreLimited` is not inductive
alone, since it speaks of `history` while the steps test the monitor. From it
follow `DiscoveryIsTyped`, `RetriesAreBounded`, `LatchIsKept` and
`FailuresStayLimited`, and with the action property `AttemptsFollowADwell`,
`DwellIsRespected`.

*The desktop* (`MediaDiscoveryProofs`). `DesktopIsSound` speaks of the few
processes that have a runtime, serve or end; `DeskInv` says the same of every
place of the code. `AppFits` is what a process has at a place whatever the others
do: a runtime only in the loop and the shutdown, a shutdown in progress exactly
while the Windows code is in one, an exit code or a recorded outcome that tells
what failed. `GuardFits` is what it has of the guard: whoever is between the
acquisition and the release is the only one, has the lock or a handle of the
mutex, and from the bound socket on the name or the event. Most steps leave the
guard alone and change the window and the host only (`SameRun`); one lemma per
action does the rest, and `DesktopStaysSound` follows for any set of launches on
both platforms.

*The private files* (`MediaDiscoveryProofs`). `StoredIsWhole` and
`CallsKeepTheirWord` speak of what has a name and of the last call; `PrivateInv` says
what each place of a call knows. Until it is committed, the file being written has no
name that anyone else knows, is a beginning of what it is to be, all of it once the
last write is done, and synchronised before the commit (`WritingFits`): so whichever
of the old and the new file a power loss leaves, it is whole. What was read is a
beginning of the file as it was opened as long as its times have not changed
(`ReadingFits`); a removal that goes on has seen the known content, under a name that
still leads to it unless somebody came after the last look, and on Windows nobody can
(`RemovalFits`); a file is adopted only where none of ours was seen (`AdoptionFits`).
`SourceIsApart` keeps a copy from being made onto its own source. All are needed
together: a commit is right because of what the write left, the write because of what
was read. `DesktopStaysSound` includes them, for any size, contents and number of
files.

*The worker* (`RuntimeSessionProofs`). `IInv` is the typing of the owned things,
`PointsMatch`, `OneLaunchSource`, `PlaybackKeepsMedia` and `OwnerMatchesProcess`.
`PointsMatch` is the strengthening: what is known to be released at each place of
the cycle, which the code knows from where it is and nowhere stores. Without it a
step from `eject` or `open_live` could start with a session still owned.
`OwnershipHolds` (`OwnershipIsSound`) and the parts it names, `DriveIsReleasedFirst`
and `ShutdownIsComplete` follow. `JInv` adds the typing of the rest and
`EjectIdentity`: from the event to the opened tray, the generation kept in
`physical` and the one that was asked for stay the same through failed closes and
retries, and what was confirmed stays confirmed. `TypesAreKept`,
`EjectKeepsItsDisc` (`EjectIsForRequestedDisc`), `WatchIsFresh`,
`BoundariesStayClean` (`BoundariesAreClean`) and the action property
`OwedCleanupSurvives` (`OwedCleanupIsKept`) follow. `RInv` is what carries a
rearm from the event to the worker's rest: a drive's session is its export and
nothing else (`SessionIsLive`), so a close that fails leaves something owned and
the cleanup it owes is set; nothing holds discovery back while such a session is
open (`SessionIsFree`); and from the event until another disc opens, discovery is
armed, about to be, or owed with what the close kept (`RearmIsOwed`).
`EventsRearm` (`EventEndsRearm`) follows.

*The ring* (`RuntimeSessionProofs`). An index wraps at most once (`WrapsOnce`), the
slots of a ring that is not longer than its array differ (`SlotsDiffer`), and the
youngest entry is at the slot before the tail (`TailIsYoungest`). With these each
operation of the array is the operation of the sequence, initial states map to
initial states, and `RingKeepsTheQueue` says that a ring of any size implements
`RequestQueue`.

*The emulators* (`RuntimeSessionProofs`). `EmulatorsInv` ties the process object to
the world: it is held exactly while it has an owner, and without one nothing that
was started is left (`HeldIsOwned`); mount, server and directory are there only
under a bridge (`ViewIsBridged`); what the handle remembers of child and group is
there, so that only a group whose leader was reaped can meet a stranger
(`ChildIsKnown`); a call is at a place that fits what it found
(`CallIsPlaced`) and remembers what it found when it began (`BeginIsRemembered`).
`EmulatorsLeaveNothing` (`NothingOutlives`) and `EmulatorsSpareReaders`
(`ReadersAreSpared`) follow for any number of polls. With `BeginIsRemembered` each
step finishes a call with an outcome of `PlaybackOwner`, goes on with one, or
begins one (`StepsAreOfACall`): `EmulatorsKeepThePromise` (`KeepsThePromise`) is
the refinement that entitles `RuntimeSession` to take each call as one step.
`SavesInv` says that a migration runs only while no emulator is owned and not again
after a refused one was let pass, and that the vault it validated is the one it
proved: `SavesAreAccountedFor` (`OldSavesAreAccountedFor`).

*Requests* (`RuntimeRequestsProofs`). The two flags and the published copies are
decided on by one thread and cleared by the other, so each needs the place of the
worker it is bound to: what was taken is of the kind its place is about
(`HandIsOfPlace`), the pending flag covers every setup request and only those
(`PendingIsOwed`), as long as the described xemu is not the chosen one a choice is
on its way (`ChoiceIsOnItsWay`), clean settings are on disk or in the copy being
written (`CleanIsSaved`), and what was served is older than what is in hand, which
is older than what is queued of its sort (`QueueIsInOrder`). For any capacity and
any number of submissions: `NoRequestIsLost` (`RequestsAreAccountedFor`),
`SettingsAreSavedAtEnd` (`SettingsReachDisk`) and the action property
`RequestsKeepTheirOrder` (`ServedInOrder`).

*Drives* (`DriveSelectionProofs`). `IInv` is the type invariant, the three
properties, `MediaIsOfSource` (a handle is of a drive only while the source is
physical) and `ListShowsPending` (until the stop, the list flags exactly those of
its drives that are in the table). The last is what makes the choice safe: selection
consults the list, not the table, and without it a drive with an owed cleanup could
be opened again. `TypeCorrect` includes that the table never overflows;
`OneOwnerOfEveryDrive`, `CleanupsKeepTheirDrives`, `SessionsAreOfTheChoice` and,
of the three together, `DrivesStayAccountedFor` are the rest.

*The sources of the drives* (`DriveSelectionProofs`). `DrivesAreBoth` says that the
specification that is checked shows, of either part, a behaviour of that part.
`SourceInv`, of `SourcesAreSound`, is an invariant for each kind of source, for any
discs, fields, orders of writing, attempts, readers and buffers. `FieldInv` is that of
the sources with fields. `Placed` is the call each place serves and what the source
owes there, which the C code knows from its call stack: without it a rollback could
continue as a read. `Knows` and `KnowsWrite` are what a look has established and a
reset or an exchange can have undone since, `Progress` how many fields an activation
has reached. `Reads` carries from place to place that a read goes on only under
`Sound` memory: live as a whole, or derived anew by the drive so that no READ succeeds
under it, or seen not to be live and about to be repaired. `Owes` and `Gone` are the
lease: what landed is owed, and a drive that is gone has lost it. The ASUS and GP08
sources share `TwoInv`; the AD-7701H, which never looks back, has `AdInv`. `NinInv` is
that of the GP63: `Debts` (a byte that was set is pending until the drive lost it),
`Calls` (who can be at work at each place of open, read and close) and `Shared` (what
readers, worker and the holder of the mutex know of each other: a reader that waits is
counted in `demand`, and who works is who holds). From these `ReadsAreLive`
(`LiveReads`), `WritesAreOfTheKnown` (`OnlyKnownIsWritten`), `ReadersComeBeforeSpeculation`
(`ReadersComeFirst`), and, step by step, the refinement `SourcesKeepThePromise`
(`PromiseKept`): each of the four sources is a `VolatileLease`. `LiveReads` alone is
far from inductive: it says nothing before a READ has succeeded.

*Session storage* (`SessionStorageProofs`). `IInv` is the type invariant, that a
process at a place of a call has the name that call is about (`PlaceTellsNames`),
that no two live processes own a name (`NamesAreOwn`), and what the POSIX order of
lock, marker and scan gives (`PosixInv`): `SessionsAreKept`
(`ActiveSessionIsKept`). `RInv` adds, on both platforms, that data without a
tending process has its marker (`DataIsRecoverable`, `HolderTends`), that a scan
has taken or seen all that was abandoned before it began (`ScanIsSound`), and what
is known of a creation on Windows (`WindowsCreates`): `DataIsLeftRecoverable`
(`LeftoverDataIsRecoverable`) and `RecoveriesAreComplete` (`RecoveryIsComplete`).

*Preservation* (`SessionStorageProofs`). `CopyInv` follows the writer from place to
place: what each place knows of the file and of its two names (`FilesFit`), of the
result (`ResultFits`), and of the cancellation (`CancelFits`). `WrittenIsTrue` says
of the image as far as it has come what `ResultIsHonest` says of a finished one:
zeros exactly for the normalised and the unreadable sectors. It needs that a block
is the interval of sectors behind what is written (`BlockIsInterval`) and what
appending one does to the sequence (`AppendedIs`). `ManifestFits` keeps the
manifest true of the image after the run that wrote it has been forgotten. That the
bundle written is the set of names looked for, each once, is the lemma
`BundleIsListed`, one name at a time. `CommittedImagesAreWhole`
(`CommittedIsWhole`), `ResultsAreHonest` (`ResultIsHonest`) and
`CancellationsAreHonoured` (`CancelIsHonoured`) follow for every disc, map and
request, and any number of failures and power losses.

*Export* (`NbdExportProofs`). `TurnsAreTaken` says who may use the disc at each
place of the two threads: `DiscServesOne`. `ReadIsSound` says that a slot that
counts holds what it was read for, that a request's epoch never runs ahead of the
context's, that what was cancelled stays cancelled, and that a slot being filled
does not count; the first slot that serves a sector is then as fresh as the epoch
it was looked up under: `RepliesAreFresh` (`FreshReplies`). `DiscStaysInTurn`
(`DiscIsUsedInTurn`) adds that a window lies in one file of the disc, whatever the
order in which the files are named: the code finds the file by halving the sorted
list, and the lemma that the halving finds the first candidate is proved by the
least length at which it would not (the well-foundedness of `<` on the naturals),
the one induction over data the provers could be led through. It adds that the
wake of a close is the only stranger at the listener (`ClientsAreCounted`) and that
each place of the worker has raised the epoch a known number of times
(`EpochsAreCounted`).

*The transports* (`UsbBotProofs`). `TransportsImplementUsbBot` says that the transports
of all builds show, of the Linux one, a behaviour of `UsbBot`. Of it, `Chain` says which frame may wait for which, so
that the recursion of reset, reopening and matching, which has no bound in the
code, is followed one return at a time. `DrivesAreKept` says that a drive without
its kernel driver is the one in hand, known to be owed, except where a handle is
overwritten (`abandoned`), and that whenever handle or debt is about to be
forgotten no driver is displaced (`Forgetting => Clean`): `DriversAreOwed`
(`DisplacedIsOwed`), for any number of failures and nested reopenings.
`Identified` says that whatever handle is in hand carries the id of the context and,
once recognised, the identity asked for: it gives `TheDriveStaysTheSame`
(`SameDrive`), for any serial numbers, missing or shared. `ToldOfItself` says that
what an emptied endpoint holds is older than the next command, that only packets
of the command under way bear its tag, and that the status of one that succeeds
comes behind its data: `CommandsAreToldOfThemselves` (`RepliesAreOwn`), under the
hypothesis `MaxCommands + 2 < TagLimit` that a transport does not come round to a
tag of 32 bits. The proof showed a limit of the code no run reaches, since it takes
six failures: when reset, every reopening, and the release that follows all fail,
the last claim has set the tag back to one, the drive stays in hand with its
endpoint unemptied, and the next command can take an old status for its own.
`RepliesAreOwn` therefore speaks of drives whose endpoint was emptied since they
were opened (`usb.emptied`).

Of the Windows and macOS channels `ChannelsAreKept` is inductive: drives have places
of their own (`Seated`), each transport is of the entry and the drive its step says
(`Sound`), a guard has one reference for each transport of its entry (`Counted`, by
the cardinality of the set of holders), no two transports on macOS have the same drive
(`Apart`), and the memory of an unmount has one reference for the one who waits and
one for the answer that is due (`Shared`), which is why neither frees it under the
other. With the Linux results, `WhatIsTakenIsGivenBack` (`TakenIsGivenBack`),
`WhatIsAnsweredIsOwn` (`AnswersAreOwn`, under the hypothesis on tags) and
`WhatIsOpenedIsKept` (`OpenedIsKept`) follow for any drives, transports, attempts,
attachments and guards.

*MT1887* (`Mt1887TransactionProofs`). `IInv` says for each place of the transaction
what is owed there, which task led to it, that an attempt under way leaves another
one, and that the bytes yet to be written are of the profile in hand (`Fits`); that
between the two steps of a snapshot the bytes read are still those of the drive,
unless it derived them again (`SeenIsCapacity`); and that a mixture of stock and
live bytes stays one after every byte, whatever was refused or landed unreported
(`OwnIsTransition`, `GuardedIsKnown`). `RestorationIsSure` is not inductive without
`Fits`: a step from `write` could be about to write bytes of another disc.
`WritesCanBeTakenBack` (`RestorationIsSure`) and the action property
`MemoryIsWrittenAndTakenBack` (`MemoryIsTakenBack`) hold for any drives, profiles,
attempts and exchanges of the disc.

*The live session* (`Mt1887TransactionProofs`). A change of the disc is reported
once, so `LiveInv` counts: the generation, the events and the attention still with
the drive, and the report a read carries to its recovery stay within what the
changes so far allow (`GenerationIsCounted`), hence the generation within
`2 + 4 * MaxInsertions + MaxPresses`. It never falls behind that of the session's
disc, and is ahead of it while a change is latched (`BaseIsOfDisc`); another disc
in the drive is ahead of it or still reported (`OtherIsReported`); the reader in
the source sees the generation it began with, because observations wait for the
mutex (`ReadIsInTurn`); a verdict that lets reads through is of that generation
(`GateHasBase`). So a disc that was found ready is judged (`OtherIsJudged`), one
that was read is not expected (`OtherIsNotExpected`): `ExchangesAreNoticed`
(`ExchangeIsNoticed`).

Model-checked only are the liveness properties `ArmedDiscIsTried`, `StopFinishes`,
`CondemnedIsReleased`, `AcceptedIsServed` and `CloseFinishes`, since fairness and
ENABLED are out of the prover's reach. Every other property of a passing run is stated
by a theorem.

## 6. Not modelled, and the plan

Not modelled, as computation on bytes, presentation or packaging: the disc formats
(`core/xdvdfs.c` and its neighbours), Xenia's policy, patches and launch
arguments, the rewriting of the emulators' configuration files, XBE cache and patch
sources, paths, private directories and file sources, the pages of the user interface,
the Android port, packaging and build, the parsing of arguments. Not modelled although
stateful: the macOS host of the desktop; the GP63's legacy method 4 and its readiness scan. In `XemuSaves` gdox and its helper
are killed together; a helper that outlives a killed gdox is not modelled.
`PROJECT.json` says so for each.

Next would be `XemuSaves` with a helper that outlives its parent, beside a second
instance, and the Android port, a second worker around the same core.
