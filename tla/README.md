# Verification of the midnight i9000 recovery

TLA+ models of the recovery environment in this repository (a ClockworkMod
derivative for the Samsung Galaxy S), TLC configurations that check them on
small instances, and TLAPS proofs of the results that matter most. Paths below
are relative to the repository. `PROJECT.json` maps every definition to the
lines it models.

## 1. The system

Recovery is one statically linked process that `init` restarts when it dies.
It is entered by the bootloader, either because the user asked for it or
because the main system left a command, does one thing, and reboots. Nearly
everything it does writes to storage that the phone needs in order to start,
so the questions that matter are what a power loss, a failing write or a
damaged filesystem leaves behind.

### Components

| component | state | operations | talks to |
|---|---|---|---|
| command protocol (`recovery.c`, `bootloader.c`) | bootloader control block (BCB), `/cache/recovery/{command,intent,log}`, the temporary log and its offset | `get_args`, `main`'s dispatch, `erase_volume`, `finish_recovery`, `prompt_and_wait` | every other part |
| encrypted filesystem (`encryptedfs_provisioning.c`) | key, salt, hash, entropy files and properties on `/data` | read before the wipe, restore after it | command protocol |
| package installation (`install.c`, `verifier.c`) | the child process, its pipe, the package | verify, run the update binary, obey its commands | updater, user interface |
| updater and Edify (`updater/`, `edify/`) | the script, mounted partitions | evaluate the script's functions | applypatch, MTD, minzip |
| applypatch (`applypatch/`) | the files and partitions patched, `/cache/saved.file` | check, free space, save, patch, verify, rename or write | MTD, `/cache` |
| volumes (`roots.c`, `mounts.c`) | volume table, mount table | mount, unmount, format | everything that names a path |
| nandroid (`nandroid.c`, `nandroid-md5.sh`) | a backup directory on `/sdcard` | backup, sums, restore | volumes, flash utilities, menus |
| menus (`extendedcommands.c`, `midnight.c`) | flag files, none of their own | mount/format, install zip, nandroid, wipe | volumes, nandroid, installation |
| user interface (`ui.c`, `default_recovery_ui.c`) | key queue, menu, ring of text lines, progress bar | `input_thread`, `progress_thread`, `get_menu_selection` | minui |
| flash access (`mtdutils/`, `mmcutils/`, `bmlutils/`, `flashutils/`) | bad blocks, a write buffer | read, write, erase | applypatch, nandroid, BCB |
| minzip, minui, libcrecovery, dedupe, host tools | see `PROJECT.json` | | |

### What is hard

* **Crashes.** The three scenarios of the comment at `recovery.c:86` ("must be
  safely restartable at any point") and the patching of files span two
  partitions and tens of writes.
* **Partial failure.** Results of BCB writes, unmounts and erases are ignored in
  places; formats are skipped with success when a volume does not mount.
* **Stale state.** The log offset after an erase of `/cache`; the
  `FileContents` of a previous attempt; a block that was given up and still reads
  as empty; two copies of the selection in a menu.
* **Processes.** The updater runs beside `install.c` and talks to it over a pipe
  of limited size; either may be waiting for the other.
* **Threads.** `input_thread`, `progress_thread` and the main thread share the
  screen and the key queue under two mutexes.
* **Limits.** Space on `/cache`, the sizes of the key queue, of the menu table,
  of `boot.recovery` and of the mount table.

The list with lines is `hazards` in `PROJECT.json`; a hazard without a property
has a note that says why.

### What makes each component correct

* *applypatch*: some usable content of every location exists at all times; a
  finished target is never touched again; a package that reports success has
  brought every location to its target.
* *command protocol*: an accepted command is finished before the main system
  runs; recovery does not boot into itself for ever; a success reported was one.
* *encrypted filesystem*: never enabled before its key material is written; a
  restarted transition still ends enabled.
* *volumes*: no filesystem is made on a mounted device.
* *nandroid*: a backup that passes its check is what the phone held; what a
  restore calls complete is what was backed up; the backup survives the restore.
* *user interface*: "select" chooses the highlighted row; no key is slept on.
* *installation*: success means the script ran to its end; only what is signed
  runs; the message of an abort reaches the screen; neither process waits for ever.
* *Edify*: every function evaluates the arguments it should, once and in its
  order, and an error in one of them is an error of the function.
* *flash access*: what reports success reads back; a header never stands in
  front of an incomplete image; bad blocks and the mapping table are not written.
* *minzip*: its hash table is a dictionary and its searches end; a directory is
  extracted completely.

## 2. Modules

| module | models | lines up with |
|---|---|---|
| `ApplyPatch` | the patching phase of a package, restarted at any point | `applypatch.c`, `freecache.c`, the `apply_patch*` functions of `updater/install.c` |
| `AtomicPatch` | the abstract promise: patches take effect in order, each at an instant | |
| `Recovery` | the life of a command from the main system to `finish_recovery()` | `recovery.c`, `bootloader.c`, `encryptedfs_provisioning.c` |
| `Volumes` | mount, unmount, format, as operators from a device state to its outcomes | `roots.c`, `mounts.c`, format functions of `extendedcommands.c` |
| `Nandroid` (extends `Volumes`) | backup, restore, sums, deletion, the menus that reach them, the mounts at the start of `main()` | `nandroid.c`, `nandroid-md5.sh`, `extendedcommands.c`, `recovery.c` |
| `Ui` | key queue, input thread, menus, text ring | `ui.c`, `default_recovery_ui.c`, `get_menu_selection()` |
| `Flash` | raw partitions, block by block, directly or through a mapping table | `mtdutils.c`, `bml_over_mtd.c` |
| `Zip` | what is found in a package | `Zip.c` |
| `Edify` | the interpreter of updater-scripts, with its stack | `expr.c` |
| `Updater` (extends `Edify`, `Zip`) | the update binary and its functions on a device | `updater.c`, `updater/install.c`, `DirUtil.c`, extraction in `Zip.c` |
| `Install` (extends `Updater`) | both processes and the pipe | `install.c`, `verifier.c` |
| `Hash` | the hash table, probe by probe | `Hash.c` |
| `Dictionary` | the abstract promise: a set with at most one item for each key | |
| `MC*` | the instances for TLC | |
| `*Proofs` | theorems and proofs about the module they extend; `InstallProofs` also extends `ZipProofs` | |

### ApplyPatch

`disk`, `cache` and `files` are storage and survive `Restart`; everything else
is the memory of the updater. `pc` names the statement about to be executed
and `job` the `apply_patch()` call.

| action | code |
|---|---|
| `ApplypatchCheck` | `applypatch_check()`: the location or the saved copy has one of the digests, or there is no list (`NoSums`) and the location loads |
| `MakeFreeSpaceOnCache`, `DeleteExpendable` | `freecache.c`: the candidates are found once, the open files among them that `/proc` shows are left out, then they are deleted until there is room |
| `LoadSource` | the head of `applypatch()`: early exit when the target is there, source, else the saved copy |
| `PartitionTarget`, `EnoughSpace`, `NotEnoughSpace` | the three ways into the retry loop of `GenerateTarget()` |
| `SaveOpen`, `SaveFileContents` | `open(O_TRUNC)` and the write of `/cache/saved.file` are separate steps, so a crash can find it truncated |
| `UnlinkSource`, `RunPatch`, `VerifyOutput`, `RenameOutput` | patch into `<target>.patch`, compare the digest, rename |
| `WriteToPartition`, `PartitionWritten` | a partition is torn from the first write to the last |
| `RemoveCopy` | unlink the saved copy when this run made it |

A content stands for its own SHA-1. `FreeSpaceForFile()` can fail (`statfs` in
`Faults`) and then returns `(size_t)-1`, which every comparison takes as room; so
can the reading of `/proc` (`proc`: none of it, or some of its links, so that an open
file becomes a victim), `unlink()` and every `open()` and `write()`.

### Recovery

A command is the set of its options, a volume the set of the files that matter.
`bcb`, `command`, `fs`, `files`, `image`, `intent`, `log` and `reason` survive
`Crash`. `owed` is history: the options recovery accepted and has not finished.
`Bootloader` reads the BCB and the reason of the last reboot; `SystemRequests`
is the main system writing a command; `GetArgs` and `SetBcb` are `get_args()`;
`Dispatch` is the option loop and the choice of work in `main()`; `Erase` and
`EraseDone` are `erase_volume()` with a crash possible in between, or, when `ret` says
that the partition menu or a nandroid restore is the caller (`Bypass`), the format
alone, which leaves the log's offset as it was; `FinishRecovery`, `FinishBcb` and
`FinishUnlink` are `finish_recovery()` in its order, with `CopyLog` the log that may
not be opened, or be written in part while the offset counts all of it; the `Prompt*`
and `Menu*` actions are what the user can reach from `prompt_and_wait()` that touches
this state. `logLost` is history: lines the offset counts went missing in one of the
two ways the code leaves open. A write is durable at once in the model.

### Volumes and Nandroid

The device is one record `dev`: for each block device its filesystem, files and
backup images, for each mount point what is mounted there, and the devices
that were formatted while mounted. A C function that may fail is an operator
that returns the set of its outcomes: a return value, a new device state, and
whether a failure was passed over in silence, so that `ErasePartition`, for
instance, composes `FormatVolume`, `EnsurePathMounted` and the rest as the code does.
Any volume may fail to mount at one call and mount at the next: the format of a
volume that is emptied with `rm` is then skipped with success, and an `rm` may leave
any part of a volume, of the card's images too. `kept` is history: the volumes whose last
format was such a silent one. A file carries the version
(`age`) of the main system that wrote it, which is what tells a restored
partition from an old one. Backup and restore take one partition per step;
`SystemRuns` leaves recovery and comes back with every file changed, `Crash`
may happen anywhere, `DamageImage` changes an image on the card. One assumption of
`MountVolume`: a failure is one of all the attempts of the call, so that the card's
second device is mounted only where the first has no filesystem that mounts.

### Ui

Each `ui_` function is one step because `gUpdateMutex` and `key_queue_mutex`
cover it. `input_thread` takes two steps per key (`InputKey` queues it and
signals, `InputToggle` toggles the display), since it releases one mutex before
it takes the other. `WaitKey` and `TakeKey` are `ui_wait_key()` with the
condition variable; `Highlight` and `Choose` are the switch in
`get_menu_selection()`; `fresh` says whether the surface shows the current
state, which `ui_set_show_text()` leaves stale.

### Flash

A partition is a sequence of blocks of pages. An operation (`StartWrite`,
`StartErase`, `StartBackup`, `StartFlash`, `StartDump`) fixes what it will do and then
takes one page or block per step. `WriteBlock` and `Retry` are `write_block()`, which
erases, programs and reads back a block, twice at most, and goes on to the next
one; `Reopen` begins the second pass of `cmd_mtd_restore_raw_partition()`, which
writes the first block, until then without its header, again. `HasBad`,
`TableFound`, `IsMapping` and `Consistent` are `bml_over_mtd`'s search for the table that maps
bad blocks into the reservoir. A block is good, marked bad, or worn: a worn one
never verifies and reads with ECC errors. Up to `MaxFaults` times a call for a good
block fails too, at any attempt and in either pass: `write_block()` gives the block up
after two, erases it if it can and goes on, and `read_block()` later sees it as it
sees any other (`Readable`); a read may skip it, or end the backup
(`ECCGETSTATS`). `skipped` records the blocks the operation left out. A power loss may
follow any step.

### Zip, Edify, Updater, Install

A string is a sequence of characters, so that prefixes, slashes and the order of
names are those of the code. A package is a record with the offsets of its end
signatures, the directories they point to, its footer and its signature; a file's
content stands for its digest.

`Edify` keeps the C stack as a sequence of frames. `ReadArgs` begins the next
argument, `Deliver` hands its value to the function that asked for it, and each
function's body is an action, its error return (`GivesUp`) among its disjuncts.
Numbers are what `strtol()` and `strtoul()` make of a string: blanks, a sign, the
digits of the base and a limit, here the same for both signs.
`Updater` adds the functions of `updater/install.c`; each does everything between
having its arguments and returning, except that `package_extract_dir()` takes
one entry per step (`SkipEntry`, `ExtractEntry`) and that lines for the pipe are
written one at a time (`Flush`). `Fails` lets a system call fail, within
`MaxFaults`. The functions that read their arguments with `ReadArgs()` and the like
return NULL in `NullArgument`; `Mishandles` names the three whose error path is wrong,
which kills the process. `Start`, `Finish` and `Reported` are `main()`; `Kill` is a
signal.

`Install` is the parent: `EnsureMounted` to `Open` are `install_package()`,
`FindBinary` to `HandleFirmware` `try_update_binary()`. A package may carry the
updater, something that cannot be executed, or another binary, which writes
any lines and exits as it likes. `Fork` may fail: no child is there (`"unborn"`),
and `waitpid()` leaves `status` with any value. A text of more than `LineMax`
characters is read in pieces, of which all but the first are taken as commands
(`TooLong`, `Rest`), and a progress command without its words makes the parent use
NULL (`ObeyDies`).

### Hash

One action per probe (`Probe`), per entry moved (`Rehash`) and per entry handed
out (`Each`); `Found`, `NotFound`, `Add` and `Remove` end a search. The slot a
rehashed entry goes to is described (the first empty one from its home) and not
searched for step by step. `Dictionary` has the operations as single steps
between `Call` and `Return`; `Refinement` maps the live entries to its set.

## 3. Runs

| run | question | answer |
|---|---|---|
| `applypatch` | file and partition patched in place, tight `/cache`, failing writes, patches, unlinks and `statfs()`, an unreadable `/proc`, restarts: is a usable content always left, the partition backed up while written, a reported success one at every location, a target final? Does every run end, and do file patches refine `AtomicPatch`? | yes; also checks the inductive invariant of the proofs |
| `applypatch_partition` | can a partition always be recovered? | **no**: after a crash in `WriteToPartition()` the next run works from the saved copy and truncates it at line 708 |
| `recovery_mtd` | device with a BCB, requests, power losses, damaged filesystems, skipped formats, a full `/cache`, formats and restores from the menus: nothing abandoned, encryption never marked before its key is written, a reported reset erases, no line of the log passed over, no boot loop, every command finished? | yes, but for lines of the log that a failed write or a format behind `erase_volume()`'s back has lost (`logLost`); also the inductive invariant |
| `recovery_bml` | the same promise on the i9000's own flash type | **no**: `get_args()` writes the BCB on MTD only, so a power loss before or during an erase abandons it |
| `recovery_secfs` | does a restarted transition to the encrypted filesystem complete? | **no**: its inputs are on the volume it has erased |
| `nandroid_galaxys` | full and selective backup, restore, formats and mounts with failing mounts, unmounts, `mkfs`, `rm` and writes and a power loss | exact backups and restores, but for volumes whose format returned success and kept files (`kept`); no mounted device formatted, backup survives; also the inductive invariant |
| `nandroid_md5` | is a damaged tar image noticed? | **no**: only `*img` is summed |
| `ui_menu` | scrolling, wrapping, truncated and one-row menus, keys and toggles at any time | the highlighted row is the selected one; no lost key |
| `flash` | bad and worn blocks anywhere, failures of good blocks at any call and in either pass, mapping tables with shared targets, a power loss, two operations in a row | what reports success reads back and the header comes last, unless a block was left out that reads without errors (`Clean`) or two blocks share a target (`Distinct`); only good blocks the partition owns are written, every operation ends; also the inductive invariant |
| `install` | sound and broken packages, scripts that use every function, another binary with malformed and overlong lines, failing calls, `fork()` among them, a kill at any point | success means done, unless `fork()` failed; only signed packages run; results agree with a big-step reference that has its own `strtol()` (`Agree`); an abort is shown when its lines fit the buffer; extraction is complete unless it failed halfway or a file's target is a symbolic link; both processes end |
| `install_extract` | does "t" from `package_extract_dir()` mean that everything was extracted? | **no**: `Zip.c:1124` declares an inner `ok` that hides the result |
| `hash` | collisions, two items of a key, tombstones, resizes | the table refines `Dictionary`, its counters count, searches halt; also the inductive invariant |

The five negative answers are `findings` in `PROJECT.json`, each with the line
of the code or comment that promises otherwise.

### Bounds

* `ApplyPatch`: three calls, a file and a partition patched in place and a file
  patched into a new one, because the properties relate a call to an earlier and
  a later one and to the one saved copy they share. `CacheCap` 4 is tight (the
  first source takes two units, the package and one deletable file one each), so
  that files must be deleted, and deleting may not be enough; 6 rules out a full
  cache as the cause in `applypatch_partition`. Four restarts allow a crash in a
  run that itself recovers from a crash in a recovery.
* `Recovery`: `MaxRequests` 2 allows a request after an earlier one has been
  carried out or has failed; `MaxCrashes` 2 a crash in a rerun; `MaxLog` 3 is
  the length of the temporary log, past which the menus stop adding to it.
* `Nandroid`: `/boot`, `/system`, `/cache` and the card of a Galaxy S: one volume that
  `mkfs` makes anew, one that is emptied with `rm`, one that is flashed, and a card on
  the first of two devices. Mounts of `/system`, `/cache` and `/sdcard` may fail.
  `MaxTasks` 3 is backup, something in between, restore; `MaxAge` 1 makes old and new
  files distinct; `MaxCrashes` 1. That is 772,483 states.
* `Flash`: three blocks of two pages and a reservoir of three, with at most two bad
  or worn ones: an image that fits exactly, one that needs every good block and
  one for which they do not suffice. `MaxFaults` 2 gives up one good block, or shifts
  the first block between the passes. `MaxTasks` 2 is an operation over what
  another one left.
* `Install`: `MaxFaults` 2, so that a failure can meet another one on its error
  path; `PipeCap` 1, the pipe that blocks most; `LineMax` 2 characters, which some
  texts exceed; `MaxOther` 2 lines of another binary; `MaxArgc` 9 arguments. The packages are a release, an incremental update,
  a kernel and a script of tests, one short script for each error path, and one
  package for each way to be broken: 90,915 states.
* `Hash`: tables of 1 to 8 slots (`MaxSize`), so that every resize from the smallest
  table happens twice and thrice in a row; four items, two with the same key and
  three with the same hash.
* `Ui`: `TextRows` 3, `MenuMaxRows` 4, `QueueMax` 2, menus longer than the screen
  and than the table, and the keys down, menu, home, power and alt-l: menu stands for up too,
  which `device_handle_key()` treats alike. BACK is left to the proof, which
  covers every set of keys.

No symmetry is used: the contents and locations differ in role.

### Fairness

`ApplyPatch` and `Recovery` assume weak fairness of the process itself (`Updater`;
`Bootloader` and `Main`): it is a single thread that never waits for another, and
`init` restarts it when it dies. `Terminates` says so of every run, not only of the
first. `Nandroid` has no liveness property. Crashes are
bounded, not fair. Nothing is assumed of the user: `NoCycle` and `Carried` hold
with a user who never answers. `Ui` assumes that the main thread takes its next
step inside a menu and that `input_thread` finishes the key it has begun, which
the mutexes, each held for a bounded time, justify; not that a key is pressed.

`Flash` and `Hash` are fair to the operation under way. `Install` is fair to the
parent and to the updater, which are separate processes, and assumes that another
update binary exits at some time; that failures stay bounded is part of the model.

`CHECK_DEADLOCK` is off where the system stops: a finished package, a command
carried out with no request left, a user with no task left, an installation that
has returned, a hash table whose memory ran out. `ui_menu` checks it.

## 4. Proofs

All obligations are checked by TLAPS. Theorems hold for every value of the
constants that satisfies the named assumptions.

**ApplyPatchProofs** (`Invariance`, `TypeCorrect`, `FilesRecoverable`,
`BackupBeforeWrite`, `SuccessMeansPatched`, `TargetsFinal`, `Refinement`). Assumptions:
`JobAssumption` (calls name disjoint locations), `ContentAssumption` (the
digests named are of intact contents), `SpaceAssumption` (sizes are naturals).
`Recoverable` alone is not inductive: when the source is unlinked, that its
copy is intact follows from what happened several steps before. `IInv` adds
where the source of the current call is (`SourceSafe`: in the saved copy once
`made_copy` is set, else at the source), that what is about to be renamed or
written is the target (`OutputSafe`), and, since the one saved copy is shared,
that earlier calls are done and later ones untouched whenever it is
overwritten (`EarlierDone`, `LaterUntouched`). `SuccessMeansPatched` is
where `EarlierDone` ends with the last call, and is a statement about partitions as well as files.
`Refinement` needs that no target is a partition, and maps a call to
"new" when its target is there and to "old" while it can still be produced;
for a partition the mapped value would be "lost" in the run
`applypatch_partition`.

**RecoveryProofs.** `Invariance` and `CommandKept` hold under
`Reliable == Mtd /\ "bcb" \notin Faults`, the two things `recovery_bml` and a torn
BCB show to be necessary. `IInv` says that what is owed is in the BCB with the
boot flag set (`OwedInBcb`), that it is what is being worked on and is settled
once `finish_recovery()` has begun (`OwedByPhase`), and which locals belong to
which phase. Options, number of crashes and state of the filesystems are free.
The other three results need no reliable BCB and rest on a second invariant,
`Progress` (`ProgressInvariance`): how far the erases of the current command have
come (`Resetting`), which of the files of the encrypted filesystem are written
back already (`Restoring`) and that the log on `/cache` has every line up to the offset
(`Logged`). `KeysBeforeFlag` is unconditional, and about the order of the writes only:
the code does not `fsync()`, and what a power loss finds on the disk is not in it.
`ResetsErase` assumes that `/data` is erased by making a filesystem: an erase with `rm`
is skipped, with success, when the volume does not mount (section 5). `LogsComplete`
needs no assumption; `LogComplete` itself excepts the lines recorded in `logLost`
(section 5).

**UiProofs** (`Invariance`, `Highlighted`), under `UiAssumption`: a screen of at
least one row, headers that leave a row for the menu, an initial selection that
is a row. The argument is in `WindowLemma`: the window follows the selection by
one row, and a wrap moves it to the other end, so the selected row stays in it.

**FlashProofs** (`ShapeInvariance`, `GoodOnly`, `Invariance`, `ReadsBack`,
`HeaderIsLast`), for every geometry, every set of bad and worn blocks, any number of
failures of good ones and every mapping table of `TableAssumption` (tables are in the
reservoir; what they map is free, shared targets and other partitions' blocks
included). `Shape` says, phase by phase, which blocks are behind the write position
and that the position is inside the partition or a reservoir block its mapping names;
that the block about to be erased is a good one of the operation's own range follows,
and `GoodOnly` is the action property. `IInv` adds `DataInv`, where the pages are: what
has been written is in the good blocks behind the position, in order (`Placed`), what
is in the buffer is the block that follows (`Pending`), an erase has emptied what it
has passed (`Wiping`), a dump has read what it has passed (`Reading`), and in the first
pass the first block stands without its header (`NoHeader`, `Headers`). `ReadsBack`
and `HeaderIsLast` hold while the operation is `Clean`, that is, has left out only bad
and worn blocks: then no block is skipped in one pass and not in the other, and the
second pass writes only the first good block. An operation that is not clean breaks
both in this code (section 5), and so does flashing through a table that is not
`Distinct`. A header of zeros cannot be told from an erased one, so `HeaderLast` speaks
of images whose first page is not zero.

**NandroidProofs**, for every volume table that satisfies `FstabAssumption` (each
volume has a device of its own, only the card has a second one, there is a `/sdcard` and
it is vfat), every disk of `DiskAssumption` (no backup on the card yet) and every
bound. The assumption leaves out the tables of phones whose card is `/data/media`: there
`ensure_path_unmounted()` returns 0 without unmounting (`roots.c:304`), and `/data` is
formatted mounted (section 5). `SafeInvariance`, `FormatsUnmounted` and `BackupKept` hold
whatever fails. `Safe` is the type invariant with `Sound` (every mount point is empty
or has its own device) and `Reading` (what is restored has passed the check). `Sound`
is proved operator by operator (`EnsurePathMounted`, `EnsurePathUnmounted`, the three
format functions and their composition in `ErasePartition`), and so is what they leave
of the backup: restoring `.android_secure` removes files from the card the images are
on. `Invariance`, `BackupIsExact` and `RestoreIsExact` exclude damage of a tar image
(`"tar" \notin Faults`), the finding of `nandroid_md5`. `IInv` says that a partition is
saved or waits its turn unchanged (`BackingUp`), that one is restored, or in `kept`, or
waits its turn (`Restoring`), that an erased partition about to be filled is empty or in
`kept`, and that images that pass the sums are what they were (`ImagesGood`). The
partitions in `kept`, whose format returned success and kept files, are the exception
that `RestoreExact` and `BackupExact` name: for them the promise is false in this code
(section 5).

**InstallProofs** (`Success`, `OnlySigned`, `AbortReachesScreen`, `TypeCorrect`,
`ExtractsEverything`), for every package, script, pipe size, buffer size and number of
faults. `UpdaterAssumption` says what the parser builds: scripts are expressions whose
arguments are expressions again, their texts are sequences, `&&` and `||` have two
arguments; and that names are made of characters that minzip can order. `InstallInv` relates where the parent is to
where the child is (`Handshake`), says that no value is pending outside the
evaluation (`Pending`) and carries the signature through (`Signed`). All forty
functions are reduced to one shape, `InScript`, by `FunctionSteps1` to `3` and `ExtractSteps`.
`SameEnd` is the arithmetic behind `verify_file()`'s last check: as signatures of
end records cannot overlap (`InstallAssumption`), none behind the verified one
means that the backward search of minzip stops at it. `Success` excepts the one case the
code has no answer to, a `fork()` that failed. `AbortReachesScreen` is about messages whose
lines fit the parent's buffer and rests on `Relay`: at every moment of a report some m lines of the message are written and r
of them shown, the m - r between are the end of the pipe, the rest is still in the
updater, and lines of the script can only be in front of them. `TypeCorrect` needs
the shape of the stack (`Frames`): every function begins an argument, takes a value or
returns one, and one it passes on is that of an argument it has (`StackStep`). With it
every message is a sequence, which `Lines()` cuts into lines (`PrintableLines`): `AbortReachesScreen` rests on
that too.

`ExtractsEverything` is about `package_extract_dir()`, whose walk through the array
stops at the first entry that does not match after one that did. Its invariant
`WalkInv` is `TypeInv` with three parts: `Sound`, the array is sorted (`ArraySorted`,
below); `Device`, the shape of the device's file trees; and `Walking`, what has been
extracted: each wanted entry behind position `xi` is at its target, unless a later entry
of the same name has replaced it (`Placed`). That the walk may stop is
`BetweenPrefixes`: in minzip's order a name between two that begin with the directory's
name begins with it too. That a file written stays as it was written needs that
different names have different targets (`TargetsDiffer`) and that no target is a
link (`Straight`). `Walking` claims `Placed` only while `Straight` holds, and that is enough:
`creat()` writes through a link and removes none, so if no target is a link when the walk
ends, none was one at any step of it. The attempt to prove the property as it was first stated failed there:
where a file's target is a symbolic link, the contents land at the link's end, so two
entries may overwrite each other. `ExtractsAllOrLost` excludes that with `NoLinks`.

**ZipProofs** (`ArraySorted`), under `ZipAssumption` (minzip compares characters by
distinct integers). `parseZipArchive()` finds each entry's place with a binary search
and inserts it there. `Compare` is shown to be a total preorder on names; the search
returns a place between what is not greater and what is not smaller
(`PositionBelongs`); inserting there keeps the array in order and adds just that entry
(`InsertOrdered`). The search and the sort are recursive functions. `NatSets` is
induction in a form that quantifies over sets of naturals instead of operators, and
`TailRecursion` derives from it that a tail-recursive definition whose measure falls has
a function that satisfies it.

**HashProofs** (`Invariance`, `CountsHold`, `NeverFull`, `Refines`, `ForeachVisitsAll`), for every set of items, every
hash and every initial size. `IInv` has three parts. `Probing` is the classic
invariant of linear probing: from its home to an entry no slot is empty, in the
table and in the one being filled; a search has passed only what it does not look
for. `EmptyMeansAbsent` follows, and with it the refinement. `Counted`, the counters
and the load limit, is needed for `Probing`: only the load limit keeps a search of a
one-slot table from running off its end (`SingleSlot`). `HandedOut` is what
`mzHashForeach()` has handed out: the live entries of the slots behind its position,
each once; `ForeachVisitsAll` is its end.

**Only model-checked.** Liveness (`Terminates`, `NoCycle`, `Carried`, `KeyTaken`,
`Ends`, `Halts`), which is out of the prover's reach. `Agree`, which compares with a
recursive reference. All other invariants and action properties of the passing runs
are theorems.

## 5. Disagreements met that have no run of their own

* `freecache.c:36-40`: what cannot be read below `/proc` is passed over, so that an open
  file, the package itself, may be deleted to make room (compare the comment at 83,
  "allowed to delete unopened regular files").
* `applypatch.c:885`: a copy left in `/cache/saved.file` by an earlier run makes
  the next one stop for lack of space, against `recovery.c:107`.
* `applypatch.c:754`: the source is unlinked also when source and target names
  differ (compare the comment at 582).
* `recovery.c:245`: a torn BCB write loses the command (compare line 236).
* `recovery.c:316`: a crash between clearing the BCB and removing the command
  file reruns a finished command on the next entry.
* `encryptedfs_provisioning.c:82`: the key files and the property are closed without
  `fsync()`, so the order in which they were written need not be that on the disk.
* `extendedcommands.c:510`: an erase skipped because the volume does not mount
  is reported as a success (compare `recovery.c:80`); so is one whose `rm` failed
  (`extendedcommands.c:519-526`). Before a restore the files then land on top of the old
  ones, and the restore is reported as complete; of a `/sdcard` emptied in part, a
  backup may keep its sums and lose images.
* `extendedcommands.c:678`, `nandroid.c:513`: formatting `/cache` from the menu or
  restoring it leaves the log offset as it was (compare `recovery.c:331-333`);
  `recovery.c:275-277`: the offset also advances past lines that could not be written.
* `nandroid-md5.sh:3`: a selective backup on rfs or ext4 has no `*img`, so it
  ends in "Error while generating md5 sum!".
* `roots.c`: `ensure_path_unmounted()` returns 0 without unmounting when there
  is no `/sdcard` volume; an ext4 format of `/data` then hits a mounted device.
* `nandroid_main()` never calls `load_volume_table()`.
* `bmlutils.c`: `cmd_bml_restore_raw_partition()` rejects paths with '/', though
  its comment says it supports explicitly provided device paths.
* `extendedcommands.c`: in the menu that deletes a backup the `rm -r` is outside
  the `if` that asks for confirmation, so declining deletes too.
* `install.c:159`: the `firmware` command is to "arrange to install the contents of
  <filename>"; `handle_firmware_update()` reads the file and drops it.
* `install.c:182`, `:239-241`: if `fork()` fails, `status` is read without having been
  set, and a package of which nothing was run may be reported as installed.
* `install.c:203-213`: a `progress` or `set_progress` line without its words hands NULL to
  `strtof()`, and recovery dies; `install.c:195`: the rest of a line of more than 1023
  bytes is taken for a command, which may be such a one.
* `install.c:252`, `install.c:113`: the archive is left open after a success and after
  the message about Amend scripts.
* `updater/install.c:286`: `DeleteFn()`'s cleanup increments `i` instead of `j` and frees
  one path twice;
  `:765` and `:821`: the results of `ReadValueVarArgs()` and `ReadVarArgs()` are used
  although they may be NULL; `:629`: `file_getprop()` of an empty file.
* `mtdutils.c:803`: a result of -1 is taken as a block that was erased;
  `mtdutils.c:653`: a block that fails in one of the two passes only moves the header;
  `mtdutils.c:457-460`: a block given up is erased and not marked bad, so that a reader
  finds 0xff in the middle of the image; `mtdutils.c:284-287`, `:752`: a failing
  `ECCGETSTATS` ends a backup early, with success.
* `bml_over_mtd.c:303`: two source blocks mapped to one reservoir block pass the check,
  and the second overwrites the first.
* `bmlutils.c:51-58`: a read error writes a page of zeros and the result is 0;
  `bmlutils.c:84`: the code behind it is not reached.
* `recovery.c:489`: when the back button is disabled in an open menu, its row
  stays and returns `item_count`; `recovery.c:455-459`: a key between the clearing
  of the queue and the drawing acts on a menu not yet seen; `ui.c:336`: BACK
  pressed to show the text may also leave the menu; `ui.c:538`: one row more
  than `menu[]` has.

## 6. Not modelled

Patch contents and their generation (`bspatch.c`, `imgpatch.c`, `bsdiff.c`,
`imgdiff.c`), bzip2, deflate, RSA and SHA-1: computations on long byte strings.
Parsing of `recovery.fstab`, `/proc/mounts`, command lines and scripts (the lexer and
parser are generated). The length of `boot.recovery` and of the mount table. Drawing and input devices (`minui`); the progress bar and its
thread. The card's free space in nandroid, several backup directories, the WiMAX
partition. The copies of the BML and MMC utilities, which are loops over a
file. `midnight.c`: menus that write flag files with shell commands. `dedupe` and
the host tools are stand-alone programs.

Outside the models, and worth knowing: a daemon started by `run_program()` keeps the
pipe open (`updater/install.c:881`), where the model has a program that ends; `pipe()`
is taken to succeed (`install.c:138`); data written is durable at once; a mount that
fails does so with all attempts of its call, so that the card's second device is
mounted only where the first cannot be; the layout in which `/data/media` is the card
(`roots.c:304`); a menu of `MENU_MAX_ROWS` rows with the back button is one row too
long (`ui.c:538`).

## 7. Plan

Done, in the order of importance: `ApplyPatch` and its refinement; `Recovery`;
`Volumes` and `Nandroid`; `Ui`; `Flash`; `Edify`, `Updater`, `Zip` and `Install`; `Hash` and
its refinement; proofs of every safety property of the passing runs but
`Agree`. To come:

1. `Flash` as an implementation of the partition writes of `ApplyPatch` and of the
   BCB write of `Recovery`; `Install` of the one-step installation of `Recovery`.
2. `Progress`: the bar, its thread and `ui_set_progress()`.
3. `midnight.c` and the rest of `extendedcommands.c`: exclusive settings kept in
   flag files, USB storage.
