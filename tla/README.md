# A verification of snappy

TLA+ models of snappy: the update of a dual-rootfs device, the command lock, the
installation and admission of snaps, services, hardware access, the settings of
the system, package files, the answers of snapd and its asynchronous operations.
TLC checks them on small instances; TLAPS proves the most important properties for
every value of the constants. `PROJECT.json` maps every definition to the lines it
models and lists the hazards, the runs, the findings and the theorems.

## The system

| part | state | operations | what makes it hard |
| --- | --- | --- | --- |
| boot loader protocol (`partition/bootloader*.go`, `migrate_grub.go`) | `snappy_ab`, `snappy_mode`, `snappy_trial_boot` | boot script, `ToggleRootFS`, `MarkCurrentBootSuccessful` | each variable is written on its own; power may be cut between two writes |
| system image update (`snappy/systemimage*.go`, `partition/`) | images and kernels of two rootfs, download cache | `Install`, `SetActive`, `snappy booted`, automatic reboot | bad images, crashes in any step, a server that publishes meanwhile |
| download (`systemimage_native.go`) | a child, two pipes, a goroutine | run, parse, collect, wait | everyone waiting for everyone; a child left behind |
| mounts (`partition/partition.go`, `mount.go`) | the kernel's table, the package's list | `RunWithOther`, remount, bind mounts, fsck | a signal handler that changes the same slice |
| files (`helpers/`) | what processes see, what a power cut leaves | atomic write, copy, compare, rsync | unsynced data and directory entries |
| command lock (`priv/`) | a file, its flock | `Lock`, `Unlock`, retry | flock is on the inode, unlink on the name; killed processes |
| snap installation and commands (`snappy/snapp.go`, `click.go`, `install.go`, ...) | package directories, `current`, wrappers, units, hooks, profiles, data | install, update, activate, rollback, remove, purge, collection | deferred clean-up, failing calls, power cuts, long sequences |
| admission (`CanInstall` and its checks) | parts, active parts, agreed licenses | install, sideload, remove, activate | checks made before a change that others make meanwhile |
| package files (`pkg/clickdeb`, `build.go`, `cmd_internal_unpack.go`) | tree, tar files, package, installed directory | build, verify, unpack | errors that are lost, attempts cut short |
| services (`service.go`, `systemd/`) | unit files, links, processes | start, stop, restart, enable, disable, status, logs | tasks without the lock, services that never stop |
| hardware access (`hwaccess.go`, `oem.go`) | json, profile, udev rules, tags | hw-assign, hw-unassign, uninstall | four stores changed one after the other |
| core configuration, first boot (`coreconfig/`, `firstboot.go`) | files, units, host name, stamp | `Set`, `FirstBoot` | half-made settings found in place by the next comparison |
| listings (`daemon/api.go`, `pkg/lightweight`) | none; reads the disk | info, list, configure | a read of several steps without a lock |
| operations of snapd (`daemon/`) | the tasks map, each task's tomb, output and time | start, poll, delete | goroutines that write what handlers read without a lock |
| version order (`sort.go`) | a list | compare, sort | numbers and strings compare differently |

The commands (`cmd/snappy`) take the lock and then change snaps or the system
image. snapd runs the same functions in goroutines, without that lock. The boot
loader reads what the update wrote, and `snappy booted` answers it.

## Modules

| module | models |
| --- | --- |
| `BootLoader` | the three variables, the boot script, the two orders of `ToggleRootFS`, `IsNextBootOther` |
| `SystemUpdate`, `SystemUpdateProofs` | extends `BootLoader` with the life of a device, one action per write that survives a reboot; theorems |
| `FileLock`, `FileLockProofs` | the lock, one action per system call; theorems |
| `Services` | the services of a snap, one action per systemctl call, beside a switch of versions |
| `Commands` | `FileLock` and `Services`, for TLC |
| `SnapLifecycle` | one package, one action per call that `Install`, `activate`, `deactivate` and `Uninstall` make |
| `Operations` | what the asynchronous operations of snapd look like to a client: they end in one step, and an answer is a status and then a result |
| `DaemonTasks`, `DaemonTasksProofs` | tasks, handlers and goroutines of snapd; theorems, among them that they implement `Operations` |
| `Mounts` | `RunWithOther`, the list of mounts and the signal handler |
| `Files` | `AtomicWriteFile`, `CopyFile`, `CopyIfDifferent`, `RSyncWithDelete` |
| `ImageDownload` | `systemImageDownloadUpdate`, its child and its pipes |
| `Archive` | a click package from source directory to installed directory |
| `Storage` | `Mounts`, `Files`, `ImageDownload`, `Archive`, for TLC |
| `CoreConfig` | `Set`, setting by setting and call by call, and `FirstBoot` |
| `HWAccess` | hw-assign, hw-unassign, OEM rules, removal |
| `Admission` | `CanInstall`, its callers, and what `Uninstall` refuses |
| `Packages` | the daemon's listings and configuration requests while jobs change packages |
| `Versions`, `VersionsProofs` | `VersionCompare` and the sort; theorems |
| `Device` | `CoreConfig`, `HWAccess`, `Admission`, `Packages`, `Versions`, for TLC |

`Commands`, `Storage` and `Device` choose one of their components (`focus`) in the
initial state and explore that one. The components of each share no variable, so
their interleavings add nothing. Components that do interact are one module:
boot loader and update, services and switch, listings and jobs, command and task.

Definitions whose comment says *Variant* are plausible mistakes; each is used to
check that a property fails when the definition after it is replaced by it.

**SystemUpdate.** `pc` is the next write of the command that holds the lock. An
image is a record of whether it works and which kernel it needs. `SyncBootFiles`,
`Download`, `Apply`, `VerifyUpgradeWasApplied`, `HandleAssets*` and
`ToggleRootFS*` are the steps of `SystemImagePart.Install`; `MarkTrial`, `MarkAB`
and `MarkMode` those of `snappy booted`. `PowerCut` and `StepFails` may come
between any two. `early` and `lost` record two things that void a promise: a
command before `snappy booted` of its boot, and a download that replaced a kernel
still in the cache (the FIXME at `bootloader.go:185`). Abstractions: the server's
kernels only get newer; channels are equal; there is no kernel inside a rootfs;
sideloaded systems are left out; u-boot's script, which is not in the repository,
decides as grub's does; system-image-cli, the upgrader and the server are external.

**FileLock.** `OpenFile`, `Flock`, `Unflock` and `RemoveFile` are the system calls;
close and unlink are one step, because nothing another process does between them
differs. `Killed` may come at any point. `raced` records that `Unlock` removed a
file another process had opened to lock it.

**Services.** An actor is a command, which holds the lock, or a task of the daemon,
which does not. `plan` holds the calls it has still to make, on the units that
`FindServices` found. `Wait` is the loop of `systemd.Stop`, which looks several
times between two looks at the clock. `overlap`, `survivors` and `disturbed` record
a start in the middle of a switch, a process that outlived SIGKILL, and units that
somebody else acted upon. Two switches at once are left out.

**SnapLifecycle.** `todo` holds the calls still to make, `deferred` what the
deferred functions of `Install` would call. A failing call ends the command with its
deferred functions in reverse order, as Go runs them. The shadowed `err` of
`snapp.go:907` and `:939` is kept: it is why `RefreshDependentsSecurity` does not
restart services. A package has one service, whose unit has the version in its name,
wrappers, one hook, one profile and, as a framework, one policy file; units, enabled
units and running services are sets of versions, so that one left over shows; the
`current` link of the data is part of `LinkCurrentData`. Calls whose error the code
ignores succeed. OEM snaps and `inhibitHooks` are left out; the checks that only
refuse are in `Admission`.

**DaemonTasks.** What an operation does is abstracted to nothing, a result or an
error. The write of `tf`, a structure of several words, is two steps, and a read
between them sees a mixture. A request for an unknown task changes nothing. The
refinement mapping to `Operations` ends an operation when its goroutine is buried
and takes an answer in two steps, the status when `Map` reads it and the result when
`Map` reads the output; what a client is sent is mapped as it is.

**Mounts.** The kernel's table outlives a process, the list does not. A new value of
the slice is computed in one step and stored in another (`StoreMounts`), by the main
goroutine and by the handler, so that one may overwrite the other's. `Die` ends a
process at any point, `Signal` starts the handler at any point, and a mount, umount
or fsck may fail.

**Files.** `now` is what processes see, `back` what a power cut may bring back: data
that was not synced is cut off anywhere, a directory that was not synced has the
entry from before. `sendfile` copies up to `maxcp` bytes at a time and the
comparison reads `bufsz` at a time.

**ImageDownload.** The child prints lines (messages of the three types, other text,
lines too long for the scanner) and traces, waits when a pipe is full, and exits in
any way at any point. `wants` is what it has decided to do next, without which a
full pipe would never stop it.

**Archive.** A tree is a sequence of entries with a kind (directory, file, symlink,
device, fifo) and a class of names (plain, ignored, `DEBIAN`, beginning with it).
The compressor's lost `Close` error cuts a tar file short; the lost error of `Open`
in `addFileToAr` leaves a member out. Everything may be cut off and tried again.
`instDir` has, with their owners, what the helper without privileges unpacked and
what root wrote after it, the manifest and `hashes.yaml`.

**CoreConfig.** `Documents` are the settings a call of `Set` may be given. Per setting
one or two calls are left in `todo` when the comparison finds a difference. A failing
call ends `Set`, but for `os.Remove` of a network file, whose error is ignored.
`unsynced` holds the calls that would put back what a power cut may bring back: the
copy of a time zone, which also may be torn, a removal, and an atomic write whose
last sync failed. `half` records settings that were changed in part, and network
files whose removal failed or was lost. `FirstBoot` runs the OEM snap's settings and
hooks and then its deferred functions.

**HWAccess.** `InForce` says when all four places give a device. udev knows a device
by the last element of its path, so two paths may share a rule. `InQuotes` are the
names that `removeUdevRuleForSnap` finds in a rule. The snap is given by its name; a
name with an app and a version, of which the code takes the first part, is left out.

**Admission.** A snap file is a record of what the checks look at. An operation is
allowed in one step and makes its change in a later one, or fails, which may take the
version's directory away; `met` records that a command and a task overlapped, `mixed`
whose operation overlaps another. Commands may allow packages without a signature,
from the store and from a file; the daemon may for a file.

**Packages.** A handler takes the steps `Glob`, `ReadLink`, `Load*` and `Map`; jobs
(install, switch, remove, purge) take theirs in between, and a power cut may end a
job. `Truth` is what there is to say of a package that nobody changes. The run has
the system, an OEM package and a framework; to a listing an app is like a framework
that no OEM package precedes, and a fourth package makes the state space four times
as large.

**Versions.** A version is two sequences of fragments, each a number or a string of
character orders. A number may be larger than the largest int: `strconv.Atoi`
refuses it, and it compares as a string, equal to every number. The sort is the
insertion sort that Go's `sort.Sort` uses on short lists; the model calls `Less` on
neighbours only, as that sort does.

## Runs

| run | result | shows |
| --- | --- | --- |
| `update_grub` | pass | every regular boot and every revert is usable, `Install` and `IsNextBootOther` tell the truth, the device recovers and reaches a working last image |
| `update_uboot` | violation | u-boot writes `snappy_ab` before `snappy_mode` |
| `set_active_undo` | violation | a second `ToggleNextBoot` does not undo the first |
| `early_update` | violation | an update in an unconfirmed trial boot overwrites the good rootfs |
| `commands` | pass | commands overlap only after the unlink race; no leftover file blocks a command; service operations report what is so, leave only the active version running, and end |
| `file_lock_serial` | violation | the unlink race itself |
| `snap_lifecycle` | pass | one whole version is integrated and nothing of another; failed installs restore apps; dependents run again; garbage collection keeps one |
| `known_good` | violation | garbage collection after a rollback removes the version in use before |
| `interrupted_install` | violation | a part without `hashes.yaml` makes `Installed` fail |
| `daemon_tasks` | pass | answers that say done are final, running tasks are found, the end is reported, and clients cannot tell the tasks from `Operations` |
| `storage` | pass | fsck never meets a mounted device; a successful `RunWithOther` and a signal leave no bind mounts; an interrupted process ends; files are old or new; copies are equal; a download never deadlocks nor succeeds wrongly; what is unpacked is what was built |
| `device` | pass | settings up to the first that failed are in force; access is given or taken in all four places and from no other device; the network is set up before the stamp; an installation adds no second origin and frameworks stay; answers are true and only an active version is configured; lists are sorted as far as their numbers fit an int |

A violation run states what a document, comment or test says; `findings` in
`PROJECT.json` quotes it. Four more findings belong to passing runs, whose property
says what holds instead: an answer of snapd may say running and hold a result;
`RunWithOther` leaves the other root mounted, as its test and unlike its comment;
versions with numbers beyond an int compare as equal to others; activate and
rollback make a second origin of a name active.

**Bounds.** `MaxVersion = 3` is the least number with a factory image, a bad or
interrupted one and a later one (for snaps: a version to collect, one to keep and
the active one). `MaxKernel = 2` tells a matching kernel from a wrong one.
`MaxFaults = 1` puts one fault at every point; it does not cover two faults in one
behaviour; for grub's regular boots, reverts and installs the theorems do. Three
lock processes are what the unlink race needs. Two clients and two tasks give every
pair of concurrent accesses. Two commands, a task, two versions of two services and
two operations give a service operation across a switch and two operations on the
same unit. Two of the five bind mounts, in an order opposite to that of their
targets, show the order of undoing. Contents of three bytes with buffers of two make
a copy and a comparison take two rounds; the two contents differ at the end. Pipes
of two lines are full after half of the writes. Two calls of `Set` make the second
find what the first left undone; two faults in hardware access let the second hit
the repair of the first. Three devices contain two that udev cannot tell apart. Five
snap files hold an OEM snap, a framework, an app in two versions of which one needs
the framework, and an unsigned fork of it; two of the files can be sideloaded. One
device is called like the snap. The type invariants of `Device` and `Storage` look
at the component in focus, the only one that changes. Three parts are what a wrong,
non-transitive order needs to fail in a sort; `MaxInt = 2` keeps the largest int,
and one more, among the numbers. The run `daemon_tasks` does not check deadlock:
with all tasks started and deleted the daemon is idle. The other passing runs do;
`Storage` and `Commands` stutter when an operation has ended and none need begin.

**Fairness.** The boot loader runs when there is power, a failed boot resets
(`panic=-1` or the user), `boot-ok.service` runs in every boot, a started command
goes on: weak fairness. `snappy booted` polls for the lock, the autopilot timer is
hourly and `--automatic-reboot` schedules a shutdown: strong fairness on
`MarkTrial`, `Update` and `AutomaticReboot`, which other commands disable for a
while. A started lock process and a started service operation continue; of the
services themselves nothing is assumed. Go schedules every goroutine and handler;
operations are assumed to end and somebody to go on polling each task. The
goroutine of the signal handler is scheduled once it runs.

## Proofs

All for any values of the constants, under the ASSUMEs of the modules (positive
bounds, one of the two boot loaders, distinct dummy values).

- `SystemUpdateProofs`. `TypeInv` adds to the types that a command at work implies
  a running system. `MarkInv`: a confirmed boot came up and has no trial pending.
  `SafeInv`: without early commands some rootfs always comes up, because a command
  writes only to the other one; this gives `RevertCorrect`. `RegularInv`, for grub:
  outside a trial the configured rootfs comes up and is the running one, and
  between the two toggle writes the mode is already `try`; this gives
  `RegularBootCorrect` and `AnnouncedBootCorrect`. None of the properties is
  inductive alone: they speak of a device that is off, and what makes them true is
  what holds while a command is at work. `InstalledInv` follows an `Install` from
  `verify` to its end and gives `InstallCorrect`.
- `FileLockProofs`. `LockInv`: a process in its critical section owns the inode it
  has open, and unless the unlink race happened all that are about to lock or have
  locked have the inode at the path open; `SerialCorrect` follows.
- `DaemonTasksProofs`. `TaskInv`: the tomb dies after output and time are final.
  `AnswerInv`: once `Map` has read a status other than running, what it reads next
  is final; it rests on the order of the fields. `FoundInv`: a task whose location
  was or is about to be sent is in the map, or done. `TasksImplementOperations`:
  each step of a handler or goroutine is a step of `Operations` or a stutter, by
  one lemma per action; `ReadInv` ties what `Map` has read so far to the task.
- `VersionsProofs`. `VersionCompareIsOrder`: swapping the arguments negates the result,
  and on the versions whose numbers fit an int it is a total preorder. Each layer
  (`cmpInt`, `cmpString`, `cmpFragment`, `compareSubversion`) is shown to negate when
  swapped and to fit together along a chain; a layer that compares at the first
  difference inherits both (`FirstOpposite`, `FirstFits`). `SortIsSorted`: in the part
  of the list that was inserted, but for the version on its way down, neighbours are
  in order, and so is all of it when the numbers fit.

The type invariants of `SystemUpdate`, `FileLock` and `DaemonTasks` are proved
(`TypeCorrect` of each) and not among the invariants of the runs.

Only model-checked: the liveness properties (`Recovers`, `LatestImageRuns`,
`LoneCommandRuns`, `DoneIsReported`, `OperationsEnd`, `SignalEndsProcess`), which are
beyond the prover, `DownloadIsTrue`, which says ENABLED, `UpdatedKernelMatches`, and
the properties of `SnapLifecycle`, `Services`, `Mounts`, `Files`, `Archive`,
`CoreConfig`, `HWAccess`, `Admission` and `Packages`.

## What the models leave as it is

Behaviour that the models contain, that no property forbids, and that a reader of the
properties should know of. Where a text promises otherwise it is among the findings.

- A bind mount that fails leaves the earlier ones until the next `RunWithOther`, and
  a handler that races the main goroutine may leave mounts. `RunWithOther` leaves
  the other root mounted read-only (a finding).
- When the activation of a new version fails before `current` is linked, the unit that
  was written for it stays, maybe enabled and running, beside the old version's. When
  `RefreshDependentsSecurity` fails, the stopped dependents are not started again.
- A setting whose second call failed (host name, a started autopilot) is skipped when
  it is tried again. So is a time zone whose copy a power cut lost or tore. The removal
  of a network file may fail unnoticed, and may be lost in a power cut, as may the
  stamp, after which the first boot runs again. A first boot whose OEM
  configuration failed is stamped all the same.
- After a failure between two stores hw-assign may say "already added", and
  hw-unassign "not found", while access is not, or still is, in force. Uninstalling
  any version, as collection does, takes the hardware access of the active one.
  Unassigning a device that is called like the snap takes all its rules.
- Tasks of the daemon take no lock. A task that overlaps a command can make two
  origins active, remove a framework that is being relied upon, or start a service
  in the middle of a switch. activate and rollback do not look at other origins (a
  finding).
- An update to a version that is there already removes it when the update fails.
- `checkLicenseAgreement` without an active version reads `meta/package.yaml` of the
  working directory, which `Admission` has as `assumed`.
- A copy that was interrupted is refused when tried again without
  `CopyFlagOverwrite`, as `policy.Install` does. RSync's copies are not synced.
- A download that failed may leave a child that goes on writing.
- A failed build leaves half a package at its final name, and names at the top that
  begin with `DEBIAN` are hashed but not packed.
- A version that does not load makes `Installed` fail, and a listing that loads it may
  find no part to show.

## Not modelled

- The text of security policies, units, wrappers and udev rules, and their templates.
  The models say only whether the right text is there.
- The squashfs format, the readers of the compressors, file modes and device numbers
  in packages, and the check of names in an archive.
- HTTP: the requests to the store and their signatures, the form of snapd's responses,
  icons.
- The command line, progress bars, logging, translations, paths.
- Reading `install.yaml` and `hardware.yaml`, flash assets, the dtb directory.
- How a version string is cut into fragments.
- Socket and dbus activation of services.
- Two operations of the daemon inside `Install` at once, call by call: `Admission` and
  `Services` model what such operations check and change, `SnapLifecycle` runs one
  command at a time.
