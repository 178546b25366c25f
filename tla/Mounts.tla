------------------------------- MODULE Mounts -------------------------------
(***************************************************************************)
(* The mounts of the other root file system: partition.go (New,            *)
(* RunWithOther, remountOther, the bind mounts a chroot needs) and mount.go *)
(* (the package's list of the mounts it made), with the goroutine that     *)
(* handles a signal beside the one that mounts.                            *)
(*                                                                         *)
(* The kernel's table outlives a process, the list does not.  Both         *)
(* goroutines change the list, a slice in a package variable, without a    *)
(* lock.  Processes run one after the other (the command lock); each may   *)
(* die at any point, and any command may fail.                             *)
(***************************************************************************)
EXTENDS Integers, FiniteSets, SequencesExt

CONSTANTS BindOrder,   \* requiredChrootMounts, as ranks in the order of targets
          Boot,        \* the rank of the boot partition's mount point
          MaxFailures, \* how many commands fail
          MaxLate      \* calls of RunWithOther that start after the signal

\* Targets are known by their rank: mountTarget is a prefix of all the others.
Other == 0
Target == {Other} \union Range(BindOrder)

ASSUME MountsAssumption ==
    /\ BindOrder \in Seq(Nat \ {0}) /\ IsInjective(BindOrder)
    /\ Boot \in Range(BindOrder)
    /\ MaxFailures \in Nat /\ MaxLate \in Nat

Main == "main"
Handler == "signal handler"
Actor == {Main, Handler}

None == <<-2>>   \* no list: nothing is being stored
Garbage == -1   \* what lies behind the end of a slice's array

VARIABLES
    lsblk,      \* the partitions lsblk lists: label and whether it is mounted
    parts,      \* Partition.partitions
    table,      \* the kernel: how each target is mounted
    ours,       \* the targets of table that the live process mounted
    mounts,     \* the package variable: the targets in the order of mounting
    pending,    \* a new value of mounts that an actor has computed, not stored
    queue,      \* mountsCopy: what undoMounts has still to unmount
    pc,         \* where each actor is
    option,     \* RunWithOther's argument
    bound,      \* how many of the bind mounts are done
    err,        \* RunWithOther's named result
    result,     \* what the last RunWithOther returned
    failures,   \* commands that failed
    late,       \* calls that started after the signal
    quiet,      \* history: Main was idle at the signal and did nothing since
    giveUp,     \* history: a command of the handler failed by itself
    fsckBusy    \* history: fsck ran on a mounted device

proc == <<parts, ours, mounts, pending, queue, pc, option, bound, err, result,
          late, quiet, giveUp>>
vars == <<lsblk, table, failures, fsckBusy, proc>>

Labels == {"system-a", "system-b", "system-boot", "writable"}

\* Partition tables: dual or single root, a boot partition mounted or not.
Layouts ==
    {{[label |-> "system-a", mounted |-> TRUE]} \union o \union b \union x :
        o \in {{}, {[label |-> "system-b", mounted |-> FALSE]}},
        b \in {{[label |-> "system-boot", mounted |-> m]} : m \in BOOLEAN},
        x \in {{[label |-> "swap", mounted |-> FALSE]}}}

loadPartitionDetails(lines) == {d \in lines : d.label \in Labels}

rootPartitions(ps) == {d \in ps : d.label \in {"system-a", "system-b"}}

dualRootPartitions(ps) == Cardinality(rootPartitions(ps)) = 2

bootPartition(ps) == {d \in ps : d.label = "system-boot"}

\* The boot partition is only among them when it is mounted somewhere.
requiredChrootMounts(ps) ==
    IF \E d \in bootPartition(ps) : d.mounted THEN BindOrder
    ELSE SelectSeq(BindOrder, LAMBDA t : t # Boot)

TypeOK ==
    /\ lsblk \in Layouts /\ parts \subseteq lsblk
    /\ table \in [Target -> {"none", "ro", "rw"}] /\ ours \subseteq Target
    /\ mounts \in Seq(Target \union {Garbage})
    /\ \A a \in Actor : pending[a] = None \/ pending[a] \in Seq(Target \union {Garbage})
    /\ queue \in [Actor -> Seq(Target \union {Garbage})]
    /\ pc[Main] \in {"down", "new", "idle", "umount", "fsck", "mount", "bind",
                     "func", "undo", "remount"}
    /\ pc[Handler] \in {"wait", "undo", "exit"}
    /\ option \in {"ro", "rw"} /\ bound \in 0..Len(BindOrder)
    /\ err \in BOOLEAN /\ result \in {"none", "ok", "error"}
    /\ failures \in 0..MaxFailures /\ late \in 0..MaxLate
    /\ quiet \in BOOLEAN /\ giveUp \in BOOLEAN /\ fsckBusy \in BOOLEAN
    \* nothing is mounted below a target that is not mounted itself
    /\ (\E t \in Target : table[t] # "none") => table[Other] # "none"
    \* as long as one goroutine is at work, a target is listed once
    /\ pc[Handler] = "wait" => IsInjective(mounts)

ProcInit ==
    /\ parts = {} /\ ours = {} /\ mounts = << >>
    /\ pending = [a \in Actor |-> None]
    /\ queue = [a \in Actor |-> << >>]
    /\ pc = (Main :> "down" @@ Handler :> "wait")
    /\ option = "ro" /\ bound = 0 /\ err = FALSE /\ result = "none"
    /\ late = 0 /\ quiet = FALSE /\ giveUp = FALSE

Init ==
    /\ lsblk \in Layouts
    /\ table = [t \in Target |-> "none"]
    /\ failures = 0 /\ fsckBusy = FALSE
    /\ ProcInit

----------------------------------------------------------------------------
(* The list, a slice header of three words that two goroutines share.      *)

\* A header with the array of one slice and the length of another.
Torn(array, length) ==
    [i \in 1..Len(length) |-> IF i <= Len(array) THEN array[i] ELSE Garbage]

Peer(a) == IF a = Main THEN Handler ELSE Main

\* What may be read, or left behind, while the other goroutine stores.
Racing(a, list) ==
    LET p == pending[Peer(a)]
    IN IF p = None THEN {list} ELSE {list, p, Torn(list, p), Torn(p, list)}

\* Variant: the entry stays in the list.
removeMountByTargetNot(list, t) == list

removeMountByTarget(list, t) == SelectSeq(list, LAMBDA u : u # t)

\* Variant: in the order of the list, mountTarget first.
ReverseSortedForward(list) == list

\* sort.Sort(sort.Reverse(mountsCopy)): what is mounted below comes first.
ReverseSorted(list) == SortSeq(list, >)

\* The computed slice becomes the package variable.
StoreMounts(a) ==
    /\ pending[a] # None
    /\ mounts' \in Racing(a, pending[a])
    /\ pending' = [pending EXCEPT ![a] = None]
    /\ UNCHANGED <<lsblk, table, failures, fsckBusy, parts, ours, queue, pc, option,
                   bound, err, result, late, quiet, giveUp>>

----------------------------------------------------------------------------
(* mount(8), umount(8) and fsck(8), run by runCommand.                     *)

MayFail == failures < MaxFailures /\ failures' = failures + 1
NoFailure == UNCHANGED failures

\* A directory of the other root exists only when that is mounted; the same
\* file system is not mounted twice on one target.
Mountable(t) == IF t = Other THEN table[Other] = "none" ELSE table[Other] # "none"

Umountable(t) ==
    /\ t \in Target /\ table[t] # "none"
    /\ t = Other => \A u \in Target \ {Other} : table[u] = "none"

\* mountAndAddToGlobalMountList when mount succeeds; Main is the only caller.
mountAndAddToGlobalMountList(t, how) ==
    /\ Mountable(t) /\ NoFailure
    /\ table' = [table EXCEPT ![t] = how]
    /\ ours' = ours \union {t}
    /\ \E list \in Racing(Main, mounts) :
          pending' = [pending EXCEPT ![Main] = Append(list, t)]

\* unmountAndRemoveFromGlobalMountList when umount succeeds.
unmountAndRemoveFromGlobalMountList(a, t) ==
    /\ Umountable(t) /\ NoFailure
    /\ table' = [table EXCEPT ![t] = "none"]
    /\ ours' = ours \ {t}
    /\ \E list \in Racing(a, mounts) :
          pending' = [pending EXCEPT ![a] = removeMountByTarget(list, t)]

\* Either of them when the command fails, for its own reasons or by accident.
MountFails(t) == (~Mountable(t) /\ NoFailure) \/ MayFail
UmountFails(t) == (~Umountable(t) /\ NoFailure) \/ MayFail

\* Main takes a step: from one place to the next, with nothing left to store.
Go(from, to) ==
    /\ pc[Main] = from /\ pending[Main] = None
    /\ pc' = [pc EXCEPT ![Main] = to]
    /\ late' = IF from = "idle" /\ pc[Handler] # "wait" THEN late + 1 ELSE late
    /\ quiet' = FALSE
    /\ UNCHANGED <<lsblk, giveUp>>

----------------------------------------------------------------------------
(* The main goroutine.                                                     *)

(* A process starts and calls New.  getPartitionDetails' error is dropped; *)
(* without the list of partitions the system does not count as dual.       *)
New ==
    /\ \/ parts' = loadPartitionDetails(lsblk) /\ NoFailure
       \/ parts' = {} /\ MayFail
    /\ Go("down", IF dualRootPartitions(parts') THEN "new" ELSE "idle")
    /\ UNCHANGED <<table, fsckBusy, ours, mounts, pending, queue, option, bound, err,
                   result>>

ensureOtherMountedRO ==
    /\ Go("new", "idle")
    /\ \/ /\ table[Other] # "none"
          /\ UNCHANGED <<table, ours, pending, failures>>
       \/ /\ table[Other] = "none"
          /\ \/ mountAndAddToGlobalMountList(Other, "ro")
             \/ MountFails(Other) /\ UNCHANGED <<table, ours, pending>>
    /\ UNCHANGED <<fsckBusy, parts, mounts, queue, option, bound, err, result>>

RunWithOther(opt) ==
    /\ late < MaxLate
    /\ option' = opt /\ err' = FALSE /\ bound' = 0
    /\ \/ /\ ~dualRootPartitions(parts)
          /\ Go("idle", "idle") /\ result' = "error"
       \/ /\ dualRootPartitions(parts)
          /\ Go("idle", IF opt = "rw" THEN "umount" ELSE "func") /\ result' = "none"
    /\ UNCHANGED <<table, failures, fsckBusy, parts, ours, mounts, pending, queue>>

\* RunWithOther returns before any deferred function was registered.
ReturnEarly(from) ==
    /\ Go(from, "idle") /\ result' = "error"
    /\ UNCHANGED <<table, ours, pending>>

\* Variant: a mount point that is in use is taken for unmounted.
unmountOtherRootfsUnchecked ==
    /\ \/ Go("umount", "fsck") /\ unmountAndRemoveFromGlobalMountList(Main, Other)
          /\ UNCHANGED result
       \/ Go("umount", "fsck") /\ UmountFails(Other)
          /\ UNCHANGED <<table, ours, pending, result>>
    /\ UNCHANGED <<fsckBusy, parts, mounts, queue, option, bound, err>>

\* remountOther(RW), first command.
unmountOtherRootfs ==
    /\ \/ Go("umount", "fsck") /\ unmountAndRemoveFromGlobalMountList(Main, Other)
          /\ UNCHANGED result
       \/ ReturnEarly("umount") /\ UmountFails(Other)
    /\ UNCHANGED <<fsckBusy, parts, mounts, queue, option, bound, err>>

\* remountOther(RW), second command.
fsck ==
    /\ \/ Go("fsck", "mount") /\ NoFailure /\ UNCHANGED <<table, ours, pending, result>>
       \/ ReturnEarly("fsck") /\ MayFail
    /\ fsckBusy' = (fsckBusy \/ table[Other] # "none")
    /\ UNCHANGED <<parts, mounts, queue, option, bound, err>>

\* remountOther(RW), last command; then RunWithOther defers remountOther(RO).
remountOtherRW ==
    /\ \/ Go("mount", "bind") /\ mountAndAddToGlobalMountList(Other, "rw")
          /\ UNCHANGED result
       \/ ReturnEarly("mount") /\ MountFails(Other)
    /\ UNCHANGED <<fsckBusy, parts, mounts, queue, option, bound, err>>

(* The next of the bind mounts.  When one fails RunWithOther returns, and  *)
(* of the deferred functions only remountOther(RO) is registered.          *)
bindmountRequiredFilesystems ==
    LET required == requiredChrootMounts(parts)
    IN
    /\ \/ /\ Go("bind", IF bound + 1 = Len(required) THEN "func" ELSE "bind")
          /\ mountAndAddToGlobalMountList(required[bound + 1], "rw")
          /\ bound' = bound + 1 /\ UNCHANGED err
       \/ /\ Go("bind", "remount")
          /\ MountFails(required[bound + 1])
          /\ err' = TRUE /\ UNCHANGED <<bound, table, ours, pending>>
    /\ UNCHANGED <<fsckBusy, parts, mounts, queue, option, result>>

(* f(mountTarget) returns, with an error or without.  After RW the         *)
(* deferred unmountRequiredFilesystems copies the list and sorts it.       *)
RunF ==
    /\ err' \in BOOLEAN
    /\ \/ /\ option = "ro" /\ Go("func", "idle")
          /\ result' = IF err' THEN "error" ELSE "ok"
          /\ UNCHANGED queue
       \/ /\ option = "rw" /\ Go("func", "undo")
          /\ \E list \in Racing(Main, mounts) :
                queue' = [queue EXCEPT ![Main] =
                            SelectSeq(ReverseSorted(list), LAMBDA t : t # Other)]
          /\ UNCHANGED result
    /\ UNCHANGED <<table, failures, fsckBusy, parts, ours, mounts, pending, option,
                   bound>>

\* Variant: the error of the deferred function is dropped.
unmountRequiredFilesystemsQuietly ==
    /\ \/ /\ queue[Main] # << >> /\ Go("undo", "undo")
          /\ unmountAndRemoveFromGlobalMountList(Main, Head(queue[Main]))
          /\ queue' = [queue EXCEPT ![Main] = Tail(@)]
       \/ /\ queue[Main] # << >> /\ Go("undo", "remount")
          /\ UmountFails(Head(queue[Main])) /\ UNCHANGED <<queue, table, ours, pending>>
       \/ /\ queue[Main] = << >> /\ Go("undo", "remount")
          /\ NoFailure /\ UNCHANGED <<queue, table, ours, pending>>
    /\ UNCHANGED <<fsckBusy, parts, mounts, option, bound, err, result>>

\* The deferred undoMounts(true), one umount at a time, until one fails.
unmountRequiredFilesystems ==
    /\ \/ /\ queue[Main] # << >> /\ Go("undo", "undo")
          /\ unmountAndRemoveFromGlobalMountList(Main, Head(queue[Main]))
          /\ queue' = [queue EXCEPT ![Main] = Tail(@)] /\ UNCHANGED err
       \/ /\ queue[Main] # << >> /\ Go("undo", "remount")
          /\ UmountFails(Head(queue[Main])) /\ err' = TRUE
          /\ UNCHANGED <<queue, table, ours, pending>>
       \/ /\ queue[Main] = << >> /\ Go("undo", "remount")
          /\ NoFailure /\ UNCHANGED <<queue, err, table, ours, pending>>
    /\ UNCHANGED <<fsckBusy, parts, mounts, option, bound, result>>

\* The deferred remountOther(RO), the last thing before RunWithOther returns.
remountOtherRO ==
    /\ Go("remount", "idle")
    /\ \/ /\ table[Other] # "none" /\ NoFailure
          /\ table' = [table EXCEPT ![Other] = "ro"] /\ UNCHANGED err
       \/ ((table[Other] = "none" /\ NoFailure) \/ MayFail) /\ err' = TRUE /\ UNCHANGED table
    /\ result' = IF err' THEN "error" ELSE "ok"
    /\ UNCHANGED <<fsckBusy, parts, ours, mounts, pending, queue, option, bound>>

----------------------------------------------------------------------------
(* The signal goroutine and the end of the process.                        *)

\* signalHandler: undoMounts(false) copies the list and sorts it.
Signal ==
    /\ pc[Main] # "down" /\ pc[Handler] = "wait"
    /\ pc' = [pc EXCEPT ![Handler] = "undo"]
    /\ quiet' = (pc[Main] = "idle" /\ pending[Main] = None)
    /\ \E list \in Racing(Handler, mounts) :
          queue' = [queue EXCEPT ![Handler] = ReverseSorted(list)]
    /\ UNCHANGED <<lsblk, table, failures, fsckBusy, parts, ours, mounts, pending,
                   option, bound, err, result, late, giveUp>>

\* Variant: an umount that fails is tried again.
signalHandlerRetry ==
    /\ pc[Handler] = "undo" /\ pending[Handler] = None
    /\ \/ /\ queue[Handler] # << >>
          /\ unmountAndRemoveFromGlobalMountList(Handler, Head(queue[Handler]))
          /\ queue' = [queue EXCEPT ![Handler] = Tail(@)] /\ UNCHANGED <<pc, giveUp>>
       \/ /\ queue[Handler] # << >> /\ UmountFails(Head(queue[Handler]))
          /\ giveUp' = (giveUp \/ failures' # failures)
          /\ UNCHANGED <<pc, queue, table, ours, pending>>
       \/ /\ queue[Handler] = << >> /\ pc' = [pc EXCEPT ![Handler] = "exit"]
          /\ NoFailure /\ UNCHANGED <<queue, table, ours, pending, giveUp>>
    /\ UNCHANGED <<lsblk, fsckBusy, parts, mounts, option, bound, err, result, late,
                   quiet>>

\* undoMounts(false) in the handler: it ends at the first umount that fails.
signalHandler ==
    /\ pc[Handler] = "undo" /\ pending[Handler] = None
    /\ \/ /\ queue[Handler] # << >>
          /\ unmountAndRemoveFromGlobalMountList(Handler, Head(queue[Handler]))
          /\ queue' = [queue EXCEPT ![Handler] = Tail(@)] /\ UNCHANGED <<pc, giveUp>>
       \/ /\ queue[Handler] # << >> /\ UmountFails(Head(queue[Handler]))
          /\ pc' = [pc EXCEPT ![Handler] = "exit"]
          /\ giveUp' = (failures' # failures)
          /\ UNCHANGED <<queue, table, ours, pending>>
       \/ /\ queue[Handler] = << >> /\ pc' = [pc EXCEPT ![Handler] = "exit"]
          /\ NoFailure /\ UNCHANGED <<queue, table, ours, pending, giveUp>>
    /\ UNCHANGED <<lsblk, fsckBusy, parts, mounts, option, bound, err, result, late,
                   quiet>>

\* The process is gone, and with it everything but the kernel's table.
End ==
    /\ parts' = {} /\ ours' = {} /\ mounts' = << >>
    /\ pending' = [a \in Actor |-> None] /\ queue' = [a \in Actor |-> << >>]
    /\ pc' = (Main :> "down" @@ Handler :> "wait")
    /\ option' = "ro" /\ bound' = 0 /\ err' = FALSE /\ result' = "none"
    /\ late' = 0 /\ quiet' = FALSE /\ giveUp' = FALSE
    /\ UNCHANGED <<lsblk, table, failures, fsckBusy>>

\* os.Exit(1) of the signal goroutine.
Exit == pc[Handler] = "exit" /\ pending[Handler] = None /\ End

\* main returns, or the process is killed.
Die == pc[Main] # "down" /\ End

Reboot ==
    /\ pc[Main] = "down"
    /\ table' = [t \in Target |-> "none"]
    /\ UNCHANGED <<lsblk, failures, fsckBusy, proc>>

MainNext ==
    \/ New \/ ensureOtherMountedRO
    \/ \E opt \in {"ro", "rw"} : RunWithOther(opt)
    \/ unmountOtherRootfs \/ fsck \/ remountOtherRW \/ bindmountRequiredFilesystems
    \/ RunF \/ unmountRequiredFilesystems \/ remountOtherRO
    \/ StoreMounts(Main)

HandlerNext == signalHandler \/ StoreMounts(Handler) \/ Exit

Next == MainNext \/ HandlerNext \/ Signal \/ Die \/ Reboot

----------------------------------------------------------------------------
(* remountOther unmounts the other root before it checks it: fsck never    *)
(* runs on a mounted device, whatever an earlier process, a failed command *)
(* or a signal left behind.                                                *)
FsckUnmounted == ~fsckBusy

(* SuccessIsClean: when RunWithOther(RW) returns nil and no signal came,   *)
(* every bind mount is gone, those of earlier calls and processes          *)
(* included, and the other root is mounted as New left it, read-only: the  *)
(* deferred functions report what they could not undo.  The code and its   *)
(* test agree on this (partition_test.go:194, "other" should still be      *)
(* mounted); the comment at partition.go:261-262 says that RunWithOther    *)
(* unmounts "other" before returning, which no path of it does.            *)
SuccessIsClean ==
    (pc[Main] = "idle" /\ pc[Handler] = "wait" /\ option = "rw" /\ result = "ok") =>
        table = [t \in Target |-> IF t = Other THEN "ro" ELSE "none"]

(* A signal that finds the main goroutine at rest undoes all that the      *)
(* process mounted, in an order in which no umount is refused, also what a *)
(* failed bindmountRequiredFilesystems left.                               *)
InterruptIsClean == (pc[Handler] = "exit" /\ quiet /\ ~giveUp) => ours = {}

(* An interrupted process ends, even when the main goroutine mounts again  *)
(* what the handler unmounts.                                              *)
SignalEndsProcess == (pc[Handler] = "undo") ~> (pc[Main] = "down")
=============================================================================
