--------------------------- MODULE SnapLifecycle ---------------------------
(***************************************************************************)
(* One snap package on a device: SnapPart.Install, activate, deactivate    *)
(* and Uninstall (snappy/snapp.go), the helpers they call                  *)
(* (snappy/click.go, policy/policy.go, systemd/systemd.go), and the        *)
(* commands that call them: install and update with their garbage          *)
(* collection, activate, deactivate, rollback, remove and purge.           *)
(*                                                                         *)
(* Everything a command changes is on disk or in systemd, one call after   *)
(* the other.  A call may return an error, upon which the deferred         *)
(* functions of Install run, and power may be cut between any two calls.   *)
(* The commands run one at a time, under the lock of withMutexAndRetry.    *)
(***************************************************************************)
EXTENDS Integers, SequencesExt

CONSTANTS MaxVersion,  \* versions of the snap
          MaxFaults,   \* failing calls and power cuts in a behaviour
          Services     \* the services of a snap that needs this framework

ASSUME SnapLifecycleAssumption ==
    /\ MaxVersion \in Nat \ {0}
    /\ MaxFaults \in Nat
    /\ IsFiniteSet(Services)

Version == 1..MaxVersion
None == 0

VARIABLES
    kind,      \* packageYaml.Type: "app" or "framework"
    disk,      \* what the snap has on the device, see Disk
    users,     \* "none", or "active": a snap that lists this framework
    stopped,   \* the services of that snap that Install has stopped
    todo,      \* the calls that the command still has to make
    deferred,  \* the deferred functions of the Install under way
    op,        \* the last command
    target,    \* the version it installs
    oldPart,   \* the version that was active when it started
    fault,     \* the call of this command that returned an error, or "none"
    failures,  \* failing calls so far
    cuts,      \* power cuts in the middle of a command so far
    unrefreshed \* history: RefreshDependentsSecurity failed once

control == <<todo, deferred, op, target, oldPart, fault>>
vars == <<kind, disk, users, stopped, control, failures, cuts, unrefreshed>>

(* The package directory of a version is "partial" when its package.yaml   *)
(* is there and its hashes.yaml is not.  Hooks, seccomp profiles and units *)
(* have the version in their name (generateServiceFileName), so that those *)
(* of several versions may be there; the wrappers of binaries have not.    *)
Disk == [pkgdir : [Version -> {"none", "partial", "whole"}],
         current : Version \union {None},    \* the symlink, may dangle
         data : SUBSET Version,              \* the data directories
         policy : Version \union {None},     \* the framework's policy files
         hooks : SUBSET Version,             \* click hook symlinks
         seccomp : SUBSET Version,           \* seccomp profiles
         binaries : Version \union {None},   \* the wrappers in /apps/bin
         units : SUBSET Version,             \* systemd unit files
         enabled : SUBSET Version,           \* their .wants symlinks
         running : SUBSET Version]           \* the versions whose process runs

Calls == {"unpack", "hashes", "copy_data", "dependents", "stop_dep",
          "refresh", "start_dep", "gc", "remove", "rm_dir", "rm_data",
          "activate", "policy", "hooks", "seccomp", "binaries", "unit", "enable",
          "start", "link", "link_data",
          "deactivate", "rm_binaries", "disable", "stop", "rm_unit", "rm_seccomp",
          "rm_policy", "rm_hooks", "unlink"}

Step == [do : Calls, v : Version \union Services]

TypeOK ==
    /\ kind \in {"app", "framework"}
    /\ disk \in Disk
    /\ users \in {"none", "active"}
    /\ stopped \subseteq Services
    /\ \A i \in DOMAIN todo : todo[i] # <<>> /\ Range(todo[i]) \subseteq Step
    /\ op \in {"none", "install", "gc", "activate", "remove", "purge"}
    /\ {target, oldPart} \subseteq Version \union {None}
    /\ fault \in Calls \union {"none"}
    /\ {failures, cuts, failures + cuts} \subseteq 0..MaxFaults
    /\ unrefreshed \in BOOLEAN

Init ==
    /\ kind \in {"app", "framework"}
    /\ disk = [pkgdir |-> [v \in Version |-> "none"], current |-> None, data |-> {},
               policy |-> None, hooks |-> {}, seccomp |-> {}, binaries |-> None,
               units |-> {}, enabled |-> {}, running |-> {}]
    /\ users = "none" /\ stopped = {}
    /\ todo = <<>> /\ deferred = <<>>
    /\ op = "none" /\ target = None /\ oldPart = None
    /\ fault = "none" /\ failures = 0 /\ cuts = 0 /\ unrefreshed = FALSE

Installed == {v \in Version : disk.pkgdir[v] # "none"}

\* The part that the current symlink resolves to.
Active == IF disk.current \in Installed THEN disk.current ELSE None

\* SnapLocalRepository.Installed fails when one part does not load.
Readable == \A v \in Version : disk.pkgdir[v] # "partial"

----------------------------------------------------------------------------
(* How a command goes on.  todo lists the calls in progress, each one with *)
(* the steps left in it; an error ends the call it happens in.             *)

Call(do, v) == [do |-> do, v |-> v]

Each(dos, v) == [i \in DOMAIN dos |-> Call(dos[i], v)]

ForEach(do, q) == [i \in DOMAIN q |-> Call(do, q[i])]

Sorted(versions) == SetToSortSeq(versions, LAMBDA v, w : v < w)

\* One call per element, so that an error in one leaves the others alone.
Apart(steps) == [i \in DOMAIN steps |-> <<steps[i]>>]

Doing(do, v) == todo # <<>> /\ Head(Head(todo)) = Call(do, v)

(* The step succeeds: steps come next, and Install has deferred what is in *)
(* push.                                                                   *)
Succeed(steps, push) ==
    /\ todo' = SelectSeq(<<steps \o Tail(Head(todo))>> \o Tail(todo), LAMBDA c : c # <<>>)
    /\ deferred' = IF todo' = <<>> THEN <<>> ELSE push \o deferred
    /\ UNCHANGED <<op, target, oldPart, fault, failures>>

(* The step returns an error, and so does the command after its deferred   *)
(* functions.  An error in one of those, or in a purge, is only logged.    *)
Return(funcs) ==
    /\ todo' = IF fault = "none" /\ op # "purge" THEN Apart(funcs) ELSE Tail(todo)
    /\ deferred' = <<>>
    /\ fault' = IF fault = "none" THEN Head(Head(todo)).do ELSE fault
    /\ UNCHANGED <<op, target, oldPart>>

Fail(funcs) ==
    /\ failures + cuts < MaxFaults
    /\ failures' = failures + 1
    /\ Return(funcs)

\* A step that turns disk into done, or fails with the disk one of left.
Try(done, left) ==
    \/ disk' = done /\ Succeed(<<>>, <<>>)
    \/ disk' \in left /\ Fail(deferred)

Refuse == Return(deferred) /\ UNCHANGED <<disk, failures>>

----------------------------------------------------------------------------
(* SnapPart.activate.                                                      *)

ActivateCalls ==
    (IF kind = "framework" THEN <<"policy">> ELSE <<>>)
        \o <<"hooks", "seccomp", "binaries", "unit", "enable", "start", "link", "link_data">>

\* Variant: what is active stays so.
ActivateBeside(v) ==
    /\ Doing("activate", v)
    /\ Succeed(IF Active = v THEN <<>> ELSE Each(ActivateCalls, v), <<>>)
    /\ UNCHANGED disk

\* A version that is active already is left as it is, whatever its state.
Activate(v) ==
    /\ Doing("activate", v)
    /\ IF Active = v
         THEN Succeed(<<>>, <<>>)
         ELSE Succeed((IF Active = None THEN <<>> ELSE <<Call("deactivate", Active)>>)
                          \o Each(ActivateCalls, v), <<>>)
    /\ UNCHANGED disk

\* policy.Install copies without CopyFlagOverwrite: an existing file is an error.
PolicyInstall(v) ==
    /\ Doing("policy", v)
    /\ IF disk.policy # None
         THEN Refuse
         ELSE LET done == [disk EXCEPT !.policy = v] IN Try(done, {disk, done})

\* A failed hook is removed again, by iterHooks or by activate.
InstallClickHooks(v) ==
    /\ Doing("hooks", v)
    /\ Try([disk EXCEPT !.hooks = @ \union {v}], {[disk EXCEPT !.hooks = @ \ {v}]})

AddSecurityPolicy(v) ==
    /\ Doing("seccomp", v)
    /\ LET done == [disk EXCEPT !.seccomp = @ \union {v}] IN Try(done, {disk, done})

AddPackageBinaries(v) ==
    /\ Doing("binaries", v)
    /\ LET done == [disk EXCEPT !.binaries = v] IN Try(done, {disk, done})

\* addPackageServices: write the unit file and reload, enable, start.
WriteServiceFile(v) ==
    /\ Doing("unit", v)
    /\ LET done == [disk EXCEPT !.units = @ \union {v}] IN Try(done, {disk, done})

EnableService(v) ==
    /\ Doing("enable", v)
    /\ LET done == [disk EXCEPT !.enabled = @ \union {v}] IN Try(done, {disk, done})

StartService(v) ==
    /\ Doing("start", v)
    /\ LET done == [disk EXCEPT !.running = @ \union {v}] IN Try(done, {disk, done})

LinkCurrent(v) ==
    /\ Doing("link", v)
    /\ Try([disk EXCEPT !.current = v], {[disk EXCEPT !.current = None]})

LinkCurrentData(v) ==
    /\ Doing("link_data", v)
    /\ LET done == [disk EXCEPT !.data = @ \union {v}] IN Try(done, {disk, done})

----------------------------------------------------------------------------
(* SnapPart.deactivate.                                                    *)

DeactivateCalls ==
    <<"rm_binaries", "disable", "stop", "rm_unit", "rm_seccomp">>
        \o (IF kind = "framework" THEN <<"rm_policy">> ELSE <<>>)
        \o <<"rm_hooks", "unlink">>

\* ErrSnapNotActive unless v is the active version.
Deactivate(v) ==
    /\ Doing("deactivate", v)
    /\ IF Active = v
         THEN Succeed(Each(DeactivateCalls, v), <<>>) /\ UNCHANGED disk
         ELSE Refuse

RemovePackageBinaries(v) ==
    /\ Doing("rm_binaries", v)
    /\ disk' = [disk EXCEPT !.binaries = None]
    /\ Succeed(<<>>, <<>>)

\* removePackageServices: disable, stop or else kill, remove the files, reload.
DisableService(v) ==
    /\ Doing("disable", v)
    /\ Try([disk EXCEPT !.enabled = @ \ {v}], {disk})

StopService(v) ==
    /\ Doing("stop", v)
    /\ Try([disk EXCEPT !.running = @ \ {v}], {disk})

RemoveServiceFile(v) ==
    /\ Doing("rm_unit", v)
    /\ LET done == [disk EXCEPT !.units = @ \ {v}] IN Try(done, {done})

RemoveSecurityPolicy(v) ==
    /\ Doing("rm_seccomp", v)
    /\ LET done == [disk EXCEPT !.seccomp = @ \ {v}] IN Try(done, {disk, done})

\* policy.Remove: a file that is not there is an error.
PolicyRemove(v) ==
    /\ Doing("rm_policy", v)
    /\ IF disk.policy = None
         THEN Refuse
         ELSE LET done == [disk EXCEPT !.policy = None] IN Try(done, {disk, done})

RemoveClickHooks(v) ==
    /\ Doing("rm_hooks", v)
    /\ LET done == [disk EXCEPT !.hooks = @ \ {v}] IN Try(done, {disk, done})

UnlinkCurrent(v) ==
    /\ Doing("unlink", v)
    /\ disk' = [disk EXCEPT !.current = None]
    /\ Succeed(<<>>, <<>>)

----------------------------------------------------------------------------
(* SnapPart.Install.                                                       *)

Unpacked(v) == [disk EXCEPT !.pkgdir[v] = IF @ = "whole" THEN @ ELSE "partial"]

UnpackWithDropPrivs(v) ==
    /\ Doing("unpack", v)
    /\ \/ disk' = Unpacked(v) /\ Succeed(<<>>, <<Call("rm_dir", v)>>)
       \/ disk' \in {disk, Unpacked(v)} /\ Fail(<<Call("rm_dir", v)>>)

\* Variant: the old version stays inactive when the new one is not installed.
ReactivateOldNot == <<>>

\* The function that makes the old version active again, if there is one.
ReactivateOld == IF oldPart = None THEN <<>> ELSE <<Call("activate", oldPart)>>

\* The compat manifest and hashes.yaml; the old version is deactivated next.
ExtractHashes(v) ==
    /\ Doing("hashes", v)
    /\ \/ /\ disk' = [disk EXCEPT !.pkgdir[v] = "whole"]
          /\ Succeed(<<>>, ReactivateOld)
       \/ disk' = disk /\ Fail(deferred)

(* copySnapData, or an empty directory for a first install; the new        *)
(* version is activated next.                                              *)
PrepareData(v) ==
    LET rmData == <<Call("rm_data", v)>>
        done == [disk EXCEPT !.data = IF oldPart \in @ \union {None} THEN @ \union {v} ELSE @]
    IN  /\ Doing("copy_data", v)
        /\ \/ disk' = done /\ Succeed(<<>>, ReactivateOld \o rmData)
           \/ disk' \in {disk, done} /\ Fail(rmData \o deferred)

RemoveDir(v) ==
    /\ Doing("rm_dir", v)
    /\ Try([disk EXCEPT !.pkgdir[v] = "none"],
           {disk, [disk EXCEPT !.pkgdir[v] = IF @ = "none" THEN @ ELSE "partial"]})

RemoveSnapData(v) ==
    /\ Doing("rm_data", v)
    /\ Try([disk EXCEPT !.data = @ \ {v}], {disk})

(* The services of the snaps that need this framework are stopped while    *)
(* their security profiles are refreshed; every snap refreshes.            *)
Dependents(v) ==
    LET svcs == IF kind = "framework" /\ users = "active" THEN Services ELSE {}
    IN  /\ Doing("dependents", v)
        /\ \/ Succeed(ForEach("stop_dep", SetToSeq(svcs)) \o <<Call("refresh", v)>>
                          \o ForEach("start_dep", SetToSeq(svcs)), <<>>)
           \/ Fail(deferred)
        /\ UNCHANGED <<disk, stopped, unrefreshed>>

\* Variant: services that were stopped stay so when another one does not stop.
RestartStoppedNot == <<>>

\* The deferred function that starts again what was stopped.
RestartStopped == ForEach("start_dep", SetToSeq(stopped))

StopDependent(d) ==
    /\ Doing("stop_dep", d)
    /\ \/ stopped' = stopped \union {d} /\ Succeed(<<>>, <<>>)
       \/ UNCHANGED stopped /\ Fail(RestartStopped \o deferred)
    /\ UNCHANGED <<disk, unrefreshed>>

(* RefreshDependentsSecurity.  Its error is in a variable of its own, which *)
(* the function that restarts the services does not see.                   *)
RefreshDependentsSecurity(v) ==
    /\ Doing("refresh", v)
    /\ \/ Succeed(<<>>, <<>>) /\ UNCHANGED unrefreshed
       \/ Fail(deferred) /\ unrefreshed' = TRUE
    /\ UNCHANGED <<disk, stopped>>

\* When one does not start, those that did are stopped and all are started.
StartDependent(d) ==
    /\ Doing("start_dep", d)
    /\ \/ stopped' = stopped \ {d} /\ Succeed(<<>>, <<>>)
       \/ /\ UNCHANGED stopped
          /\ Fail(ForEach("stop_dep", SetToSeq(Services \ stopped)) \o ForEach("start_dep", SetToSeq(Services))
                      \o deferred)
    /\ UNCHANGED <<disk, unrefreshed>>

----------------------------------------------------------------------------
(* Uninstall and GarbageCollect.                                           *)

\* Variant: the package directory goes first.
UninstallDirFirst(v) ==
    /\ Doing("remove", v)
    /\ UNCHANGED disk
    /\ Succeed(<<Call("rm_hooks", v), Call("rm_dir", v)>>
                   \o (IF Active = v THEN <<Call("deactivate", v)>> ELSE <<>>), <<>>)

\* ErrFrameworkInUse when an installed snap lists the framework.
Uninstall(v) ==
    /\ Doing("remove", v)
    /\ IF kind = "framework" /\ users = "active"
         THEN Refuse
         ELSE /\ UNCHANGED disk
              /\ Succeed(<<Call("rm_hooks", v)>>
                             \o (IF Active = v THEN <<Call("deactivate", v)>> ELSE <<>>)
                             \o <<Call("rm_dir", v)>>, <<>>)

Older == {v \in Installed : v < Active}

\* Variant: parts[:active].
CollectableAll == Older

\* parts[:active-1]: all the older versions but the newest of them.
Collectable == {v \in Older : \E w \in Older : v < w}

\* Install has returned; an error from here on undoes nothing.
GarbageCollect(v) ==
    /\ Doing("gc", v)
    /\ todo' = IF Collectable = {} THEN <<>> ELSE <<ForEach("remove", Sorted(Collectable))>>
    /\ deferred' = <<>>
    /\ op' = "gc"
    /\ UNCHANGED <<disk, target, oldPart, fault, failures>>

----------------------------------------------------------------------------
(* The commands.                                                           *)

Start(name, v, calls) ==
    /\ todo = <<>>
    /\ todo' = SelectSeq(calls, LAMBDA c : c # <<>>)
    /\ deferred' = <<>>
    /\ op' = name
    /\ target' = v
    /\ oldPart' = Active
    /\ fault' = "none"
    /\ UNCHANGED <<disk, failures>>

(* install takes a version that is not installed, update any version but   *)
(* the active one: the one it finds in the store may be installed already, *)
(* after a rollback.                                                       *)
Install(v, gc) ==
    /\ Readable
    /\ v # Active
    /\ v \notin Installed \/ Active # None
    /\ Start("install", v,
           <<Each(<<"unpack", "hashes">>, v)
             \o (IF Active = None THEN <<>> ELSE <<Call("deactivate", Active)>>)
             \o Each(<<"copy_data", "activate", "dependents">>, v)
             \o (IF gc THEN <<Call("gc", v)>> ELSE <<>>)>>)

Newest == CHOOSE v \in Installed : \A w \in Installed : w <= v

\* snappy activate and deactivate pick the active part, or else the newest.
SetActive(active) ==
    LET part == IF Active = None THEN Newest ELSE Active
    IN  /\ Readable /\ Installed # {}
        /\ Start("activate", None, <<<<Call(IF active THEN "activate" ELSE "deactivate", part)>>>>)

Rollback(v) ==
    /\ Readable
    /\ v \in Installed
    /\ Start("activate", None, <<<<Call("activate", v)>>>>)

\* One version, or without one the active version or all of them.
RemoveParts(versions) ==
    /\ Readable
    /\ versions # {} /\ versions \subseteq Installed
    /\ Start("remove", None, <<ForEach("remove", Sorted(versions))>>)

\* Every step is tried, whatever became of the others; a part that does not
\* load does not count as active.
Purge(versions) ==
    LET active == IF Active \in versions /\ disk.pkgdir[Active] = "whole" THEN <<Active>> ELSE <<>>
    IN  /\ versions # {} /\ versions \subseteq disk.data
        /\ Start("purge", None,
               [i \in DOMAIN active |-> <<Call("deactivate", active[i])>>]
               \o Apart(ForEach("rm_data", Sorted(versions)))
               \o [i \in DOMAIN active |-> <<Call("activate", active[i])>>])

\* One at a time, see Start.
Command ==
    /\ todo = <<>>
    /\ \/ \E v \in Version, gc \in BOOLEAN : Install(v, gc)
       \/ \E active \in BOOLEAN : SetActive(active)
       \/ \E v \in Version : Rollback(v)
       \/ \E S \in {{v} : v \in Version} \union {Installed} : RemoveParts(S)
       \/ \E S \in {{v} : v \in Version} \union {disk.data} : Purge(S)

----------------------------------------------------------------------------
(* The environment.                                                        *)

\* A snap that needs the framework is installed (checkForFrameworks), or removed.
UserSnap ==
    /\ todo = <<>>
    /\ kind = "framework"
    /\ Readable
    /\ \/ users = "none" /\ Active # None /\ users' = "active"
       \/ users = "active" /\ users' = "none"
    /\ stopped' = {}
    /\ UNCHANGED <<kind, disk, control, failures, cuts, unrefreshed>>

\* systemd starts the enabled units whose files are there.
Booted(d) ==
    [d EXCEPT !.running = {v \in d.enabled \intersect d.units : d.pkgdir[v] # "none"}]

\* A command does not survive, nor does what it would have returned.
NoCommand ==
    /\ todo' = <<>> /\ deferred' = <<>>
    /\ op' = "none" /\ target' = None /\ oldPart' = None /\ fault' = "none"

Reboot ==
    /\ todo = <<>>
    /\ disk' = Booted(disk)
    /\ stopped' = {}
    /\ NoCommand
    /\ UNCHANGED <<kind, users, failures, cuts, unrefreshed>>

\* What is left of a RemoveAll that was interrupted is anything.
PowerCut ==
    /\ todo # <<>>
    /\ failures + cuts < MaxFaults
    /\ cuts' = cuts + 1
    /\ \/ disk' = Booted(disk)
       \/ \E v \in Version :
             /\ Doing("rm_dir", v) /\ disk.pkgdir[v] = "whole"
             /\ disk' = Booted([disk EXCEPT !.pkgdir[v] = "partial"])
    /\ stopped' = {}
    /\ NoCommand
    /\ UNCHANGED <<kind, users, failures, unrefreshed>>

----------------------------------------------------------------------------
SnapStep(v) ==
    \/ Activate(v) \/ PolicyInstall(v) \/ InstallClickHooks(v) \/ AddSecurityPolicy(v)
    \/ AddPackageBinaries(v) \/ WriteServiceFile(v) \/ EnableService(v) \/ StartService(v)
    \/ LinkCurrent(v) \/ LinkCurrentData(v)
    \/ Deactivate(v) \/ RemovePackageBinaries(v) \/ DisableService(v) \/ StopService(v)
    \/ RemoveServiceFile(v) \/ RemoveSecurityPolicy(v) \/ PolicyRemove(v)
    \/ RemoveClickHooks(v) \/ UnlinkCurrent(v)
    \/ UnpackWithDropPrivs(v) \/ ExtractHashes(v) \/ PrepareData(v)
    \/ RemoveDir(v) \/ RemoveSnapData(v) \/ Uninstall(v) \/ GarbageCollect(v)

DependentStep(d) ==
    \/ d \in Version /\ (Dependents(d) \/ RefreshDependentsSecurity(d))
    \/ d \in Services /\ (StopDependent(d) \/ StartDependent(d))

\* The next call, for the version or the service it is about.
Proceed ==
    /\ todo # <<>>
    /\ LET v == Head(Head(todo)).v IN
       \/ v \in Version /\ SnapStep(v) /\ UNCHANGED <<kind, users, stopped, cuts, unrefreshed>>
       \/ DependentStep(v) /\ UNCHANGED <<kind, users, cuts>>

Next ==
    \/ Command /\ UNCHANGED <<kind, users, stopped, cuts, unrefreshed>>
    \/ Proceed \/ UserSnap \/ Reboot \/ PowerCut

Spec == Init /\ [][Next]_vars

----------------------------------------------------------------------------
idle == todo = <<>>

\* All that activate sets up is there for v and for no other version.
IntegratedAs(v) ==
    /\ disk.current = v /\ disk.binaries = v
    /\ \A versions \in {disk.hooks, disk.seccomp, disk.units, disk.enabled, disk.running} :
          versions = {v} \ {None}
    /\ disk.policy = IF kind = "framework" THEN v ELSE None
    /\ v # None => disk.pkgdir[v] = "whole" /\ v \in disk.data

(* CommandsLeaveItWhole: as long as no call failed and power stayed on,    *)
(* any sequence of install, update, activate, deactivate, rollback, remove *)
(* and purge, with their garbage collection, ends each time with exactly   *)
(* one version integrated into the system, the one that current names, or  *)
(* with none.                                                              *)
CommandsLeaveItWhole == idle /\ failures + cuts = 0 => IntegratedAs(disk.current) /\ Readable

(* FailedInstallRestoresOld: when one call of Install fails after the old  *)
(* version was deactivated, its deferred functions put the old version     *)
(* back as it was, data included, and remove the new one ("if anything     *)
(* goes wrong here we cleanup", snapp.go:824).  Two things they do not:    *)
(* policy.Install refuses to overwrite the policy files that the failed    *)
(* activation of a framework left, and the unit of the new version stays,  *)
(* maybe enabled and running, when activate failed after writing it and    *)
(* before it linked current, by which deactivate goes.                     *)
FailedInstallRestoresOld ==
    /\ idle /\ op = "install" /\ kind = "app" /\ failures = 1 /\ cuts = 0
    /\ fault \notin Range(DeactivateCalls) \union {"none"}
    /\ oldPart # None
    => /\ disk.current = oldPart /\ disk.binaries = oldPart
       /\ \A versions \in {disk.hooks, disk.seccomp, disk.data, disk.units, disk.enabled,
                           disk.running} : oldPart \in versions
       /\ disk.pkgdir[oldPart] = "whole" /\ disk.pkgdir[target] = "none"
       /\ fault \in {"unit", "enable", "start", "link"}
          \/ disk.units \union disk.enabled \union disk.running = {oldPart}

(* ActiveIsWhole: power may be cut at any point of any command, the        *)
(* version that current resolves to is completely unpacked all the same:   *)
(* activate links it last and remove unlinks it first.  (A failed first    *)
(* Install can leave current dangling, and the next one unpacks under it.) *)
ActiveIsWhole == failures = 0 /\ Active # None => disk.pkgdir[Active] = "whole"

(* DependentsRunAgain: whether the upgrade of a framework succeeded or one *)
(* of its calls failed, the services that Install stopped run again at the *)
(* end -- unless the call that failed was RefreshDependentsSecurity.       *)
DependentsRunAgain == idle /\ failures <= 1 /\ ~unrefreshed => stopped = {}

(* OneOldVersionKept: when GarbageCollect has succeeded, the version that  *)
(* was just activated and exactly one older version, if there was any, are *)
(* left of those up to it.                                                 *)
OneOldVersionKept ==
    idle /\ op = "gc" /\ fault = "none" =>
        /\ Active = target
        /\ Cardinality(Older) <= 1
        /\ oldPart # None /\ oldPart < target => Older # {}

(* KnownGoodKept: after an update the version that was active before it is *)
(* still installed, to go back to.                                         *)
KnownGoodKept ==
    idle /\ op = "gc" /\ fault = "none" /\ oldPart # None => oldPart \in Installed

(* InstalledLoads: whatever an interrupted command leaves in a package     *)
(* directory, the list of the installed parts can be read.                 *)
InstalledLoads == idle => Readable
=============================================================================
