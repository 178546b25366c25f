---------------------------- MODULE SystemUpdate ----------------------------
(***************************************************************************)
(* The life of a dual-rootfs device: the boot loader picks a rootfs, the   *)
(* system comes up or does not, "snappy booted" confirms it, "snappy       *)
(* update" syncs the boot files, applies a new image to the other rootfs,  *)
(* checks it, installs its kernel and points the boot loader at it, and    *)
(* "snappy activate / deactivate / rollback ubuntu-core" move the pointer. *)
(*                                                                         *)
(* Power may be cut, and a step may fail, between any two writes that      *)
(* survive a reboot, so an operation is one action per such write.  The    *)
(* commands run one at a time, under the lock of withMutexAndRetry.        *)
(***************************************************************************)
EXTENDS BootLoader, Sequences

CONSTANTS MaxVersion,  \* images the server publishes
          MaxKernel,   \* different kernels among them
          MaxFaults    \* power cuts and failing steps in a behaviour

ASSUME SystemUpdateAssumption ==
    /\ MaxVersion \in Nat \ {0}
    /\ MaxKernel \in Nat \ {0}
    /\ MaxFaults \in Nat

NoRootfs == "none"   \* running: the device is off or in the boot loader
Empty == 0           \* image: the rootfs was never provisioned
NoKernel == 0        \* kernel: no kernel, or a half-copied one
NoSpec == -1         \* cache: no hardware.yaml

VARIABLES
    store,    \* the published images, version v at index v
    image,    \* the version in each rootfs' channel.ini
    torn,     \* the rootfs whose files the upgrader is in the middle of changing
    kernel,   \* the kernel in the boot directory of each rootfs
    cache,    \* NoSpec, or hardware.yaml with NoKernel or a kernel beside it
    running,  \* the rootfs mounted on /, or NoRootfs
    booted,   \* "snappy booted" of this boot: "no", "failed" or "yes"
    pc,       \* the next write of the command that holds the lock
    op,       \* the last command, "none" when it failed or the power was cut
    target,   \* the version that the update part stands for (s.version)
    faults,   \* faults so far
    early,    \* history: a command ran before "snappy booted" of its boot
    lost      \* history: a download replaced a kernel that was still cached

diskVars == <<image, torn, kernel, cache>>
procVars == <<pc, op, target>>
histVars == <<faults, early, lost>>
vars == <<envVars, diskVars, procVars, histVars, store, running, booted>>

MarkPCs == {"mark_ab", "mark_mode"}
WritePCs == {"sync", "sync_copy", "download", "apply", "verify",
             "assets", "assets_copy", "assets_clean", "assets_spec",
             "toggle_1", "toggle_2"}
PCs == {"idle"} \union MarkPCs \union WritePCs
Ops == {"none", "booted", "update", "activate_current", "activate_other", "deactivate"}

Image == [works : BOOLEAN, kernel : 1..MaxKernel]

DiskTypeOK ==
    /\ store \in Seq(Image)
    /\ Len(store) \in 1..MaxVersion
    /\ image \in [Rootfs -> 0..Len(store)]
    /\ torn \subseteq Rootfs
    /\ kernel \in [Rootfs -> 0..MaxKernel]
    /\ cache \in -1..MaxKernel

ControlTypeOK ==
    /\ running \in Rootfs \union {NoRootfs}
    /\ booted \in {"no", "failed", "yes"}
    /\ pc \in PCs
    /\ op \in Ops
    /\ target \in 0..MaxVersion
    /\ faults \in 0..MaxFaults
    /\ early \in BOOLEAN
    /\ lost \in BOOLEAN

TypeOK == EnvTypeOK /\ DiskTypeOK /\ ControlTypeOK

other == Other(running)

(* A rootfs that reaches multi-user.target when it is booted: its image is *)
(* a working one, whole, and it is booted with the kernel built for it.    *)
Bootable(r) ==
    /\ image[r] # Empty
    /\ r \notin torn
    /\ store[image[r]].works
    /\ kernel[r] = store[image[r]].kernel

Latest == Len(store)

\* The device as it leaves the factory; b is unprovisioned or a copy of a.
Init ==
    /\ EnvInit
    /\ store = << [works |-> TRUE, kernel |-> 1] >>
    /\ \/ image = [r \in Rootfs |-> 1] /\ kernel = [r \in Rootfs |-> 1]
       \/ /\ image = [r \in Rootfs |-> IF r = "a" THEN 1 ELSE Empty]
          /\ kernel = [r \in Rootfs |-> IF r = "a" THEN 1 ELSE NoKernel]
    /\ torn = {}
    /\ cache = NoSpec
    /\ running = NoRootfs
    /\ booted = "no"
    /\ pc = "idle"
    /\ op = "none"
    /\ target = 0
    /\ faults = 0
    /\ early = FALSE
    /\ lost = FALSE

----------------------------------------------------------------------------
(* The environment.                                                        *)

(* The system-image server publishes an image, with the kernel of the one  *)
(* before it or a new one.                                                 *)
Publish ==
    /\ Latest < MaxVersion
    /\ \E w \in BOOLEAN, k \in 1..MaxKernel :
          /\ k \in {store[Latest].kernel, store[Latest].kernel + 1}
          /\ store' = Append(store, [works |-> w, kernel |-> k])
    /\ UNCHANGED <<envVars, diskVars, procVars, histVars, running, booted>>

Boot ==
    /\ running = NoRootfs
    /\ RunBootScript
    /\ running' = BootChoice
    /\ booted' = "no"
    /\ UNCHANGED <<diskVars, procVars, histVars, store>>

PowerOff ==
    /\ running' = NoRootfs
    /\ booted' = "no"
    /\ pc' = "idle"
    /\ op' = "none"
    /\ UNCHANGED <<envVars, diskVars, store, target, early, lost>>

\* A boot that does not come up: panic=-1 or the user resets the device.
BootFails ==
    /\ running # NoRootfs
    /\ ~Bootable(running)
    /\ PowerOff
    /\ UNCHANGED faults

PowerCut ==
    /\ running # NoRootfs
    /\ faults < MaxFaults
    /\ PowerOff
    /\ faults' = faults + 1

\* The shutdown that doUpdate schedules, or the user's own reboot.
Reboot ==
    /\ running # NoRootfs
    /\ pc = "idle"
    /\ booted # "no"
    /\ PowerOff
    /\ UNCHANGED faults

(* The next write of the running command returns an error, and so does it; *)
(* only the error of removing hardware.yaml is ignored.                    *)
StepFails ==
    /\ pc \notin {"idle", "assets_spec"}
    /\ faults < MaxFaults
    /\ pc' = "idle"
    /\ op' = "none"
    /\ booted' = IF pc \in MarkPCs THEN "failed" ELSE booted
    /\ faults' = faults + 1
    /\ UNCHANGED <<envVars, diskVars, store, running, target, early, lost>>

----------------------------------------------------------------------------
(* snappy booted: MarkCurrentBootSuccessful.  boot-ok.service runs it once *)
(* per boot, after multi-user.target.                                      *)

\* Variant: snappy_trial_boot is not cleared.
MarkTrialKept ==
    /\ running # NoRootfs
    /\ pc = "idle"
    /\ booted = "no"
    /\ Bootable(running)
    /\ pc' = "mark_ab"
    /\ op' = "booted"
    /\ UNCHANGED <<envVars, diskVars, target, store, running, booted, histVars>>

MarkTrial ==
    /\ running # NoRootfs
    /\ pc = "idle"
    /\ booted = "no"
    /\ Bootable(running)
    /\ WriteTrial("0")
    /\ pc' = "mark_ab"
    /\ op' = "booted"
    /\ UNCHANGED <<diskVars, target, store, running, booted, histVars>>

MarkAB ==
    /\ pc = "mark_ab"
    /\ WriteAB(running)
    /\ pc' = "mark_mode"
    /\ UNCHANGED <<diskVars, op, target, store, running, booted, histVars>>

MarkMode ==
    /\ pc = "mark_mode"
    /\ WriteMode("regular")
    /\ booted' = "yes"
    /\ pc' = "idle"
    /\ UNCHANGED <<diskVars, op, target, store, running, histVars>>

----------------------------------------------------------------------------
(* snappy update: SystemImageRepository.Updates and SystemImagePart.Install *)

(* A command of the running system starts.  Nothing makes it wait for      *)
(* "snappy booted": autopilot.service is only ordered after network.target. *)
StartCommand ==
    /\ running # NoRootfs
    /\ pc = "idle"
    /\ image[running] # Empty
    /\ kernel[running] # NoKernel
    /\ early' = IF booted = "yes" THEN early ELSE TRUE
    /\ UNCHANGED <<faults, lost>>

\* Variant: sync whatever the versions are.
NeedsBootAssetSyncAlways == TRUE

NeedsBootAssetSync ==
    image[other] = Empty \/ image[running] > image[other]

Update ==
    /\ StartCommand
    /\ image[running] # Latest
    /\ target' = Latest
    /\ op' = "update"
    /\ pc' = IF NeedsBootAssetSync THEN "sync" ELSE "download"
    /\ UNCHANGED <<envVars, diskVars, store, running, booted>>

SetKernel(r, k) == kernel' = [kernel EXCEPT ![r] = k]

\* RSyncWithDelete leaves equal files alone and overwrites the others.
SyncBootFiles ==
    /\ pc = "sync"
    /\ IF kernel[other] = kernel[running]
         THEN pc' = "download" /\ UNCHANGED kernel
         ELSE pc' = "sync_copy" /\ SetKernel(other, NoKernel)
    /\ UNCHANGED <<envVars, image, torn, cache, op, target, store, running, booted, histVars>>

SyncBootFilesCopied ==
    /\ pc = "sync_copy"
    /\ SetKernel(other, kernel[running])
    /\ pc' = "download"
    /\ UNCHANGED <<envVars, image, torn, cache, op, target, store, running, booted, histVars>>

(* systemImageDownloadUpdate runs system-image-cli, which compares the     *)
(* channel.ini it is given with the server and applies what is missing.    *)
Download ==
    /\ pc = "download"
    /\ IF image[other] = Latest
         THEN pc' = "verify" /\ UNCHANGED torn
         ELSE pc' = "apply" /\ torn' = torn \union {other}
    /\ UNCHANGED <<envVars, image, kernel, cache, op, target, store, running, booted, histVars>>

\* The version a delta starts from: the other rootfs', or the running one's.
DeltaBase == IF image[other] = Empty THEN image[running] ELSE image[other]

(* What the download leaves in the cache.  A full image or a delta between *)
(* different kernels brings the kernel; a delta that does not may come     *)
(* without hardware.yaml, with a hardware.yaml only, or beside what an     *)
(* earlier download left there.                                            *)
DownloadedCache ==
    {store[Latest].kernel} \union
    (IF store[DeltaBase].kernel = store[Latest].kernel
       THEN {NoSpec, NoKernel, cache} ELSE {})

Apply ==
    /\ pc = "apply"
    /\ cache' \in DownloadedCache
    /\ image' = [image EXCEPT ![other] = Latest]
    /\ torn' = torn \ {other}
    /\ pc' = "verify"
    /\ lost' = IF cache > NoKernel /\ cache' \in {NoSpec, NoKernel} THEN TRUE ELSE lost
    /\ UNCHANGED <<envVars, kernel, op, target, store, running, booted, faults, early>>

\* Variant: take the upgrader's word for it.
VerifyNothing ==
    /\ pc = "verify"
    /\ pc' = "assets"
    /\ UNCHANGED <<envVars, diskVars, op, target, store, running, booted, histVars>>

VerifyUpgradeWasApplied ==
    /\ pc = "verify"
    /\ IF image[other] = target
         THEN pc' = "assets" /\ UNCHANGED op
         ELSE pc' = "idle" /\ op' = "none"
    /\ UNCHANGED <<envVars, diskVars, target, store, running, booted, histVars>>

----------------------------------------------------------------------------
(* Partition.ToggleNextBoot: HandleAssets, then ToggleRootFS.              *)

\* Without hardware.yaml there is nothing to do; without a kernel beside it
\* only the yaml is removed.
HandleAssets ==
    /\ pc = "assets"
    /\ \/ cache = NoSpec /\ pc' = "toggle_1" /\ UNCHANGED kernel
       \/ cache = NoKernel /\ pc' = "assets_spec" /\ UNCHANGED kernel
       \/ cache > NoKernel /\ pc' = "assets_copy" /\ SetKernel(other, NoKernel)
    /\ UNCHANGED <<envVars, image, torn, cache, op, target, store, running, booted, histVars>>

HandleAssetsCopied ==
    /\ pc = "assets_copy"
    /\ SetKernel(other, cache)
    /\ pc' = "assets_clean"
    /\ UNCHANGED <<envVars, image, torn, cache, op, target, store, running, booted, histVars>>

\* The deferred functions: the cached kernel goes first, hardware.yaml last.
HandleAssetsCleaned ==
    /\ \/ pc = "assets_clean" /\ cache' = NoKernel /\ pc' = "assets_spec"
       \/ pc = "assets_spec" /\ cache' = NoSpec /\ pc' = "toggle_1"
    /\ UNCHANGED <<envVars, image, torn, kernel, op, target, store, running, booted, histVars>>

ToggleRootFSFirst ==
    /\ pc = "toggle_1"
    /\ ToggleFirstWrite(other)
    /\ pc' = "toggle_2"
    /\ UNCHANGED <<diskVars, op, target, store, running, booted, histVars>>

ToggleRootFSSecond ==
    /\ pc = "toggle_2"
    /\ ToggleSecondWrite(other)
    /\ pc' = "idle"
    /\ UNCHANGED <<diskVars, op, target, store, running, booted, histVars>>

----------------------------------------------------------------------------
(* SystemImagePart.SetActive, called by activate and deactivate with the   *)
(* running part, and by rollback with either part.                         *)

SetActive(part, active) ==
    LET isActive == part = running
        toggle == (active # isActive) # IsNextBootOther(running)
    IN  /\ StartCommand
        /\ image[part] # Empty
        /\ op' = IF ~isActive THEN "activate_other"
                 ELSE IF active THEN "activate_current" ELSE "deactivate"
        /\ pc' = IF toggle THEN "assets" ELSE "idle"
        /\ UNCHANGED <<envVars, diskVars, target, store, running, booted>>

\* rollback finds its part by version: one version in both places is an error.
Rollback(part) == image["a"] # image["b"] /\ SetActive(part, TRUE)

SetActiveCommand ==
    \/ \E active \in BOOLEAN : SetActive(running, active)
    \/ \E part \in Rootfs : Rollback(part)

----------------------------------------------------------------------------
BootedStep == MarkTrial \/ MarkAB \/ MarkMode

UpdateStep == SyncBootFiles \/ SyncBootFilesCopied \/ Download \/ Apply
              \/ VerifyUpgradeWasApplied

ToggleStep == HandleAssets \/ HandleAssetsCopied \/ HandleAssetsCleaned
              \/ ToggleRootFSFirst \/ ToggleRootFSSecond

Next == \/ Publish \/ Boot \/ BootFails \/ PowerCut \/ Reboot \/ StepFails
        \/ BootedStep
        \/ Update \/ UpdateStep \/ ToggleStep
        \/ SetActiveCommand

Spec == Init /\ [][Next]_vars

----------------------------------------------------------------------------
(* Safety.                                                                 *)

(* Outside a trial the boot loader has no way back, so what it boots then  *)
(* has to be a rootfs that comes up.  RegularBootIsUsable: with snappy_mode *)
(* other than "try", newGrubConfig boots a whole, working image with its   *)
(* own kernel, whatever update, rollback or power cut came before.         *)
RegularBootIsUsable ==
    running = NoRootfs /\ snappy_mode # "try" => Bootable(ConfiguredRootfs)

(* RevertIsAlwaysUsable: when newGrubConfig gives up on a trial that did   *)
(* not come up, the rootfs it reverts to comes up.                         *)
RevertIsAlwaysUsable ==
    /\ running = NoRootfs /\ TrialFailed
    /\ ~Bootable(ConfiguredRootfs)
    => Bootable(BootChoice)

(* RevertIsUsable: the same, as long as every update, activate and         *)
(* rollback so far ran after "snappy booted" had confirmed the boot it ran *)
(* in.                                                                     *)
RevertIsUsable == ~early => RevertIsAlwaysUsable

(* UpdateTakesEffect: an Install that returned without error in a          *)
(* confirmed boot has put the version it was asked for on the other rootfs *)
(* and the next boot tries it, for either order of the writes in           *)
(* ToggleRootFS.                                                           *)
UpdateTakesEffect ==
    running # NoRootfs /\ pc = "idle" /\ op = "update" /\ booted = "yes" =>
        /\ BootChoice = other
        /\ image[other] = target
        /\ other \notin torn

(* NextBootAsAnnounced: in a confirmed boot with no command at work,       *)
(* IsNextBootOther (and with it NeedsReboot and the automatic reboot) says *)
(* exactly what the boot loader will do.                                   *)
NextBootAsAnnounced ==
    running # NoRootfs /\ pc = "idle" /\ booted = "yes" =>
        (IsNextBootOther(running) <=> BootChoice = other)

(* UpdatedKernelMatches: after an Install the boot directory of the other  *)
(* rootfs holds the kernel of the image that was installed, whether it     *)
(* came from SyncBootFiles, from an earlier update or from HandleAssets -- *)
(* unless a download replaced a kernel that was never installed.           *)
UpdatedKernelMatches ==
    /\ running # NoRootfs /\ pc = "idle" /\ op = "update"
    /\ ~early /\ ~lost
    => kernel[other] = store[image[other]].kernel

(* ActivateUndoesToggle: "snappy activate" or "snappy rollback" of the     *)
(* running part leaves the next boot on the running rootfs, undoing the    *)
(* toggle of an earlier update (SetActive's table, row T T T).             *)
ActivateUndoesToggle ==
    running # NoRootfs /\ pc = "idle" /\ op = "activate_current" =>
        ~IsNextBootOther(running)

----------------------------------------------------------------------------
(* Liveness.                                                               *)

AutomaticReboot == Reboot /\ IsNextBootOther(running)

(* The boot loader runs when the device has power, a boot that fails is    *)
(* reset, boot-ok.service runs in every boot, and a command that started   *)
(* goes on.  The hourly autopilot timer comes back as often as needed, and *)
(* reboots when a part needs it.                                           *)
Fairness ==
    /\ WF_vars(Boot)
    /\ WF_vars(BootFails)
    /\ WF_vars(BootedStep)
    /\ WF_vars(UpdateStep \/ ToggleStep)
    /\ SF_vars(MarkTrial)
    /\ SF_vars(Update)
    /\ SF_vars(AutomaticReboot)

FairSpec == Spec /\ Fairness

(* Recovers: every time the device goes down, by a power cut, a bad image  *)
(* or a reboot, it comes up again far enough for "snappy booted" to run.   *)
Recovers ==
    running = NoRootfs ~> (booted # "no" \/ pc \in MarkPCs \/ early)

(* LatestImageRuns: once the last published image is a working one, the    *)
(* device ends up running it as far as "snappy booted", also when an       *)
(* earlier image was bad, when the server published in the middle of an    *)
(* Install or when Install was cut short: whatever an interrupted update   *)
(* leaves behind, the next one completes.  Excepted are the two ways to    *)
(* lose an image that the history variables record.                        *)
LatestImageRuns ==
    (Latest = MaxVersion /\ store[Latest].works)
        ~> \/ running # NoRootfs /\ booted # "no" /\ image[running] = Latest
           \/ early \/ lost
=============================================================================
