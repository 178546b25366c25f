------------------------- MODULE SystemUpdateProofs -------------------------
(***************************************************************************)
(* Proofs about SystemUpdate, for any number of images, kernels and        *)
(* faults.                                                                 *)
(*                                                                         *)
(* The inductive invariants are stacked.  TypeInv: the types, and what a   *)
(* program counter says of the state.  MarkInv: "snappy booted" is at work *)
(* only in a boot that came up.  SafeInv: some rootfs comes up, and a      *)
(* confirmed boot is of one that does.  RegularInv (grub only): outside a  *)
(* trial the configured rootfs comes up and is the running one.            *)
(* InstalledInv: how far the Install under way, or just done, has come.    *)
(***************************************************************************)
EXTENDS SystemUpdate, TLAPS

----------------------------------------------------------------------------
(* Types.                                                                  *)

USE SystemUpdateAssumption

LEMMA OtherIsRootfs == other \in Rootfs /\ other # running
BY DEF other, Other, Rootfs

LEMMA LatestIsImage == DiskTypeOK => store[Latest] \in Image
BY DEF DiskTypeOK, Latest

LEMMA InitType == Init => TypeOK
<1> SUFFICES ASSUME Init PROVE TypeOK
  OBVIOUS
<1>1. EnvTypeOK
  BY DEF Init, EnvInit, EnvTypeOK, Rootfs, Unset
<1>2. DiskTypeOK
  <2>1. [works |-> TRUE, kernel |-> 1] \in Image
    BY DEF Image
  <2>2. store \in Seq(Image) /\ Len(store) = 1
    BY <2>1 DEF Init
  <2>3. image \in [Rootfs -> 0..1] /\ kernel \in [Rootfs -> 0..MaxKernel]
    BY DEF Init, Empty, NoKernel
  <2> QED
    BY <2>2, <2>3 DEF Init, DiskTypeOK, NoSpec
<1>3. ControlTypeOK
  <2>1. pc \in PCs /\ op \in Ops
    BY DEF Init, PCs, Ops
  <2>2. target \in 0..MaxVersion /\ faults \in 0..MaxFaults
    BY DEF Init
  <2> QED
    BY <2>1, <2>2, Zenon DEF Init, ControlTypeOK
<1> QED
  BY <1>1, <1>2, <1>3 DEF TypeOK

(* TypeOK is not inductive: MarkAB writes running to snappy_ab, so a       *)
(* command must only run in a running system, and HandleAssetsCopied       *)
(* copies from the cache, which then must hold a kernel.                   *)
TypeInv ==
    /\ TypeOK
    /\ pc # "idle" => running # NoRootfs
    /\ pc = "assets_copy" => cache \in 1..MaxKernel

(* Frames: the actions that write the boot environment, and those that     *)
(* write the disk or the server.                                           *)
EnvStep == Boot \/ BootedStep \/ ToggleRootFSFirst \/ ToggleRootFSSecond

DiskStep == SyncBootFiles \/ SyncBootFilesCopied \/ Download \/ Apply
            \/ HandleAssets \/ HandleAssetsCopied \/ HandleAssetsCleaned

LEMMA Frame ==
    ASSUME [Next]_vars
    PROVE  /\ EnvStep \/ UNCHANGED envVars
           /\ DiskStep \/ Publish \/ UNCHANGED <<diskVars, store>>
<1> USE DEF EnvStep, DiskStep
<1>1. CASE EnvStep
  BY <1>1 DEF Boot, BootedStep, MarkTrial, MarkAB, MarkMode, ToggleRootFSFirst,
      ToggleRootFSSecond
<1>2. CASE DiskStep
  BY <1>2, Zenon DEF SyncBootFiles, SyncBootFilesCopied, Download, Apply, HandleAssets,
      HandleAssetsCopied, HandleAssetsCleaned
<1>3. CASE Publish
  BY <1>3 DEF Publish
<1>4. CASE BootFails \/ PowerCut \/ Reboot \/ StepFails
  BY <1>4 DEF BootFails, PowerCut, Reboot, PowerOff, StepFails
<1>5. CASE Update \/ VerifyUpgradeWasApplied
  BY <1>5 DEF Update, VerifyUpgradeWasApplied
<1>6. CASE SetActiveCommand
  BY <1>6, Zenon DEF SetActiveCommand, Rollback, SetActive
<1>7. CASE UNCHANGED vars
  BY <1>7 DEF vars
<1> QED
  BY <1>1, <1>2, <1>3, <1>4, <1>5, <1>6, <1>7 DEF Next, UpdateStep, ToggleStep

LEMMA EnvStepType == TypeInv /\ [Next]_vars => EnvTypeOK'
<1> SUFFICES ASSUME TypeInv, [Next]_vars PROVE EnvTypeOK'
  OBVIOUS
<1> EnvTypeOK
  BY DEF TypeInv, TypeOK
<1> USE DEF EnvTypeOK
<1>1. CASE UNCHANGED envVars
  BY <1>1 DEF envVars
<1>2. CASE Boot
  BY <1>2 DEF Boot, RunBootScript, BootChoice, ConfiguredRootfs, Other, Rootfs, Unset
<1>3. CASE BootedStep
  <2>1. pc # "idle" => running \in Rootfs
    BY DEF TypeInv, TypeOK, ControlTypeOK
  <2> QED
    BY <1>3, <2>1 DEF BootedStep, MarkTrial, MarkAB, MarkMode, WriteTrial, WriteAB, WriteMode
<1>4. CASE ToggleRootFSFirst \/ ToggleRootFSSecond
  BY <1>4, OtherIsRootfs DEF ToggleRootFSFirst, ToggleRootFSSecond, ToggleFirstWrite,
      ToggleSecondWrite, WriteAB, WriteMode
<1> QED
  BY <1>1, <1>2, <1>3, <1>4, Frame DEF EnvStep

LEMMA DiskStepType == TypeInv /\ [Next]_vars => DiskTypeOK'
<1> SUFFICES ASSUME TypeInv, [Next]_vars PROVE DiskTypeOK'
  OBVIOUS
<1> DiskTypeOK /\ other \in Rootfs
  BY OtherIsRootfs DEF TypeInv, TypeOK
<1>1. CASE UNCHANGED <<diskVars, store>>
  BY <1>1 DEF diskVars, DiskTypeOK
<1>2. CASE Publish
  <2>1. PICK x \in Image : store' = Append(store, x)
    BY <1>2 DEF Publish, Image
  <2>2. store' \in Seq(Image) /\ Len(store') = Len(store) + 1
    BY <2>1 DEF DiskTypeOK
  <2> QED
    BY <1>2, <2>2 DEF Publish, Latest, diskVars, DiskTypeOK
<1>3. CASE SyncBootFiles \/ SyncBootFilesCopied
  <2>1. pc # "idle" => running \in Rootfs
    BY DEF TypeInv, TypeOK, ControlTypeOK
  <2> QED
    BY <1>3, <2>1, SMTT(30) DEF SyncBootFiles, SyncBootFilesCopied, SetKernel, NoKernel, DiskTypeOK
<1>4. CASE Download
  BY <1>4 DEF Download, DiskTypeOK
<1>5. CASE Apply
  <2>1. cache' \in -1..MaxKernel
    BY <1>5, LatestIsImage, SMTT(30) DEF Apply, DownloadedCache, NoSpec, NoKernel, Image, DiskTypeOK
  <2>2. Latest \in 0..Len(store)
    BY DEF Latest, DiskTypeOK
  <2> QED
    BY <1>5, <2>1, <2>2 DEF Apply, DiskTypeOK
<1>6. CASE HandleAssets
  <2>1. UNCHANGED <<image, torn, cache, store>>
    BY <1>6 DEF HandleAssets
  <2>2. kernel' \in [Rootfs -> 0..MaxKernel]
    BY <1>6 DEF HandleAssets, SetKernel, NoKernel, DiskTypeOK
  <2> QED
    BY <2>1, <2>2 DEF DiskTypeOK
<1>7. CASE HandleAssetsCopied
  BY <1>7 DEF TypeInv, HandleAssetsCopied, SetKernel, NoSpec, DiskTypeOK
<1>8. CASE HandleAssetsCleaned
  BY <1>8 DEF HandleAssetsCleaned, NoKernel, NoSpec, DiskTypeOK
<1> QED
  BY <1>1, <1>2, <1>3, <1>4, <1>5, <1>6, <1>7, <1>8, Frame DEF DiskStep

LEMMA ControlStepType == TypeInv /\ [Next]_vars => ControlTypeOK'
<1> SUFFICES ASSUME TypeInv, ControlTypeOK, [Next]_vars PROVE ControlTypeOK'
  BY DEF TypeInv, TypeOK
<1>1. pc' \in PCs
  <2> USE DEF ControlTypeOK, PCs, MarkPCs, WritePCs, procVars
  <2>1. CASE Publish \/ Boot \/ UNCHANGED vars
    BY <2>1 DEF Publish, Boot, vars
  <2>2. CASE BootFails \/ PowerCut \/ Reboot \/ StepFails
    BY <2>2 DEF BootFails, PowerCut, Reboot, PowerOff, StepFails
  <2>3. CASE BootedStep
    BY <2>3 DEF BootedStep, MarkTrial, MarkAB, MarkMode
  <2>4. CASE Update \/ UpdateStep
    BY <2>4, Zenon DEF Update, UpdateStep, SyncBootFiles, SyncBootFilesCopied, Download, Apply,
        VerifyUpgradeWasApplied
  <2>5. CASE ToggleStep
    BY <2>5 DEF ToggleStep, HandleAssets, HandleAssetsCopied, HandleAssetsCleaned, ToggleRootFSFirst,
        ToggleRootFSSecond
  <2>6. CASE SetActiveCommand
    BY <2>6, Zenon DEF SetActiveCommand, Rollback, SetActive
  <2> QED
    BY <2>1, <2>2, <2>3, <2>4, <2>5, <2>6, SMTT(30) DEF Next
<1> USE DEF ControlTypeOK, histVars, procVars
<1>2. CASE Publish \/ UNCHANGED vars
  BY <1>1, <1>2 DEF Publish, vars
<1>3. CASE Boot
  BY <1>1, <1>3 DEF TypeInv, TypeOK, EnvTypeOK, Boot, BootChoice, ConfiguredRootfs, Other, Rootfs,
      Unset, NoRootfs
<1>4. CASE BootFails \/ Reboot
  BY <1>1, <1>4 DEF BootFails, Reboot, PowerOff, Ops
<1>5. CASE PowerCut \/ StepFails
  BY <1>1, <1>5 DEF PowerCut, PowerOff, StepFails, Ops
<1>6. CASE BootedStep
  BY <1>1, <1>6 DEF BootedStep, MarkTrial, MarkAB, MarkMode, Ops
<1>7. CASE Update
  <2>1. Latest \in 0..MaxVersion
    BY DEF TypeInv, TypeOK, DiskTypeOK, Latest
  <2> QED
    BY <1>1, <1>7, <2>1, Zenon DEF Update, StartCommand, Ops
<1>8. CASE SyncBootFiles \/ SyncBootFilesCopied \/ Download
  BY <1>1, <1>8 DEF SyncBootFiles, SyncBootFilesCopied, Download
<1>9. CASE Apply
  BY <1>1, <1>9, Zenon DEF Apply
<1>10. CASE VerifyUpgradeWasApplied
  BY <1>1, <1>10 DEF VerifyUpgradeWasApplied, Ops
<1>11. CASE ToggleStep
  BY <1>1, <1>11 DEF ToggleStep, HandleAssets, HandleAssetsCopied, HandleAssetsCleaned, ToggleRootFSFirst,
      ToggleRootFSSecond
<1>12. CASE SetActiveCommand
  <2>1. UNCHANGED <<target, running, booted, faults, lost>>
    BY <1>12, Zenon DEF SetActiveCommand, Rollback, SetActive, StartCommand
  <2>2. op' \in Ops /\ early' \in BOOLEAN
    BY <1>12, Zenon DEF SetActiveCommand, Rollback, SetActive, StartCommand, Ops
  <2> QED
    BY <1>1, <2>1, <2>2
<1> QED
  BY <1>2, <1>3, <1>4, <1>5, <1>6, <1>7, <1>8, <1>9, <1>10, <1>11, <1>12 DEF Next, UpdateStep

LEMMA TypeInvInductive == TypeInv /\ [Next]_vars => TypeInv'
<1> SUFFICES ASSUME TypeInv, [Next]_vars PROVE TypeInv'
  OBVIOUS
<1>1. TypeOK'
  BY EnvStepType, DiskStepType, ControlStepType DEF TypeOK
<1>2. (pc # "idle" => running # NoRootfs)'
  <2>1. CASE Boot \/ Publish \/ UNCHANGED vars
    BY <2>1, <1>1 DEF TypeInv, TypeOK, EnvTypeOK, Boot, BootChoice, ConfiguredRootfs, Other,
        Rootfs, Unset, NoRootfs, Publish, procVars, vars
  <2>2. CASE BootFails \/ PowerCut \/ Reboot \/ StepFails
    BY <2>2 DEF BootFails, PowerCut, Reboot, PowerOff, StepFails
  <2>3. CASE BootedStep
    BY <2>3 DEF TypeInv, BootedStep, MarkTrial, MarkAB, MarkMode
  <2>4. CASE Update \/ SetActiveCommand
    BY <2>4, Zenon DEF Update, SetActiveCommand, Rollback, SetActive, StartCommand
  <2>5. CASE UpdateStep
    BY <2>5, Zenon DEF TypeInv, UpdateStep, SyncBootFiles, SyncBootFilesCopied, Download, Apply,
        VerifyUpgradeWasApplied
  <2>6. CASE ToggleStep
    BY <2>6 DEF TypeInv, ToggleStep, HandleAssets, HandleAssetsCopied, HandleAssetsCleaned, ToggleRootFSFirst,
        ToggleRootFSSecond
  <2> QED
    BY <2>1, <2>2, <2>3, <2>4, <2>5, <2>6 DEF Next
<1>3. (pc = "assets_copy" => cache \in 1..MaxKernel)'
  <2>1. CASE HandleAssets
    BY <2>1, SMTT(30) DEF TypeInv, TypeOK, DiskTypeOK, HandleAssets, NoSpec, NoKernel
  <2>2. CASE Boot \/ Publish \/ UNCHANGED vars
    BY <2>2 DEF TypeInv, Boot, Publish, procVars, diskVars, vars
  <2>3. CASE BootFails \/ PowerCut \/ Reboot \/ StepFails
    BY <2>3 DEF BootFails, PowerCut, Reboot, PowerOff, StepFails
  <2>4. CASE BootedStep \/ Update \/ SetActiveCommand
    BY <2>4 DEF BootedStep, MarkTrial, MarkAB, MarkMode, Update, SetActiveCommand, Rollback,
        SetActive
  <2>5. CASE UpdateStep
    BY <2>5 DEF UpdateStep, SyncBootFiles, SyncBootFilesCopied, Download, Apply,
        VerifyUpgradeWasApplied
  <2>6. CASE HandleAssetsCopied \/ HandleAssetsCleaned \/ ToggleRootFSFirst \/ ToggleRootFSSecond
    BY <2>6 DEF HandleAssetsCopied, HandleAssetsCleaned, ToggleRootFSFirst, ToggleRootFSSecond
  <2> QED
    BY <2>1, <2>2, <2>3, <2>4, <2>5, <2>6 DEF Next, ToggleStep
<1> QED
  BY <1>1, <1>2, <1>3 DEF TypeInv

LEMMA TypeInvariant == Spec => []TypeInv
<1>1. Init => TypeInv
  BY InitType DEF Init, TypeInv
<1> QED
  BY <1>1, TypeInvInductive, PTL DEF Spec

(* TypeCorrect: no sequence of boots, commands and faults takes the boot   *)
(* environment, the two rootfs or the cache out of their types.            *)
THEOREM TypeCorrect == Spec => []TypeOK
<1>1. TypeInv => TypeOK
  BY DEF TypeInv
<1> QED
  BY <1>1, TypeInvariant, PTL

----------------------------------------------------------------------------
(* What is on the disk.                                                    *)

\* No command writes to the rootfs it runs from.
LEMMA UsableKept ==
    ASSUME TypeInv, [Next]_vars, NEW r \in Rootfs, Bootable(r), DiskStep => r = running
    PROVE  Bootable(r)'
<1> DiskTypeOK
  BY DEF TypeInv, TypeOK
<1>1. CASE UNCHANGED <<diskVars, store>>
  BY <1>1 DEF diskVars, Bootable
<1>2. CASE Publish
  <2>1. PICK x \in Image : store' = Append(store, x)
    BY <1>2 DEF Publish, Image
  <2>2. image[r] \in 1..Len(store)
    BY DEF Bootable, Empty, DiskTypeOK
  <2>3. store'[image[r]] = store[image[r]]
    BY <2>1, <2>2 DEF DiskTypeOK
  <2> QED
    BY <1>2, <2>3, Zenon DEF Publish, diskVars, Bootable
<1>3. CASE DiskStep
  <2>2. r # other
    BY <1>3, OtherIsRootfs
  <2>3. image'[r] = image[r] /\ kernel'[r] = kernel[r] /\ store' = store
    BY <1>3, <2>2, Zenon DEF DiskStep, SyncBootFiles, SyncBootFilesCopied, Download, Apply,
        HandleAssets, HandleAssetsCopied, HandleAssetsCleaned, SetKernel, DiskTypeOK
  <2>4. r \in torn' <=> r \in torn
    BY <1>3, <2>2, Zenon DEF DiskStep, SyncBootFiles, SyncBootFilesCopied, Download, Apply,
        HandleAssets, HandleAssetsCopied, HandleAssetsCleaned
  <2> QED
    BY <2>3, <2>4 DEF Bootable
<1> QED
  BY <1>1, <1>2, <1>3, Frame

----------------------------------------------------------------------------
(* snappy booted.                                                          *)

(* What "snappy booted" has established at each of its writes, and what    *)
(* stays true for the rest of the boot that it confirmed.                  *)
MarkInv ==
    /\ pc \in MarkPCs => booted = "no" /\ snappy_trial_boot = "0" /\ Bootable(running)
    /\ pc = "mark_mode" => snappy_ab = running
    /\ booted = "yes" => /\ running # NoRootfs
                         /\ snappy_trial_boot = "0"
                         /\ snappy_ab \in Rootfs
                         /\ Bootable(running)

LEMMA MarkInvInductive == TypeInv /\ MarkInv /\ [Next]_vars => MarkInv'
<1> SUFFICES ASSUME TypeInv, MarkInv, [Next]_vars PROVE MarkInv'
  OBVIOUS
<1>0. /\ running \in Rootfs \union {NoRootfs}
      /\ pc # "idle" => running # NoRootfs
  BY DEF TypeInv, TypeOK, ControlTypeOK
<1>1. running # NoRootfs /\ running' = running /\ Bootable(running) => Bootable(running)'
  <2> SUFFICES ASSUME running # NoRootfs, running' = running, Bootable(running)
               PROVE  Bootable(running)'
    OBVIOUS
  <2>1. (\A r \in Rootfs : r = running => Bootable(r)')
    BY UsableKept
  <2> QED
    BY <1>0, <2>1 DEF Bootable
<1> USE DEF MarkInv
<1>2. CASE Publish \/ UNCHANGED vars
  BY <1>0, <1>1, <1>2 DEF Publish, vars, envVars, procVars, MarkPCs
<1>3. CASE Boot
  BY <1>0, <1>3 DEF Boot, procVars, MarkPCs
<1>4. CASE BootFails \/ PowerCut \/ Reboot
  BY <1>4 DEF BootFails, PowerCut, Reboot, PowerOff, MarkPCs
<1>5. CASE StepFails
  BY <1>0, <1>1, <1>5 DEF StepFails, envVars, MarkPCs
<1>6. CASE BootedStep
  BY <1>0, <1>1, <1>6 DEF BootedStep, MarkTrial, MarkAB, MarkMode, WriteTrial, WriteAB, WriteMode,
      MarkPCs
<1>7. CASE Update \/ SetActiveCommand
  BY <1>0, <1>1, <1>7, Zenon DEF Update, SetActiveCommand, Rollback, SetActive, StartCommand, envVars,
      MarkPCs
<1>8. CASE UpdateStep
  BY <1>0, <1>1, <1>8, Zenon DEF UpdateStep, SyncBootFiles, SyncBootFilesCopied, Download, Apply,
      VerifyUpgradeWasApplied, envVars, MarkPCs
<1>9. CASE ToggleStep
  BY <1>0, <1>1, <1>9, OtherIsRootfs DEF ToggleStep, HandleAssets, HandleAssetsCopied, HandleAssetsCleaned,
      ToggleRootFSFirst, ToggleRootFSSecond, ToggleFirstWrite, ToggleSecondWrite, WriteAB,
      WriteMode, envVars, MarkPCs
<1> QED
  BY <1>2, <1>3, <1>4, <1>5, <1>6, <1>7, <1>8, <1>9 DEF Next

LEMMA MarkInvariant == Spec => []MarkInv
<1>1. Init => MarkInv
  BY DEF Init, MarkInv, MarkPCs
<1> QED
  BY <1>1, MarkInvInductive, TypeInvariant, PTL DEF Spec

----------------------------------------------------------------------------
(* Reverting a trial.                                                      *)

(* As long as commands wait for "snappy booted", the rootfs a command runs *)
(* from comes up, and at any time one of the two does.                     *)
SafeInv ==
    ~early => /\ pc \in WritePCs => booted = "yes"
              /\ \E r \in Rootfs : Bootable(r)

LEMMA SafeInvInductive == TypeInv /\ MarkInv /\ SafeInv /\ [Next]_vars => SafeInv'
<1> SUFFICES ASSUME TypeInv, MarkInv, SafeInv, [Next]_vars, ~early' PROVE SafeInv'
  BY SMTT(30) DEF SafeInv
<1>1. ~early
  BY Zenon DEF Next, vars, Publish, Boot, BootFails, PowerCut, Reboot, PowerOff, StepFails, BootedStep,
      MarkTrial, MarkAB, MarkMode, Update, StartCommand, UpdateStep, SyncBootFiles,
      SyncBootFilesCopied, Download, Apply, VerifyUpgradeWasApplied, ToggleStep, HandleAssets,
      HandleAssetsCopied, HandleAssetsCleaned, ToggleRootFSFirst, ToggleRootFSSecond,
      SetActiveCommand, Rollback, SetActive, histVars
<1>2. (pc \in WritePCs => booted = "yes")'
  <2> USE <1>1 DEF SafeInv, WritePCs
  <2>1. CASE Publish \/ Boot \/ UNCHANGED vars
    BY <2>1 DEF TypeInv, Publish, Boot, procVars, vars
  <2>2. CASE BootFails \/ PowerCut \/ Reboot \/ StepFails
    BY <2>2 DEF BootFails, PowerCut, Reboot, PowerOff, StepFails
  <2>3. CASE BootedStep
    BY <2>3 DEF BootedStep, MarkTrial, MarkAB, MarkMode
  <2>4. CASE Update \/ SetActiveCommand
    BY <2>4, Zenon DEF Update, SetActiveCommand, Rollback, SetActive, StartCommand
  <2>5. CASE UpdateStep
    BY <2>5, Zenon DEF UpdateStep, SyncBootFiles, SyncBootFilesCopied, Download, Apply,
        VerifyUpgradeWasApplied
  <2>6. CASE ToggleStep
    BY <2>6 DEF ToggleStep, HandleAssets, HandleAssetsCopied, HandleAssetsCleaned, ToggleRootFSFirst,
        ToggleRootFSSecond
  <2> QED
    BY <2>1, <2>2, <2>3, <2>4, <2>5, <2>6, SMTT(30) DEF Next
<1>3. (\E r \in Rootfs : Bootable(r))'
  <2>1. CASE DiskStep
    <3>1. pc \in WritePCs
      BY <2>1, Zenon DEF DiskStep, SyncBootFiles, SyncBootFilesCopied, Download, Apply, HandleAssets,
          HandleAssetsCopied, HandleAssetsCleaned, WritePCs
    <3>2. running \in Rootfs /\ Bootable(running)
      BY <1>1, <3>1 DEF SafeInv, MarkInv, TypeInv, TypeOK, ControlTypeOK
    <3> QED
      BY <3>2, UsableKept
  <2>2. CASE ~DiskStep
    BY <1>1, <2>2, UsableKept DEF SafeInv
  <2> QED
    BY <2>1, <2>2
<1> QED
  BY <1>2, <1>3 DEF SafeInv

LEMMA SafeInvariant == Spec => []SafeInv
<1>1. Init => SafeInv
  <2> SUFFICES ASSUME Init PROVE SafeInv
    OBVIOUS
  <2>1. Bootable("a")
    BY DEF Init, Bootable, Rootfs, Empty
  <2> QED
    BY <2>1 DEF Init, SafeInv, Rootfs, WritePCs
<1> QED
  BY <1>1, SafeInvInductive, TypeInvariant, MarkInvariant, PTL DEF Spec

(* RevertCorrect: for any number of images, kernels and faults and either  *)
(* boot loader, the rootfs newGrubConfig reverts to comes up when every    *)
(* command waited for "snappy booted".                                     *)
THEOREM RevertCorrect == Spec => []RevertIsUsable
<1>1. TypeInv /\ SafeInv => RevertIsUsable
  <2> SUFFICES ASSUME TypeInv, SafeInv, ~early, TrialFailed, ~Bootable(ConfiguredRootfs)
               PROVE  Bootable(BootChoice)
    BY DEF RevertIsUsable, RevertIsAlwaysUsable
  <2>1. PICK r \in Rootfs : Bootable(r)
    BY DEF SafeInv
  <2>2. ConfiguredRootfs \in Rootfs
    BY DEF TypeInv, TypeOK, EnvTypeOK, ConfiguredRootfs, Rootfs, Unset
  <2>3. BootChoice = r
    BY <2>1, <2>2 DEF BootChoice, Other, Rootfs
  <2> QED
    BY <2>1, <2>3
<1> QED
  BY <1>1, TypeInvariant, SafeInvariant, PTL

----------------------------------------------------------------------------
(* Booting without a trial: grub.                                          *)

(* Outside a trial the configured rootfs comes up, and is the one that is  *)
(* running: so updates, which write to the other one, do no harm to it.    *)
(* ToggleRootFS of grub leaves that regime before it moves the pointer.    *)
RegularInv ==
    /\ snappy_mode # "try" => Bootable(ConfiguredRootfs)
    /\ snappy_mode # "try" /\ running # NoRootfs => running = ConfiguredRootfs
    /\ pc = "toggle_2" => snappy_mode = "try"

LEMMA RegularInvInductive ==
    ASSUME Bootloader = "grub"
    PROVE  TypeInv /\ MarkInv /\ RegularInv /\ [Next]_vars => RegularInv'
<1> SUFFICES ASSUME TypeInv, MarkInv, RegularInv, [Next]_vars PROVE RegularInv'
  OBVIOUS
<1>0. /\ running \in Rootfs \union {NoRootfs}
      /\ pc # "idle" => running # NoRootfs
      /\ ConfiguredRootfs \in Rootfs
  BY DEF TypeInv, TypeOK, ControlTypeOK, EnvTypeOK, ConfiguredRootfs, Rootfs, Unset
<1>1. ASSUME NEW r \in Rootfs, Bootable(r), running # NoRootfs => r = running
      PROVE  Bootable(r)'
  <2>1. DiskStep => pc # "idle"
    BY Zenon DEF DiskStep, SyncBootFiles, SyncBootFilesCopied, Download, Apply, HandleAssets,
        HandleAssetsCopied, HandleAssetsCleaned
  <2> QED
    BY <1>0, <1>1, <2>1, UsableKept
<1>2. CASE Boot
  <2>1. snappy_mode # "try" =>
            ConfiguredRootfs' = ConfiguredRootfs /\ running' = ConfiguredRootfs
    BY <1>0, <1>2 DEF Boot, RunBootScript, BootChoice, TrialFailed, ConfiguredRootfs, Rootfs, Unset
  <2>2. snappy_mode' = "try" <=> snappy_mode = "try"
    BY <1>2 DEF Boot, RunBootScript, Unset
  <2>3. snappy_mode # "try" => Bootable(ConfiguredRootfs)'
    BY <1>0, <1>1, <1>2, <2>1 DEF RegularInv, Boot, Bootable
  <2>4. pc' = "idle"
    BY <1>0, <1>2 DEF Boot, procVars
  <2> QED
    BY <2>1, <2>2, <2>3, <2>4 DEF RegularInv
<1>3. CASE BootedStep
  <2>1. running \in Rootfs /\ running' = running /\ pc' # "toggle_2"
    BY <1>0, <1>3 DEF BootedStep, MarkTrial, MarkAB, MarkMode
  <2>2. (snappy_mode # "try" => running = ConfiguredRootfs)'
    BY <1>3, <2>1 DEF RegularInv, MarkInv, BootedStep, MarkTrial, MarkAB, MarkMode, WriteTrial,
        WriteAB, WriteMode, ConfiguredRootfs, Rootfs, Unset
  <2>3. Bootable(running)
    BY <1>3 DEF MarkInv, MarkPCs, BootedStep, MarkTrial, MarkAB, MarkMode
  <2>4. Bootable(running)'
    BY <1>1, <2>1, <2>3 DEF Bootable
  <2> QED
    BY <2>1, <2>2, <2>4 DEF RegularInv
<1>4. CASE ToggleRootFSFirst \/ ToggleRootFSSecond
  BY <1>4 DEF RegularInv, ToggleRootFSFirst, ToggleRootFSSecond, ToggleFirstWrite,
      ToggleSecondWrite, WriteAB, WriteMode
<1>5. CASE UNCHANGED envVars
  <2>1. ConfiguredRootfs' = ConfiguredRootfs /\ snappy_mode' = snappy_mode
    BY <1>5 DEF envVars, ConfiguredRootfs
  <2>2. snappy_mode # "try" => Bootable(ConfiguredRootfs)'
    BY <1>0, <1>1, <2>1 DEF RegularInv, Bootable
  <2>3. CASE Boot \/ BootedStep \/ ToggleRootFSFirst \/ ToggleRootFSSecond
    BY <1>2, <1>3, <1>4, <2>3
  <2>4. CASE BootFails \/ PowerCut \/ Reboot
    BY <2>1, <2>2, <2>4, SMTT(30) DEF RegularInv, BootFails, PowerCut, Reboot, PowerOff
  <2>5. CASE Publish \/ StepFails \/ UNCHANGED vars
    BY <2>1, <2>2, <2>5 DEF RegularInv, Publish, StepFails, procVars, vars
  <2>6. CASE Update \/ SetActiveCommand
    BY <2>1, <2>2, <2>6, Zenon DEF RegularInv, Update, SetActiveCommand, Rollback, SetActive
  <2>7. CASE UpdateStep \/ HandleAssets \/ HandleAssetsCopied \/ HandleAssetsCleaned
    BY <2>1, <2>2, <2>7, Zenon DEF RegularInv, UpdateStep, SyncBootFiles, SyncBootFilesCopied, Download,
        Apply, VerifyUpgradeWasApplied, HandleAssets, HandleAssetsCopied, HandleAssetsCleaned
  <2> QED
    BY <2>3, <2>4, <2>5, <2>6, <2>7 DEF Next, ToggleStep
<1> QED
  BY <1>2, <1>3, <1>4, <1>5, Frame DEF EnvStep

LEMMA RegularInvariant == ASSUME Bootloader = "grub" PROVE Spec => []RegularInv
<1>1. Init => RegularInv
  <2> SUFFICES ASSUME Init PROVE RegularInv
    OBVIOUS
  <2>1. Bootable("a")
    BY DEF Init, Bootable, Rootfs, Empty
  <2>2. ConfiguredRootfs = "a"
    BY DEF Init, EnvInit, ConfiguredRootfs
  <2> QED
    BY <2>1, <2>2 DEF Init, RegularInv
<1> QED
  BY <1>1, RegularInvInductive, TypeInvariant, MarkInvariant, PTL DEF Spec

(* RegularBootCorrect: with grub's order of writes in ToggleRootFS, a boot *)
(* outside a trial is always of a rootfs that comes up, wherever updates,  *)
(* rollbacks and power cuts fell and also when commands ran before         *)
(* "snappy booted".                                                        *)
THEOREM RegularBootCorrect ==
    ASSUME Bootloader = "grub" PROVE Spec => []RegularBootIsUsable
<1>1. RegularInv => RegularBootIsUsable
  BY DEF RegularInv, RegularBootIsUsable
<1> QED
  BY <1>1, RegularInvariant, PTL

(* AnnouncedBootCorrect: with grub, IsNextBootOther in a confirmed boot    *)
(* tells what the boot loader will do.                                     *)
THEOREM AnnouncedBootCorrect ==
    ASSUME Bootloader = "grub" PROVE Spec => []NextBootAsAnnounced
<1>1. TypeInv /\ MarkInv /\ RegularInv => NextBootAsAnnounced
  BY SMTT(30) DEF TypeInv, TypeOK, EnvTypeOK, ControlTypeOK, MarkInv, RegularInv, NextBootAsAnnounced,
      IsNextBootOther, BootChoice, TrialFailed, ConfiguredRootfs, other, Other, Rootfs, Unset,
      NoRootfs
<1> QED
  BY <1>1, TypeInvariant, MarkInvariant, RegularInvariant, PTL

----------------------------------------------------------------------------
(* A successful Install.                                                   *)

InstalledPCs == {"assets", "assets_copy", "assets_clean", "assets_spec", "toggle_1", "toggle_2"}

(* A half-applied image never counts as the latest one, so that a later    *)
(* download applies it again; and what verifyUpgradeWasApplied has seen    *)
(* stays so until the command ends and until the next one starts.          *)
InstalledInv ==
    /\ \A r \in torn : image[r] # Latest
    /\ pc = "verify" => other \notin torn
    /\ pc \in MarkPCs => op = "booted"
    /\ op = "update" /\ pc \in InstalledPCs \union {"idle"} =>
          running # NoRootfs /\ image[other] = target /\ other \notin torn
    /\ op = "update" /\ (pc = "idle" \/ (pc = "toggle_2" /\ Bootloader # "grub")) =>
          snappy_ab = other

LEMMA InstalledInvInductive == TypeInv /\ InstalledInv /\ [Next]_vars => InstalledInv'
<1> SUFFICES ASSUME TypeInv, InstalledInv, [Next]_vars PROVE InstalledInv'
  OBVIOUS
<1>0. /\ DiskTypeOK /\ other \in Rootfs
      /\ pc # "idle" => running # NoRootfs
  BY OtherIsRootfs DEF TypeInv, TypeOK
<1>1. running' = running => other' = other
  BY SMTT(30) DEF other
<1> USE DEF InstalledInv, InstalledPCs, MarkPCs
<1>2. CASE Publish
  <2>1. PICK x \in Image : store' = Append(store, x)
    BY <1>2 DEF Publish, Image
  <2>2. Latest' = Latest + 1
    BY <1>0, <2>1 DEF Latest, DiskTypeOK
  <2>3. \A r \in torn : image[r] \in 0..Latest
    BY <1>0 DEF DiskTypeOK, Latest
  <2>4. Latest \in Nat
    BY <1>0 DEF DiskTypeOK, Latest
  <2>5. (\A r \in torn : image[r] # Latest)'
    BY <1>2, <2>2, <2>3, <2>4 DEF Publish, diskVars
  <2> QED
    BY <1>1, <1>2, <2>5 DEF Publish, diskVars, envVars, procVars
<1>3. CASE Boot
  BY <1>0, <1>3 DEF Boot, procVars, diskVars, Latest
<1>4. CASE BootFails \/ PowerCut \/ Reboot
  BY <1>4 DEF BootFails, PowerCut, Reboot, PowerOff, diskVars, Latest
<1>5. CASE StepFails
  BY <1>5 DEF StepFails, diskVars, Latest
<1>6. CASE BootedStep
  BY <1>6 DEF BootedStep, MarkTrial, MarkAB, MarkMode, diskVars, Latest
<1>7. CASE Update
  BY <1>1, <1>7, SMTT(30) DEF Update, diskVars, Latest
<1>8. CASE SyncBootFiles \/ SyncBootFilesCopied
  BY <1>1, <1>8 DEF SyncBootFiles, SyncBootFilesCopied, Latest
<1>9. CASE Download
  BY <1>1, <1>9 DEF Download, Latest
<1>10. CASE Apply
  <2>1. \A r \in torn' : image'[r] = image[r]
    BY <1>0, <1>10 DEF Apply, DiskTypeOK
  <2> QED
    BY <1>1, <1>10, <2>1 DEF Apply, Latest
<1>11. CASE VerifyUpgradeWasApplied
  BY <1>0, <1>1, <1>11 DEF VerifyUpgradeWasApplied, diskVars, Latest
<1>12. CASE HandleAssets \/ HandleAssetsCopied \/ HandleAssetsCleaned
  BY <1>1, <1>12 DEF HandleAssets, HandleAssetsCopied, HandleAssetsCleaned, Latest
<1>13. CASE ToggleRootFSFirst \/ ToggleRootFSSecond
  BY <1>1, <1>13 DEF ToggleRootFSFirst, ToggleRootFSSecond, ToggleFirstWrite, ToggleSecondWrite,
      WriteAB, WriteMode, diskVars, Latest
<1>14. CASE SetActiveCommand
  <2>1. /\ UNCHANGED diskVars /\ UNCHANGED store
        /\ op' # "update" /\ pc' \in {"assets", "idle"}
    BY <1>14, Zenon DEF SetActiveCommand, Rollback, SetActive
  <2> QED
    BY <2>1 DEF diskVars, Latest
<1>15. CASE UNCHANGED vars
  BY <1>1, <1>15 DEF vars, envVars, diskVars, procVars, Latest
<1> QED
  BY <1>2, <1>3, <1>4, <1>5, <1>6, <1>7, <1>8, <1>9, <1>10, <1>11, <1>12, <1>13, <1>14, <1>15, Zenon
  DEF Next, UpdateStep, ToggleStep

LEMMA InstalledInvariant == Spec => []InstalledInv
<1>1. Init => InstalledInv
  BY DEF Init, InstalledInv, MarkPCs
<1> QED
  BY <1>1, InstalledInvInductive, TypeInvariant, PTL DEF Spec

(* InstallCorrect: an Install that returned without error has put the      *)
(* whole image it was asked for on the other rootfs and made it the next   *)
(* boot, with either boot loader and whatever earlier, interrupted updates *)
(* left behind.                                                            *)
THEOREM InstallCorrect == Spec => []UpdateTakesEffect
<1>1. TypeInv /\ MarkInv /\ InstalledInv => UpdateTakesEffect
  BY OtherIsRootfs DEF MarkInv, InstalledInv, UpdateTakesEffect, BootChoice, TrialFailed,
      ConfiguredRootfs, Rootfs, Unset
<1> QED
  BY <1>1, TypeInvariant, MarkInvariant, InstalledInvariant, PTL
=============================================================================
