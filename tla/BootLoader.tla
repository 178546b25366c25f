----------------------------- MODULE BootLoader -----------------------------
(***************************************************************************)
(* The boot environment shared by the boot loader and by snappy, and the   *)
(* code on both sides of it: the script the boot loader runs               *)
(* (partition/migrate_grub.go, newGrubConfig) and the partition package's  *)
(* writers (bootloader_grub.go, bootloader_uboot.go).                      *)
(*                                                                         *)
(* The three variables survive a power cut.  Each one is written by its    *)
(* own call of setBootVar, so an operation that changes two of them can be *)
(* interrupted in between: ToggleRootFS and MarkCurrentBootSuccessful are  *)
(* given here one write at a time.                                         *)
(***************************************************************************)
EXTENDS Integers

CONSTANT Bootloader   \* "grub" or "u-boot": bootloaderImpl finds one of them

ASSUME BootloaderAssumption == Bootloader \in {"grub", "u-boot"}

VARIABLES snappy_ab,         \* bootloaderRootfsVar
          snappy_mode,       \* bootloaderBootmodeVar
          snappy_trial_boot  \* bootloaderTrialBootVar

envVars == <<snappy_ab, snappy_mode, snappy_trial_boot>>

Rootfs == {"a", "b"}

Unset == "unset"   \* a variable that was never written reads as ""

Other(r) == IF r = "a" THEN "b" ELSE "a"

EnvTypeOK ==
    /\ snappy_ab \in Rootfs \union {Unset}
    /\ snappy_mode \in {Unset, "regular", "try"}
    /\ snappy_trial_boot \in {Unset, "0", "1"}

\* A fresh image: the installer has set nothing, or the default values.
EnvInit ==
    /\ snappy_ab \in {Unset, "a"}
    /\ snappy_mode \in {Unset, "regular"}
    /\ snappy_trial_boot = Unset

----------------------------------------------------------------------------
(* The boot loader's script.                                               *)

\* The script's default for an unset snappy_ab.
ConfiguredRootfs == IF snappy_ab = Unset THEN "a" ELSE snappy_ab

\* A trial is under way and a boot of it was already attempted.
TrialFailed == snappy_mode = "try" /\ snappy_trial_boot = "1"

\* Variant: a failed trial is booted again.
BootChoiceNoRevert == ConfiguredRootfs

BootChoice == IF TrialFailed THEN Other(ConfiguredRootfs) ELSE ConfiguredRootfs

\* Variant: the script does not remember that it tried.
RunBootScriptNoTrialMark ==
    /\ snappy_ab' = BootChoice
    /\ snappy_mode' = IF snappy_mode = Unset THEN "regular" ELSE snappy_mode
    /\ UNCHANGED snappy_trial_boot

(* What the script saves before it loads the kernel of BootChoice: the     *)
(* defaults, the trial mark on the first attempt, the flipped rootfs on    *)
(* the second.  The mode stays what it was.                                *)
RunBootScript ==
    /\ snappy_ab' = BootChoice
    /\ snappy_mode' = IF snappy_mode = Unset THEN "regular" ELSE snappy_mode
    /\ snappy_trial_boot' = IF snappy_mode = "try" THEN "1" ELSE snappy_trial_boot

----------------------------------------------------------------------------
(* The writers in the partition package.                                   *)

WriteMode(m) == snappy_mode' = m /\ UNCHANGED <<snappy_ab, snappy_trial_boot>>

WriteAB(r) == snappy_ab' = r /\ UNCHANGED <<snappy_mode, snappy_trial_boot>>

WriteTrial(t) == snappy_trial_boot' = t /\ UNCHANGED <<snappy_ab, snappy_mode>>

\* Variant: the rootfs is always written first.
ToggleFirstWriteRootfs(other) == WriteAB(other)

\* ToggleRootFS: grub marks the mode first, u-boot the rootfs.
ToggleFirstWrite(other) ==
    IF Bootloader = "grub" THEN WriteMode("try") ELSE WriteAB(other)

ToggleSecondWrite(other) ==
    IF Bootloader = "grub" THEN WriteAB(other) ELSE WriteMode("try")

\* Variant: any trial counts, whichever rootfs it is of.
IsNextBootOtherAnyTrial(current) == snappy_mode = "try"

\* Partition.IsNextBootOther, asked while current is mounted on /.
IsNextBootOther(current) == snappy_mode = "try" /\ snappy_ab = Other(current)
=============================================================================
