CONSTANTS
    Bootloader = "grub"
    MaxVersion = 3
    MaxKernel = 1
    MaxFaults = 0
SPECIFICATION Spec
INVARIANT RevertIsAlwaysUsable
