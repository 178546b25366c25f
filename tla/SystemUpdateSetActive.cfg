CONSTANTS
    Bootloader = "grub"
    MaxVersion = 2
    MaxKernel = 1
    MaxFaults = 0
SPECIFICATION Spec
INVARIANT ActivateUndoesToggle
