CONSTANTS
    Bootloader = "u-boot"
    MaxVersion = 2
    MaxKernel = 1
    MaxFaults = 1
SPECIFICATION Spec
INVARIANT RegularBootIsUsable
