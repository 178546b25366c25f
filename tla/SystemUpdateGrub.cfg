CONSTANTS
    Bootloader = "grub"
    MaxVersion = 3
    MaxKernel = 2
    MaxFaults = 1
SPECIFICATION FairSpec
INVARIANTS RegularBootIsUsable RevertIsUsable UpdateTakesEffect NextBootAsAnnounced UpdatedKernelMatches
PROPERTIES Recovers LatestImageRuns
