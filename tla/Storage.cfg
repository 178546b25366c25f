SPECIFICATION StorageSpec
CONSTANTS
    BindOrder <- MCBindOrder
    Boot = 1
    MaxFailures = 1
    MaxLate = 1
    Data <- MCData
    bufsz = 2
    maxcp = 2
    MaxFileOps = 2
    MaxFileFaults = 1
    PipeSize = 2
    MaxWrites = 4
    MaxDownloads = 2
    Trees <- MCTrees
    Profiles <- MCProfiles
    MaxPackFaults = 2
    MaxTries = 4
INVARIANTS StorageTypeOK FsckUnmounted SuccessIsClean InterruptIsClean OldOrNew CopiedIsEqual DownloadIsTrue UnpackedIsBuilt
PROPERTIES SignalEndsProcess
