SPECIFICATION Spec
CONSTANTS
    Text = {"", "dhcp", "x", "y"}
    Module = {1, 2}
    MaxSets = 2
    MaxFailures = 1
    SnapName = "ttyS0"
    Device = {"/dev/gpio1", "/sys/devices/gpio1", "/dev/ttyS0"}
    KernelName <- MCKernelName
    MaxVersions = 2
    MaxFaults = 2
    SnapFile <- MCSnapFile
    LocalFile = {1, 3}
    Origin <- MCOrigin
    Built = {1, 2, 3}
    UbuntuArchitecture = "amd64"
    License = {1}
    MaxTasks = 1
    Package <- MCPackage
    Kind <- MCKind
    MaxRelease = 2
    MaxJobs = 2
    MaxCuts = 1
    MaxInt = 2
    Known <- MCKnown
    Parts = 3
INVARIANTS TypeOK SetApplied AccessInForce AnswerIsTrue ConfiguresActive SortedByVersion InstalledIsAdmitted
PROPERTIES NetworkBeforeStamp OthersKeepAccess OneOriginActive
