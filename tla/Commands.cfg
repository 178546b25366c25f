SPECIFICATION CommandSpec
CONSTANTS
    Process = {p1, p2, p3}
    Inode = {i1, i2, i3}
    Versions = 2
    Service <- MCService
    Asked = {""}
    Command = {"c1", "c2"}
    Task = {"t1"}
    StopSteps = 2
    MaxRounds = 2
    MaxOps = 2
    MaxFaults = 1
INVARIANTS OverlapOnlyAfterUnlink OnlyActiveRuns ResultIsTrue
PROPERTIES LoneCommandRuns OperationsEnd
