CONSTANTS
    MaxVersion = 3
    MaxFaults = 1
    Services = {d1, d2}
SPECIFICATION Spec
INVARIANTS CommandsLeaveItWhole FailedInstallRestoresOld ActiveIsWhole DependentsRunAgain OneOldVersionKept
