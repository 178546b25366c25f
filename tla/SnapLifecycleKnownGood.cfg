CONSTANTS
    MaxVersion = 3
    MaxFaults = 0
    Services = {d1}
SPECIFICATION Spec
INVARIANT KnownGoodKept
