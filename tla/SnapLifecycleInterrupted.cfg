CONSTANTS
    MaxVersion = 1
    MaxFaults = 1
    Services = {d1, d2}
SPECIFICATION Spec
INVARIANT InstalledLoads
