SPECIFICATION FairSpec
CONSTANTS
    Secondary = {va, mi}
    va = va
    mi = mi
    FL = fl
    Manifests <- ManifestsDef
    Authoritative = TRUE
    Excludable = {mi}
    Hosts <- HostsDef
    EscalateWindow = 1
    MaxLen = 2
    MaxFaults = 1
    MaxPulls = 1
    MaxRestarts = 1
INVARIANTS
    OneJobEach
    NightlyRecorded
PROPERTIES
    NeverDemoted
    
CHECK_DEADLOCK FALSE
