SPECIFICATION FairCloudSpec
CONSTANTS
    Jobs = {j1, j2}
    MaxCallFaults = 1
    MaxCrashes = 2
INVARIANTS
    WatchedIsDurable
    LoadsBounded
    UnwatchedTaskReported
PROPERTIES
    ResumedClearedAfterReport
    OrphanResolved
CHECK_DEADLOCK FALSE
