SPECIFICATION FairSpec
CONSTANTS
    Tasks = {t1}
    OnDemand = {t1}
    NoTask = NoTask
    QueueWait = 2
    GenTimeout = 2
    Buffer = 4
    PollMax = 1
    HandleMax = 1
    MaxFaults = 2
    MaxCrashes = 1
INVARIANTS
    SweepSparesLive
    
PROPERTIES
    
    
    AbandonedRecordResolved
CHECK_DEADLOCK FALSE
