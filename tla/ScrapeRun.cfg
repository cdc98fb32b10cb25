SPECIFICATION FairSpec
CONSTANTS
    Scrapes = {s1, s2}
    Scheduled = {s1, s2}
    NoMark = NoMark
    Nobody = Nobody
    TailLines = 2
    Window = 2
    Threshold = 2
    MaxFiled = 2
    MaxLog = 1
    MaxFaults = 1
    MaxDeaths = 1
INVARIANTS
    WatermarkSound
    MarkerKept
    BlockIsOwnEra
PROPERTIES
    CallEnds
CHECK_DEADLOCK FALSE
