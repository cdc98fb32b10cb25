SPECIFICATION FairSpec
CONSTANTS
    t1 = t1
    t2 = t2
    Tasks = {t1}
    Items = {i1}
    Asked <- BillAsked
    None = None
    WriteEvery = 2
    MaxFaults = 0
    MaxCrashes = 1
PROPERTIES DeadTaskFound
