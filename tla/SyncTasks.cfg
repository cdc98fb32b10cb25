SPECIFICATION FairSpec
CONSTANTS
    t1 = t1
    t2 = t2
    Tasks = {t1, t2}
    Items = {i1, i2}
    Asked <- AllAsked
    None = None
    WriteEvery = 2
    MaxFaults = 1
    MaxCrashes = 1
INVARIANTS CheckpointedWasTried CompletedCoversItems
PROPERTIES FinishedStays TaskEnds
