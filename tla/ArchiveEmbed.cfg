SPECIFICATION FairSpec
CONSTANTS
    BillOf <- BillOfDef
    Archive0 = {1, 3}
    LedgerCap = 2
    ReconcileCap = 1
    DeleteOrphans = TRUE
    OrphanBudget = 1
    FillScope = "current"
    SaveEvery = 1
    MaxFailed = 1
    MaxClock = 2
    MaxRestarts = 1
    MaxFaults = 1
INVARIANTS
    ForgetsNothing
    WatermarkSound

    
