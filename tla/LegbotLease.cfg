SPECIFICATION FairLeaseSpec
CONSTANTS
    Runs = {r1, r2, r3}
    NoRun = NoRun
    TTL = 13
    Renew = 2
    Stall = 1
    MaxMissed = 1
    MaxDeaths = 1
INVARIANTS
    MutualExclusion
    CheckedOwnerStillOwns
PROPERTIES
    AbandonedLeaseExpires
    GuardSpec
CHECK_DEADLOCK FALSE
