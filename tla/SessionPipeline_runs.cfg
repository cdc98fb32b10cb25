SPECIFICATION FairSpec
CONSTANTS
    c1 = c1
    c2 = c2
    c3 = c3
    k1 = k1
    b1 = b1
    b2 = b2
    Calls = {c1, c3}
    NoCall = NoCall
    Singles = {c3}
    Retrying = {}
    Keys = {k1}
    KeyOf <- OneKey
    Bills = {b1, b2}
    BillsOf <- MixedBills
    Plain = {p1}
    Transitions = {v2}
    Latest = v2
    InitStatus = {"complete"}
    Slots = 1
    MaxEscapes = 1
    MaxRejects = 0
    MaxCrashes = 1
INVARIANTS
    BudgetExact
    OrgOwned
PROPERTIES
    RunEnds
CHECK_DEADLOCK FALSE
