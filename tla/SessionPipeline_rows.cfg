SPECIFICATION Spec
CONSTANTS
    c1 = c1
    c2 = c2
    c3 = c3
    k1 = k1
    b1 = b1
    b2 = b2
    Calls = {c1, c2}
    NoCall = NoCall
    Singles = {}
    Retrying = {c2}
    Keys = {k1}
    KeyOf <- OneKey
    Bills = {b1}
    BillsOf <- AllBills
    Plain = {p1}
    Transitions = {v2, v3}
    Latest = v3
    InitStatus = {"absent", "failed", "rejected", "complete"}
    Slots = 1
    MaxEscapes = 0
    MaxRejects = 1
    MaxCrashes = 1
INVARIANTS
    OneRunWithoutEscape

    
CHECK_DEADLOCK FALSE
