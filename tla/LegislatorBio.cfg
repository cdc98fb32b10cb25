SPECIFICATION FairSpec
CONSTANTS
    us1 = us1
    fl1 = fl1
    Order <- OrderDef
    Federal = {us1}
    WithOpenStates = {fl1}
    WithBioguide = {us1}
    NewMember = TRUE
    WeeklyOptions <- Weekly
    ManualOptions <- Manual
    PerPage = 1
    MaxChanges = 1
    MaxManual = 1
    MaxEdits = 1
    MaxFaults = 1
INVARIANTS
    ImageBacked
PROPERTIES
    
    Converges
