SPECIFICATION FairSpec
CONSTANTS
    Daily = daily
    Manual = {manual}
    Date <- DateDef
    Chunks <- ChunksDef
    Unlinked = {}
    Moving = {2}
    MaxAttempts = 2
    NoButtons = NoButtons
    MaxUrl = 2
    MaxActivity = 1
    MaxManual = 1
    MaxFaults = 1

    
    
PROPERTIES
    Settles
