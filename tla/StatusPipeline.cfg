SPECIFICATION FairSpec
CONSTANTS
    MaxPhases = 1
    MaxTicks = 1
INVARIANTS
    
    StartReadsStatus
PROPERTIES
    ServedForward
    
    StopCompletes
CHECK_DEADLOCK FALSE
