SPECIFICATION Spec
CONSTANTS
    CreateIp = TRUE
    MaxKills = 1
    MaxStarts = 1
    MaxCommands = 1
INVARIANTS
    KeepsVolumes
    
    

    
CHECK_DEADLOCK FALSE
