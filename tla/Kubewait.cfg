SPECIFICATION KFairSpec
CONSTANTS
    Objects = {o1, o2}
    MaxChanges = 1
    MaxPollers = 2
    Types = {t1, t2}
    Others = {n1}
INVARIANTS
    
    OnePoller
    BootstrapAfterReady
PROPERTIES
    WaitEnds
CHECK_DEADLOCK FALSE
