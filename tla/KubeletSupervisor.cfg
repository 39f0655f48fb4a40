SPECIFICATION SupFairSpec
CONSTANTS
    Retries = 10
    OkResponses = 3
INVARIANTS
    ProbeVerdict
    LeavesNoKubelet
    ConfiguresHealthyCluster

    
CHECK_DEADLOCK FALSE
