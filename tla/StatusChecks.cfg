SPECIFICATION StatusSpec
CONSTANTS
    Checks = {"configuration", "pki", "runtime", "kubelet_running", "apiserver_health", "iknite_server_health", "workload_status"}
    TopLevel <- StatusTopLevel
    SubChecks <- StatusSubChecks
    DependsOn <- StatusDependsOn
    HasCheckFn <- StatusHasCheckFn
    Facts = {"ca.crt", "extra.crt", "iknite_server", "w1"}
    Workloads = {"w1"}
    Modes = {"wait", "once", "watch", "both"}
    Retries = 1
    OkResponses = 2
    MaxMissing = 1
    MaxChanges = 1
INVARIANTS
    
    
    KeepsPidFile
PROPERTIES
    StatusEnds
CHECK_DEADLOCK FALSE
