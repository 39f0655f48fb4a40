SPECIFICATION DaemonFairSpec
CONSTANT MaxRuns = 4
INVARIANTS
    OneKubelet
    OrderlyStop
PROPERTIES
    PidFileKept
    StopSignalEnds
CHECK_DEADLOCK FALSE
