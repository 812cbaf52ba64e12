SPECIFICATION IpcSpec
CONSTANTS
    MaxClients = 2
    Plans <- MCPlans
    Configs <- MCConfigs
    MaxFaults = 1
INVARIANTS
    IpcConsistent
    ZeroMeansDone
PROPERTIES
    EveryToolReturns
\* The tools end.
CHECK_DEADLOCK FALSE
