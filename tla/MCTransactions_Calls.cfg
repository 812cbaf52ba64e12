CONSTANTS
    CounterMod = 7
    TidCount = 3
    MaxResets = 2
    InitCalls = 1
    BatchSize = 3
    MaxStray = 1
    MaxRequests = 9
SPECIFICATION Spec
INVARIANTS OwnReply NoTableLeak
PROPERTY CallsFinish
CHECK_DEADLOCK FALSE
