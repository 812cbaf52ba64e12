SPECIFICATION MCSpec
CONSTANTS
    MtThreads = {"a", "b"}
    MtFragSize = 8
    MtRetryMax = 2
    MaxMtLost = 2
    MaxMtEarly = 2
    MacCapacity = 4091
    LockThreads = {t1, t2, t3}
    Anonymous = {t3}
    MaxNest = 2
    FifoDepth = 3
    MaxBytes = 4
    MaxTodo = 3
INVARIANTS
    SentMeansWhole
    FragmentsNotMixed
    MessagesWhole
    MutexExcludes
    FifoDelivers
PROPERTIES
    EveryTxReturns
CHECK_DEADLOCK FALSE
