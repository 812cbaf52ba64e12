SPECIFICATION MCSpec
CONSTANTS
    MaxCalls = 2
    MaxResets = 1
    MaxChanges = 1
    MaxEntries = 2
    DatasetFields = {"NetworkName", "PSKc", "SecurityPolicy", "RawTlvs"}
    MaxDatasetCalls = 4
    MaxNetSteps = 4
    MaxNetEvents = 4
    Timers = {"permit", "links", "log"}
    TimerWrap = 7
    MaxInterval = 2
    MaxLate = 1
    PumpCapacity = 6
    MaxNcpFrames = 3
    MaxNoise = 2
    MaxCommands = 3
    MaxPackets = 2
    MaxPumpResets = 2
    StatWrap = 16
    HistorySize = 2
    NodeHistory = 2
    MaxNodes = 2
    MaxStatEvents = 4
    TicksPerSecond = 2
    MaxFwTime = 3
    Readers = {r1, r2}
    MaxCaptureFaults = 2
    MaxUpgrades = 3
    MaxUpgradeCalls = 4
VIEW View
INVARIANTS
    ValuesHold
    CallsAnswered
    UnpackFaithful
    NotMixed
    InterfaceAgrees
    
    SleepsUntilNextTimer
    NoiseCostsOnlyItsFrames
    OkMeansSentWhole
    InsecureOnlyWhenAsked
    CaptureFollowsStreams
    OkMeansUpgraded
PROPERTIES
    UserEntriesSurvive
    StatsFaithful
CHECK_DEADLOCK FALSE
