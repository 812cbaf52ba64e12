SPECIFICATION Spec
CONSTANTS
    Scenarios <- MCScenarios
    Options <- MCOptions
    Capabilities <- MCCapabilities
    CanSetPower = FALSE
    AutoResume = TRUE
    Notices <- MCNotices
    OddReplies = {"bad_type", "bad_name", "old_version"}
    FailureThreshold = 2
    InfoCommands <- MCInfo
    MaxRx = 4
INVARIANT CoreConsistent
PROPERTIES
    EveryCallAnswered
    InitCompletes
    OfflinePollHeals
\* The driver may stop in FAULT.
CHECK_DEADLOCK FALSE
