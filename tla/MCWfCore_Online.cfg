SPECIFICATION Spec
CONSTANTS
    Scenarios <- MCFewScenarios
    Options <- MCOptions
    Capabilities <- MCCapabilities
    CanSetPower = FALSE
    AutoResume = TRUE
    Notices = {}
    OddReplies = {}
    FailureThreshold = 2
    InfoCommands <- MCInfo
    MaxRx = 4
INVARIANT InterfaceRuns
CHECK_DEADLOCK FALSE
