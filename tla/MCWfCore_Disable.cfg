SPECIFICATION Spec
CONSTANTS
    Scenarios <- MCToggles
    Options <- MCOptions
    Capabilities <- MCCapabilities
    CanSetPower = FALSE
    AutoResume = TRUE
    Notices = {}
    OddReplies = {}
    FailureThreshold = 2
    InfoCommands <- MCInfo
    MaxRx = 4
PROPERTY DisableServed
CHECK_DEADLOCK FALSE
