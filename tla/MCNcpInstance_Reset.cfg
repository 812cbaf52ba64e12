CONSTANTS
    NcpReliable = TRUE
    MaxResets = 2
    MaxStatus = 1
SPECIFICATION Spec
PROPERTY ResetRecovers
CHECK_DEADLOCK FALSE
