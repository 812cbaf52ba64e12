CONSTANTS
    NcpReliable = FALSE
    MaxResets = 2
    MaxStatus = 2
SPECIFICATION Spec
INVARIANTS NcpConsistent
PROPERTIES InitDecides CommandsFinish
CHECK_DEADLOCK FALSE
