CONSTANTS
    MaxScans = 3
    MaxBeacons = 2
SPECIFICATION FairSpec
INVARIANT ScanConsistent
PROPERTY ScansReturn
CHECK_DEADLOCK FALSE
