SPECIFICATION Spec
CONSTANTS
    Mtd = FALSE
    Mkfs = {}
    Commands <- Reset
    InitFs <- Healthy
    MenuErases = {}
    MenuFormats = {}
    MenuRestores = {}
    Faults = {}
    MaxRequests = 1
    MaxCrashes = 1
    MaxLog = 4
CHECK_DEADLOCK FALSE
INVARIANTS NeverAbandoned
