SPECIFICATION Spec
CONSTANTS
    Mtd = TRUE
    Mkfs = {"data", "cache"}
    Commands <- Secure
    InitFs <- Healthy
    MenuErases = {}
    MenuFormats = {}
    MenuRestores = {}
    Faults = {}
    MaxRequests = 1
    MaxCrashes = 1
    MaxLog = 4
CHECK_DEADLOCK FALSE
INVARIANTS TransitionCompletes
