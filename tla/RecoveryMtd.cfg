SPECIFICATION FairSpec
CONSTANTS
    Mtd = TRUE
    Mkfs = {"data"}
    Commands <- AllCommands
    InitFs <- AnyFs
    MenuErases = {"data", "cache"}
    MenuFormats = {"data"}
    MenuRestores = {"cache"}
    Faults = {"format", "package", "write", "log"}
    MaxRequests = 2
    MaxCrashes = 2
    MaxLog = 3
CHECK_DEADLOCK FALSE
INVARIANTS IInv NeverAbandoned ResetErases LogComplete
PROPERTIES SecfsComplete NoCycle Carried
