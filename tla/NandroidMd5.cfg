SPECIFICATION Spec
CONSTANTS
    Fstab <- GalaxyS
    MountPoints <- GalaxySPoints
    InitDisk <- GalaxySDisk
    Faults = {"tar"}
    MaxAge = 0
    MaxCrashes = 0
    MaxTasks = 2
CHECK_DEADLOCK FALSE
INVARIANTS RestoreExact
