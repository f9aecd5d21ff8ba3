SPECIFICATION Spec
CONSTANTS
    Fstab <- GalaxyS
    MountPoints <- GalaxySPoints
    InitDisk <- GalaxySDisk
    Faults = {"/system", "/cache", "/sdcard", "umount", "mkfs", "rm", "write", "img"}
    MaxAge = 1
    MaxCrashes = 1
    MaxTasks = 3
CHECK_DEADLOCK FALSE
INVARIANTS IInv NeverFormatsMounted BackupExact RestoreExact
PROPERTIES BackupSurvives
