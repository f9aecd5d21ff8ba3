SPECIFICATION Spec
CONSTANTS
    N = 3
    Loc <- MCLoc
    Partition = {pBoot}
    Src <- MCSrc
    Tgt <- MCTgt
    Content <- MCContent
    Torn = Torn
    Absent = Absent
    Accepts <- MCAccepts
    Target <- MCTarget
    NoSums = {3}
    Size <- MCSize
    CacheFile <- MCCacheFile
    FileSize <- MCFileSize
    OpenFiles = {package}
    CacheCap = 6
    SpaceArg = 2
    Faults = {}
    MaxRestarts = 2
    fA = fA
    fB = fB
    fC = fC
    pBoot = pBoot
    oldA = oldA
    oldB = oldB
    oldP = oldP
    newA = newA
    newB = newB
    newP = newP
    package = package
    junk = junk
CHECK_DEADLOCK FALSE
INVARIANTS PartitionRecoverable
