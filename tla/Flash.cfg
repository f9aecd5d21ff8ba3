SPECIFICATION FairSpec
CONSTANTS
    NB = 3
    NR = 3
    P = 2
    Images <- MCImages
    Tables <- MCTables
    MaxBad = 2
    MaxFaults = 2
    MaxTasks = 2
CHECK_DEADLOCK FALSE
INVARIANTS IInv ReadBack HeaderLast
PROPERTIES GoodBlocksOnly Ends
