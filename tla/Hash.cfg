SPECIFICATION FairSpec
CONSTANTS
    Items <- MCItems
    Keys <- MCKeys
    Key <- MCKey
    HashOf <- MCHashOf
    Expected = {0, 1, 2}
    MaxSize = 8
    NULL = NULL
    TOMBSTONE = TOMBSTONE
CHECK_DEADLOCK FALSE
INVARIANTS IInv EachOnce
PROPERTIES Refinement Halts
