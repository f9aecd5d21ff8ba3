SPECIFICATION FairSpec
CONSTANTS
    Ord <- MCOrd
    ENDHDR = 22
    FOOTER_SIZE = 6
    RSANUMBYTES = 256
    Volumes = {"S"}
    Roots = {"S", "T"}
    ScriptName <- Scr
    BinaryName <- Bin
    AmendName <- Amd
    Props <- MCProps
    PropFiles <- MCPropFiles
    PipeCap = 1
    MaxFaults = 2
    Packages <- MCPackages
    Exprs <- MCExprs
    KeyFiles <- MCKeyFiles
    OtherLines <- MCOtherLines
    MaxOther = 2
    LineMax = 2
    Tree0 <- MCTree0
CHECK_DEADLOCK FALSE
INVARIANTS TypeOK SuccessMeansDone RunsSigned AbortShown Agree
PROPERTIES ExtractsAllOrLost Ends
