SPECIFICATION MCSpec
CONSTANTS
    W <- SmallWidth
    Limits <- SmallLimits
    Configs <- AskedOrInstalling
    Clients <- AskingAndInstalling
INVARIANTS
    TypeOK
    PortValidatesAlike
    PortPlansAlike
    RangesDisjoint
    FstabMatchesMounts
    BootsItsRoot
    CompletedIsPrefix
    ErrorsInOrder
    PhaseOrderPossible
    CarefulGoesHome
    SuccessMeansInstalled
PROPERTIES
    ClimbsLadder
    NothingAfterFatal
