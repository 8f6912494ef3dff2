SPECIFICATION FairSpec
CONSTANTS
    B = 39
    G = 3
    BPG = 16
    IPG = 4
    IPB = 2
    ITPG = 2
    DPB = 4
    GD = 1
    RootIno = 1
    LostFoundIno = 2
    Names = {"a", "b", "c"}
    ND = 1
    NP = 2
    DirCap = 5
    MaxTarget = 2
    Requests <- FileRequests
    MaxIno = 12
    MaxOps = 3
INVARIANTS
    BlocksOwnedOnce
    NothingDangles
    CleanWhenIdle
PROPERTIES
    RequestsEnd
