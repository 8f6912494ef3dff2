SPECIFICATION Spec
CONSTANTS
    B = 24
    G = 2
    BPG = 16
    IPG = 4
    IPB = 2
    ITPG = 2
    DPB = 1
    GD = 2
    RootIno = 1
    LostFoundIno = 2
    Names = {"a", "b", "c"}
    ND = 1
    NP = 2
    DirCap = 5
    MaxTarget = 2
    Requests <- TreeRequests
    MaxIno = 12
    MaxOps = 3
INVARIANTS
    TypeOK
    CountersCoverBitmaps
    OneTornCopyAtMost
    StaysInside
    SubdirsUnique
    LinksLagByOne
    CleanWhenIdle
PROPERTIES
    PublishedStays
