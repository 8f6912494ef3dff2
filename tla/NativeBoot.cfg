SPECIFICATION Spec
CONSTANTS
    ArrayLen = 2
    Reserved = 8
    PerSector = 6
    MinClusters = 10
    Batch = 4
    SectorSize = 2
    N = 50
    MinDisk = 40
    MiB = 5
    Jobs <- SmallJobs
    Disks <- SmallDisks
    MaxRuns = 2
INVARIANTS
    TypeOK
    OldOrNewTable
    TableSurvives
    StaysInPartition
    NamesWhole
    LagsByOne
    CleanWhenIdle
    DoneMeansBootable
