SPECIFICATION Spec
CONSTANTS
    Configs <- AllConfigs
INVARIANTS
    TypeOK
    PlanPossible
    FilesGoHome
    SuccessMeansInstalled
    FailureAttributed
    HaltedWhereAsked
PROPERTIES
    NothingAfterFailure
