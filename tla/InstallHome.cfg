SPECIFICATION Spec
CONSTANTS
    Configs <- RootFirstConfigs
INVARIANT
    UnmountsDeepestFirst
