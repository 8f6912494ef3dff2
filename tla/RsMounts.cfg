SPECIFICATION Spec
CONSTANTS
    W <- SmallWidth
    Limits <- SmallLimits
    Configs <- Modes
    Clients = {1}
INVARIANTS
    ContinuesHome
