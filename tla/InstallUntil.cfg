SPECIFICATION Spec
CONSTANTS
    Configs <- Interrupted
INVARIANT
    UntilHalts
