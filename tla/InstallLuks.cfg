SPECIFICATION Spec
CONSTANTS
    Configs <- Encrypted
INVARIANT
    EncryptedPossible
