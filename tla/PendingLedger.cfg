SPECIFICATION Spec
CONSTANTS
    Tx = {t1, t2}
    AbsentAfter = 1
    MaxId = 2
    WritesFail = TRUE
    Damage = TRUE
INVARIANTS
    TypeOK
    IdsUnique
    OwedBytesOnDisk
    OwedBytesInMemory
PROPERTY
    BytesKept
