SPECIFICATION FairSpec
CONSTANTS
    Claim = {a, b}
    NoClaim = NoClaim
    Hasty = FALSE
    WritesFail = TRUE
    WorkersPanic = TRUE
    MaxRestarts = 1
INVARIANTS
    TypeOK
    SaltKept
PROPERTIES
    PollFindsClaim
\* The bounds run out: no claim left to start, nothing on its way.
CHECK_DEADLOCK FALSE
