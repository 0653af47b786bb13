SPECIFICATION FairSpec
CONSTANTS
    User = {u1}
    Request = {r1, r2}
    Digest = digest
    Kind <- MCStrongKind
    MaxBatch = 1
    MaxStamps = 2
    MAX_EVENTS_CONSIDERED = 2
    NoUser = NoUser
PROPERTY CooldownBetweenRuns
CHECK_DEADLOCK FALSE
