SPECIFICATION FairSpec
CONSTANTS
    Agents = {a1}
    Syncs = {s1}
    MaxAttempts = 3
    ClientRetries = 1
    MaxTime = 1
    MaxFaults = 1
    Gap = 1
    Window = 1
INVARIANTS
    TypeOK
    AttemptBudget
PROPERTY CallersSettle
CHECK_DEADLOCK FALSE
