SPECIFICATION FairSpec
CONSTANTS
    MaxEvents = 3
    MaxFailures = 3
    Poison = {3}
INVARIANTS
    TypeOK
    NothingLost
    StoredTwiceOnlyAfterFailure
    OrderKept
PROPERTY Delivered
CHECK_DEADLOCK FALSE
