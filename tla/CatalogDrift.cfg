SPECIFICATION Spec
CONSTANTS
    t1 = t1
    t2 = t2
    Title <- MCTitle
    Seeded <- MCSeeded
    Text <- MCText
    SeedText = "old"
    Request = {r1, r2}
    ForeignKeys = TRUE
    MaxIds = 3
    MaxRequests = 3
    MaxBoots = 2
SYMMETRY Requests
INVARIANT DriftVisible
CHECK_DEADLOCK FALSE
