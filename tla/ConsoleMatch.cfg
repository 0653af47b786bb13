SPECIFICATION Spec
CONSTANTS
    Agents = {a1, a2}
    Syncs = {}
    MaxAttempts = 1
    ClientRetries = 0
    MaxTime = 3
    MaxFaults = 1
    Gap = 1
    Window = 1
SYMMETRY AgentSymmetry
INVARIANTS
    RunNotSplit
    OwnRowsTogether
    MatchNotGuessed
    MatchedOnce
CHECK_DEADLOCK FALSE
