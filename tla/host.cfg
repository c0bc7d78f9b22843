SPECIFICATION FairSpec
CONSTANTS
    p1 = p1
    p2 = p2
    Proc = {p1, p2}
    Runs <- MCRuns
    MaxTasks = 3
    MaxData = 1
    Stuck = {1, 2}
    Pinned = {1, 2}
INVARIANT PruneOnlyCleaned
INVARIANT SoftLimit
PROPERTY NotLockedOut
PROPERTY SettledReclaimed
PROPERTY OthersReaped
PROPERTY OrphanPruned
