SPECIFICATION FairSpec
CONSTANTS
    p1 = p1
    p2 = p2
    Proc = {p1, p2}
    Runs <- MCRuns
    MaxTasks = 1
    MaxData = 2
    Stuck = {}
    Pinned = {}
PROPERTY CleanDegrades
