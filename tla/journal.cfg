SPECIFICATION FairSpec
CONSTANTS
    r1 = r1
    r2 = r2
    Reader = {r1, r2}
    MaxEvents = 3
    ShortWrites = TRUE
    Recreations = TRUE
INVARIANT NoDuplicates
PROPERTY FollowsStream
PROPERTY AllReceived
