SPECIFICATION SpecStarted
CONSTANTS
    p1 = p1
    p2 = p2
    Proc = {p1, p2}
    Commands = {"list", "reap", "finish", "recover", "clean"}
    AutoFinishArgs = {TRUE}
    Kinds = {"generic"}
    Policies = {"ask"}
    Flags = {"none"}
    ExitStates = {"exited0"}
    Faults = {"write"}
    ChattyPi = TRUE
    MaxContainers = 2
    MaxEvents = 2
    MaxLog = 0
SYMMETRY Symm
INVARIANT TypeOK
PROPERTY FollowsLifecycle
INVARIANT SettlingEventNotLost
PROPERTY RecoverLeavesNoZombie
