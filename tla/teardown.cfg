SPECIFICATION FairSpecStarted
CONSTANTS
    p1 = p1
    p2 = p2
    Proc = {p1, p2}
    Commands = {"reap"}
    AutoFinishArgs = {TRUE}
    Kinds = {"generic"}
    Policies = {"ask"}
    Flags = {"none"}
    ExitStates = {"notfound"}
    Faults = {"docker"}
    ChattyPi = FALSE
    MaxContainers = 1
    MaxEvents = 2
    MaxLog = 0
INVARIANT TornDownBeforeMarked
INVARIANT SettlingEventTornDown
PROPERTY OffsetNeverRewinds
PROPERTY InterruptedOnlyWhenDown
PROPERTY ReapSettles
PROPERTY LossNoticed
