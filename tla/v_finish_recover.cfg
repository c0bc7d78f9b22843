SPECIFICATION SpecStarted
CONSTANTS
    p1 = p1
    p2 = p2
    Proc = {p1, p2}
    Commands = {"list", "finish", "recover"}
    AutoFinishArgs = {FALSE}
    Kinds = {"generic"}
    Policies = {"ask"}
    Flags = {"none", "keep_worktree", "delete_worktree"}
    ExitStates = {"exited0"}
    Faults = {}
    ChattyPi = FALSE
    MaxContainers = 2
    MaxEvents = 0
    MaxLog = 0
SYMMETRY Symm
INVARIANT TornDownBeforeMarked
