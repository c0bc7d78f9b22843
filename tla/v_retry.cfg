SPECIFICATION SpecStarted
CONSTANTS
    p1 = p1
    p2 = p2
    Proc = {p1}
    Commands = {"finish"}
    AutoFinishArgs = {FALSE}
    Kinds = {"project"}
    Policies = {"delete_worktree"}
    Flags = {"none", "keep_worktree", "delete_worktree"}
    ExitStates = {}
    Faults = {"git"}
    ChattyPi = FALSE
    MaxContainers = 1
    MaxEvents = 0
    MaxLog = 0
PROPERTY FailedFinishCanRetry
