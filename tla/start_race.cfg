SPECIFICATION Spec
CONSTANTS
    p1 = p1
    p2 = p2
    Proc = {p1, p2}
    Commands = {"start", "list", "finish"}
    AutoFinishArgs = {TRUE}
    Kinds = {"project"}
    Policies = {"delete_worktree"}
    Flags = {"none", "keep_worktree", "delete_worktree"}
    ExitStates = {"exited0"}
    Faults = {"docker", "git"}
    ChattyPi = FALSE
    MaxContainers = 1
    MaxEvents = 0
    MaxLog = 1
SYMMETRY Symm
INVARIANT StartLeavesRecord
INVARIANT WorktreeRecorded
PROPERTY LogHighWater
