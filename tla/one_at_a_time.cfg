SPECIFICATION Spec
CONSTANTS
    p1 = p1
    p2 = p2
    Proc = {p1}
    Commands = {"start", "list", "reap", "dry_reap", "finish", "clean"}
    AutoFinishArgs = {FALSE, TRUE}
    Kinds = {"project", "generic"}
    Policies = {"ask"}
    Flags = {"none", "keep_worktree", "delete_worktree"}
    ExitStates = {"exited0", "exitedN", "notfound"}
    Faults = {"docker", "git", "crash"}
    ChattyPi = TRUE
    MaxContainers = 1
    MaxEvents = 2
    MaxLog = 0
PROPERTY FollowsLifecycleFromStart
INVARIANT ContainerReachable
