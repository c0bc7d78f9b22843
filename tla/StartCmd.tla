------------------------------- MODULE StartCmd -------------------------------
(***************************************************************************)
(* lifecycle.start: skeleton, scaffold task.json, worktree, container,     *)
(* status=running.  Neither _to_running nor _to_failed looks at the status *)
(* it overwrites.  ids.allocate_task_id gives each start a fresh id        *)
(* (module IdAllocator), so this task is started at most once.             *)
(***************************************************************************)
EXTENDS TaskState

\* _build_volumes: every bind source must exist.
VolumesResolve(kind) == io /\ (kind = "project" => wt)

StartBegin(p) ==
    /\ Begin(p, "start", "s_skeleton")
    /\ ~allocated
    /\ allocated' = TRUE
    /\ \E auto \in AutoFinishArgs, kind \in Kinds, policy \in Policies :
          loc' = [loc EXCEPT ![p] =
                    [IdleLoc EXCEPT !.cmd = "start",
                       !.snap = [NoRec EXCEPT !.file = "valid", !.status = "created",
                                   !.auto = auto, !.kind = kind, !.policy = policy]]]
    /\ UNCHANGED <<disk, docker>>

StartSkeleton(p) ==
    /\ At(p, "s_skeleton")
    /\ dir' = TRUE /\ io' = TRUE
    /\ Goto(p, "s_scaffold")
    /\ UNCHANGED <<rec, journal, log, wt, docker, allocated, loc>>

\* Mutant: the directory is reserved, task.json is left to a later step.
StartScaffoldLater(p) ==
    /\ At(p, "s_scaffold")
    /\ dir' = TRUE
    /\ Goto(p, IF loc[p].snap.kind = "project" THEN "s_worktree" ELSE "s_create")
    /\ UNCHANGED <<rec, tree, docker, allocated, loc>>

\* store.write_task(_initial_task(...))
StartScaffold(p) ==
    /\ At(p, "s_scaffold")
    /\ rec' = loc[p].snap /\ dir' = TRUE
    /\ Goto(p, IF loc[p].snap.kind = "project" THEN "s_worktree" ELSE "s_create")
    /\ UNCHANGED <<tree, docker, allocated, loc>>

\* Mutant: the container is created before _attach_project_meta.
StartWorktreeUnrecorded(p) ==
    /\ At(p, "s_worktree")
    /\ wt' = TRUE /\ dir' = TRUE
    /\ Goto(p, "s_create")
    /\ UNCHANGED <<rec, io, journal, log, docker, allocated, loc>>

\* projects.load, resolve_base and git_ops.worktree_add.
StartWorktree(p) ==
    /\ At(p, "s_worktree")
    /\ \/ /\ wt' = TRUE /\ dir' = TRUE
          /\ Goto(p, "s_meta")
       \/ /\ "git" \in Faults
          /\ Goto(p, "s_fail")
          /\ UNCHANGED <<wt, dir>>
    /\ UNCHANGED <<rec, io, journal, log, docker, allocated, loc>>

\* _attach_project_meta
StartMeta(p) ==
    /\ At(p, "s_meta")
    /\ UpdateTask([rec EXCEPT !.worktree = TRUE])
    /\ Goto(p, "s_create")
    /\ UNCHANGED <<tree, docker, allocated, loc>>

\* _build_volumes, then the create half of containers.run: 409 while the
\* name is taken.
StartCreate(p) ==
    /\ At(p, "s_create")
    /\ \/ /\ VolumesResolve(loc[p].snap.kind) /\ ctr = NoCtr
          /\ made < MaxContainers
          /\ made' = made + 1
          /\ ctr' = [id |-> made + 1, st |-> "created"]
          /\ loc' = [loc EXCEPT ![p].handle = made + 1]
          /\ Goto(p, "s_run")
       \/ /\ \/ ~VolumesResolve(loc[p].snap.kind) \/ ctr # NoCtr
             \/ DockerFails \/ made = MaxContainers
          /\ Goto(p, "s_fail")
          /\ UNCHANGED <<docker, loc>>
    /\ UNCHANGED <<disk, allocated>>

\* The start half of containers.run.
StartRun(p) ==
    /\ At(p, "s_run")
    /\ \/ /\ Holds(p)
          /\ ctr' = [ctr EXCEPT !.st = "running"]
          /\ Goto(p, "s_reload")
       \/ /\ DockerFails \/ ~Holds(p)
          /\ Goto(p, "s_fail")
          /\ UNCHANGED ctr
    /\ UNCHANGED <<disk, made, allocated, loc>>

\* container.reload() and the image digest.
StartReload(p) ==
    /\ At(p, "s_reload")
    /\ \/ Holds(p) /\ Goto(p, "s_commit")
       \/ (DockerFails \/ ~Holds(p)) /\ Goto(p, "s_fail")
    /\ UNCHANGED <<world, loc>>

\* _to_running
StartCommit(p) ==
    /\ At(p, "s_commit")
    /\ UpdateTask([rec EXCEPT !.status = "running"])
    /\ Exit(p)
    /\ UNCHANGED <<tree, docker, allocated>>

\* _to_failed
StartFail(p) ==
    /\ At(p, "s_fail")
    /\ UpdateTask([rec EXCEPT !.status = "failed", !.reason = "start"])
    /\ Exit(p)
    /\ UNCHANGED <<tree, docker, allocated>>

Start(p) ==
    \/ StartBegin(p) \/ StartSkeleton(p) \/ StartScaffold(p) \/ StartWorktree(p)
    \/ StartMeta(p) \/ StartCreate(p) \/ StartRun(p) \/ StartReload(p)
    \/ StartCommit(p) \/ StartFail(p)
==============================================================================
