------------------------------ MODULE RecoverCmd ------------------------------
(***************************************************************************)
(* lifecycle.recover: replace the container of an interrupted task.  The   *)
(* status is checked when the command starts and again, under the lock,    *)
(* when it commits; between the two the old container is removed and the   *)
(* new one is running without task.json saying so.  The git-state probe    *)
(* and the log banner only read and append; they are not modelled.         *)
(***************************************************************************)
EXTENDS TaskState

\* _build_volumes: every bind source must exist.
SourcesExist(p) == io /\ (loc[p].snap.kind = "project" => wt)

RecoverBegin(p) ==
    /\ Begin(p, "recover", "r_read")
    /\ loc' = [loc EXCEPT ![p] = [IdleLoc EXCEPT !.cmd = "recover"]]
    /\ UNCHANGED world

\* read_task creates meta/ even for a task that does not exist.
RecoverRead(p) ==
    /\ At(p, "r_read")
    /\ ReadTouches
    /\ \/ ~(Readable /\ rec.status = "interrupted") /\ Exit(p)
       \/ /\ Readable /\ rec.status = "interrupted"
          /\ Goto(p, "r_get")
          /\ loc' = [loc EXCEPT ![p].snap = rec]
    /\ UNCHANGED <<rec, tree, docker, allocated>>

RecoverGet(p) ==
    /\ At(p, "r_get")
    /\ \/ /\ ctr # NoCtr
          /\ Goto(p, "r_stop")
          /\ loc' = [loc EXCEPT ![p].handle = ctr.id]
       \/ (ctr = NoCtr \/ DockerFails) /\ Goto(p, "r_create") /\ UNCHANGED loc
    /\ UNCHANGED world

RecoverStop(p) ==
    /\ At(p, "r_stop")
    /\ StopHeld(p)
    /\ Goto(p, "r_remove")
    /\ UNCHANGED <<disk, made, allocated, loc>>

RecoverRemove(p) ==
    /\ At(p, "r_remove")
    /\ RemoveHeld(p)
    /\ Goto(p, "r_create")
    /\ UNCHANGED <<disk, made, allocated, loc>>

\* _build_volumes, then the create half of containers.run (409: name taken).
RecoverCreate(p) ==
    /\ At(p, "r_create")
    /\ \/ /\ SourcesExist(p) /\ ctr = NoCtr
          /\ made < MaxContainers
          /\ made' = made + 1
          /\ ctr' = [id |-> made + 1, st |-> "created"]
          /\ loc' = [loc EXCEPT ![p].handle = made + 1]
          /\ Goto(p, "r_run")
       \/ /\ \/ ~SourcesExist(p) \/ ctr # NoCtr
             \/ DockerFails \/ made = MaxContainers
          /\ Exit(p)
          /\ UNCHANGED docker
    /\ UNCHANGED <<disk, allocated>>

\* The start half of containers.run.
RecoverRun(p) ==
    /\ At(p, "r_run")
    /\ \/ /\ Holds(p)
          /\ ctr' = [ctr EXCEPT !.st = "running"]
          /\ Goto(p, "r_reload")
          /\ UNCHANGED loc
       \/ /\ DockerFails \/ ~Holds(p)
          /\ Exit(p)
          /\ UNCHANGED ctr
    /\ UNCHANGED <<disk, made, allocated>>

RecoverReload(p) ==
    /\ At(p, "r_reload")
    /\ \/ Holds(p) /\ Goto(p, "r_commit")
       \/ (DockerFails \/ ~Holds(p)) /\ Goto(p, "r_killstop")
    /\ UNCHANGED <<world, loc>>

\* Mutant: the compare-and-set fails without killing the new container.
RecoverCommitNoKill(p) ==
    /\ At(p, "r_commit")
    /\ IF rec.status = "interrupted"
       THEN UpdateTask([rec EXCEPT !.status = "running",
                                   !.recoveries = rec.recoveries + 1])
       ELSE UNCHANGED rec /\ dir' = TRUE
    /\ Exit(p)
    /\ UNCHANGED <<tree, docker, allocated>>

\* _to_running: the compare-and-set on status = interrupted, which raises
\* (and leaves the file as it was) when the status has changed; update_task
\* may also raise by itself.
RecoverCommit(p) ==
    /\ At(p, "r_commit")
    /\ \/ /\ rec.status = "interrupted"
          /\ UpdateTask([rec EXCEPT !.status = "running",
                                    !.recoveries = rec.recoveries + 1])
          /\ Exit(p)
       \/ /\ rec.status # "interrupted" \/ "write" \in Faults
          /\ UNCHANGED rec /\ dir' = TRUE
          /\ Goto(p, "r_killstop") /\ UNCHANGED loc
    /\ UNCHANGED <<tree, docker, allocated>>

\* _kill_new_container, and the same two calls after a failed reload.
RecoverKillStop(p) ==
    /\ At(p, "r_killstop")
    /\ StopHeld(p)
    /\ Goto(p, "r_killremove")
    /\ UNCHANGED <<disk, made, allocated, loc>>

RecoverKillRemove(p) ==
    /\ At(p, "r_killremove")
    /\ RemoveHeld(p)
    /\ Exit(p)
    /\ UNCHANGED <<disk, made, allocated>>

Recover(p) ==
    \/ RecoverBegin(p) \/ RecoverRead(p) \/ RecoverGet(p) \/ RecoverStop(p)
    \/ RecoverRemove(p) \/ RecoverCreate(p) \/ RecoverRun(p) \/ RecoverReload(p)
    \/ RecoverCommit(p) \/ RecoverKillStop(p) \/ RecoverKillRemove(p)
==============================================================================
