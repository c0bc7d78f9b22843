------------------------------ MODULE FinishCmd ------------------------------
(***************************************************************************)
(* lifecycle.finish, and lifecycle.teardown_and_mark, which reap also runs *)
(* for a pending event of an --auto-finish task.  Teardown stops and       *)
(* removes the container, verifies that its name is free, removes the      *)
(* worktree and records the terminal status.  Of the artifact capture      *)
(* between verification and worktree removal, which fails nothing, only    *)
(* its mkdir matters here; what it copies is module Artifacts.             *)
(***************************************************************************)
EXTENDS TaskState

FinishBegin(p) ==
    /\ Begin(p, "finish", "f_read")
    /\ dir
    /\ \E override \in Flags :
          loc' = [loc EXCEPT ![p] =
                    [IdleLoc EXCEPT !.cmd = "finish", !.override = override]]
    /\ UNCHANGED world

\* Mutant: the recorded status is kept even when it is not terminal.
EnterTeardownAsRecorded(p, target) ==
    /\ Goto(p, "t_read")
    /\ loc' = [loc EXCEPT ![p].target = rec.status]

\* Teardown with a given terminal status.
EnterTeardown(p, target) ==
    /\ Goto(p, "t_read")
    /\ loc' = [loc EXCEPT ![p].target = target]

\* force (--force, or a policy flag) skips the probe of a terminal task;
\* forced and probed teardowns preserve the recorded terminal status.
FinishRead(p) ==
    /\ At(p, "f_read")
    /\ ReadTouches
    /\ \/ ~Readable /\ Exit(p)
       \/ /\ Readable /\ rec.status \notin Terminal
          /\ EnterTeardown(p, "completed")
       \/ /\ Readable /\ rec.status \in Terminal
          /\ EnterTeardown(p, rec.status)
       \/ /\ Readable /\ rec.status \in Terminal /\ loc[p].override = "none"
          /\ Goto(p, "f_probe")
          /\ loc' = [loc EXCEPT ![p].target = rec.status]
    /\ UNCHANGED <<rec, tree, docker, allocated>>

\* "already <status>; nothing to do" unless a container is found.
FinishProbe(p) ==
    /\ At(p, "f_probe")
    /\ \/ ctr # NoCtr /\ Goto(p, "t_read") /\ UNCHANGED loc
       \/ (ctr = NoCtr \/ DockerFails) /\ Exit(p)
    /\ UNCHANGED world
----------------------------------------------------------------------------
(* teardown_and_mark.  A missing or unreadable task.json raises out of it. *)

\* _attach_controller_log raises when meta/ is gone; if meta/ goes just after
\* it, read_task makes it again and raises.
TeardownRead(p) ==
    /\ At(p, "t_read")
    /\ \/ ~Readable /\ dir' \in {dir, TRUE} /\ Exit(p)
       \/ /\ Readable /\ ReadTouches
          /\ Goto(p, "t_get")
          /\ loc' = [loc EXCEPT ![p].snap = rec]
    /\ UNCHANGED <<rec, tree, docker, allocated>>

\* containers.get(name): NotFound and APIError both mean "nothing to stop".
TeardownGet(p) ==
    /\ At(p, "t_get")
    /\ \/ /\ ctr # NoCtr
          /\ Goto(p, "t_stop")
          /\ loc' = [loc EXCEPT ![p].handle = ctr.id]
       \/ (ctr = NoCtr \/ DockerFails) /\ Goto(p, "t_verify") /\ UNCHANGED loc
    /\ UNCHANGED world

TeardownStop(p) ==
    /\ At(p, "t_stop")
    /\ StopHeld(p)
    /\ Goto(p, "t_remove")
    /\ UNCHANGED <<disk, made, allocated, loc>>

TeardownRemove(p) ==
    /\ At(p, "t_remove")
    /\ RemoveHeld(p)
    /\ Goto(p, "t_verify")
    /\ UNCHANGED <<disk, made, allocated, loc>>

\* Mutant: an APIError from the verifying get counts as "gone".
TeardownVerifyTrusting(p) ==
    /\ At(p, "t_verify")
    /\ \/ (ctr = NoCtr \/ DockerFails) /\ Goto(p, "t_worktree")
       \/ ctr # NoCtr /\ Goto(p, "t_refuse")
    /\ UNCHANGED <<world, loc>>

\* Only NotFound counts as torn down; a survivor or an APIError does not.
TeardownVerify(p) ==
    /\ At(p, "t_verify")
    /\ \/ ctr = NoCtr /\ Goto(p, "t_worktree")
       \/ (ctr # NoCtr \/ DockerFails) /\ Goto(p, "t_refuse")
    /\ UNCHANGED <<world, loc>>

\* _resolve_finish_policy: a flag wins; "ask" prompts under finish and
\* defaults to delete_worktree when nobody can answer.
ChosenPolicies(p) ==
    IF loc[p].override # "none" THEN {loc[p].override}
    ELSE IF loc[p].snap.policy # "ask" THEN {loc[p].snap.policy}
    ELSE IF loc[p].cmd = "finish" THEN {"keep_worktree", "delete_worktree"}
    ELSE {"delete_worktree"}

\* capture_bundle, whose mkdir may bring a cleaned directory back, and
\* git_ops.worktree_remove; a worktree that is already gone is not an error.
TeardownWorktree(p) ==
    /\ At(p, "t_worktree")
    /\ dir' \in {dir, TRUE}
    /\ IF loc[p].snap.kind = "project" /\ loc[p].snap.worktree
       THEN \E policy \in ChosenPolicies(p) :
              \/ policy = "keep_worktree" /\ Goto(p, "t_mark") /\ UNCHANGED wt
              \/ policy = "delete_worktree" /\ Goto(p, "t_mark") /\ wt' = FALSE
              \/ /\ policy = "delete_worktree" /\ wt /\ "git" \in Faults
                 /\ Goto(p, "t_refuse") /\ UNCHANGED wt
       ELSE Goto(p, "t_mark") /\ UNCHANGED wt
    /\ UNCHANGED <<rec, io, journal, log, docker, allocated, loc>>

\* finish exits; reap goes on with the next step of its pass over the task.
Return(p, step) ==
    IF loc[p].cmd = "reap" THEN Goto(p, step) /\ UNCHANGED loc ELSE Exit(p)

\* _mark_finish_failed and exit status 1, which reap catches.
TeardownRefuse(p) ==
    /\ At(p, "t_refuse")
    /\ UpdateTask([rec EXCEPT !.status = "failed", !.reason = "finish"])
    /\ Return(p, "l_reread")
    /\ UNCHANGED <<tree, docker, allocated>>

\* _to_terminal: unconditional, with the precedence of failure reasons.
TeardownMark(p) ==
    /\ At(p, "t_mark")
    /\ UpdateTask([rec EXCEPT
          !.status = loc[p].target, !.finished = TRUE,
          !.reason = IF loc[p].reason # "none" THEN loc[p].reason
                     ELSE IF loc[p].target = "completed" /\ @ = "finish" THEN "none"
                     ELSE @])
    /\ Return(p, "l_advance")
    /\ UNCHANGED <<tree, docker, allocated>>

Finish(p) == FinishBegin(p) \/ FinishRead(p) \/ FinishProbe(p)

Teardown(p) ==
    \/ TeardownRead(p) \/ TeardownGet(p) \/ TeardownStop(p) \/ TeardownRemove(p)
    \/ TeardownVerify(p) \/ TeardownWorktree(p) \/ TeardownRefuse(p)
    \/ TeardownMark(p)
==============================================================================
