------------------------------ MODULE Controller ------------------------------
(***************************************************************************)
(* The naiw-tasks controller for one task: any number of concurrent        *)
(* invocations (Proc) of the subcommands in Commands, Pi and its           *)
(* container, and crashes of the controller between any two steps.         *)
(***************************************************************************)
EXTENDS StartCmd, FinishCmd, RecoverCmd, ListCmd, CleanCmd

\* Before `naiw-tasks start`.
Init ==
    /\ rec = NoRec /\ dir = FALSE /\ io = FALSE
    /\ journal = << >> /\ log = 0 /\ wt = FALSE
    /\ ctr = NoCtr /\ made = 0 /\ allocated = FALSE
    /\ pc = [p \in Proc |-> "idle"]
    /\ loc = [p \in Proc |-> IdleLoc]

\* After a start that succeeded and has exited: the initial states of the
\* runs about the commands that follow it.
InitStarted ==
    /\ \E auto \in AutoFinishArgs, kind \in Kinds, policy \in Policies :
          /\ rec = [NoRec EXCEPT !.file = "valid", !.status = "running",
                      !.auto = auto, !.kind = kind, !.policy = policy,
                      !.worktree = (kind = "project")]
          /\ wt = (kind = "project")
    /\ dir = TRUE /\ io = TRUE
    /\ journal = << >> /\ log = 0
    /\ ctr = [id |-> 1, st |-> "running"] /\ made = 1 /\ allocated = TRUE
    /\ pc = [p \in Proc |-> "idle"]
    /\ loc = [p \in Proc |-> IdleLoc]

Step(p) ==
    Start(p) \/ Finish(p) \/ Teardown(p) \/ Recover(p) \/ List(p) \/ Clean(p)

Next == Environment \/ \E p \in Proc : Step(p) \/ Crash(p)

Spec == Init /\ [][Next]_vars

SpecStarted == InitStarted /\ [][Next]_vars

\* A running invocation goes on; the operator keeps calling reap;
\* a Docker call that reaps make again and again is answered in the end.
Fairness ==
    /\ \A p \in Proc : WF_vars(~At(p, "idle") /\ Step(p))
    /\ SF_vars(\E p \in Proc : ListBegin(p) /\ loc'[p].cmd = "reap")
    /\ SF_vars(\E p \in Proc :
          ListSnapshot(p) /\ loc[p].cmd = "reap" /\ At(p, "l_read")')
    /\ SF_vars(\E p \in Proc : TeardownGet(p) /\ At(p, "t_stop")')
    /\ SF_vars(\E p \in Proc : TeardownRemove(p) /\ ctr' = NoCtr)
    /\ SF_vars(\E p \in Proc : TeardownVerify(p) /\ At(p, "t_worktree")')

FairSpecStarted == SpecStarted /\ Fairness

TypeOK ==
    /\ rec \in Rec
    /\ dir \in BOOLEAN /\ io \in BOOLEAN /\ wt \in BOOLEAN /\ allocated \in BOOLEAN
    /\ journal \in Seq(EventKinds)
    /\ log \in Nat /\ made \in Nat
    /\ ctr \in Containers
    /\ pc \in [Proc -> Steps]
    /\ loc \in [Proc -> Locals]
----------------------------------------------------------------------------
(* Refinement.                                                             *)

\* The start that owns the task id has not published task.json yet.
Unborn == ~allocated \/ \E p \in Proc : pc[p] \in {"s_skeleton", "s_scaffold"}

\* The phase of TaskLifecycle that task.json shows.
Phase ==
    CASE Readable /\ rec.status \in Terminal -> "settled"
      [] Readable /\ rec.status = "interrupted" -> "interrupted"
      [] Readable /\ rec.status \in {"running", "waiting_for_user"} -> "active"
      [] Readable /\ rec.status = "created" -> "created"
      [] OTHER -> IF Unborn THEN "none" ELSE "removed"

Lifecycle == INSTANCE TaskLifecycle WITH phase <- Phase, recoveries <- rec.recoveries

\* After start, no interleaving of finish, recover, list, reap and clean takes
\* the task off its lifecycle: a settled task never runs again, only settled
\* tasks are cleaned, and each recovery commits once.
FollowsLifecycle == Lifecycle!SpecActive

\* One invocation at a time, start included and crashing anywhere, keeps to
\* the lifecycle from the allocation of the id on.
FollowsLifecycleFromStart == Lifecycle!Spec
----------------------------------------------------------------------------
(* Safety.                                                                 *)

Quiescent == \A p \in Proc : At(p, "idle")

\* lifecycle.py:942-947: teardown goes past its verification, and records the
\* terminal status, only while the container is gone.
TornDownBeforeMarked ==
    \A p \in Proc : pc[p] \in {"t_worktree", "t_mark"} => ctr = NoCtr

\* list_cmd.py:105-114, 224-238: events_offset passes a done or fail of an
\* --auto-finish task only once the task is settled, unless a later event that
\* is consumed with it supersedes it: the last event of a batch decides.  (A
\* done that ends its batch is checked at the step that consumes it.)
SettlingEventNotLost ==
    Readable /\ rec.auto =>
        \A i \in 1..rec.offset :
            /\ journal[i] \in Settling
            /\ \A j \in i + 1..rec.offset : journal[j] \in Settling
            => rec.status \in Terminal

\* Every done or fail behind the offset has had the container torn down, which
\* only reap does.  (For a Pi that says nothing after done or fail; what it
\* says next would supersede it, and the container stay up.)
SettlingEventTornDown ==
    Readable /\ rec.auto /\ (\E i \in 1..rec.offset : journal[i] \in Settling)
        => ctr = NoCtr

\* The offset never goes back over events that were already consumed.
OffsetNeverRewinds == [][Readable' => rec'.offset >= rec.offset]_vars

\* terminal_log_max_size is a high-water mark under concurrent passes.
LogHighWater == [][Readable' => rec'.maxlog >= rec.maxlog]_vars

\* reconcile.py:131-139: list calls a task interrupted only when its container
\* is not up.  (False once recover overlaps: the listing may predate it.)
InterruptedOnlyWhenDown ==
    [][/\ rec.status \in {"running", "waiting_for_user"}
       /\ rec'.status = "interrupted"
       => ctr.st # "running"]_vars

\* lifecycle.py:689-691: a recover that gives up after its container started
\* leaves no container of its own behind.
RecoverLeavesNoZombie ==
    [][\A p \in Proc :
          /\ pc[p] \in {"r_reload", "r_commit", "r_killstop", "r_killremove"}
          /\ At(p, "idle")'
          => \/ rec'.recoveries = rec.recoveries + 1
             \/ ctr'.id # loc[p].handle]_vars

\* lifecycle.py:318-321: whatever start leaves outside task.json, a container
\* or a worktree, has a readable task.json that finish can work from.
StartLeavesRecord == ctr # NoCtr \/ wt => Readable

\* A worktree on disk is the one task.json names, so that finish removes it.
WorktreeRecorded ==
    wt => rec.worktree \/ \E p \in Proc : At(p, "s_meta")

\* Whatever a sequence of commands leaves behind, a container still has a
\* command that reaches it: finish through task.json, or clean as an orphan.
ContainerReachable == Quiescent /\ ctr # NoCtr => Readable \/ ~dir

\* lifecycle.py:530-533: after a failed teardown the next finish does not
\* short-circuit with "nothing to do".
FailedFinishCanRetry ==
    [][\A p \in Proc :
          At(p, "f_probe") /\ At(p, "idle")'
              => ~(rec.status = "failed" /\ rec.reason = "finish")]_vars
----------------------------------------------------------------------------
(* Liveness.                                                               *)

\* list_cmd.py:230-238, 313-316: the offset is held until teardown succeeds,
\* so a done or fail of an --auto-finish task is retried until the task is
\* settled and its container gone.
ReapSettles ==
    Readable /\ rec.auto /\ PiSettled ~> rec.status \in Terminal /\ ctr = NoCtr

\* reconcile.py:128-129: a task whose container has vanished does not stay
\* recorded as running.
LossNoticed ==
    rec.status \in {"running", "waiting_for_user"} /\ ctr = NoCtr
        ~> rec.status \notin {"running", "waiting_for_user"}
==============================================================================
