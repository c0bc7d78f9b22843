------------------------------ MODULE Reconcile ------------------------------
(***************************************************************************)
(* reconcile.compute_status: the pure truth table that `naiw-tasks list`   *)
(* and `naiw-tasks reap` evaluate on (status in task.json, state of the    *)
(* task's container, kind of the latest unread Pi event).                  *)
(* An exit code is abstracted to what the table tells apart: zero or not.  *)
(* A failure_reason is the class of its text (see TaskState).              *)
(***************************************************************************)

Terminal == {"completed", "failed", "cancelled"}

Statuses == {"created", "running", "waiting_for_user", "interrupted"} \cup Terminal

\* Container states of docker inspect for which a live task counts as interrupted.
InterruptedCtrStates == {"paused", "restarting", "created", "dead", "removing"}

CtrStates == InterruptedCtrStates \cup {"running", "exited0", "exitedN", "notfound"}

\* Kind of the latest unread event; "none" when the tail is empty.
EventKinds == {"done", "fail", "wait"}
Pending == EventKinds \cup {"none"}

ReconcileReasons == {"none", "missing"}

Row(status, transitioned, reason) ==
    [status |-> status, transitioned |-> transitioned, reason |-> reason]

Stays(status) == Row(status, FALSE, "none")
Becomes(status) == Row(status, TRUE, "none")

\* Mutant: a container that was removed is not taken for a lost one.
FromLostIfListed(status, ctr) ==
    CASE ctr = "exitedN" -> Becomes("failed")
      [] ctr \in InterruptedCtrStates \cup {"exited0"} -> Becomes("interrupted")
      [] OTHER -> Stays(status)

\* The container of a running or waiting task is no longer up.
FromLost(status, ctr) ==
    CASE ctr = "exitedN" -> Becomes("failed")
      [] ctr \in InterruptedCtrStates \cup {"exited0", "notfound"} -> Becomes("interrupted")
      [] OTHER -> Stays(status)

FromRunning(ctr, event) ==
    CASE event = "done" -> Becomes("completed")
      [] event = "fail" -> Becomes("failed")
      [] event \notin {"done", "fail"} /\ ctr = "running" ->
            IF event = "wait" THEN Becomes("waiting_for_user") ELSE Stays("running")
      [] OTHER -> FromLost("running", ctr)

FromCreated(ctr, event) ==
    CASE event = "done" -> Becomes("completed")
      [] event = "fail" -> Becomes("failed")
      [] event \notin {"done", "fail"} /\ ctr = "running" -> Becomes("running")
      [] event \notin {"done", "fail"} /\ ctr = "notfound" -> Row("failed", TRUE, "missing")
      [] OTHER -> Becomes("failed")

\* Mutant: the row of the running container is missing.
FromWaitingNoRunning(ctr, event) ==
    CASE event = "done" -> Becomes("completed")
      [] event = "fail" -> Becomes("failed")
      [] event \notin {"done", "fail"} /\ ctr = "exitedN" -> Becomes("failed")
      [] OTHER -> Becomes("interrupted")

FromWaiting(ctr, event) ==
    CASE event = "done" -> Becomes("completed")
      [] event = "fail" -> Becomes("failed")
      [] event \notin {"done", "fail"} /\ ctr = "running" -> Stays("waiting_for_user")
      [] OTHER -> FromLost("waiting_for_user", ctr)

\* Unknown, terminal and interrupted statuses are never changed by a pass.
ComputeStatus(status, ctr, event) ==
    CASE status = "running" -> FromRunning(ctr, event)
      [] status = "created" -> FromCreated(ctr, event)
      [] status = "waiting_for_user" -> FromWaiting(ctr, event)
      [] OTHER -> Stays(status)
==============================================================================
