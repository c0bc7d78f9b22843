---------------------------------- MODULE Host ----------------------------------
(***************************************************************************)
(* Several tasks on one data root: what cli._client_for and startup_checks *)
(* let each subcommand do (Docker reachable or not, disk full or not), the *)
(* loop of list_cmd.run over all tasks, and clean.run's loops over task    *)
(* directories and orphan containers.                                      *)
(*                                                                         *)
(* What a command does to ONE task, step by step, is module Controller.    *)
(* Here the teardown, the row or the failed start of one task is a step;   *)
(* between the tasks of a pass, anything may happen.                       *)
(***************************************************************************)
EXTENDS Naturals, FiniteSets

CONSTANTS
    Proc,      \* slots for concurrent naiw-tasks invocations
    Runs,      \* the subcommands each of them runs
    MaxTasks,  \* bound: tasks started
    MaxData,   \* max_data_size, in task directories
    Stuck,     \* tasks whose container the proxy refuses to remove
    Pinned     \* tasks whose directory rmtree cannot remove

Task == 1..MaxTasks

\* clean_all is clean --older-than 0s --yes.
Cleans == {"clean", "clean_all"}
Commands == {"start", "recover", "finish", "reap"} \cup Cleans

ASSUME HostAssumption ==
    /\ IsFiniteSet(Proc)
    /\ Runs \in [Proc -> SUBSET Commands]
    /\ MaxTasks \in Nat /\ MaxData \in Nat \ {0}
    /\ Stuck \subseteq Task /\ Pinned \subseteq Task

VARIABLES
    docker,    \* up; refuses: the proxy answers with errors; silent: no answer
    rec,       \* the phase each task.json shows; refused: failed, reason finish:
    dir,       \* tasks that have a directory
    ctr,       \* tasks that have a container
    events,    \* --auto-finish tasks with an unread done or fail
    pc, loc    \* control point and locals of each invocation

DockerStates == {"up", "refuses", "silent"}

world == <<docker, rec, dir, ctr, events>>
vars == <<world, pc, loc>>

Phases == {"none", "created", "active", "interrupted", "refused", "settled", "removed"}
Terminal == {"refused", "settled"}
Settled == {t \in Task : rec[t] \in Terminal}

Present == {t \in Task : rec[t] \notin {"none", "removed"}}

\* task: of start, finish and recover; left: tasks the loop has yet to visit;
\* seen: their phases when they were read; snap: tasks with a listed container;
\* client: clean has a Docker client (and TRUE when it does not matter).
IdleLoc == [cmd |-> "none", task |-> 0, left |-> {}, seen |-> [t \in Task |-> "none"],
            snap |-> {}, client |-> TRUE]

Init ==
    /\ docker = "up"
    /\ rec = [t \in Task |-> "none"]
    /\ dir = {} /\ ctr = {} /\ events = {}
    /\ pc = [p \in Proc |-> "idle"]
    /\ loc = [p \in Proc |-> IdleLoc]

At(p, step) == pc[p] = step
Goto(p, step) == pc' = [pc EXCEPT ![p] = step]
Exit(p) == Goto(p, "idle") /\ loc' = [loc EXCEPT ![p] = IdleLoc]

\* The loops go through the tasks in the order of their names.
Foremost(tasks) == {t \in tasks : \A u \in tasks : t <= u}
----------------------------------------------------------------------------
(* Environment.                                                            *)

DockerChanges ==
    /\ docker' \in DockerStates \ {docker}
    /\ UNCHANGED <<rec, dir, ctr, events, pc, loc>>

PiSettles ==
    /\ \E t \in ctr \ events :
          /\ rec[t] \in {"created", "active"}
          /\ events' = events \cup {t}
    /\ UNCHANGED <<docker, rec, dir, ctr, pc, loc>>
----------------------------------------------------------------------------
(* cli._client_for and startup_checks.run_all.                             *)

First(cmd) ==
    CASE cmd = "start"   -> "s_make"
      [] cmd = "recover" -> "r_recover"
      [] cmd = "finish"  -> "f_teardown"
      [] cmd = "reap"    -> "l_read"
      [] cmd \in Cleans  -> "c_read"

\* Mutant: every subcommand checks the disk.
GatedAll == Commands

Gated == {"start", "recover"}

\* Tasks that together take more than 95 percent of max_data_size.
TooMuch == {s \in SUBSET Task : 100 * Cardinality(s) > 95 * MaxData}
Full == Present \in TooMuch

\* Mutant: the disk is full when nothing is left of max_data_size.
AdmittedAtLimit(cmd) ==
    /\ docker = "up" \/ (docker = "refuses" /\ cmd \in Cleans)
    /\ cmd \in Gated => Cardinality(Present) <= MaxData

\* Mutant: clean stops like everybody else when the daemon is down.
AdmittedWithDocker(cmd) == docker = "up" /\ (cmd \in Gated => ~Full)

\* check_docker_reachable and check_disk_threshold.  An answer that is an error
\* is a DockerException and then a DockerCheckFailed, which clean survives.  No
\* answer is an exception of requests, which is neither and ends every command.
Admitted(cmd) ==
    /\ docker = "up" \/ (docker = "refuses" /\ cmd \in Cleans)
    /\ cmd \in Gated => ~Full

\* An invocation and its checks; a refused one changes nothing.  Only finish
\* and recover name a task.
Begin(p, cmd, t) ==
    /\ At(p, "idle")
    /\ cmd \in Runs[p]
    /\ IF cmd \in {"finish", "recover"} THEN t \in dir ELSE t = 1
    /\ Admitted(cmd)
    /\ Goto(p, First(cmd))
    /\ loc' = [loc EXCEPT ![p] = [IdleLoc EXCEPT !.cmd = cmd, !.task = t,
                                           !.client = (docker = "up")]]
    /\ UNCHANGED world
----------------------------------------------------------------------------
(* start, recover, finish.                                                 *)

\* store.update_task: the directory of a cleaned task comes back as a stub.
Update(t, phase) ==
    /\ rec' = [rec EXCEPT ![t] = IF @ = "removed" THEN @ ELSE phase]
    /\ dir' = dir \cup {t}

\* allocate_task_id, the skeleton and the scaffold task.json.
StartMake(p) ==
    LET new == {t \in Task : rec[t] = "none"}
    IN  /\ At(p, "s_make")
        /\ \/ new = {} /\ Exit(p) /\ UNCHANGED <<rec, dir>>
           \/ \E t \in Foremost(new) :
                 /\ rec' = [rec EXCEPT ![t] = "created"]
                 /\ dir' = dir \cup {t}
                 /\ loc' = [loc EXCEPT ![p].task = t]
                 /\ Goto(p, "s_run")
        /\ UNCHANGED <<docker, ctr, events>>

\* containers.run, whose bind sources must exist.  A failure, which start writes
\* down, may leave a container; one it does not catch leaves status created too.
StartRun(p) ==
    LET t == loc[p].task
    IN  /\ At(p, "s_run")
        /\ \/ /\ docker = "up" /\ t \in Present
              /\ ctr' = ctr \cup {t} /\ Goto(p, "s_commit") /\ UNCHANGED <<rec, dir, loc>>
           \/ /\ docker # "up" \/ t \notin Present
              /\ ctr' \in {ctr, ctr \cup ({t} \cap Present)}
              /\ \/ docker = "silent" /\ UNCHANGED <<rec, dir>>
                 \/ docker # "silent" /\ Update(t, "settled")
              /\ Exit(p)
        /\ UNCHANGED <<docker, events>>

StartCommit(p) ==
    /\ At(p, "s_commit")
    /\ Update(loc[p].task, "active")
    /\ Exit(p)
    /\ UNCHANGED <<docker, ctr, events>>

\* A new container for an interrupted task; a failure may leave it without one,
\* or with one that task.json does not show.
RecoverTask(p) ==
    LET t == loc[p].task
    IN  /\ At(p, "r_recover")
        /\ \/ /\ docker = "up" /\ rec[t] = "interrupted" /\ t \notin Stuck \cap ctr
              /\ ctr' = ctr \cup {t} /\ rec' = [rec EXCEPT ![t] = "active"]
           \/ /\ rec[t] = "interrupted"
              /\ ctr' \in {ctr, ctr \ ({t} \ Stuck), ctr \cup {t}} /\ UNCHANGED rec
           \/ rec[t] # "interrupted" /\ UNCHANGED <<ctr, rec>>
        /\ dir' = dir \cup {t}
        /\ Exit(p)
        /\ UNCHANGED <<docker, events>>

\* teardown_and_mark: done without a container, or refused; the container may
\* have gone before Docker failed.
Teardown(t, done) ==
    \/ /\ docker = "up" /\ (t \in ctr => t \notin Stuck)
       /\ rec' = [rec EXCEPT ![t] = done] /\ ctr' = ctr \ {t}
    \/ /\ docker = "refuses" \/ (docker = "up" /\ t \in ctr \cap Stuck)
       /\ rec' = [rec EXCEPT ![t] = "refused"] /\ ctr' \in {ctr, ctr \ ({t} \ Stuck)}

\* An exception of requests, which nothing catches, leaves the status as it is.
TeardownDies(t) ==
    /\ docker = "silent"
    /\ ctr' \in {ctr, ctr \ ({t} \ Stuck)} /\ UNCHANGED rec

\* finish keeps a failed status with its reason; "nothing to do" without a
\* container or when asking for it is refused, which --force does not ask for.
FinishTeardown(p) ==
    LET t == loc[p].task
    IN  /\ At(p, "f_teardown")
        /\ \/ /\ t \in Present
              /\ \/ Teardown(t, IF rec[t] = "refused" THEN "refused" ELSE "settled")
                 \/ TeardownDies(t)
           \/ /\ \/ t \notin Present
                 \/ rec[t] \in Terminal /\ (t \notin ctr \/ docker = "refuses")
              /\ UNCHANGED <<rec, ctr>>
        /\ dir' = dir \cup {t}
        /\ Exit(p)
        /\ UNCHANGED <<docker, events>>

Start(p) == StartMake(p) \/ StartRun(p) \/ StartCommit(p)
----------------------------------------------------------------------------
(* reap: one listing, one read of every task.json, then row after row.     *)

ReapRead(p) ==
    /\ At(p, "l_read")
    /\ \/ docker # "up" /\ Exit(p)
       \/ /\ docker = "up"
          /\ loc' = [loc EXCEPT ![p] = [@ EXCEPT !.snap = ctr, !.left = Present, !.seen = rec]]
          /\ Goto(p, "l_row")
    /\ UNCHANGED world

\* The locals of a pass that has done with t; what it read of t is dropped.
Visited(l, t) == [l EXCEPT !.left = @ \ {t}, !.seen[t] = "none"]

\* The row after t, or the end of the pass.
NextRow(p, t) ==
    IF loc[p].left = {t} THEN Exit(p)
    ELSE Goto(p, "l_row") /\ loc' = [loc EXCEPT ![p] = Visited(@, t)]

\* compute_status: what becomes of a task whose container was up, or was not.
Reconciled(phase, up) ==
    CASE phase = "created" -> IF up THEN "active" ELSE "settled"
      [] phase = "active" -> IF up THEN "active" ELSE "interrupted"
      [] OTHER -> phase

\* The compare-and-set fails: task.json has changed since it was read.
RowStale(p, t) ==
    /\ rec[t] # loc[p].seen[t]
    /\ dir' = dir \cup {t}
    /\ NextRow(p, t)
    /\ UNCHANGED <<rec, ctr, events>>

RowReconciled(p, t) ==
    /\ rec[t] = loc[p].seen[t] /\ (t \notin events \/ rec[t] = "settled")
    /\ \E up \in {FALSE, (t \in loc[p].snap)} : rec' = [rec EXCEPT ![t] = Reconciled(@, up)]
    /\ events' = events \ {t}
    /\ NextRow(p, t)
    /\ UNCHANGED <<dir, ctr>>

\* Mutant: the SystemExit of a failed teardown ends the pass.
RowReapedOrStop(p, t) ==
    /\ rec[t] = loc[p].seen[t] /\ t \in events /\ rec[t] # "settled"
    /\ Teardown(t, "settled")
    /\ IF rec'[t] = "settled" THEN events' = events \ {t} /\ NextRow(p, t)
       ELSE UNCHANGED events /\ Exit(p)
    /\ UNCHANGED dir

\* Inline teardown; the event stays unread when it fails.
RowReaped(p, t) ==
    /\ rec[t] = loc[p].seen[t] /\ t \in events /\ rec[t] # "settled"
    /\ Teardown(t, "settled")
    /\ events' = IF rec'[t] = "settled" THEN events \ {t} ELSE events
    /\ NextRow(p, t)
    /\ UNCHANGED dir

\* ... and the rows after it are not reached when nothing catches the failure.
RowDies(p, t) ==
    /\ rec[t] = loc[p].seen[t] /\ t \in events /\ rec[t] # "settled"
    /\ TeardownDies(t)
    /\ Exit(p)
    /\ UNCHANGED <<dir, events>>

ReapRow(p) ==
    /\ At(p, "l_row")
    /\ \/ loc[p].left = {} /\ Exit(p) /\ UNCHANGED <<rec, dir, ctr, events>>
       \/ \E t \in Foremost(loc[p].left) :
             RowStale(p, t) \/ RowReconciled(p, t) \/ RowReaped(p, t) \/ RowDies(p, t)
    /\ UNCHANGED docker
----------------------------------------------------------------------------
(* clean.                                                                  *)

\* Mutant: orphans are looked for only after a task was removed.
CleanReadTasks(p) ==
    /\ At(p, "c_read")
    /\ \E old \in SUBSET Settled :
          /\ loc[p].cmd = "clean_all" => old = Settled
          /\ IF old = {} THEN Exit(p)
             ELSE Goto(p, "c_remove") /\ loc' = [loc EXCEPT ![p].left = old]
    /\ UNCHANGED world

\* clean has a client and gets no answer: it ends.
Unanswered(p) == loc[p].client /\ docker = "silent"

\* The listing of the containers; an error, or no client, means none.
Listed(p) == IF loc[p].client /\ docker = "up" THEN ctr ELSE {}

\* Candidates and orphans, the age threshold being the operator's choice; then
\* nothing to do, a declined prompt, or go on.
CleanRead(p) ==
    LET orphans == Listed(p) \ dir
    IN  /\ At(p, "c_read")
        /\ \/ Unanswered(p) /\ Exit(p)
           \/ /\ ~Unanswered(p)
              /\ \E old \in SUBSET Settled :
                    /\ loc[p].cmd = "clean_all" => old = Settled
                    /\ \/ /\ loc[p].cmd = "clean" \/ (old = {} /\ orphans = {})
                          /\ Exit(p)
                       \/ /\ old # {} \/ orphans # {}
                          /\ Goto(p, "c_remove")
                          /\ loc' = [loc EXCEPT ![p] = [@ EXCEPT !.left = old, !.cmd = "clean"]]
        /\ UNCHANGED world

\* task.json and the journal are gone.
Gone(t) == rec' = [rec EXCEPT ![t] = "removed"] /\ events' = events \ {t}

\* rmtree of the next candidate; a failure is counted, and the loop goes on.
CleanRemove(p) ==
    /\ At(p, "c_remove")
    /\ \/ loc[p].left = {} /\ Goto(p, "c_list") /\ UNCHANGED <<rec, dir, events, loc>>
       \/ \E t \in Foremost(loc[p].left) :
             /\ \/ t \notin Pinned /\ dir' = dir \ {t} /\ Gone(t)
                \/ t \in Pinned /\ UNCHANGED dir /\ (Gone(t) \/ UNCHANGED <<rec, events>>)
             /\ loc' = [loc EXCEPT ![p].left = @ \ {t}]
             /\ UNCHANGED pc
    /\ UNCHANGED <<docker, ctr>>

\* _enumerate_orphans: first the containers ...
CleanList(p) ==
    /\ At(p, "c_list")
    /\ \/ Unanswered(p) /\ Exit(p)
       \/ /\ ~Unanswered(p)
          /\ loc' = [loc EXCEPT ![p] = [@ EXCEPT !.snap = Listed(p), !.client = TRUE]]
          /\ Goto(p, "c_check")
    /\ UNCHANGED world

\* ... then the directories.
CleanCheck(p) ==
    /\ At(p, "c_check")
    /\ loc' = [loc EXCEPT ![p].snap = @ \ dir]
    /\ Goto(p, "c_prune")
    /\ UNCHANGED world

\* A container that cannot be removed is counted, and the loop goes on.
CleanPrune(p) ==
    /\ At(p, "c_prune")
    /\ \/ /\ loc[p].snap = {} \/ docker = "silent"
          /\ Exit(p) /\ UNCHANGED ctr
       \/ /\ docker # "silent"
          /\ \E t \in Foremost(loc[p].snap) :
                /\ ctr' = IF docker = "up" /\ t \notin Stuck THEN ctr \ {t} ELSE ctr
                /\ loc' = [loc EXCEPT ![p].snap = @ \ {t}]
                /\ UNCHANGED pc
    /\ UNCHANGED <<docker, rec, dir, events>>

\* Mutant: the directories are read before the containers.
CleanDirsFirst(p) ==
    \/ CleanRead(p) \/ CleanRemove(p) \/ CleanPrune(p)
    \/ /\ At(p, "c_list") /\ Goto(p, "c_check")
       /\ loc' = [loc EXCEPT ![p].snap = Task \ dir]
       /\ UNCHANGED world
    \/ /\ At(p, "c_check") /\ Goto(p, "c_prune")
       /\ loc' = [loc EXCEPT ![p].snap = @ \cap ctr]
       /\ UNCHANGED world

Clean(p) ==
    \/ CleanRead(p) \/ CleanRemove(p) \/ CleanList(p)
    \/ CleanCheck(p) \/ CleanPrune(p)
----------------------------------------------------------------------------
Step(p) ==
    \/ Start(p) \/ RecoverTask(p) \/ FinishTeardown(p)
    \/ ReapRead(p) \/ ReapRow(p) \/ Clean(p)

Next ==
    \/ DockerChanges \/ PiSettles
    \/ \E p \in Proc : Step(p) \/ \E cmd \in Commands, t \in Task : Begin(p, cmd, t)

Spec == Init /\ [][Next]_vars

Invoke(cmd, t) == \E p \in Proc : Begin(p, cmd, t)

\* An invocation goes on.  reap and clean are tried again and again, and so
\* is finish on every task that is not left to reap.
FairSpec ==
    /\ Spec
    /\ \A p \in Proc : WF_vars(Step(p))
    /\ SF_vars(Invoke("reap", 1)) /\ SF_vars(Invoke("clean_all", 1))
    /\ \A t \in Task : SF_vars(t \notin events /\ Invoke("finish", t))
----------------------------------------------------------------------------
(* Type invariant.                                                         *)

Points == {"idle", "s_make", "s_run", "s_commit", "r_recover", "f_teardown",
           "l_read", "l_row", "c_read", "c_remove", "c_list",
           "c_check", "c_prune"}

Locals == [cmd : Commands \cup {"none"}, task : Task \cup {0}, left : SUBSET Task,
           seen : [Task -> Phases], snap : SUBSET Task, client : BOOLEAN]

TypeOK ==
    /\ docker \in DockerStates
    /\ rec \in [Task -> Phases]
    /\ dir \subseteq Task /\ ctr \subseteq Task /\ events \subseteq Task
    /\ pc \in [Proc -> Points]
    /\ loc \in [Proc -> Locals]
----------------------------------------------------------------------------
(* Properties.                                                             *)

\* clean force-removes, running or not, only containers of tasks that a clean
\* has removed, and never that of a task which a start is just making
\* (clean._enumerate_orphans lists the containers before it looks for their
\* directories, and start makes the directory before the container).
PruneOnlyCleaned ==
    \A p \in Proc : At(p, "c_prune") => \A t \in loc[p].snap : rec[t] = "removed"

\* The disk check is made before start, not with it, so starts that run at the
\* same time may pass it together; that exceeds the limit by no more than
\* one task for each (startup_checks.check_disk_threshold).
SoftLimit == 100 * Cardinality(Present) <= 95 * MaxData + 100 * Cardinality(Proc)

DockerReturns == <>[](docker = "up")

\* The disk check never locks the operator out: finish, reap and clean bring a
\* full disk below the threshold again, or leave nothing that rmtree can
\* remove (startup_checks.check_disk_threshold).
NotLockedOut == DockerReturns => (Full ~> ~Full \/ Present \subseteq Pinned)

\* cli.py:470-474: a task that has settled is reclaimed, or is live again, even
\* if the daemon never comes back, and whatever becomes of other tasks.  The
\* proxy has to answer in the end, if only with errors; see CleanDegrades.
SettledReclaimed ==
    <>[](docker # "silent") =>
        \A t \in Task \ Pinned : rec[t] \in Terminal ~> rec[t] \notin Terminal

\* cli.py:462-464: the same "when Docker is unreachable", answer or no answer.
CleanDegrades ==
    \A t \in Task \ Pinned : rec[t] \in Terminal ~> rec[t] \notin Terminal

\* A reap that fails on one task gets to the others (list_cmd.run,
\* _reconcile_one): each with a done or fail is torn down or cleaned.
OthersReaped ==
    DockerReturns => \A t \in Task \ Stuck :
        t \in events ~> rec[t] = "removed" \/ (rec[t] = "settled" /\ t \notin ctr)

\* A container whose task directory is gone, which a clean without Docker leaves
\* behind, is pruned by a later clean (clean._enumerate_orphans).
OrphanPruned ==
    DockerReturns => \A t \in Task \ Stuck : t \in ctr \ dir ~> t \notin ctr \/ t \in dir
==============================================================================
