------------------------------ MODULE TaskState ------------------------------
(***************************************************************************)
(* The state that concurrent `naiw-tasks` invocations share about ONE      *)
(* task: its directory tasks/<id>/ (task.json, io/, the git worktree) and  *)
(* its Docker container; the local variables of each invocation; and the   *)
(* store and Docker calls every command is built from.                     *)
(*                                                                         *)
(* Task directories, task.json locks and container names of two tasks are  *)
(* disjoint, so a loop over tasks is a sequence of independent passes and  *)
(* one task is enough.  Each store call, Docker call or file operation is  *)
(* one atomic step: update_task holds the task's flock across its          *)
(* read-modify-write and publishes with os.replace, so a crash leaves      *)
(* either the old or the new file.                                         *)
(***************************************************************************)
EXTENDS Integers, Sequences, Reconcile

CONSTANTS
    Proc,           \* slots for concurrent naiw-tasks invocations
    Commands,       \* the subcommands this instance runs
    AutoFinishArgs, \* values of start's --auto-finish
    Kinds,          \* kinds of task started: project, generic
    Policies,       \* stored finish policies
    Flags,          \* finish's policy flags (none: it is given no flag)
    ExitStates,     \* what a running container may turn into by itself
    Faults,         \* what may fail: docker, git, rmtree, write (recover's commit), crash
    ChattyPi,       \* TRUE: Pi may signal again after done or fail
    MaxContainers,  \* bound: containers created; the daemon refuses more
    MaxEvents,      \* bound: events in the journal
    MaxLog          \* bound: size classes of io/terminal.log

AllCommands == {"start", "finish", "recover", "list", "reap", "dry_reap", "clean"}
AllKinds == {"project", "generic"}
AllPolicies == {"ask", "keep_worktree", "delete_worktree"}
AllFlags == {"none", "keep_worktree", "delete_worktree"}

ASSUME CommandsAssumption == Commands \subseteq AllCommands
ASSUME ArgsAssumption ==
    /\ AutoFinishArgs \subseteq BOOLEAN
    /\ Kinds \subseteq AllKinds
    /\ Policies \subseteq AllPolicies
    /\ Flags \subseteq AllFlags
    /\ ExitStates \subseteq CtrStates
    /\ ChattyPi \in BOOLEAN
ASSUME BoundsAssumption == MaxContainers \in Nat /\ MaxEvents \in Nat /\ MaxLog \in Nat

VARIABLES
    rec,        \* task.json
    dir,        \* tasks/<id>/ exists
    io,         \* tasks/<id>/io exists (journal and terminal log are readable)
    journal,    \* every event Pi has appended to io/.naiw/events.jsonl
    log,        \* size of io/terminal.log
    wt,         \* the task's git worktree exists
    ctr,        \* the container named naiw-task-<id>
    made,       \* containers created so far; the last one's id
    allocated,  \* the task id has been handed out
    pc, loc     \* control point and local variables of each invocation

docker == <<ctr, made>>
tree == <<io, journal, log, wt>>
disk == <<rec, dir, tree>>
world == <<disk, docker, allocated>>
vars == <<world, pc, loc>>
----------------------------------------------------------------------------
(* task.json.  An absent key reads as its default; "stub" is a file that   *)
(* lacks schema_version, which update_task leaves when the file was gone.  *)

Reasons == {"none", "missing", "signal", "start", "finish"}

NoRec ==
    [file |-> "absent", status |-> "", reason |-> "none", finished |-> FALSE,
     offset |-> 0, maxlog |-> 0, recoveries |-> 0, worktree |-> FALSE,
     auto |-> FALSE, kind |-> "generic", policy |-> "ask"]

Rec ==
    [file : {"absent", "stub", "valid"}, status : Statuses \cup {""},
     reason : Reasons, finished : BOOLEAN, offset : Nat, maxlog : Nat,
     recoveries : Nat, worktree : BOOLEAN, auto : BOOLEAN,
     kind : AllKinds, policy : AllPolicies]

Readable == rec.file = "valid"

\* The file update_task publishes for mutated contents d.
Published(d) == [d EXCEPT !.file = IF d.file = "absent" THEN "stub" ELSE d.file]

\* store.update_task: the mutator sees the file as it is now; meta/ is re-created.
UpdateTask(d) == rec' = Published(d) /\ dir' = TRUE

\* The directory after store.read_task, which creates a missing meta/.
ReadTouches == dir' = TRUE
----------------------------------------------------------------------------
(* The container.  The name is unique, so at most one exists; a docker-py  *)
(* object keeps the id it was resolved to, not the name.                   *)

NoCtr == [id |-> 0, st |-> "notfound"]

Containers == [id : Nat, st : CtrStates]

DockerFails == "docker" \in Faults

\* Invocation p's container object still names an existing container.
Holds(p) == loc[p].handle # 0 /\ loc[p].handle = ctr.id

\* container.stop(): an error is suppressed by every caller.
StopHeld(p) ==
    \/ /\ Holds(p)
       /\ ctr.st \in {"running", "paused"}
       /\ \E s \in {"exited0", "exitedN"} : ctr' = [ctr EXCEPT !.st = s]
    \/ /\ DockerFails \/ ~Holds(p) \/ ctr.st \notin {"running", "paused"}
       /\ ctr' = ctr

\* container.remove(force=True): an error is suppressed by every caller.
RemoveHeld(p) ==
    \/ Holds(p) /\ ctr' = NoCtr
    \/ (DockerFails \/ ~Holds(p)) /\ ctr' = ctr
----------------------------------------------------------------------------
(* Invocations.                                                            *)

StartSteps == {"s_skeleton", "s_scaffold", "s_worktree", "s_meta", "s_create",
               "s_run", "s_reload", "s_commit", "s_fail"}
FinishSteps == {"f_read", "f_probe"}
TeardownSteps == {"t_read", "t_get", "t_stop", "t_remove", "t_verify",
                  "t_worktree", "t_refuse", "t_mark"}
RecoverSteps == {"r_read", "r_get", "r_stop", "r_remove", "r_create", "r_run",
                 "r_reload", "r_commit", "r_killstop", "r_killremove"}
ListSteps == {"l_snapshot", "l_read", "l_tail", "l_commit", "l_advance", "l_reread"}
CleanSteps == {"c_read", "c_scan", "c_check", "c_rmtree", "c_rescan", "c_recheck",
               "c_prune"}
Steps == {"idle"} \cup StartSteps \cup FinishSteps \cup TeardownSteps
         \cup RecoverSteps \cup ListSteps \cup CleanSteps

\* cmd: the subcommand; snap: the task dict last read; handle: id of the held
\* container object (0: None); seen: container state in the listing; newoff,
\* latest, newmax: result of the tail and of the log check; target, reason,
\* override: teardown's terminal_status, failure_reason and policy_override;
\* doomed: clean has the task among its candidates.
IdleLoc ==
    [cmd |-> "none", snap |-> NoRec, handle |-> 0, seen |-> "notfound",
     newoff |-> 0, latest |-> "none", newmax |-> 0, target |-> "completed",
     reason |-> "none", override |-> "none", doomed |-> FALSE]

Locals ==
    [cmd : AllCommands \cup {"none"}, snap : Rec, handle : Nat, seen : CtrStates,
     newoff : Nat, latest : Pending, newmax : Nat, target : Terminal,
     reason : {"none", "signal"},
     override : AllFlags, doomed : BOOLEAN]

At(p, step) == pc[p] = step
Goto(p, step) == pc' = [pc EXCEPT ![p] = step]
Exit(p) == Goto(p, "idle") /\ loc' = [loc EXCEPT ![p] = IdleLoc]

\* A new invocation of cmd, with its arguments and first control point.
Begin(p, cmd, step) ==
    /\ At(p, "idle")
    /\ cmd \in Commands
    /\ Goto(p, step)
----------------------------------------------------------------------------
(* Environment: Pi, its container, and crashes of the controller.          *)

Settling == {"done", "fail"}

\* Pi's last word so far is done or fail.
PiSettled == journal # << >> /\ journal[Len(journal)] \in Settling

\* naiw-signal inside the live container appends one line to the journal.
PiSignals ==
    /\ ctr.st = "running"
    /\ io
    /\ Len(journal) < MaxEvents
    /\ PiSettled => ChattyPi
    /\ \E kind \in EventKinds : journal' = Append(journal, kind)
    /\ UNCHANGED <<rec, dir, io, log, wt, docker, allocated, pc, loc>>

\* tmux pipe-pane appends to io/terminal.log.
PiWritesLog ==
    /\ ctr.st = "running"
    /\ io
    /\ log < MaxLog
    /\ log' = log + 1
    /\ UNCHANGED <<rec, dir, io, journal, wt, docker, allocated, pc, loc>>

\* The container's process ends, or the container is paused or removed by hand.
ContainerStops ==
    /\ ctr.st = "running"
    /\ \E s \in ExitStates \ {"running"} :
          ctr' = IF s = "notfound" THEN NoCtr ELSE [ctr EXCEPT !.st = s]
    /\ UNCHANGED <<disk, made, allocated, pc, loc>>

\* An invocation dies between two of its steps; its flock dies with it.  So it
\* does of a Docker call that gets no answer: nothing catches that exception.
Crash(p) ==
    /\ "crash" \in Faults
    /\ ~At(p, "idle")
    /\ Exit(p)
    /\ UNCHANGED world

Environment == PiSignals \/ PiWritesLog \/ ContainerStops
==============================================================================
