--------------------------- MODULE ControllerProofs ---------------------------
(***************************************************************************)
(* The truth table of compute_status, the type correctness of the          *)
(* controller, and what the commands after start guarantee, for every      *)
(* number of concurrent invocations, every choice of commands and faults   *)
(* and every bound: the task keeps to its lifecycle, teardown marks it     *)
(* only while its container is gone, and recover leaves no zombie.         *)
(***************************************************************************)
EXTENDS Controller, TLAPS

(* compute_status.                                                         *)

\* reconcile.py:52-54: a row is flagged as transitioned exactly when its status
\* differs from the recorded one, so the caller writes no more and no less.
THEOREM TransitionedIffChanged ==
    ASSUME NEW status \in Statuses, NEW c \in CtrStates, NEW e \in Pending
    PROVE  LET row == ComputeStatus(status, c, e)
           IN  row.transitioned <=> row.status # status
  <1>. USE DEF Row, Stays, Becomes
  <1>1. CASE status = "running"
    BY <1>1 DEF ComputeStatus, FromRunning, FromLost
  <1>2. CASE status = "created"
    BY <1>2 DEF ComputeStatus, FromCreated
  <1>3. CASE status = "waiting_for_user"
    BY <1>3 DEF ComputeStatus, FromWaiting, FromLost
  <1>4. CASE status \notin {"running", "created", "waiting_for_user"}
    BY <1>4 DEF ComputeStatus
  <1>. QED
    BY <1>1, <1>2, <1>3, <1>4

\* A pass settles the row: a second one that finds the same container and no
\* new event changes nothing.
THEOREM SecondPassStays ==
    ASSUME NEW status \in Statuses, NEW c \in CtrStates, NEW e \in Pending
    PROVE  ~ComputeStatus(ComputeStatus(status, c, e).status, c, "none").transitioned
  <1>. USE DEF Row, Stays, Becomes, CtrStates, InterruptedCtrStates, Pending, EventKinds
  <1>1. CASE status = "running"
    <2>1. CASE e \in {"done", "fail"}
      BY <1>1, <2>1 DEF ComputeStatus, FromRunning
    <2>2. CASE e \notin {"done", "fail"} /\ c = "running"
      BY <1>1, <2>2 DEF ComputeStatus, FromRunning, FromWaiting
    <2>3. CASE e \notin {"done", "fail"} /\ c # "running"
      <3>1. ComputeStatus(status, c, e).status \in {"failed", "interrupted"}
        BY <1>1, <2>3 DEF ComputeStatus, FromRunning, FromLost
      <3>. QED
        BY <3>1 DEF ComputeStatus
    <2>. QED
      BY <2>1, <2>2, <2>3
  <1>2. CASE status = "created"
    <2>1. CASE e \in {"done", "fail"} \/ c # "running"
      <3>1. ComputeStatus(status, c, e).status \in {"failed", "completed"}
        BY <1>2, <2>1 DEF ComputeStatus, FromCreated
      <3>. QED
        BY <3>1 DEF ComputeStatus
    <2>2. CASE e \notin {"done", "fail"} /\ c = "running"
      BY <1>2, <2>2 DEF ComputeStatus, FromCreated, FromRunning
    <2>. QED
      BY <2>1, <2>2
  <1>3. CASE status = "waiting_for_user"
    <2>1. CASE e \in {"done", "fail"}
      BY <1>3, <2>1 DEF ComputeStatus, FromWaiting
    <2>2. CASE e \notin {"done", "fail"} /\ c = "running"
      BY <1>3, <2>2 DEF ComputeStatus, FromWaiting
    <2>3. CASE e \notin {"done", "fail"} /\ c # "running"
      <3>1. ComputeStatus(status, c, e).status \in {"failed", "interrupted"}
        BY <1>3, <2>3 DEF ComputeStatus, FromWaiting, FromLost
      <3>. QED
        BY <3>1 DEF ComputeStatus
    <2>. QED
      BY <2>1, <2>2, <2>3
  <1>4. CASE status \notin {"running", "created", "waiting_for_user"}
    BY <1>4 DEF ComputeStatus
  <1>. QED
    BY <1>1, <1>2, <1>3, <1>4
----------------------------------------------------------------------------
(* The parts of the type.                                                  *)

\* The part of TypeOK about what the invocations share, and about themselves.
RecType == rec \in Rec /\ dir \in BOOLEAN
TreeType == io \in BOOLEAN /\ journal \in Seq(EventKinds) /\ log \in Nat /\ wt \in BOOLEAN
DockerType == ctr \in Containers /\ made \in Nat
ProcType == pc \in [Proc -> Steps] /\ loc \in [Proc -> Locals]

LEMMA TypeParts ==
    TypeOK <=> RecType /\ TreeType /\ DockerType /\ ProcType /\ allocated \in BOOLEAN
  BY DEF TypeOK, RecType, TreeType, DockerType, ProcType

LEMMA TypePartsPrime ==
    TypeOK' <=> RecType' /\ TreeType' /\ DockerType' /\ ProcType' /\ allocated' \in BOOLEAN
  BY DEF TypeOK, RecType, TreeType, DockerType, ProcType

\* An empty task.json and the locals of a new invocation are well typed.
LEMMA Defaults == NoRec \in Rec /\ IdleLoc \in Locals /\ NoCtr \in Containers
  BY DEF NoRec, Rec, IdleLoc, Locals, NoCtr, Containers, AllKinds, AllPolicies, AllFlags,
         AllCommands, CtrStates, Pending, Terminal, Reasons

\* What update_task publishes has the type of what the mutator returns.
LEMMA UpdateType ==
    ASSUME NEW d \in Rec, UpdateTask(d)
    PROVE  RecType'
  BY DEF UpdateTask, Published, Rec, RecType

LEMMA GotoType ==
    ASSUME ProcType, NEW p \in Proc, NEW step \in Steps, Goto(p, step)
    PROVE  pc' \in [Proc -> Steps]
  BY DEF ProcType, Goto

LEMMA ExitType ==
    ASSUME ProcType, NEW p \in Proc, Exit(p)
    PROVE  ProcType'
  <1>1. "idle" \in Steps
    BY DEF Steps
  <1>2. loc' = [loc EXCEPT ![p] = IdleLoc] /\ Goto(p, "idle")
    BY DEF Exit
  <1>. QED
    BY <1>1, <1>2, GotoType, Defaults DEF ProcType

\* stop() and remove() keep the container record well formed.
LEMMA HeldType ==
    ASSUME DockerType, NEW p \in Proc, StopHeld(p) \/ RemoveHeld(p), UNCHANGED made
    PROVE  DockerType'
  <1>1. {"exited0", "exitedN"} \subseteq CtrStates
    BY DEF CtrStates
  <1>. QED
    BY <1>1, Defaults DEF DockerType, StopHeld, RemoveHeld, Containers

\* UNCHANGED of a group of variables keeps its part of the type.
LEMMA KeepTree == TreeType /\ UNCHANGED tree => TreeType'
  BY DEF TreeType, tree
LEMMA KeepDocker == DockerType /\ UNCHANGED docker => DockerType'
  BY DEF DockerType, docker
LEMMA KeepDisk == RecType /\ TreeType /\ UNCHANGED disk => RecType' /\ TreeType'
  BY DEF RecType, TreeType, disk, tree
LEMMA KeepWorld ==
    TypeOK /\ UNCHANGED world
        => RecType' /\ TreeType' /\ DockerType' /\ allocated' \in BOOLEAN
  BY DEF TypeOK, RecType, TreeType, DockerType, world, disk, docker, tree
----------------------------------------------------------------------------
(* One lemma per command: each of its steps keeps TypeOK.                  *)

USE ArgsAssumption, BoundsAssumption

LEMMA StartType ==
    ASSUME TypeOK, NEW p \in Proc, Start(p)
    PROVE  TypeOK'
  <1>. USE TypeParts, TypePartsPrime, Defaults, ExitType, GotoType
  <1>1. CASE StartBegin(p)
    <2> DEFINE args(auto, kind, policy) ==
                 [NoRec EXCEPT !.file = "valid", !.status = "created",
                               !.auto = auto, !.kind = kind, !.policy = policy]
               fresh(d) == [IdleLoc EXCEPT !.cmd = "start", !.snap = d]
    <2>1. PICK auto \in AutoFinishArgs, kind \in Kinds, policy \in Policies :
             loc' = [loc EXCEPT ![p] = fresh(args(auto, kind, policy))]
      BY <1>1 DEF StartBegin
    <2>2. args(auto, kind, policy) \in Rec
      BY DEF Rec, NoRec, Statuses
    <2>4. \A d \in Rec : fresh(d) \in Locals
      BY DEF Locals, AllCommands
    <2>3. loc' \in [Proc -> Locals]
      <3> HIDE DEF args, fresh
      <3>. QED
        BY <2>1, <2>2, <2>4 DEF ProcType
    <2>5. pc' \in [Proc -> Steps]
      BY <1>1 DEF StartBegin, Begin, Steps, StartSteps
    <2>. QED
      BY <1>1, <2>3, <2>5, KeepDisk, KeepDocker DEF StartBegin, ProcType
  <1>2. CASE StartSkeleton(p)
    BY <1>2, KeepDocker DEF StartSkeleton, RecType, TreeType, ProcType, Steps, StartSteps
  <1>3. CASE StartScaffold(p)
    BY <1>3, KeepDocker, KeepTree DEF StartScaffold, RecType, ProcType, Locals, Steps, StartSteps
  <1>4. CASE StartWorktree(p)
    BY <1>4, KeepDocker DEF StartWorktree, RecType, TreeType, ProcType, Steps, StartSteps
  <1>5. CASE StartMeta(p)
    <2>1. [rec EXCEPT !.worktree = TRUE] \in Rec
      BY DEF RecType, Rec
    <2>. QED
      BY <1>5, <2>1, UpdateType, KeepTree, KeepDocker DEF StartMeta, ProcType, Steps, StartSteps
  <1>6. CASE StartCreate(p)
    <2>1. {"s_run", "s_fail"} \subseteq Steps
      BY DEF Steps, StartSteps
    <2>4. \A n \in Nat : loc' = [loc EXCEPT ![p].handle = n]
                           => loc' \in [Proc -> Locals]
      BY DEF ProcType, Locals
    <2>5. made + 1 \in Nat
      BY DEF DockerType
    <2>6. /\ loc' = [loc EXCEPT ![p].handle = made + 1] \/ loc' = loc
          /\ Goto(p, "s_run") \/ Goto(p, "s_fail")
      BY <1>6 DEF StartCreate
    <2>2. ProcType'
      <3>1. loc' \in [Proc -> Locals]
        BY <2>4, <2>5, <2>6 DEF ProcType
      <3>. QED
        BY <2>1, <2>6, <3>1 DEF ProcType
    <2>3. DockerType'
      BY <1>6 DEF StartCreate, DockerType, docker, Containers, CtrStates, InterruptedCtrStates
    <2>. QED
      BY <1>6, <2>2, <2>3, KeepDisk DEF StartCreate
  <1>7. CASE StartRun(p)
    BY <1>7, KeepDisk DEF StartRun, DockerType, Containers, CtrStates, ProcType, Steps, StartSteps
  <1>8. CASE StartReload(p)
    BY <1>8, KeepWorld DEF StartReload, ProcType, Steps, StartSteps
  <1>9. CASE StartCommit(p)
    <2>1. [rec EXCEPT !.status = "running"] \in Rec
      BY DEF RecType, Rec, Statuses
    <2>. QED
      BY <1>9, <2>1, UpdateType, KeepTree, KeepDocker DEF StartCommit
  <1>10. CASE StartFail(p)
    <2>1. [rec EXCEPT !.status = "failed", !.reason = "start"] \in Rec
      BY DEF RecType, Rec, Statuses, Terminal, Reasons
    <2>. QED
      BY <1>10, <2>1, UpdateType, KeepTree, KeepDocker DEF StartFail
  <1>. QED
    BY <1>1, <1>2, <1>3, <1>4, <1>5, <1>6, <1>7, <1>8, <1>9, <1>10 DEF Start

LEMMA FinishType ==
    ASSUME TypeOK, NEW p \in Proc, Finish(p)
    PROVE  TypeOK'
  <1>. USE TypeParts, TypePartsPrime, Defaults, ExitType, GotoType
  <1>0. {"f_read", "f_probe", "t_read"} \subseteq Steps
    BY DEF Steps, FinishSteps, TeardownSteps
  <1>1. CASE FinishBegin(p)
    <2> DEFINE fresh(o) == [IdleLoc EXCEPT !.cmd = "finish", !.override = o]
    <2>1. PICK o \in AllFlags : loc' = [loc EXCEPT ![p] = fresh(o)]
      BY <1>1, ArgsAssumption DEF FinishBegin
    <2>2. fresh(o) \in Locals
      BY DEF Locals, AllCommands
    <2>3. loc' \in [Proc -> Locals]
      BY <2>1, <2>2 DEF ProcType
    <2>. QED
      BY <1>0, <1>1, <2>3, KeepWorld DEF FinishBegin, Begin, ProcType
  <1>2. CASE FinishRead(p)
    <2>1. \A t \in Terminal : EnterTeardown(p, t) => ProcType'
      BY <1>0 DEF EnterTeardown, ProcType, Locals
    <2>2. \A t \in Terminal :
             Goto(p, "f_probe") /\ loc' = [loc EXCEPT ![p].target = t] => ProcType'
      BY <1>0 DEF ProcType, Locals
    <2>3. "completed" \in Terminal
      BY DEF Terminal
    <2>4. ProcType'
      <3> HIDE DEF ProcType
      <3>. QED
        BY <1>2, <2>1, <2>2, <2>3 DEF FinishRead
    <2>. QED
      BY <1>2, <2>4, KeepTree, KeepDocker DEF FinishRead, ReadTouches, RecType
  <1>3. CASE FinishProbe(p)
    BY <1>0, <1>3, KeepWorld DEF FinishProbe, ProcType
  <1>. QED
    BY <1>1, <1>2, <1>3 DEF Finish

LEMMA TeardownType ==
    ASSUME TypeOK, NEW p \in Proc, Teardown(p)
    PROVE  TypeOK'
  <1>. USE TypeParts, TypePartsPrime, Defaults, ExitType, GotoType
  <1>0. TeardownSteps \subseteq Steps /\ {"l_advance", "l_reread"} \subseteq Steps
    BY DEF Steps, ListSteps
  <1>1. CASE TeardownRead(p)
    <2>1. Exit(p) => ProcType'
      OBVIOUS
    <2>2. Goto(p, "t_get") /\ loc' = [loc EXCEPT ![p].snap = rec] => ProcType'
      BY <1>0 DEF ProcType, RecType, Locals, TeardownSteps
    <2>3. ProcType'
      BY <1>1, <2>1, <2>2 DEF TeardownRead
    <2>. QED
      BY <1>1, <2>3, KeepTree, KeepDocker DEF TeardownRead, ReadTouches, RecType
  <1>2. CASE TeardownGet(p)
    <2>1. ProcType'
      BY <1>0, <1>2 DEF TeardownGet, ProcType, DockerType, Containers, Locals, AllFlags, TeardownSteps
    <2>. QED
      BY <1>2, <2>1, KeepWorld DEF TeardownGet
  <1>3. CASE TeardownStop(p)
    BY <1>0, <1>3, HeldType, KeepDisk DEF TeardownStop, ProcType, TeardownSteps
  <1>4. CASE TeardownRemove(p)
    BY <1>0, <1>4, HeldType, KeepDisk DEF TeardownRemove, ProcType, TeardownSteps
  <1>5. CASE TeardownVerify(p)
    BY <1>0, <1>5, KeepWorld DEF TeardownVerify, ProcType, TeardownSteps
  <1>6. CASE TeardownWorktree(p)
    BY <1>0, <1>6, KeepDocker DEF TeardownWorktree, ProcType, RecType, TreeType, TeardownSteps
  <1>7. \A step \in Steps : Return(p, step) => ProcType'
    BY DEF Return, ProcType
  <1>8. CASE TeardownRefuse(p)
    <2>1. [rec EXCEPT !.status = "failed", !.reason = "finish"] \in Rec
      BY DEF RecType, Rec, Statuses, Terminal, Reasons
    <2>. QED
      BY <1>0, <1>7, <1>8, <2>1, UpdateType, KeepTree, KeepDocker DEF TeardownRefuse
  <1>9. CASE TeardownMark(p)
    <2>1. loc[p].target \in Terminal /\ loc[p].reason \in {"none", "signal"}
      BY DEF ProcType, Locals
    <2>2. \A t \in Terminal, r \in Reasons :
             [rec EXCEPT !.status = t, !.finished = TRUE, !.reason = r] \in Rec
      BY DEF RecType, Rec, Statuses
    <2>3. rec.reason \in Reasons
      BY DEF RecType, Rec
    <2>4. RecType'
      BY <1>9, <2>1, <2>2, <2>3, UpdateType DEF TeardownMark, Reasons
    <2>. QED
      BY <1>0, <1>7, <1>9, <2>4, KeepTree, KeepDocker DEF TeardownMark
  <1>. QED
    BY <1>1, <1>2, <1>3, <1>4, <1>5, <1>6, <1>8, <1>9 DEF Teardown

LEMMA RecoverType ==
    ASSUME TypeOK, NEW p \in Proc, Recover(p)
    PROVE  TypeOK'
  <1>. USE TypeParts, TypePartsPrime, Defaults, ExitType, GotoType
  <1>0. RecoverSteps \subseteq Steps
    BY DEF Steps
  <1>1. CASE RecoverBegin(p)
    BY <1>0, <1>1, KeepWorld DEF RecoverBegin, Begin, ProcType, Locals, AllCommands, RecoverSteps
  <1>2. CASE RecoverRead(p)
    <2>1. ProcType'
      BY <1>0, <1>2 DEF RecoverRead, ProcType, RecType, Locals, RecoverSteps
    <2>. QED
      BY <1>2, <2>1, KeepTree, KeepDocker DEF RecoverRead, ReadTouches, RecType
  <1>3. CASE RecoverGet(p)
    <2>1. ProcType'
      BY <1>0, <1>3 DEF RecoverGet, ProcType, DockerType, Containers, Locals, AllFlags, RecoverSteps
    <2>. QED
      BY <1>3, <2>1, KeepWorld DEF RecoverGet
  <1>4. CASE RecoverStop(p)
    BY <1>0, <1>4, HeldType, KeepDisk DEF RecoverStop, ProcType, RecoverSteps
  <1>5. CASE RecoverRemove(p)
    BY <1>0, <1>5, HeldType, KeepDisk DEF RecoverRemove, ProcType, RecoverSteps
  <1>6. CASE RecoverCreate(p)
    <2>4. \A n \in Nat : loc' = [loc EXCEPT ![p].handle = n]
                           => loc' \in [Proc -> Locals]
      BY DEF ProcType, Locals
    <2>5. made + 1 \in Nat
      BY DEF DockerType
    <2>6. \/ loc' = [loc EXCEPT ![p].handle = made + 1] /\ Goto(p, "r_run")
          \/ Exit(p)
      BY <1>6 DEF RecoverCreate
    <2>1. ProcType'
      <3>1. CASE loc' = [loc EXCEPT ![p].handle = made + 1] /\ Goto(p, "r_run")
        <4>1. loc' \in [Proc -> Locals]
          BY <2>4, <2>5, <3>1
        <4>2. "r_run" \in Steps
          BY <1>0 DEF RecoverSteps
        <4>. QED
          BY <3>1, <4>1, <4>2 DEF ProcType
      <3>. QED
        BY <2>6, <3>1
    <2>2. DockerType'
      BY <1>6 DEF RecoverCreate, DockerType, docker, Containers, CtrStates, InterruptedCtrStates
    <2>. QED
      BY <1>6, <2>1, <2>2, KeepDisk DEF RecoverCreate
  <1>7. CASE RecoverRun(p)
    <2>1. DockerType'
      BY <1>7 DEF RecoverRun, DockerType, Containers, CtrStates
    <2>. QED
      BY <1>0, <1>7, <2>1, KeepDisk DEF RecoverRun, ProcType, RecoverSteps
  <1>8. CASE RecoverReload(p)
    BY <1>0, <1>8, KeepWorld DEF RecoverReload, ProcType, RecoverSteps
  <1>9. CASE RecoverCommit(p)
    <2>1. \A n \in Nat : [rec EXCEPT !.status = "running", !.recoveries = n] \in Rec
      BY DEF RecType, Rec, Statuses
    <2>2. rec.recoveries + 1 \in Nat
      <3>1. rec.recoveries \in Nat
        BY DEF RecType, Rec
      <3>. QED
        BY <3>1
    <2>3. RecType'
      BY <1>9, <2>1, <2>2, UpdateType DEF RecoverCommit, RecType
    <2>. QED
      BY <1>0, <1>9, <2>3, KeepTree, KeepDocker DEF RecoverCommit, ProcType, RecoverSteps
  <1>10. CASE RecoverKillStop(p)
    BY <1>0, <1>10, HeldType, KeepDisk DEF RecoverKillStop, ProcType, RecoverSteps
  <1>11. CASE RecoverKillRemove(p)
    BY <1>11, HeldType, KeepDisk DEF RecoverKillRemove, ProcType
  <1>. QED
    BY <1>1, <1>2, <1>3, <1>4, <1>5, <1>6, <1>7, <1>8, <1>9, <1>10, <1>11 DEF Recover

\* A pass only ever publishes statuses and reasons of the vocabulary.
LEMMA ComputeType ==
    ASSUME NEW status \in Statuses \cup {""}, NEW c, NEW e
    PROVE  /\ ComputeStatus(status, c, e).status \in Statuses \cup {""}
           /\ ComputeStatus(status, c, e).reason \in Reasons
  <1>1. /\ FromRunning(c, e).status \in Statuses /\ FromRunning(c, e).reason \in Reasons
    BY DEF FromRunning, FromLost, Row, Stays, Becomes, Statuses, Terminal, Reasons
  <1>2. /\ FromCreated(c, e).status \in Statuses /\ FromCreated(c, e).reason \in Reasons
    BY DEF FromCreated, Row, Stays, Becomes, Statuses, Terminal, Reasons
  <1>3. /\ FromWaiting(c, e).status \in Statuses /\ FromWaiting(c, e).reason \in Reasons
    BY DEF FromWaiting, FromLost, Row, Stays, Becomes, Statuses, Terminal, Reasons
  <1>4. Stays(status).status \in Statuses \cup {""} /\ Stays(status).reason \in Reasons
    BY DEF Stays, Row, Reasons
  <1>. QED
    BY <1>1, <1>2, <1>3, <1>4 DEF ComputeStatus

LEMMA LogRaisedType ==
    ASSUME TypeOK, NEW p \in Proc
    PROVE  LogRaised(p) \in Rec
  <1>1. loc[p].newmax \in Nat /\ rec \in Rec
    BY DEF TypeOK, Locals
  <1>. QED
    BY <1>1 DEF LogRaised, Rec

LEMMA ReconciledType ==
    ASSUME TypeOK, NEW p \in Proc
    PROVE  Reconciled(p) \in Rec
  <1>1. loc[p].newoff \in Nat /\ loc[p].snap.status \in Statuses \cup {""}
    BY DEF TypeOK, Locals, Rec
  <1> DEFINE row == ComputedFor(p)
             moved == [LogRaised(p) EXCEPT !.offset = loc[p].newoff]
  <1>2. moved \in Rec
    BY <1>1, LogRaisedType DEF Rec
  <1>3. row.status \in Statuses \cup {""} /\ row.reason \in Reasons
    BY <1>1, ComputeType DEF ComputedFor
  <1>4. \A s \in Statuses \cup {""}, r \in Reasons :
           [moved EXCEPT !.status = s, !.reason = r] \in Rec
    <2> HIDE DEF moved
    <2>. QED
      BY <1>2 DEF Rec
  <1>5. moved.reason \in Reasons
    <2> HIDE DEF moved
    <2>. QED
      BY <1>2 DEF Rec
  <1>6. Reconciled(p) =
           IF ~row.transitioned THEN moved
           ELSE [moved EXCEPT
                   !.status = row.status,
                   !.reason = IF row.reason # "none" THEN row.reason
                              ELSE IF loc[p].latest = "fail" /\ row.status = "failed"
                                   THEN "signal" ELSE moved.reason]
    BY DEF Reconciled
  <1>7. CASE ~row.transitioned
    <2> HIDE DEF row, moved
    <2>. QED
      BY <1>2, <1>6, <1>7
  <1>8. CASE row.transitioned
    <2> DEFINE why == IF row.reason # "none" THEN row.reason
                      ELSE IF loc[p].latest = "fail" /\ row.status = "failed"
                           THEN "signal" ELSE moved.reason
    <2>1. Reconciled(p) = [moved EXCEPT !.status = row.status, !.reason = why]
      <3> HIDE DEF row, moved
      <3>. QED
        BY <1>6, <1>8
    <2>2. why \in Reasons
      <3> HIDE DEF row, moved
      <3>. QED
        BY <1>3, <1>5 DEF Reasons
    <2> HIDE DEF row, moved, why
    <2>. QED
      BY <1>3, <1>4, <2>1, <2>2
  <1>. QED
    BY <1>7, <1>8

LEMMA ListType ==
    ASSUME TypeOK, NEW p \in Proc, List(p)
    PROVE  TypeOK'
  <1>. USE TypeParts, TypePartsPrime, Defaults, ExitType, GotoType
  <1>0. ListSteps \subseteq Steps /\ "t_read" \in Steps
    BY DEF Steps, TeardownSteps
  <1>1. CASE ListBegin(p)
    BY <1>0, <1>1, KeepWorld DEF ListBegin, Begin, ProcType, Locals, AllCommands, ListSteps
  <1>2. CASE ListSnapshot(p)
    <2>1. ProcType'
      BY <1>0, <1>2 DEF ListSnapshot, ProcType, DockerType, Containers, Locals, ListSteps
    <2>. QED
      BY <1>2, <2>1, KeepWorld DEF ListSnapshot
  <1>3. CASE ListRead(p)
    <2>1. ProcType'
      BY <1>0, <1>3 DEF ListRead, ProcType, RecType, Locals, ListSteps
    <2>. QED
      BY <1>3, <2>1, KeepWorld DEF ListRead
  <1>4. CASE ListTail(p)
    <2>1. /\ loc[p].snap.offset \in Nat /\ loc[p].snap.maxlog \in Nat
          /\ Len(journal) \in Nat /\ log \in Nat
          /\ Len(journal) > 0 => journal[Len(journal)] \in EventKinds
      <3>1. loc[p].snap \in Rec
        BY DEF ProcType, Locals
      <3>2. journal \in Seq(EventKinds) /\ log \in Nat
        BY DEF TreeType
      <3>3. Len(journal) \in Nat /\ \A i \in 1..Len(journal) : journal[i] \in EventKinds
        BY <3>2
      <3>4. Len(journal) > 0 => Len(journal) \in 1..Len(journal)
        BY <3>3
      <3>5. loc[p].snap.offset \in Nat /\ loc[p].snap.maxlog \in Nat
        BY <3>1 DEF Rec
      <3>. QED
        BY <3>2, <3>3, <3>4, <3>5
    <2>2. \A o \in Nat, e \in Pending, m \in Nat :
             [loc[p] EXCEPT !.newoff = o, !.latest = e, !.newmax = m] \in Locals
      BY DEF ProcType, Locals
    <2> DEFINE behind == io /\ loc[p].snap.offset < Len(journal)
               size == IF io THEN log ELSE 0
               o == IF behind THEN Len(journal) ELSE loc[p].snap.offset
               e == IF behind THEN journal[Len(journal)] ELSE "none"
               m == IF size < loc[p].snap.maxlog THEN loc[p].snap.maxlog ELSE size
    <2>3. o \in Nat /\ e \in Pending /\ m \in Nat
      BY <2>1 DEF Pending
    <2>4. loc' = [loc EXCEPT ![p] =
                    [loc[p] EXCEPT !.newoff = o, !.latest = e, !.newmax = m]]
      BY <1>4 DEF ListTail
    <2>5. ProcType'
      <3> HIDE DEF o, e, m
      <3>1. [loc[p] EXCEPT !.newoff = o, !.latest = e, !.newmax = m] \in Locals
        BY <2>2, <2>3
      <3>2. Goto(p, "l_commit")
        BY <1>4 DEF ListTail
      <3>. QED
        BY <1>0, <2>4, <3>1, <3>2 DEF ProcType, ListSteps
    <2>. QED
      BY <1>4, <2>5, KeepWorld DEF ListTail
  <1>5. CASE ListCommit(p)
    <2>1. RecType'
      BY <1>5, LogRaisedType, ReconciledType, UpdateType DEF ListCommit, RecType
    <2>2. ProcType'
      BY <1>0, <1>5 DEF ListCommit, ProcType, Locals, Terminal, ListSteps
    <2>. QED
      BY <1>5, <2>1, <2>2, KeepTree, KeepDocker DEF ListCommit
  <1>6. CASE ListAdvance(p)
    <2>1. loc[p].newoff \in Nat
      BY DEF ProcType, Locals
    <2>2. [rec EXCEPT !.offset = loc[p].newoff] \in Rec
      BY <2>1 DEF RecType, Rec
    <2>. QED
      BY <1>0, <1>6, <2>2, UpdateType, KeepTree, KeepDocker DEF ListAdvance, ProcType, ListSteps
  <1>7. CASE ListReread(p)
    BY <1>7, KeepTree, KeepDocker DEF ListReread, ReadTouches, RecType
  <1>. QED
    BY <1>1, <1>2, <1>3, <1>4, <1>5, <1>6, <1>7 DEF List

LEMMA CleanType ==
    ASSUME TypeOK, NEW p \in Proc, Clean(p)
    PROVE  TypeOK'
  <1>. USE TypeParts, TypePartsPrime, Defaults, ExitType, GotoType
  <1>0. CleanSteps \subseteq Steps
    BY DEF Steps
  <1>1. Scan(p) => loc' \in [Proc -> Locals]
    <2>1. ctr.id \in Nat
      BY DEF DockerType, Containers
    <2>2. \A h \in Nat : [loc[p] EXCEPT !.handle = h] \in Locals
      BY DEF ProcType, Locals
    <2>. QED
      BY <2>1, <2>2 DEF Scan, ProcType
  <1>2. CASE CleanBegin(p)
    BY <1>0, <1>2, KeepWorld DEF CleanBegin, Begin, ProcType, Locals, AllCommands, CleanSteps
  <1>3. CASE CleanRead(p)
    <2>1. ProcType'
      BY <1>0, <1>3 DEF CleanRead, ProcType, Locals, CleanSteps
    <2>. QED
      BY <1>3, <2>1, KeepWorld DEF CleanRead
  <1>4. CASE CleanScan(p)
    BY <1>0, <1>1, <1>4, KeepWorld DEF CleanScan, ProcType, CleanSteps
  <1>5. CASE CleanCheck(p)
    BY <1>0, <1>5, KeepWorld DEF CleanCheck, ProcType, CleanSteps
  <1>6. CASE CleanRmtree(p)
    BY <1>0, <1>6, KeepDocker DEF CleanRmtree, ProcType, RecType, TreeType, CleanSteps
  <1>7. CASE CleanRescan(p)
    BY <1>0, <1>1, <1>7, KeepWorld DEF CleanRescan, ProcType, CleanSteps
  <1>8. CASE CleanRecheck(p)
    BY <1>0, <1>8, KeepWorld DEF CleanRecheck, ProcType, CleanSteps
  <1>9. CASE CleanPrune(p)
    BY <1>9, HeldType, KeepDisk DEF CleanPrune, ProcType
  <1>. QED
    BY <1>2, <1>3, <1>4, <1>5, <1>6, <1>7, <1>8, <1>9 DEF Clean

LEMMA EnvironmentType ==
    ASSUME TypeOK, Environment \/ \E p \in Proc : Crash(p)
    PROVE  TypeOK'
  <1>. USE TypeParts, TypePartsPrime
  <1>1. CASE PiSignals
    BY <1>1, KeepDocker DEF PiSignals, TreeType, RecType, ProcType
  <1>2. CASE PiWritesLog
    BY <1>2, KeepDocker DEF PiWritesLog, TreeType, RecType, ProcType
  <1>3. CASE ContainerStops
    BY <1>3, KeepDisk, Defaults DEF ContainerStops, DockerType, Containers, ProcType
  <1>4. ASSUME NEW p \in Proc, Crash(p) PROVE TypeOK'
    BY <1>4, KeepWorld, ExitType DEF Crash
  <1>. QED
    BY <1>1, <1>2, <1>3, <1>4 DEF Environment
----------------------------------------------------------------------------
LEMMA NextType == TypeOK /\ [Next]_vars => TypeOK'
  <1>1. ASSUME TypeOK, UNCHANGED vars PROVE TypeOK'
    BY <1>1, KeepWorld, TypeParts, TypePartsPrime DEF vars, ProcType
  <1>2. ASSUME TypeOK, Next PROVE TypeOK'
    BY <1>2, EnvironmentType, StartType, FinishType, TeardownType, RecoverType,
       ListType, CleanType DEF Next, Step
  <1>. QED
    BY <1>1, <1>2

\* Idle invocations and an empty journal.
LEMMA IdleType ==
    ASSUME pc = [p \in Proc |-> "idle"], loc = [p \in Proc |-> IdleLoc], journal = << >>
    PROVE  ProcType /\ journal \in Seq(EventKinds)
  <1>1. "idle" \in Steps
    BY DEF Steps
  <1>. QED
    BY <1>1, Defaults DEF ProcType

LEMMA InitType == Init => TypeOK
  <1>. SUFFICES ASSUME Init PROVE TypeOK
    OBVIOUS
  <1>1. ProcType /\ journal \in Seq(EventKinds)
    BY IdleType DEF Init
  <1>2. RecType /\ DockerType
    BY Defaults DEF Init, RecType, DockerType
  <1>3. io \in BOOLEAN /\ log \in Nat /\ wt \in BOOLEAN /\ allocated \in BOOLEAN
    BY DEF Init
  <1>. QED
    BY <1>1, <1>2, <1>3, TypeParts DEF TreeType

LEMMA InitStartedType == InitStarted => TypeOK
  <1>. SUFFICES ASSUME InitStarted PROVE TypeOK
    OBVIOUS
  <1>1. ProcType /\ journal \in Seq(EventKinds)
    BY IdleType DEF InitStarted
  <1>2. \A a \in BOOLEAN, k \in AllKinds, q \in AllPolicies, w \in BOOLEAN :
           [NoRec EXCEPT !.file = "valid", !.status = "running", !.auto = a,
                         !.kind = k, !.policy = q, !.worktree = w] \in Rec
    BY DEF NoRec, Rec, Statuses, Reasons
  <1>3. PICK a \in AutoFinishArgs, k \in Kinds, q \in Policies :
           /\ rec = [NoRec EXCEPT !.file = "valid", !.status = "running",
                       !.auto = a, !.kind = k, !.policy = q,
                       !.worktree = (k = "project")]
           /\ wt = (k = "project")
    BY DEF InitStarted
  <1>4. wt \in BOOLEAN
    BY <1>3
  <1>5. rec \in Rec
    BY <1>2, <1>3, <1>4
  <1>6. [id |-> 1, st |-> "running"] \in Containers
    BY DEF Containers, CtrStates
  <1>7. dir \in BOOLEAN /\ io \in BOOLEAN /\ log \in Nat /\ allocated \in BOOLEAN
        /\ ctr \in Containers /\ made \in Nat
    BY <1>6 DEF InitStarted
  <1>. QED
    BY <1>1, <1>4, <1>5, <1>7, TypeParts DEF TreeType, RecType, DockerType

\* Every variable of the controller keeps its type, from the state before
\* start and from the state a start leaves behind.
THEOREM TypeCorrect == Spec => []TypeOK
  BY InitType, NextType, PTL DEF Spec

THEOREM TypeCorrectStarted == SpecStarted => []TypeOK
  BY InitStartedType, NextType, PTL DEF SpecStarted
-----------------------------------------------------------------------------
(* The lifecycle of a started task.                                        *)


\* No start is under way (its id was allocated before, and it has exited).
NoStarter == allocated = TRUE /\ \A p \in Proc : pc[p] \notin StartSteps

\* A readable task.json has a status; a stub has none, or a terminal one, and
\* no recoveries.
StatusInv ==
    /\ Readable => rec.status \in Statuses
    /\ ~Readable => rec.status \in Terminal \cup {""} /\ rec.recoveries = 0

\* clean's candidates are settled, and stay so until they are removed.
DoomedInv ==
    \A p \in Proc :
        /\ loc[p].doomed /\ Readable => rec.status \in Terminal
        /\ pc[p] = "c_rmtree" => loc[p].doomed

LifecycleInv == TypeOK /\ NoStarter /\ StatusInv /\ DoomedInv
----------------------------------------------------------------------------
(* The five ways a step can change what task.json says about the phase.    *)

Keeps == Readable' = Readable /\ rec'.recoveries = rec.recoveries

Quiet == Keeps /\ rec'.status = rec.status

\* list and reap: only a live status moves, and only as the table says.
Reconciles ==
    /\ Keeps
    /\ rec.status \in {"created", "running", "waiting_for_user"}
    /\ rec'.status \in {"running", "waiting_for_user", "completed", "failed", "interrupted"}
    /\ rec.status = "created" => rec'.status \in {"running", "completed", "failed"}

Settles == Keeps /\ rec'.status \in Terminal

Recovers ==
    /\ Readable' = Readable
    /\ rec.status = "interrupted"
    /\ rec'.status = "running"
    /\ rec'.recoveries = rec.recoveries + 1

Removes == rec' = NoRec

\* Publishing a mutated task.json never makes an unreadable one readable.
LEMMA UpdateReadable ==
    ASSUME TypeOK, NEW d \in Rec, d.file = rec.file, UpdateTask(d)
    PROVE  /\ Readable' = Readable
           /\ rec'.status = d.status /\ rec'.recoveries = d.recoveries
  BY DEF UpdateTask, Published, Rec, Readable

LEMMA UnchangedQuiet == rec' = rec => Quiet
  BY DEF Quiet, Keeps, Readable

\* The pure table: terminal, interrupted and unknown statuses are final, and
\* a created task goes to running or straight to the end.
LEMMA ComputeMoves ==
    ASSUME NEW status, NEW c, NEW e, ComputeStatus(status, c, e).transitioned
    PROVE  LET to == ComputeStatus(status, c, e).status
           IN  /\ status \in {"created", "running", "waiting_for_user"}
               /\ to \in {"running", "waiting_for_user", "completed", "failed", "interrupted"}
               /\ status = "created" => to \in {"running", "completed", "failed"}
  BY DEF ComputeStatus, FromRunning, FromCreated, FromWaiting, FromLost, Row, Stays, Becomes

LEMMA ListEffect ==
    ASSUME TypeOK, NEW p \in Proc, List(p)
    PROVE  Quiet \/ Reconciles
  <1>1. LogRaised(p) \in Rec /\ Reconciled(p) \in Rec
    BY LogRaisedType, ReconciledType
  <1>2. /\ LogRaised(p).file = rec.file /\ LogRaised(p).status = rec.status
        /\ LogRaised(p).recoveries = rec.recoveries
    BY DEF LogRaised, TypeOK, Rec
  <1>3. UpdateTask(LogRaised(p)) => Quiet
    BY <1>1, <1>2, UpdateReadable DEF Quiet, Keeps
  <1>4. CASE ListCommit(p)
    <2>1. CASE ~(~StaleState(p) /\ UpdateTask(Reconciled(p)))
      BY <1>3, <1>4, <2>1, UnchangedQuiet DEF ListCommit
    <2>2. CASE ~StaleState(p) /\ UpdateTask(Reconciled(p))
      <3> DEFINE row == ComputedFor(p)
                 moved == [LogRaised(p) EXCEPT !.offset = loc[p].newoff]
      <3>1. /\ moved \in [file : {"absent", "stub", "valid"}, status : Statuses \cup {""},
                          reason : Reasons, finished : BOOLEAN, offset : Nat, maxlog : Nat,
                          recoveries : Nat, worktree : BOOLEAN, auto : BOOLEAN,
                          kind : AllKinds, policy : AllPolicies]
            /\ moved.file = rec.file /\ moved.status = rec.status
            /\ moved.recoveries = rec.recoveries
        BY <1>1, <1>2 DEF Rec, TypeOK, Locals
      <3>2. /\ Reconciled(p).file = rec.file
            /\ Reconciled(p).recoveries = rec.recoveries
            /\ ~row.transitioned => Reconciled(p).status = rec.status
            /\ row.transitioned => Reconciled(p).status = row.status
        <4>1. Reconciled(p) =
                IF ~row.transitioned THEN moved
                ELSE [moved EXCEPT
                        !.status = row.status,
                        !.reason = IF row.reason # "none" THEN row.reason
                                   ELSE IF loc[p].latest = "fail" /\ row.status = "failed"
                                        THEN "signal" ELSE moved.reason]
          BY DEF Reconciled
        <4> HIDE DEF row, moved
        <4>. QED
          BY <3>1, <4>1
      <3>3. rec.status = loc[p].snap.status
        BY <2>2 DEF StaleState
      <3>4. CASE ~row.transitioned
        BY <1>1, <2>2, <3>2, <3>4, UpdateReadable DEF Quiet, Keeps
      <3>5. CASE row.transitioned
        <4>1. /\ rec.status \in {"created", "running", "waiting_for_user"}
              /\ row.status \in {"running", "waiting_for_user", "completed", "failed", "interrupted"}
              /\ rec.status = "created" => row.status \in {"running", "completed", "failed"}
          BY <3>3, <3>5, ComputeMoves DEF ComputedFor
        <4> HIDE DEF row
        <4>. QED
          BY <1>1, <2>2, <3>2, <3>5, <4>1, UpdateReadable DEF Reconciles, Keeps
      <3>. QED
        BY <3>4, <3>5
    <2>. QED
      BY <2>1, <2>2
  <1>5. CASE ListAdvance(p)
    <2>1. loc[p].newoff \in Nat /\ rec \in Rec
      BY DEF TypeOK, Locals
    <2>2. [rec EXCEPT !.offset = loc[p].newoff] \in Rec
      BY <2>1 DEF Rec
    <2>. QED
      BY <1>5, <2>1, <2>2, UpdateReadable DEF ListAdvance, Quiet, Keeps, Rec
  <1>6. CASE ~ListCommit(p) /\ ~ListAdvance(p)
    BY <1>6, UnchangedQuiet
    DEF List, ListBegin, ListSnapshot, ListRead, ListTail, ListReread, world, disk
  <1>. QED
    BY <1>4, <1>5, <1>6

LEMMA TeardownEffect ==
    ASSUME TypeOK, NEW p \in Proc, Teardown(p) \/ Finish(p)
    PROVE  Quiet \/ Settles
  <1>1. CASE TeardownRefuse(p)
    <2>1. [rec EXCEPT !.status = "failed", !.reason = "finish"] \in Rec
      BY DEF TypeOK, Rec, Statuses, Terminal, Reasons
    <2>. QED
      BY <1>1, <2>1, UpdateReadable DEF TeardownRefuse, Settles, Keeps, TypeOK, Rec, Terminal
  <1>2. CASE TeardownMark(p)
    <2> DEFINE why == IF loc[p].reason # "none" THEN loc[p].reason
                      ELSE IF loc[p].target = "completed" /\ rec.reason = "finish" THEN "none"
                      ELSE rec.reason
               d == [rec EXCEPT !.status = loc[p].target, !.finished = TRUE, !.reason = why]
    <2>1. loc[p].target \in Terminal /\ why \in Reasons /\ rec \in Rec
      BY DEF TypeOK, Locals, Rec, Reasons
    <2>2. UpdateTask(d)
      BY <1>2 DEF TeardownMark
    <2>3. d \in Rec /\ d.file = rec.file /\ d.recoveries = rec.recoveries
          /\ d.status = loc[p].target
      <3> HIDE DEF why
      <3>. QED
        BY <2>1 DEF Rec, Statuses
    <2> HIDE DEF d
    <2>. QED
      BY <2>1, <2>2, <2>3, UpdateReadable DEF Settles, Keeps
  <1>3. CASE ~TeardownRefuse(p) /\ ~TeardownMark(p)
    BY <1>3, UnchangedQuiet
    DEF Teardown, Finish, TeardownRead, TeardownGet, TeardownStop, TeardownRemove,
        TeardownVerify, TeardownWorktree, FinishBegin, FinishRead, FinishProbe, world, disk
  <1>. QED
    BY <1>1, <1>2, <1>3

LEMMA RecoverEffect ==
    ASSUME TypeOK, NEW p \in Proc, Recover(p)
    PROVE  Quiet \/ Recovers
  <1>1. CASE RecoverCommit(p)
    <2>1. rec \in Rec /\ rec.recoveries + 1 \in Nat
      <3>1. rec \in Rec /\ rec.recoveries \in Nat
        BY DEF TypeOK, Rec
      <3>. QED
        BY <3>1
    <2>2. \A n \in Nat : LET d == [rec EXCEPT !.status = "running", !.recoveries = n]
                         IN  d \in Rec /\ d.file = rec.file /\ d.status = "running"
                             /\ d.recoveries = n
      BY <2>1 DEF Rec, Statuses
    <2>. QED
      BY <1>1, <2>1, <2>2, UpdateReadable, UnchangedQuiet DEF RecoverCommit, Recovers
  <1>2. CASE ~RecoverCommit(p)
    BY <1>2, UnchangedQuiet
    DEF Recover, RecoverBegin, RecoverRead, RecoverGet, RecoverStop, RecoverRemove,
        RecoverCreate, RecoverRun, RecoverReload, RecoverKillStop, RecoverKillRemove,
        world, disk
  <1>. QED
    BY <1>1, <1>2

LEMMA CleanEffect ==
    ASSUME NEW p \in Proc, Clean(p)
    PROVE  Quiet \/ (Removes /\ CleanRmtree(p))
  <1>1. CASE CleanRmtree(p)
    BY <1>1, UnchangedQuiet DEF CleanRmtree, Removes
  <1>2. CASE ~CleanRmtree(p)
    BY <1>2, UnchangedQuiet
    DEF Clean, CleanBegin, CleanRead, CleanScan, CleanCheck, CleanRescan, CleanRecheck,
        CleanPrune, world, disk
  <1>. QED
    BY <1>1, <1>2
----------------------------------------------------------------------------
(* What a step does to the control points and to clean's candidate flag.   *)

Moves(p) ==
    /\ \A q \in Proc \ {p} : pc'[q] = pc[q] /\ loc'[q] = loc[q]
    /\ pc'[p] \notin StartSteps
    /\ pc'[p] = "c_rmtree" => loc'[p].doomed
    /\ loc'[p].doomed => \/ loc[p].doomed
                         \/ rec' = rec /\ (Readable => rec.status \in Terminal)

\* Setting another local variable leaves the flag alone.
LEMMA SetLocal ==
    ASSUME NEW l \in Locals, NEW x, NEW y
    PROVE  /\ [l EXCEPT !.snap = x].doomed = l.doomed
           /\ [l EXCEPT !.handle = x].doomed = l.doomed
           /\ [l EXCEPT !.seen = x].doomed = l.doomed
           /\ [l EXCEPT !.target = x].doomed = l.doomed
           /\ [l EXCEPT !.target = x, !.reason = y].doomed = l.doomed
  BY DEF Locals

LEMMA ExitMoves ==
    ASSUME TypeOK, NEW p \in Proc, Exit(p)
    PROVE  Moves(p)
  BY DEF TypeOK, Exit, Goto, Moves, StartSteps, IdleLoc

LEMMA SetMoves ==
    ASSUME TypeOK, NEW p \in Proc, NEW step, Goto(p, step),
           step \notin StartSteps \cup {"c_rmtree"}, NEW x, NEW y,
           \/ loc' = loc
           \/ loc' = [loc EXCEPT ![p].snap = x]
           \/ loc' = [loc EXCEPT ![p].handle = x]
           \/ loc' = [loc EXCEPT ![p].seen = x]
           \/ loc' = [loc EXCEPT ![p].target = x]
           \/ loc' = [loc EXCEPT ![p].target = x, ![p].reason = y]
    PROVE  Moves(p)
  <1>1. loc[p] \in Locals
    BY DEF TypeOK
  <1>2. /\ \A q \in Proc \ {p} : loc'[q] = loc[q]
        /\ loc'[p].doomed = loc[p].doomed
    <2>1. CASE loc' = loc
      BY <2>1
    <2>2. CASE loc' = [loc EXCEPT ![p].target = x, ![p].reason = y]
      BY <1>1, <2>2, SetLocal DEF TypeOK
    <2>3. CASE loc' = [loc EXCEPT ![p].snap = x]
      BY <1>1, <2>3, SetLocal DEF TypeOK
    <2>4. CASE loc' = [loc EXCEPT ![p].handle = x]
      BY <1>1, <2>4, SetLocal DEF TypeOK
    <2>5. CASE loc' = [loc EXCEPT ![p].seen = x]
      BY <1>1, <2>5, SetLocal DEF TypeOK
    <2>6. CASE loc' = [loc EXCEPT ![p].target = x]
      BY <1>1, <2>6, SetLocal DEF TypeOK
    <2>. QED
      BY <2>1, <2>2, <2>3, <2>4, <2>5, <2>6
  <1>. QED
    BY <1>2 DEF TypeOK, Goto, Moves

LEMMA FinishMoves ==
    ASSUME TypeOK, NEW p \in Proc, Finish(p)
    PROVE  Moves(p)
  <1>2. CASE FinishRead(p)
    BY <1>2, SetMoves, ExitMoves DEF FinishRead, EnterTeardown, StartSteps
  <1>. USE DEF TypeOK, Exit, Goto, Moves, StartSteps, IdleLoc
  <1>1. CASE FinishBegin(p)
    BY <1>1 DEF FinishBegin, Begin
  <1>3. CASE FinishProbe(p)
    BY <1>3 DEF FinishProbe
  <1>. QED
    BY <1>1, <1>2, <1>3 DEF Finish

LEMMA TeardownMoves ==
    ASSUME TypeOK, NEW p \in Proc, Teardown(p)
    PROVE  Moves(p)
  <1>1. CASE TeardownRead(p) \/ TeardownGet(p) \/ TeardownVerify(p)
    BY <1>1, SetMoves, ExitMoves DEF TeardownRead, TeardownGet, TeardownVerify, StartSteps
  <1>. USE DEF TypeOK, Exit, Goto, Moves, StartSteps, IdleLoc
  <1>2. CASE TeardownStop(p) \/ TeardownRemove(p)
    BY <1>2 DEF TeardownStop, TeardownRemove
  <1>3. CASE TeardownWorktree(p)
    BY <1>3 DEF TeardownWorktree
  <1>4. CASE TeardownRefuse(p) \/ TeardownMark(p)
    BY <1>4 DEF TeardownRefuse, TeardownMark, Return
  <1>. QED
    BY <1>1, <1>2, <1>3, <1>4 DEF Teardown

LEMMA RecoverMoves ==
    ASSUME TypeOK, NEW p \in Proc, Recover(p)
    PROVE  Moves(p)
  <1>2. CASE RecoverRead(p) \/ RecoverGet(p) \/ RecoverReload(p)
    BY <1>2, SetMoves, ExitMoves DEF RecoverRead, RecoverGet, RecoverReload, StartSteps
  <1>4. CASE RecoverCreate(p)
    BY <1>4, SetMoves, ExitMoves DEF RecoverCreate, StartSteps
  <1>. USE DEF TypeOK, Exit, Goto, Moves, StartSteps, IdleLoc
  <1>1. CASE RecoverBegin(p)
    BY <1>1 DEF RecoverBegin, Begin
  <1>3. CASE RecoverStop(p) \/ RecoverRemove(p)
    BY <1>3 DEF RecoverStop, RecoverRemove
  <1>5. CASE RecoverRun(p)
    BY <1>5 DEF RecoverRun
  <1>6. CASE RecoverCommit(p)
    BY <1>6 DEF RecoverCommit
  <1>7. CASE RecoverKillStop(p) \/ RecoverKillRemove(p)
    BY <1>7 DEF RecoverKillStop, RecoverKillRemove
  <1>. QED
    BY <1>1, <1>2, <1>3, <1>4, <1>5, <1>6, <1>7 DEF Recover

LEMMA ListMoves ==
    ASSUME TypeOK, NEW p \in Proc, List(p)
    PROVE  Moves(p)
  <1>2. CASE ListSnapshot(p) \/ ListRead(p)
    BY <1>2, SetMoves, ExitMoves DEF ListSnapshot, ListRead, StartSteps
  <1>4. CASE ListCommit(p)
    BY <1>4, SetMoves, ExitMoves DEF ListCommit, StartSteps
  <1>. USE DEF TypeOK, Exit, Goto, Moves, StartSteps, IdleLoc
  <1>1. CASE ListBegin(p)
    BY <1>1 DEF ListBegin, Begin
  <1>3. CASE ListTail(p)
    BY <1>3 DEF ListTail
  <1>5. CASE ListAdvance(p) \/ ListReread(p)
    BY <1>5 DEF ListAdvance, ListReread
  <1>. QED
    BY <1>1, <1>2, <1>3, <1>4, <1>5 DEF List

LEMMA CleanMoves ==
    ASSUME TypeOK, NEW p \in Proc, Clean(p)
    PROVE  Moves(p)
  <1>3. CASE CleanScan(p) \/ CleanRescan(p)
    BY <1>3, SetMoves, ExitMoves DEF CleanScan, CleanRescan, Scan, StartSteps
  <1>. USE DEF TypeOK, Exit, Goto, Moves, StartSteps, IdleLoc
  <1>1. CASE CleanBegin(p)
    BY <1>1 DEF CleanBegin, Begin
  <1>2. CASE CleanRead(p)
    BY <1>2 DEF CleanRead, world, disk
  <1>4. CASE CleanCheck(p) \/ CleanRecheck(p)
    BY <1>4 DEF CleanCheck, CleanRecheck
  <1>5. CASE CleanRmtree(p)
    BY <1>5 DEF CleanRmtree
  <1>6. CASE CleanPrune(p)
    BY <1>6 DEF CleanPrune
  <1>. QED
    BY <1>1, <1>2, <1>3, <1>4, <1>5, <1>6 DEF Clean
----------------------------------------------------------------------------
(* The invariant is inductive, and every step is a step of the lifecycle.  *)

\* A step that is not start's: what it does to task.json and to the locals.
LEMMA OtherStep ==
    ASSUME TypeOK, DoomedInv, NEW p \in Proc, Step(p), ~Start(p)
    PROVE  /\ Quiet \/ Reconciles \/ Settles \/ Recovers
              \/ (Removes /\ (Readable => rec.status \in Terminal))
           /\ Moves(p)
           /\ allocated' = allocated
  <1>2. CASE Finish(p) \/ Teardown(p)
    <2>1. allocated' = allocated
      BY <1>2 DEF Finish, Teardown, FinishBegin, FinishRead, FinishProbe, TeardownRead,
         TeardownGet, TeardownStop, TeardownRemove, TeardownVerify, TeardownWorktree,
         TeardownRefuse, TeardownMark, world
    <2>. QED
      BY <1>2, <2>1, TeardownEffect, FinishMoves, TeardownMoves
  <1>3. CASE Recover(p)
    <2>1. allocated' = allocated
      BY <1>3 DEF Recover, RecoverBegin, RecoverRead, RecoverGet, RecoverStop,
         RecoverRemove, RecoverCreate, RecoverRun, RecoverReload, RecoverCommit,
         RecoverKillStop, RecoverKillRemove, world
    <2>. QED
      BY <1>3, <2>1, RecoverEffect, RecoverMoves
  <1>4. CASE List(p)
    <2>1. allocated' = allocated
      BY <1>4 DEF List, ListBegin, ListSnapshot, ListRead, ListTail, ListCommit,
         ListAdvance, ListReread, world
    <2>. QED
      BY <1>4, <2>1, ListEffect, ListMoves
  <1>5. CASE Clean(p)
    <2>1. allocated' = allocated
      BY <1>5 DEF Clean, CleanBegin, CleanRead, CleanScan, CleanCheck, CleanRmtree,
         CleanRescan, CleanRecheck, CleanPrune, world
    <2>2. CleanRmtree(p) => (Readable => rec.status \in Terminal)
      BY DEF DoomedInv, CleanRmtree, At
    <2>. QED
      BY <1>5, <2>1, <2>2, CleanEffect, CleanMoves
  <1>. QED
    BY <1>2, <1>3, <1>4, <1>5 DEF Step

\* With no start under way, none begins.
LEMMA NotStarting ==
    ASSUME NoStarter, NEW p \in Proc
    PROVE  ~Start(p)
  BY DEF NoStarter, Start, StartBegin, Begin, StartSkeleton, StartScaffold, StartWorktree,
         StartMeta, StartCreate, StartRun, StartReload, StartCommit, StartFail, At, StartSteps

LEMMA StepEffect ==
    ASSUME LifecycleInv, NEW p \in Proc, Step(p)
    PROVE  /\ Quiet \/ Reconciles \/ Settles \/ Recovers
              \/ (Removes /\ (Readable => rec.status \in Terminal))
           /\ Moves(p)
           /\ allocated' = allocated
  BY OtherStep, NotStarting DEF LifecycleInv

\* The environment and a crash leave task.json alone.
LEMMA OtherEffect ==
    ASSUME LifecycleInv, Environment \/ (\E p \in Proc : Crash(p)) \/ UNCHANGED vars
    PROVE  /\ rec' = rec /\ allocated' = allocated
           /\ (pc' = pc /\ loc' = loc) \/ \E p \in Proc : Moves(p)
  <1>1. CASE Environment
    BY <1>1 DEF Environment, PiSignals, PiWritesLog, ContainerStops, disk
  <1>2. ASSUME NEW p \in Proc, Crash(p)
        PROVE  rec' = rec /\ allocated' = allocated /\ Moves(p)
    BY <1>2 DEF Crash, Exit, Goto, Moves, StartSteps, IdleLoc, LifecycleInv, TypeOK,
       world, disk
  <1>3. CASE UNCHANGED vars
    BY <1>3 DEF vars, world, disk
  <1>. QED
    BY <1>1, <1>2, <1>3

LEMMA LifecycleStep ==
    ASSUME LifecycleInv, [Next]_vars
    PROVE  /\ Quiet \/ Reconciles \/ Settles \/ Recovers
              \/ (Removes /\ (Readable => rec.status \in Terminal))
           /\ allocated' = allocated
           /\ (pc' = pc /\ loc' = loc /\ rec' = rec) \/ \E p \in Proc : Moves(p)
  <1>1. CASE Environment \/ (\E p \in Proc : Crash(p)) \/ UNCHANGED vars
    BY <1>1, OtherEffect, UnchangedQuiet
  <1>2. CASE \E p \in Proc : Step(p)
    BY <1>2, StepEffect
  <1>. QED
    BY <1>1, <1>2 DEF Next

\* Whatever a step does to task.json, statuses and candidates stay in order.
LEMMA EffectKeeps ==
    ASSUME TypeOK', StatusInv, DoomedInv,
           \/ Quiet \/ Reconciles \/ Settles \/ Recovers
           \/ Removes /\ (Readable => rec.status \in Terminal),
           (pc' = pc /\ loc' = loc /\ rec' = rec) \/ \E p \in Proc : Moves(p)
    PROVE  StatusInv' /\ DoomedInv'
  <1>1. rec'.status \in Statuses \cup {""}
    BY DEF TypeOK, Rec
  <1>2. StatusInv' /\ \A q \in Proc : loc[q].doomed /\ Readable' => rec'.status \in Terminal
    <2>1. CASE Quiet
      BY <2>1 DEF Quiet, Keeps, StatusInv, DoomedInv
    <2>2. CASE Reconciles
      BY <2>2 DEF Reconciles, Keeps, StatusInv, DoomedInv, Statuses, Terminal
    <2>3. CASE Settles
      BY <2>3 DEF Settles, Keeps, StatusInv, Statuses
    <2>4. CASE Recovers
      BY <2>4 DEF Recovers, StatusInv, DoomedInv, Statuses, Terminal
    <2>5. CASE Removes
      BY <2>5 DEF Removes, StatusInv, Readable, NoRec
    <2>. QED
      BY <2>1, <2>2, <2>3, <2>4, <2>5
  <1>3. DoomedInv'
    BY <1>2 DEF DoomedInv, Moves, Readable
  <1>. QED
    BY <1>2, <1>3

LEMMA LifecycleInvInductive ==
    ASSUME LifecycleInv, [Next]_vars
    PROVE  LifecycleInv'
  <1>1. TypeOK'
    BY NextType DEF LifecycleInv
  <1>2. NoStarter'
    BY LifecycleStep DEF LifecycleInv, NoStarter, Moves
  <1>3. StatusInv' /\ DoomedInv'
    BY <1>1, LifecycleStep, EffectKeeps DEF LifecycleInv
  <1>. QED
    BY <1>1, <1>2, <1>3 DEF LifecycleInv

LEMMA LifecycleInvInit == InitStarted => LifecycleInv
  <1>. SUFFICES ASSUME InitStarted PROVE LifecycleInv
    OBVIOUS
  <1>1. TypeOK
    BY InitStartedType
  <1>2. NoStarter /\ DoomedInv
    BY DEF InitStarted, NoStarter, DoomedInv, StartSteps, IdleLoc
  <1>3. Readable /\ rec.status = "running"
    BY DEF InitStarted, NoRec, Readable
  <1>. QED
    BY <1>1, <1>2, <1>3 DEF LifecycleInv, StatusInv, Statuses

\* The phase shown by a readable (or not) task.json with the given status.
PhaseShown(readable, status, phase) ==
    /\ ~readable => phase = "removed"
    /\ readable /\ status \in Terminal => phase = "settled"
    /\ readable /\ status = "interrupted" => phase = "interrupted"
    /\ readable /\ status \in {"running", "waiting_for_user"} => phase = "active"
    /\ readable /\ status = "created" => phase = "created"

\* Unless start has yet to write it, the phase is read off task.json alone.
LEMMA PhaseOf ==
    ASSUME Readable \/ ~Unborn, StatusInv
    PROVE  PhaseShown(Readable, rec.status, Phase)
  BY DEF Phase, PhaseShown, Terminal

LEMMA PhaseOfPrimed ==
    ASSUME Readable' \/ ~Unborn', StatusInv'
    PROVE  PhaseShown(Readable', rec'.status, Phase')
  BY DEF Phase, PhaseShown, Terminal, Readable

LEMMA StarterUnborn == NoStarter => ~Unborn
  BY DEF NoStarter, Unborn, StartSteps

LEMMA StarterUnbornPrimed == NoStarter' => ~Unborn'
  BY DEF NoStarter, Unborn, StartSteps

\* Whatever a step does to task.json, the lifecycle allows.
LEMMA EffectRefines ==
    ASSUME StatusInv, StatusInv',
           PhaseShown(Readable, rec.status, Phase), PhaseShown(Readable', rec'.status, Phase'),
           \/ Quiet \/ Reconciles \/ Settles \/ Recovers
           \/ Removes /\ (Readable => rec.status \in Terminal)
    PROVE  [Lifecycle!Next]_<<Phase, rec.recoveries>>
  <1>1. CASE Quiet
    <2>1. CASE Readable
      <3>1. rec.status \in Statuses /\ rec'.status = rec.status /\ Readable'
        BY <1>1, <2>1 DEF Quiet, Keeps, StatusInv
      <3>2. Phase' = Phase
        BY <2>1, <3>1 DEF PhaseShown, Statuses
      <3>. QED
        BY <1>1, <3>2 DEF Quiet, Keeps
    <2>2. CASE ~Readable
      <3>1. ~Readable'
        BY <1>1, <2>2 DEF Quiet, Keeps
      <3>. QED
        BY <1>1, <2>2, <3>1 DEF Quiet, Keeps, PhaseShown
    <2>. QED
      BY <2>1, <2>2
  <1>2. CASE Reconciles
    <2>1. Readable /\ Readable'
      BY <1>2 DEF Reconciles, Keeps, StatusInv, Terminal
    <2>2. Lifecycle!Activate \/ Lifecycle!Interrupt \/ Lifecycle!Settle \/ Phase' = Phase
      BY <1>2, <2>1
      DEF Reconciles, Keeps, PhaseShown, Terminal,
          Lifecycle!Activate, Lifecycle!Interrupt, Lifecycle!Settle
    <2>. QED
      BY <1>2, <2>2 DEF Reconciles, Keeps, Lifecycle!Next
  <1>3. CASE Settles
    <2>1. CASE ~Readable \/ rec.status \in Terminal
      <3>1. Phase' = Phase
        BY <1>3, <2>1 DEF Settles, Keeps, PhaseShown
      <3>. QED
        BY <1>3, <3>1 DEF Settles, Keeps
    <2>2. CASE Readable /\ rec.status \notin Terminal
      <3>1. Phase' = "settled" /\ Phase \in {"created", "active", "interrupted"}
        BY <1>3, <2>2
        DEF Settles, Keeps, PhaseShown, StatusInv, Statuses
      <3>. QED
        BY <1>3, <3>1 DEF Settles, Keeps, Lifecycle!Next, Lifecycle!Settle
    <2>. QED
      BY <2>1, <2>2
  <1>4. CASE Recovers
    <2>1. Readable /\ Readable'
      BY <1>4 DEF Recovers, StatusInv, Terminal
    <2>. QED
      BY <1>4, <2>1 DEF Recovers, PhaseShown, Lifecycle!Next, Lifecycle!Recovered
  <1>5. CASE Removes /\ (Readable => rec.status \in Terminal)
    <2>1. ~Readable' /\ rec'.recoveries = 0
      BY <1>5 DEF Removes, NoRec, Readable
    <2>. QED
      BY <1>5, <2>1
      DEF PhaseShown, StatusInv, Lifecycle!Next, Lifecycle!Remove
  <1>. QED
    BY <1>1, <1>2, <1>3, <1>4, <1>5

LEMMA LifecycleRefines ==
    ASSUME LifecycleInv, [Next]_vars
    PROVE  [Lifecycle!Next]_<<Phase, rec.recoveries>>
  <1>1. NoStarter /\ StatusInv /\ NoStarter' /\ StatusInv'
    BY LifecycleInvInductive DEF LifecycleInv
  <1>. QED
    BY <1>1, StarterUnborn, StarterUnbornPrimed, PhaseOf, PhaseOfPrimed, LifecycleStep,
       EffectRefines

\* Once start has exited, the commands that follow it keep the task to its
\* lifecycle however many of them overlap, crash, or fail in Docker, git or
\* the file system: TaskLifecycle is implemented.
THEOREM LifecycleHolds == SpecStarted => FollowsLifecycle
  <1>1. InitStarted => Lifecycle!InitActive
    <2>. SUFFICES ASSUME InitStarted PROVE Lifecycle!InitActive
      OBVIOUS
    <2>1. NoStarter /\ StatusInv
      BY LifecycleInvInit DEF LifecycleInv
    <2>2. Readable /\ rec.status = "running" /\ rec.recoveries = 0
      BY DEF InitStarted, NoRec, Readable
    <2>. QED
      BY <2>1, <2>2, PhaseOf DEF PhaseShown, Lifecycle!InitActive
  <1>. QED
    BY <1>1, LifecycleInvInit, LifecycleInvInductive, LifecycleRefines, PTL
    DEF SpecStarted, FollowsLifecycle, Lifecycle!SpecActive
----------------------------------------------------------------------------
(* Teardown.  Only start and recover create a container; the proof is that *)
(* no other step can, so what teardown verified still holds when it marks  *)
(* the task, whatever the concurrent invocations do in between.            *)

\* No invocation that could create a container is under way.
NoCreator == NoStarter /\ \A p \in Proc : pc[p] \notin RecoverSteps

TeardownInv == LifecycleInv /\ NoCreator /\ TornDownBeforeMarked

\* What a step of invocation p does to the container and to the control points.
Safely(p) ==
    /\ ctr = NoCtr => ctr' = NoCtr
    /\ \A q \in Proc \ {p} : pc'[q] = pc[q]
    /\ pc'[p] \notin StartSteps \cup RecoverSteps
    /\ pc'[p] \in {"t_worktree", "t_mark"} =>
          pc[p] \in {"t_worktree", "t_mark"} \/ ctr = NoCtr

LEMMA AbsentNotHeld ==
    ASSUME NEW p \in Proc, ctr = NoCtr
    PROVE  ~Holds(p) /\ (StopHeld(p) => ctr' = ctr) /\ (RemoveHeld(p) => ctr' = NoCtr)
  BY DEF Holds, NoCtr, StopHeld, RemoveHeld

LEMMA SafeStep ==
    ASSUME "recover" \notin Commands, TypeOK, NoCreator,
           NEW p \in Proc, Step(p)
    PROVE  Safely(p)
  <1>1. ~Start(p) /\ ~Recover(p)
    <2>1. ~Start(p)
      BY NotStarting DEF NoCreator
    <2>2. ~Recover(p)
      BY DEF NoCreator, Recover, RecoverBegin, Begin, RecoverRead, RecoverGet,
             RecoverStop, RecoverRemove, RecoverCreate, RecoverRun, RecoverReload,
             RecoverCommit, RecoverKillStop, RecoverKillRemove, At, RecoverSteps
    <2>. QED
      BY <2>1, <2>2
  <1>. USE DEF TypeOK, Safely, At, Goto, Exit, StartSteps, RecoverSteps
  <1>2. CASE Finish(p)
    BY <1>2 DEF Finish, FinishBegin, Begin, FinishRead, EnterTeardown, FinishProbe,
       world, docker
  <1>3. CASE TeardownStop(p) \/ TeardownRemove(p)
    BY <1>3, AbsentNotHeld DEF TeardownStop, TeardownRemove
  <1>4. CASE TeardownRead(p) \/ TeardownGet(p) \/ TeardownVerify(p)
    BY <1>4 DEF TeardownRead, TeardownGet, TeardownVerify, world, docker
  <1>5. CASE TeardownWorktree(p) \/ TeardownRefuse(p) \/ TeardownMark(p)
    BY <1>5 DEF TeardownWorktree, TeardownRefuse, TeardownMark, Return, docker
  <1>6. CASE List(p)
    BY <1>6 DEF List, ListBegin, Begin, ListSnapshot, ListRead, ListTail, ListCommit,
       ListAdvance, ListReread, world, docker
  <1>7. CASE CleanPrune(p)
    BY <1>7, AbsentNotHeld DEF CleanPrune
  <1>8. CASE Clean(p) /\ ~CleanPrune(p)
    BY <1>8 DEF Clean, CleanBegin, Begin, CleanRead, CleanScan, CleanCheck, CleanRmtree,
       CleanRescan, CleanRecheck, world, docker
  <1>. QED
    BY <1>1, <1>2, <1>3, <1>4, <1>5, <1>6, <1>7, <1>8 DEF Step, Teardown

LEMMA TeardownInvInductive ==
    ASSUME "recover" \notin Commands, TeardownInv, [Next]_vars
    PROVE  TeardownInv'
  <1>1. TypeOK /\ NoCreator /\ TornDownBeforeMarked
    BY DEF TeardownInv, LifecycleInv
  <1>2. LifecycleInv' /\ NoStarter'
    BY LifecycleInvInductive DEF TeardownInv, LifecycleInv
  <1>3. NoCreator' /\ TornDownBeforeMarked'
    <2>1. CASE Environment
      <3>1. pc' = pc /\ (ctr = NoCtr => ctr' = NoCtr)
        BY <2>1 DEF Environment, PiSignals, PiWritesLog, ContainerStops, docker, NoCtr
      <3>. QED
        BY <1>1, <1>2, <3>1 DEF NoCreator, TornDownBeforeMarked
    <2>2. CASE UNCHANGED vars
      BY <1>1, <2>2 DEF vars, world, docker, NoCreator, NoStarter, TornDownBeforeMarked
    <2>3. ASSUME NEW p \in Proc, Step(p) \/ Crash(p)
          PROVE  NoCreator' /\ TornDownBeforeMarked'
      <3>1. Safely(p)
        <4>1. CASE Step(p)
          BY <1>1, <4>1, SafeStep
        <4>2. CASE Crash(p)
          BY <1>1, <4>2 DEF Crash, Exit, Goto, Safely, TypeOK, StartSteps, RecoverSteps,
             world, docker
        <4>. QED
          BY <2>3, <4>1, <4>2
      <3>. QED
        BY <1>1, <1>2, <3>1 DEF Safely, NoCreator, TornDownBeforeMarked
    <2>. QED
      BY <2>1, <2>2, <2>3 DEF Next
  <1>. QED
    BY <1>2, <1>3 DEF TeardownInv

\* However finish, list, reap and clean overlap, a task is marked terminal, and
\* its worktree removed, only while its container is gone.  (With a concurrent
\* recover it is not so: run v_finish_recover.)
THEOREM TornDownHolds ==
    ASSUME "recover" \notin Commands
    PROVE  SpecStarted => []TornDownBeforeMarked
  <1>1. InitStarted => TeardownInv
    BY LifecycleInvInit
    DEF InitStarted, TeardownInv, LifecycleInv, NoCreator, TornDownBeforeMarked,
        StartSteps, RecoverSteps
  <1>2. TeardownInv => TornDownBeforeMarked
    BY DEF TeardownInv
  <1>. QED
    BY <1>1, <1>2, TeardownInvInductive, PTL DEF SpecStarted
----------------------------------------------------------------------------
(* recover.  It holds the container it created until it has committed or   *)
(* killed it.                                                              *)

HoldingSteps == {"r_run", "r_reload", "r_commit", "r_killstop", "r_killremove"}

HandleInv == \A p \in Proc : pc[p] \in HoldingSteps => loc[p].handle # 0

\* Only recover itself gets there, with its own new container.
LEMMA HandleStep ==
    ASSUME TypeOK, HandleInv, NEW p \in Proc, Step(p) \/ Crash(p)
    PROVE  /\ \A q \in Proc \ {p} : pc'[q] = pc[q] /\ loc'[q] = loc[q]
           /\ pc'[p] \in HoldingSteps => loc'[p].handle # 0
  <1>. USE DEF TypeOK, HoldingSteps, At, Goto, Exit
  <1>1. CASE Start(p)
    BY <1>1 DEF Start, StartBegin, Begin, StartSkeleton, StartScaffold, StartWorktree,
       StartMeta, StartCreate, StartRun, StartReload, StartCommit, StartFail
  <1>2. CASE Finish(p) \/ Teardown(p)
    BY <1>2 DEF Finish, FinishBegin, Begin, FinishRead, EnterTeardown, FinishProbe, Teardown,
       TeardownRead, TeardownGet, TeardownStop, TeardownRemove, TeardownVerify,
       TeardownWorktree, TeardownRefuse, TeardownMark, Return
  <1>3. CASE RecoverCreate(p)
    <2>1. loc[p] \in Locals /\ made \in Nat
      OBVIOUS
    <2>2. [loc[p] EXCEPT !.handle = made + 1].handle # 0
      BY <2>1 DEF Locals
    <2>. QED
      BY <1>3, <2>2 DEF RecoverCreate
  <1>4. CASE Recover(p) /\ ~RecoverCreate(p)
    BY <1>4 DEF HandleInv, Recover, RecoverBegin, Begin, RecoverRead, RecoverGet,
       RecoverStop, RecoverRemove, RecoverRun, RecoverReload, RecoverCommit,
       RecoverKillStop, RecoverKillRemove
  <1>5. CASE List(p)
    BY <1>5 DEF List, ListBegin, Begin, ListSnapshot, ListRead, ListTail, ListCommit,
       ListAdvance, ListReread
  <1>6. CASE Clean(p)
    BY <1>6 DEF Clean, CleanBegin, Begin, CleanRead, CleanScan, Scan, CleanCheck,
       CleanRmtree, CleanRescan, CleanRecheck, CleanPrune
  <1>7. CASE Crash(p)
    BY <1>7 DEF Crash
  <1>. QED
    BY <1>1, <1>2, <1>3, <1>4, <1>5, <1>6, <1>7 DEF Step

LEMMA HandleInductive ==
    ASSUME TypeOK, HandleInv, [Next]_vars
    PROVE  HandleInv'
  <1>1. CASE Environment \/ UNCHANGED vars
    BY <1>1 DEF Environment, PiSignals, PiWritesLog, ContainerStops, vars, HandleInv
  <1>. QED
    BY <1>1, HandleStep DEF HandleInv, Next

LEMMA NoZombieStep ==
    ASSUME "docker" \notin Faults, "crash" \notin Faults, TypeOK, HandleInv, [Next]_vars,
           NEW p \in Proc,
           pc[p] \in {"r_reload", "r_commit", "r_killstop", "r_killremove"}, pc'[p] = "idle"
    PROVE  rec'.recoveries = rec.recoveries + 1 \/ ctr'.id # loc[p].handle
  <1>1. Step(p)
    <2>1. pc' # pc
      OBVIOUS
    <2>2. ~(Environment \/ UNCHANGED vars)
      BY <2>1 DEF Environment, PiSignals, PiWritesLog, ContainerStops, vars
    <2>. QED
      BY <2>2, HandleStep DEF Next, Crash
  <1>2. RecoverCommit(p) \/ RecoverKillRemove(p)
    <2>1. Recover(p)
      BY <1>1 DEF Step, Start, StartBegin, Begin, StartSkeleton, StartScaffold,
         StartWorktree, StartMeta, StartCreate, StartRun, StartReload, StartCommit,
         StartFail, Finish, FinishBegin, FinishRead, FinishProbe, Teardown, TeardownRead,
         TeardownGet, TeardownStop, TeardownRemove, TeardownVerify, TeardownWorktree,
         TeardownRefuse, TeardownMark, List, ListBegin, ListSnapshot, ListRead, ListTail,
         ListCommit, ListAdvance, ListReread, Clean, CleanBegin, CleanRead, CleanScan,
         CleanCheck, CleanRmtree, CleanRescan, CleanRecheck, CleanPrune, At
    <2>. QED
      BY <2>1 DEF Recover, RecoverBegin, Begin, RecoverRead, RecoverGet, RecoverStop,
         RecoverRemove, RecoverCreate, RecoverRun, RecoverReload, RecoverKillStop, At, Goto,
         TypeOK
  <1>3. CASE RecoverCommit(p)
    <2>1. UpdateTask([rec EXCEPT !.status = "running", !.recoveries = rec.recoveries + 1])
      BY <1>3 DEF RecoverCommit, Goto, TypeOK
    <2>2. rec \in Rec /\ rec.recoveries + 1 \in Nat
      <3>1. rec \in Rec /\ rec.recoveries \in Nat
        BY DEF TypeOK, Rec
      <3>. QED
        BY <3>1
    <2>3. \A n \in Nat : LET d == [rec EXCEPT !.status = "running", !.recoveries = n]
                         IN  d \in Rec /\ d.file = rec.file /\ d.recoveries = n
      BY <2>2 DEF Rec, Statuses
    <2>. QED
      BY <2>1, <2>2, <2>3, UpdateReadable
  <1>4. CASE RecoverKillRemove(p)
    BY <1>4 DEF RecoverKillRemove, RemoveHeld, DockerFails, Holds, HandleInv, HoldingSteps,
       NoCtr
  <1>. QED
    BY <1>2, <1>3, <1>4

\* lifecycle.py:689-691: as long as Docker answers and the command is not
\* killed, a recover that gives up after its container started leaves no
\* container of its own behind, whatever else runs, start included.
THEOREM NoZombieHolds ==
    ASSUME "docker" \notin Faults, "crash" \notin Faults
    PROVE  Spec \/ SpecStarted => RecoverLeavesNoZombie
  <1>1. Init \/ InitStarted => TypeOK /\ HandleInv
    BY InitType, InitStartedType DEF Init, InitStarted, HandleInv, HoldingSteps
  <1>2. ASSUME TypeOK, HandleInv, [Next]_vars
        PROVE  [\A p \in Proc :
                  /\ pc[p] \in {"r_reload", "r_commit", "r_killstop", "r_killremove"}
                  /\ At(p, "idle")'
                  => \/ rec'.recoveries = rec.recoveries + 1
                     \/ ctr'.id # loc[p].handle]_vars
    BY <1>2, NoZombieStep DEF At
  <1>. QED
    BY <1>1, <1>2, NextType, HandleInductive, PTL DEF Spec, SpecStarted, RecoverLeavesNoZombie
==============================================================================
