----------------------------- MODULE StartProofs -----------------------------
(***************************************************************************)
(* start together with the other commands, from the state before the task  *)
(* id is handed out: what any number of concurrent invocations find and    *)
(* leave behind, at every point at which start may fail or be killed.      *)
(***************************************************************************)
EXTENDS EventProofs

\* Nothing of the task exists yet.
Bare == rec = NoRec /\ ctr = NoCtr /\ ~wt

\* Where an invocation can be while there is no readable task.json.
EarlySteps == {"idle", "s_skeleton", "s_scaffold", "f_read", "l_snapshot", "l_read", "r_read",
               "c_read", "c_scan", "c_check", "c_rescan", "c_recheck", "c_prune"}

\* _initial_task
Draft(d) == d.file = "valid" /\ d.status = "created" /\ d.recoveries = 0

\* ids.allocate_task_id hands the id to one start, and until that one has
\* written task.json no other invocation gets hold of anything.
BirthInv ==
    /\ \A p \in Proc : pc[p] \in StartSteps => allocated /\ ~loc[p].doomed
    /\ \A p, q \in Proc : pc[p] \in StartSteps /\ pc[q] \in StartSteps => p = q
    /\ \A p \in Proc : pc[p] \in {"s_skeleton", "s_scaffold"} => Draft(loc[p].snap)
    /\ Unborn => Bare /\ \A p \in Proc : pc[p] \in EarlySteps /\ ~loc[p].doomed

\* A step of a command other than start, or of a start that dies.
Other(p) == Crash(p) \/ (Step(p) /\ ~Start(p))

LEMMA OtherMoves ==
    ASSUME TypeOK, NEW p \in Proc, Other(p)
    PROVE  Moves(p) /\ allocated' = allocated
  <1>1. CASE Finish(p) \/ Teardown(p)
    <2>1. allocated' = allocated
      BY <1>1 DEF Finish, Teardown, FinishBegin, FinishRead, FinishProbe, TeardownRead,
         TeardownGet, TeardownStop, TeardownRemove, TeardownVerify, TeardownWorktree,
         TeardownRefuse, TeardownMark, world
    <2>. QED
      BY <1>1, <2>1, FinishMoves, TeardownMoves
  <1>2. CASE Recover(p)
    <2>1. allocated' = allocated
      BY <1>2 DEF Recover, RecoverBegin, RecoverRead, RecoverGet, RecoverStop,
         RecoverRemove, RecoverCreate, RecoverRun, RecoverReload, RecoverCommit,
         RecoverKillStop, RecoverKillRemove, world
    <2>. QED
      BY <1>2, <2>1, RecoverMoves
  <1>3. CASE List(p)
    <2>1. allocated' = allocated
      BY <1>3 DEF List, ListBegin, ListSnapshot, ListRead, ListTail, ListCommit,
         ListAdvance, ListReread, world
    <2>. QED
      BY <1>3, <2>1, ListMoves
  <1>4. CASE Clean(p)
    <2>1. allocated' = allocated
      BY <1>4 DEF Clean, CleanBegin, CleanRead, CleanScan, CleanCheck, CleanRmtree,
         CleanRescan, CleanRecheck, CleanPrune, world
    <2>. QED
      BY <1>4, <2>1, CleanMoves
  <1>5. CASE Crash(p)
    BY <1>5, ExitMoves DEF Crash, world
  <1>. QED
    BY <1>1, <1>2, <1>3, <1>4, <1>5 DEF Other, Step

LEMMA ExitUndoomed ==
    ASSUME TypeOK, NEW p \in Proc, Exit(p)
    PROVE  ~loc'[p].doomed
  BY DEF TypeOK, Exit, IdleLoc

\* With no task.json and no container every other command finds nothing to do.
LEMMA EarlyStep ==
    ASSUME TypeOK, Bare, NEW p \in Proc, pc[p] \in EarlySteps, ~loc[p].doomed, Other(p)
    PROVE  Bare' /\ rec' = rec /\ pc'[p] \in EarlySteps /\ ~loc'[p].doomed
  <1>0. ~Readable
    BY DEF Bare, NoRec, Readable
  <1>1. CASE Finish(p) \/ List(p) \/ Recover(p) \/ Teardown(p)
    <2>1. FinishBegin(p) \/ FinishRead(p) \/ ListBegin(p) \/ ListSnapshot(p) \/ ListRead(p)
          \/ RecoverBegin(p) \/ RecoverRead(p)
      BY <1>1 DEF Finish, FinishProbe, Teardown, TeardownRead, TeardownGet, TeardownStop,
         TeardownRemove, TeardownVerify, TeardownWorktree, TeardownRefuse, TeardownMark,
         List, ListTail, ListCommit, ListAdvance, ListReread, Recover, RecoverGet,
         RecoverStop, RecoverRemove, RecoverCreate, RecoverRun, RecoverReload,
         RecoverCommit, RecoverKillStop, RecoverKillRemove, At, EarlySteps
    <2>2. Bare' /\ rec' = rec
      <3>1. CASE FinishBegin(p)
        <4>1. UNCHANGED world
          BY <3>1 DEF FinishBegin
        <4>. QED
          BY <4>1 DEF world, disk, tree, docker, Bare
      <3>2. CASE ~FinishBegin(p)
        BY <1>0, <2>1, <3>2 DEF FinishRead, ListBegin, ListSnapshot, ListRead,
           RecoverBegin, RecoverRead, world, disk, tree, docker, Bare
      <3>. QED
        BY <3>1, <3>2
    <2>3. pc'[p] \in EarlySteps
      BY <1>0, <2>1 DEF FinishBegin, FinishRead, ListBegin, ListSnapshot, ListRead,
         RecoverBegin, RecoverRead, Begin, Goto, Exit, TypeOK, EarlySteps
    <2>4. ~loc'[p].doomed
      <3>1. CASE FinishBegin(p) \/ ListBegin(p) \/ RecoverBegin(p)
        BY <3>1 DEF FinishBegin, ListBegin, RecoverBegin, TypeOK, IdleLoc
      <3>2. CASE Exit(p)
        BY <3>2, ExitUndoomed
      <3>3. CASE ListSnapshot(p) /\ ~Exit(p)
        <4>1. loc[p] \in Locals /\ loc' = [loc EXCEPT ![p].seen = ctr.st]
          BY <3>3 DEF ListSnapshot, TypeOK
        <4>2. loc'[p] = [loc[p] EXCEPT !.seen = ctr.st]
          BY <4>1 DEF TypeOK
        <4>. QED
          BY <4>1, <4>2, SetLocal
      <3>. QED
        BY <1>0, <2>1, <3>1, <3>2, <3>3 DEF FinishRead, ListSnapshot, ListRead, RecoverRead
    <2>. QED
      BY <2>2, <2>3, <2>4
  <1>2. CASE Clean(p)
    <2>1. ~CleanRmtree(p)
      BY DEF CleanRmtree, At, EarlySteps
    <2>2. Bare' /\ rec' = rec
      BY <1>2, <2>1, AbsentNotHeld DEF Clean, CleanBegin, CleanRead, CleanScan, CleanCheck,
         CleanRescan, CleanRecheck, CleanPrune, world, disk, tree, docker, Bare
    <2>3. pc'[p] \in EarlySteps
      BY <1>2, <2>1 DEF Clean, CleanBegin, CleanRead, CleanScan, CleanCheck,
         CleanRescan, CleanRecheck, CleanPrune, Begin, Goto, Exit, TypeOK, EarlySteps
    <2>4. ~loc'[p].doomed
      <3>1. CASE CleanRead(p)
        BY <1>0, <3>1 DEF CleanRead, TypeOK, Locals
      <3>2. CASE CleanScan(p) \/ CleanRescan(p)
        BY <3>2 DEF CleanScan, CleanRescan, Scan, TypeOK, Locals
      <3>3. CASE CleanBegin(p)
        BY <3>3 DEF CleanBegin, IdleLoc, TypeOK
      <3>4. CASE CleanCheck(p) \/ CleanRecheck(p) \/ CleanPrune(p)
        BY <3>4, ExitUndoomed DEF CleanCheck, CleanRecheck, CleanPrune
      <3>. QED
        BY <1>2, <2>1, <3>1, <3>2, <3>3, <3>4 DEF Clean
    <2>. QED
      BY <2>2, <2>3, <2>4
  <1>3. CASE Crash(p)
    BY <1>3 DEF Crash, Exit, Goto, TypeOK, EarlySteps, IdleLoc, world, disk, tree, docker, Bare
  <1>. QED
    BY <1>1, <1>2, <1>3 DEF Other, Step

\* What every step of a start does to the control points and locals.
LEMMA StartMoves ==
    ASSUME TypeOK, NEW p \in Proc, Start(p)
    PROVE  /\ \A q \in Proc \ {p} : pc'[q] = pc[q] /\ loc'[q] = loc[q]
           /\ pc[p] \in StartSteps \/ StartBegin(p)
           /\ allocated' = allocated \/ StartBegin(p)
           /\ pc'[p] = "s_skeleton" => StartBegin(p)
           /\ StartBegin(p) => Draft(loc'[p].snap)
           /\ pc'[p] = "s_scaffold" => StartSkeleton(p) /\ loc' = loc
           /\ ~loc[p].doomed => ~loc'[p].doomed
  <1>. USE DEF TypeOK, Goto, Exit, At, StartSteps
  <1>0. pc[p] \in StartSteps => ~StartBegin(p)
    BY DEF StartBegin, Begin
  <1>1. CASE StartBegin(p)
    <2>1. \A q \in Proc \ {p} : pc'[q] = pc[q] /\ loc'[q] = loc[q]
      BY <1>1 DEF StartBegin, Begin
    <2>2. ~loc'[p].doomed /\ pc'[p] = "s_skeleton"
      BY <1>1 DEF StartBegin, Begin, IdleLoc
    <2>3. Draft(loc'[p].snap)
      <3>1. PICK auto \in AutoFinishArgs, kind \in Kinds, policy \in Policies :
               loc' = [loc EXCEPT ![p] =
                         [IdleLoc EXCEPT !.cmd = "start",
                            !.snap = [NoRec EXCEPT !.file = "valid", !.status = "created",
                                        !.auto = auto, !.kind = kind, !.policy = policy]]]
        BY <1>1 DEF StartBegin
      <3> DEFINE d == [NoRec EXCEPT !.file = "valid", !.status = "created",
                                    !.auto = auto, !.kind = kind, !.policy = policy]
      <3>2. loc'[p] = [IdleLoc EXCEPT !.cmd = "start", !.snap = d]
        BY <3>1
      <3>3. Draft(d) /\ [IdleLoc EXCEPT !.cmd = "start", !.snap = d].snap = d
        BY DEF NoRec, Draft, IdleLoc
      <3> HIDE DEF d
      <3>. QED
        BY <3>2, <3>3
    <2>. QED
      BY <1>1, <2>1, <2>2, <2>3
  <1>2. CASE StartCreate(p)
    <2>1. loc'[p].doomed = loc[p].doomed
      <3>1. loc[p] \in Locals
        OBVIOUS
      <3>2. loc' = loc \/ loc' = [loc EXCEPT ![p].handle = made + 1]
        BY <1>2 DEF StartCreate
      <3>3. [loc[p] EXCEPT !.handle = made + 1].doomed = loc[p].doomed
        BY <3>1, SetLocal
      <3>. QED
        BY <3>2, <3>3
    <2>2. \A q \in Proc \ {p} : pc'[q] = pc[q] /\ loc'[q] = loc[q]
      BY <1>2 DEF StartCreate
    <2>. QED
      BY <1>0, <1>2, <2>1, <2>2 DEF StartCreate, world
  <1>3. CASE StartCommit(p) \/ StartFail(p)
    BY <1>0, <1>3 DEF StartCommit, StartFail, IdleLoc
  <1>4. CASE StartSkeleton(p) \/ StartScaffold(p) \/ StartWorktree(p) \/ StartMeta(p)
             \/ StartRun(p) \/ StartReload(p)
    BY <1>0, <1>4 DEF StartSkeleton, StartScaffold, StartWorktree, StartMeta, StartRun,
       StartReload, world
  <1>. QED
    BY <1>1, <1>2, <1>3, <1>4 DEF Start

LEMMA BirthStart ==
    ASSUME TypeOK, BirthInv, NEW p \in Proc, Start(p)
    PROVE  BirthInv'
  <1>1. \A q \in Proc \ {p} : pc'[q] = pc[q] /\ loc'[q] = loc[q]
    BY StartMoves
  <1>2. CASE StartBegin(p)
    <2>1. ~allocated /\ allocated'
      BY <1>2 DEF StartBegin
    <2>2. Bare /\ (\A q \in Proc : pc[q] \in EarlySteps /\ ~loc[q].doomed)
      BY <2>1 DEF BirthInv, Unborn
    <2>3. Bare'
      BY <1>2, <2>2 DEF StartBegin, Bare, disk, tree, docker
    <2>4. pc'[p] = "s_skeleton" /\ ~loc'[p].doomed
      BY <1>2, <2>2, StartMoves DEF StartBegin, Begin, Goto, TypeOK
    <2>5. \A q \in Proc \ {p} : pc'[q] \notin StartSteps
      BY <1>1, <2>1 DEF BirthInv
    <2>6. pc'[p] \in EarlySteps
      BY <2>4 DEF EarlySteps
    <2>7. Draft(loc'[p].snap)
      BY <1>2, StartMoves
    <2>8. \A q \in Proc : pc'[q] \in {"s_skeleton", "s_scaffold"} => Draft(loc'[q].snap)
      BY <1>1, <2>7 DEF BirthInv
    <2>. QED
      BY <1>1, <2>1, <2>2, <2>3, <2>4, <2>5, <2>6, <2>8 DEF BirthInv
  <1>3. CASE ~StartBegin(p)
    <2>1. pc[p] \in StartSteps /\ allocated /\ allocated' = allocated /\ ~loc'[p].doomed
      BY <1>3, StartMoves DEF BirthInv
    <2>2. \A q \in Proc \ {p} : pc'[q] \notin StartSteps
      BY <1>1, <2>1 DEF BirthInv
    <2>3. ASSUME Unborn'
          PROVE  Bare' /\ \A q \in Proc : pc'[q] \in EarlySteps /\ ~loc'[q].doomed
      <3>1. pc'[p] \in {"s_skeleton", "s_scaffold"}
        BY <2>1, <2>2, <2>3 DEF Unborn, StartSteps
      <3>2. StartSkeleton(p)
        BY <1>3, <3>1, StartMoves
      <3>3. Bare /\ (\A q \in Proc : pc[q] \in EarlySteps /\ ~loc[q].doomed)
        BY <3>2 DEF BirthInv, Unborn, StartSkeleton, At
      <3>4. Bare'
        BY <3>2, <3>3 DEF StartSkeleton, Bare, docker
      <3>. QED
        BY <1>1, <2>1, <3>1, <3>3, <3>4 DEF EarlySteps
    <2>4. pc'[p] \in {"s_skeleton", "s_scaffold"} => Draft(loc'[p].snap)
      BY <1>3, StartMoves DEF BirthInv, StartSkeleton, At
    <2>5. \A q \in Proc : pc'[q] \in {"s_skeleton", "s_scaffold"} => Draft(loc'[q].snap)
      BY <1>1, <2>4 DEF BirthInv
    <2>. QED
      BY <1>1, <2>1, <2>2, <2>3, <2>5 DEF BirthInv
  <1>. QED
    BY <1>2, <1>3

LEMMA BirthOther ==
    ASSUME TypeOK, BirthInv, NEW p \in Proc, Other(p)
    PROVE  BirthInv'
  <1>1. /\ \A q \in Proc \ {p} : pc'[q] = pc[q] /\ loc'[q] = loc[q]
        /\ pc'[p] \notin StartSteps /\ allocated' = allocated
    BY OtherMoves DEF Moves
  <1>2. ASSUME Unborn'
        PROVE  Bare' /\ \A q \in Proc : pc'[q] \in EarlySteps /\ ~loc'[q].doomed
    <2>1. Unborn
      BY <1>1, <1>2 DEF Unborn, StartSteps
    <2>2. Bare /\ \A q \in Proc : pc[q] \in EarlySteps /\ ~loc[q].doomed
      BY <2>1 DEF BirthInv
    <2>. QED
      BY <1>1, <2>2, EarlyStep
  <1>3. \A q \in Proc : pc'[q] \in {"s_skeleton", "s_scaffold"} => Draft(loc'[q].snap)
    BY <1>1 DEF BirthInv, StartSteps
  <1>. QED
    BY <1>1, <1>2, <1>3 DEF BirthInv

\* The environment needs a container that is up.
LEMMA EnvironmentBare ==
    ASSUME Environment \/ UNCHANGED vars
    PROVE  /\ rec' = rec /\ wt' = wt /\ dir' = dir /\ allocated' = allocated
           /\ pc' = pc /\ loc' = loc /\ (ctr = NoCtr => ctr' = NoCtr)
  BY DEF Environment, PiSignals, PiWritesLog, ContainerStops, vars, world, disk, tree, docker,
         NoCtr

LEMMA BirthInductive ==
    ASSUME TypeOK, BirthInv, [Next]_vars
    PROVE  BirthInv'
  <1>1. CASE Environment \/ UNCHANGED vars
    BY <1>1, EnvironmentBare DEF BirthInv, Unborn, Bare
  <1>. QED
    BY <1>1, BirthStart, BirthOther DEF Next, Other

LEMMA BirthInit == Init => TypeOK /\ BirthInv
  BY InitType DEF Init, BirthInv, Bare, EarlySteps, IdleLoc, StartSteps
----------------------------------------------------------------------------
(* terminal_log_max_size.                                                  *)

\* start's own updates of a task.json that it has written.
LEMMA StartUpdates ==
    ASSUME TypeOK, NEW p \in Proc, StartMeta(p) \/ StartCommit(p) \/ StartFail(p)
    PROVE  /\ Readable' = Readable /\ rec'.maxlog = rec.maxlog
           /\ rec'.recoveries = rec.recoveries
           /\ rec'.worktree = IF StartMeta(p) THEN TRUE ELSE rec.worktree
           /\ StartMeta(p) => rec'.status = rec.status
           /\ StartCommit(p) => rec'.status = "running"
           /\ StartFail(p) => rec'.status = "failed"
           /\ UNCHANGED <<ctr, wt>>
  <1>1. rec \in Rec
    BY DEF TypeOK
  <1>2. ctr' = ctr /\ wt' = wt
    BY DEF StartMeta, StartCommit, StartFail, docker, tree
  <1>3. CASE StartMeta(p)
    <2> DEFINE d == [rec EXCEPT !.worktree = TRUE]
    <2>1. /\ d \in Rec /\ d.file = rec.file /\ d.status = rec.status /\ d.worktree = TRUE
          /\ d.maxlog = rec.maxlog /\ d.recoveries = rec.recoveries
      BY <1>1 DEF Rec
    <2>2. UpdateTask(d) /\ At(p, "s_meta")
      BY <1>3 DEF StartMeta
    <2>3. ~StartCommit(p) /\ ~StartFail(p)
      BY <2>2 DEF StartCommit, StartFail, At
    <2> HIDE DEF d
    <2>. QED
      BY <1>2, <1>3, <2>1, <2>2, <2>3, UpdateFields
  <1>4. CASE StartCommit(p)
    <2> DEFINE d == [rec EXCEPT !.status = "running"]
    <2>1. /\ d \in Rec /\ d.file = rec.file /\ d.status = "running"
          /\ d.worktree = rec.worktree
          /\ d.maxlog = rec.maxlog /\ d.recoveries = rec.recoveries
      BY <1>1 DEF Rec, Statuses
    <2>2. UpdateTask(d) /\ At(p, "s_commit")
      BY <1>4 DEF StartCommit
    <2>3. ~StartMeta(p) /\ ~StartFail(p)
      BY <2>2 DEF StartMeta, StartFail, At
    <2> HIDE DEF d
    <2>. QED
      BY <1>2, <1>4, <2>1, <2>2, <2>3, UpdateFields
  <1>5. CASE StartFail(p)
    <2> DEFINE d == [rec EXCEPT !.status = "failed", !.reason = "start"]
    <2>1. /\ d \in Rec /\ d.file = rec.file /\ d.status = "failed"
          /\ d.worktree = rec.worktree
          /\ d.maxlog = rec.maxlog /\ d.recoveries = rec.recoveries
      BY <1>1 DEF Rec, Statuses, Terminal, Reasons
    <2>2. UpdateTask(d) /\ At(p, "s_fail")
      BY <1>5 DEF StartFail
    <2>3. ~StartMeta(p) /\ ~StartCommit(p)
      BY <2>2 DEF StartMeta, StartCommit, At
    <2> HIDE DEF d
    <2>. QED
      BY <1>2, <1>5, <2>1, <2>2, <2>3, UpdateFields
  <1>. QED
    BY <1>3, <1>4, <1>5

\* The scaffold is written where there was nothing; the other steps leave
\* task.json alone.
LEMMA StartRecord ==
    ASSUME TypeOK, BirthInv, NEW p \in Proc, Start(p)
    PROVE  \/ rec' = rec
           \/ StartScaffold(p) /\ Bare /\ rec' = loc[p].snap /\ UNCHANGED <<ctr, wt>>
           \/ StartMeta(p) \/ StartCommit(p) \/ StartFail(p)
  <1>1. CASE StartScaffold(p)
    <2>1. Bare
      BY <1>1 DEF BirthInv, Unborn, StartScaffold, At
    <2>. QED
      BY <1>1, <2>1 DEF StartScaffold, docker, tree
  <1>2. CASE ~StartScaffold(p)
    BY <1>2 DEF Start, StartBegin, StartSkeleton, StartWorktree, StartCreate, StartRun,
       StartReload, world, disk
  <1>. QED
    BY <1>1, <1>2

LEMMA HighWaterStep ==
    ASSUME TypeOK, BirthInv, [Next]_vars, Readable'
    PROVE  rec'.maxlog >= rec.maxlog
  <1>1. rec.maxlog \in Nat
    BY DEF TypeOK, Rec
  <1>2. rec'.maxlog \in Nat
    BY NextType DEF TypeOK, Rec
  <1>3. CASE rec' = rec
    BY <1>1, <1>3
  <1>4. ASSUME NEW p \in Proc, Start(p)
        PROVE  rec'.maxlog >= rec.maxlog
    <2>1. Bare => rec.maxlog = 0
      <3>1. NoRec.maxlog = 0
        BY DEF NoRec
      <3>. QED
        BY <3>1 DEF Bare
    <2>2. CASE Bare
      BY <1>2, <2>1, <2>2
    <2>3. CASE StartMeta(p) \/ StartCommit(p) \/ StartFail(p)
      <3>1. rec'.maxlog = rec.maxlog
        BY <2>3, StartUpdates
      <3>. QED
        BY <1>1, <3>1
    <2>. QED
      BY <1>3, <1>4, <2>2, <2>3, StartRecord
  <1>5. ASSUME NEW p \in Proc, Step(p) \/ Crash(p), ~Start(p)
        PROVE  rec'.maxlog >= rec.maxlog
    BY <1>5, StepOutcome, RemovedUnreadable DEF Outcome, Carries
  <1>. QED
    BY <1>3, <1>4, <1>5, EnvironmentBare DEF Next

\* list_cmd.py:252-254: whichever passes and updates overlap, the size
\* recorded for the growth check of terminal.log never goes down.
THEOREM LogHighWaterHolds == Spec => LogHighWater
  BY BirthInit, BirthInductive, NextType, HighWaterStep, PTL DEF Spec, LogHighWater
----------------------------------------------------------------------------
(* What the other commands do to the container and the worktree.           *)

LEMMA OtherWorld ==
    ASSUME TypeOK, NEW p \in Proc, Other(p)
    PROVE  /\ ctr = NoCtr => ctr' = NoCtr \/ RecoverCreate(p)
           /\ wt' => wt
           /\ pc[p] \in StartSteps => Crash(p)
           /\ pc'[p] \in RecoverSteps \ {"r_read"} =>
                 pc[p] \in RecoverSteps \ {"r_read"} \/ Readable
  <1>. USE DEF TypeOK, At, Goto, Exit, StartSteps, RecoverSteps
  <1>1. CASE Finish(p)
    <2>1. CASE FinishBegin(p)
      <3>1. UNCHANGED world /\ pc[p] = "idle" /\ pc'[p] = "f_read"
        BY <2>1 DEF FinishBegin, Begin
      <3>. QED
        BY <3>1 DEF world, disk, tree, docker
    <2>2. CASE FinishRead(p) \/ FinishProbe(p)
      BY <2>2 DEF FinishRead, EnterTeardown, FinishProbe, world, disk, tree, docker
    <2>. QED
      BY <1>1, <2>1, <2>2 DEF Finish
  <1>2. CASE TeardownStop(p) \/ TeardownRemove(p)
    BY <1>2, AbsentNotHeld DEF TeardownStop, TeardownRemove, disk, tree
  <1>3. CASE TeardownRead(p)
    BY <1>3 DEF TeardownRead, tree, docker
  <1>4. CASE TeardownGet(p) \/ TeardownVerify(p)
    BY <1>4 DEF TeardownGet, TeardownVerify, world, disk, tree, docker
  <1>5. CASE TeardownWorktree(p)
    BY <1>5 DEF TeardownWorktree, docker
  <1>6. CASE TeardownRefuse(p) \/ TeardownMark(p)
    BY <1>6 DEF TeardownRefuse, TeardownMark, Return, tree, docker
  <1>7. CASE RecoverStop(p) \/ RecoverRemove(p) \/ RecoverKillStop(p) \/ RecoverKillRemove(p)
    BY <1>7, AbsentNotHeld DEF RecoverStop, RecoverRemove, RecoverKillStop,
       RecoverKillRemove, disk, tree
  <1>8. CASE RecoverBegin(p) \/ RecoverRead(p) \/ RecoverGet(p) \/ RecoverReload(p)
    BY <1>8 DEF RecoverBegin, Begin, RecoverRead, RecoverGet, RecoverReload, world, disk,
       tree, docker
  <1>9. CASE RecoverCreate(p) \/ RecoverRun(p) \/ RecoverCommit(p)
    BY <1>9, AbsentNotHeld DEF RecoverCreate, RecoverRun, RecoverCommit, disk, tree, docker
  <1>10. CASE List(p)
    BY <1>10 DEF List, ListBegin, Begin, ListSnapshot, ListRead, ListTail, ListCommit,
       ListAdvance, ListReread, world, disk, tree, docker
  <1>11. CASE CleanPrune(p)
    BY <1>11, AbsentNotHeld DEF CleanPrune, disk, tree
  <1>12. CASE CleanRmtree(p)
    <2>1. wt' = wt \/ wt' = FALSE
      BY <1>12 DEF CleanRmtree
    <2>2. wt' => wt
      BY <2>1
    <2>. QED
      BY <1>12, <2>2 DEF CleanRmtree, docker
  <1>13. CASE Clean(p) /\ ~CleanPrune(p) /\ ~CleanRmtree(p)
    BY <1>13 DEF Clean, CleanBegin, Begin, CleanRead, CleanScan, CleanCheck,
       CleanRescan, CleanRecheck, world, disk, tree, docker
  <1>14. CASE Crash(p)
    BY <1>14 DEF Crash, world, disk, tree, docker
  <1>. QED
    BY <1>1, <1>2, <1>3, <1>4, <1>5, <1>6, <1>7, <1>8, <1>9, <1>10, <1>11, <1>12,
       <1>13, <1>14 DEF Other, Step, Teardown, Recover

\* Without clean among the commands no invocation removes anything.
NoCleaner == \A p \in Proc : pc[p] \notin CleanSteps

LEMMA CleanerStep ==
    ASSUME "clean" \notin Commands, TypeOK, NoCleaner, NEW p \in Proc, Step(p) \/ Crash(p)
    PROVE  pc'[p] \notin CleanSteps /\ \A q \in Proc \ {p} : pc'[q] = pc[q]
  <1>. USE DEF TypeOK, CleanSteps, At, Goto, Exit
  <1>1. ~Clean(p)
    BY DEF NoCleaner, Clean, CleanBegin, Begin, CleanRead, CleanScan, CleanCheck,
       CleanRmtree, CleanRescan, CleanRecheck, CleanPrune
  <1>2. CASE Start(p)
    BY <1>2 DEF Start, StartBegin, Begin, StartSkeleton, StartScaffold, StartWorktree,
       StartMeta, StartCreate, StartRun, StartReload, StartCommit, StartFail
  <1>3. CASE Finish(p) \/ Teardown(p)
    BY <1>3 DEF Finish, FinishBegin, Begin, FinishRead, EnterTeardown, FinishProbe, Teardown,
       TeardownRead, TeardownGet, TeardownStop, TeardownRemove, TeardownVerify,
       TeardownWorktree, TeardownRefuse, TeardownMark, Return
  <1>4. CASE Recover(p)
    BY <1>4 DEF Recover, RecoverBegin, Begin, RecoverRead, RecoverGet,
       RecoverStop, RecoverRemove, RecoverCreate, RecoverRun, RecoverReload, RecoverCommit,
       RecoverKillStop, RecoverKillRemove
  <1>5. CASE List(p)
    BY <1>5 DEF List, ListBegin, Begin, ListSnapshot, ListRead, ListTail, ListCommit,
       ListAdvance, ListReread
  <1>6. CASE Crash(p)
    BY <1>6 DEF Crash
  <1>. QED
    BY <1>1, <1>2, <1>3, <1>4, <1>5, <1>6 DEF Step

LEMMA CleanerInductive ==
    ASSUME "clean" \notin Commands, TypeOK, NoCleaner, [Next]_vars
    PROVE  NoCleaner'
  <1>1. CASE Environment \/ UNCHANGED vars
    BY <1>1, EnvironmentBare DEF NoCleaner
  <1>. QED
    BY <1>1, CleanerStep DEF NoCleaner, Next

\* ... and task.json, once readable, stays so.
LEMMA OtherKeepsRecord ==
    ASSUME TypeOK, NoCleaner, NEW p \in Proc, Other(p)
    PROVE  Carries
  <1>1. Outcome(p)
    BY StepOutcome, SameOutcome DEF Other, Crash, world, disk
  <1>. QED
    BY <1>1 DEF Outcome, NoCleaner, CleanSteps, At
----------------------------------------------------------------------------
(* What start leaves behind.                                               *)

\* The steps of a start that follow its scaffold.
WrittenSteps == StartSteps \ {"s_skeleton", "s_scaffold"}

LEMMA StartGoes ==
    ASSUME TypeOK, NEW p \in Proc, Start(p)
    PROVE  /\ pc[p] \notin WrittenSteps =>
                 StartBegin(p) \/ StartSkeleton(p) \/ StartScaffold(p)
           /\ pc'[p] \in WrittenSteps => pc[p] \in WrittenSteps \/ StartScaffold(p)
           /\ pc'[p] \in StartSteps \cup {"idle"}
           /\ ctr = NoCtr => ctr' = NoCtr \/ pc[p] \in WrittenSteps
           /\ wt' => wt \/ (At(p, "s_worktree") /\ pc'[p] = "s_meta")
           /\ At(p, "s_meta") => StartMeta(p)
           /\ pc'[p] = "s_worktree" => StartScaffold(p)
  <1>. USE DEF TypeOK, Goto, Exit, At, StartSteps, WrittenSteps
  <1>1. CASE StartBegin(p)
    BY <1>1 DEF StartBegin, Begin, disk, tree, docker
  <1>2. CASE StartSkeleton(p)
    BY <1>2 DEF StartSkeleton, docker
  <1>3. CASE StartScaffold(p)
    BY <1>3 DEF StartScaffold, tree, docker
  <1>4. CASE StartWorktree(p)
    BY <1>4 DEF StartWorktree, docker
  <1>5. CASE StartMeta(p) \/ StartCommit(p) \/ StartFail(p)
    BY <1>5 DEF StartMeta, StartCommit, StartFail, tree, docker
  <1>6. CASE StartCreate(p) \/ StartRun(p) \/ StartReload(p)
    BY <1>6 DEF StartCreate, StartRun, StartReload, world, disk, tree
  <1>. QED
    BY <1>1, <1>2, <1>3, <1>4, <1>5, <1>6 DEF Start

\* recover and the later steps of start have read or written a task.json.
RecordInv ==
    /\ NoCleaner
    /\ \A p \in Proc : pc[p] \in WrittenSteps \cup (RecoverSteps \ {"r_read"}) => Readable

LEMMA StartKeepsRecord ==
    ASSUME TypeOK, BirthInv, NEW p \in Proc, Start(p)
    PROVE  /\ Readable => Readable'
           /\ StartScaffold(p) => Readable'
  <1>1. StartScaffold(p) => Readable'
    <2>. SUFFICES ASSUME StartScaffold(p) PROVE Readable'
      OBVIOUS
    <2>1. rec' = loc[p].snap /\ pc[p] = "s_scaffold"
      BY DEF StartScaffold, At
    <2>2. loc[p].snap.file = "valid"
      BY <2>1 DEF BirthInv, Draft
    <2>. QED
      BY <2>1, <2>2 DEF Readable
  <1>2. CASE rec' = rec
    BY <1>1, <1>2 DEF Readable
  <1>. QED
    BY <1>1, <1>2, StartRecord, StartUpdates

LEMMA RecordInductive ==
    ASSUME "clean" \notin Commands, TypeOK, BirthInv, RecordInv, StartLeavesRecord,
           [Next]_vars
    PROVE  RecordInv' /\ StartLeavesRecord'
  <1>1. NoCleaner'
    BY CleanerInductive DEF RecordInv
  <1>2. ASSUME NEW p \in Proc, Start(p)
        PROVE  RecordInv' /\ StartLeavesRecord'
    <2>1. \A q \in Proc \ {p} : pc'[q] = pc[q]
      BY <1>2, StartMoves
    <2>2. (Readable => Readable') /\ (StartScaffold(p) => Readable')
      BY <1>2, StartKeepsRecord
    <2>3. pc[p] \in WrittenSteps => Readable'
      BY <2>2 DEF RecordInv
    <2>4. RecordInv'
      BY <1>1, <1>2, <2>1, <2>2, <2>3, StartGoes DEF RecordInv, RecoverSteps, StartSteps
    <2>5. At(p, "s_worktree") => pc[p] \in WrittenSteps
      BY DEF At, WrittenSteps, StartSteps
    <2>6. StartLeavesRecord'
      BY <1>2, <2>2, <2>3, <2>5, StartGoes DEF StartLeavesRecord
    <2>. QED
      BY <2>4, <2>6
  <1>3. ASSUME NEW p \in Proc, Other(p)
        PROVE  RecordInv' /\ StartLeavesRecord'
    <2>1. (\A q \in Proc \ {p} : pc'[q] = pc[q]) /\ pc'[p] \notin StartSteps
      BY <1>3, OtherMoves DEF Moves
    <2>2. Readable' = Readable
      BY <1>3, OtherKeepsRecord DEF RecordInv, Carries
    <2>3. pc'[p] \in RecoverSteps \ {"r_read"} => Readable
      BY <1>3, OtherWorld DEF RecordInv
    <2>4. RecordInv'
      BY <1>1, <2>1, <2>2, <2>3 DEF RecordInv, WrittenSteps
    <2>5. RecoverCreate(p) => Readable
      BY DEF RecordInv, RecoverCreate, At, RecoverSteps
    <2>6. StartLeavesRecord'
      BY <1>3, <2>2, <2>5, OtherWorld DEF StartLeavesRecord
    <2>. QED
      BY <2>4, <2>6
  <1>4. CASE Environment \/ UNCHANGED vars
    BY <1>1, <1>4, EnvironmentBare DEF RecordInv, StartLeavesRecord, Readable
  <1>. QED
    BY <1>2, <1>3, <1>4 DEF Next, Other

LEMMA RecordInit == Init => RecordInv /\ StartLeavesRecord
  BY DEF Init, RecordInv, NoCleaner, CleanSteps, WrittenSteps, StartSteps, RecoverSteps,
         StartLeavesRecord

\* lifecycle.py:318-321: as long as nothing is cleaned, a start that fails or
\* is killed at any point, whatever runs next to it, leaves no container and
\* no worktree without a task.json that finish can work from.
THEOREM StartLeavesRecordHolds ==
    ASSUME "clean" \notin Commands
    PROVE  Spec => []StartLeavesRecord
  BY BirthInit, BirthInductive, NextType, RecordInit, RecordInductive, PTL DEF Spec

\* A worktree is in the directory, and until its worktree step start has none.
TreeInv ==
    /\ wt => dir
    /\ \A p \in Proc : pc[p] \in {"s_skeleton", "s_scaffold", "s_worktree"} => ~wt

LEMMA DirectoryStays ==
    ASSUME NEW p \in Proc, Step(p) \/ Crash(p), ~CleanRmtree(p)
    PROVE  dir => dir'
  <1>1. CASE Start(p)
    BY <1>1 DEF Start, StartBegin, StartSkeleton, StartScaffold, StartWorktree, StartMeta,
       StartCreate, StartRun, StartReload, StartCommit, StartFail, UpdateTask, disk, tree, world
  <1>2. CASE Finish(p) \/ Teardown(p)
    BY <1>2 DEF ReadTouches, Finish, FinishBegin, FinishRead, FinishProbe, Teardown, TeardownRead,
       TeardownGet, TeardownStop, TeardownRemove, TeardownVerify, TeardownWorktree,
       TeardownRefuse, TeardownMark, UpdateTask, world, disk, tree
  <1>3. CASE Recover(p)
    BY <1>3 DEF ReadTouches, Recover, RecoverBegin, RecoverRead, RecoverGet, RecoverStop, RecoverRemove,
       RecoverCreate, RecoverRun, RecoverReload, RecoverCommit, RecoverKillStop,
       RecoverKillRemove, UpdateTask, world, disk, tree
  <1>4. CASE List(p)
    BY <1>4 DEF ReadTouches, List, ListBegin, ListSnapshot, ListRead, ListTail, ListCommit, ListAdvance,
       ListReread, UpdateTask, world, disk, tree
  <1>5. CASE Clean(p)
    BY <1>5 DEF Clean, CleanBegin, CleanRead, CleanScan, CleanCheck, CleanRescan,
       CleanRecheck, CleanPrune, world, disk, tree
  <1>6. CASE Crash(p)
    BY <1>6 DEF Crash, world, disk, tree
  <1>. QED
    BY <1>1, <1>2, <1>3, <1>4, <1>5, <1>6 DEF Step

\* At c_rmtree a process has no other step.
LEMMA RemovingStep ==
    ASSUME NEW p \in Proc, Step(p), At(p, "c_rmtree")
    PROVE  CleanRmtree(p)
  <1>. USE DEF At
  <1>1. ~Start(p)
    BY DEF Start, StartBegin, Begin, StartSkeleton, StartScaffold, StartWorktree, StartMeta,
       StartCreate, StartRun, StartReload, StartCommit, StartFail
  <1>2. ~Finish(p) /\ ~Teardown(p)
    BY DEF Finish, FinishBegin, Begin, FinishRead, FinishProbe, Teardown, TeardownRead,
       TeardownGet, TeardownStop, TeardownRemove, TeardownVerify, TeardownWorktree,
       TeardownRefuse, TeardownMark
  <1>3. ~Recover(p)
    BY DEF Recover, RecoverBegin, Begin, RecoverRead, RecoverGet, RecoverStop, RecoverRemove,
       RecoverCreate, RecoverRun, RecoverReload, RecoverCommit, RecoverKillStop,
       RecoverKillRemove
  <1>4. ~List(p)
    BY DEF List, ListBegin, Begin, ListSnapshot, ListRead, ListTail, ListCommit, ListAdvance,
       ListReread
  <1>5. Clean(p) => CleanRmtree(p)
    BY DEF Clean, CleanBegin, Begin, CleanRead, CleanScan, CleanCheck, CleanRescan,
       CleanRecheck, CleanPrune
  <1>. QED
    BY <1>1, <1>2, <1>3, <1>4, <1>5 DEF Step

LEMMA TreeInductive ==
    ASSUME "rmtree" \notin Faults, "crash" \notin Faults, TypeOK, BirthInv,
           TreeInv, WorktreeRecorded, [Next]_vars
    PROVE  TreeInv' /\ WorktreeRecorded'
  <1>1. ASSUME NEW p \in Proc, Start(p)
        PROVE  TreeInv' /\ WorktreeRecorded'
    <2>1. \A q \in Proc \ {p} : pc'[q] = pc[q]
      BY <1>1, StartMoves
    <2>a. wt' => dir'
      <3>1. CASE wt
        <4>1. ~CleanRmtree(p)
          BY <1>1, StartGoes, StartMoves DEF CleanRmtree, At, StartBegin, Begin, StartSteps
        <4>. QED
          BY <1>1, <3>1, <4>1, DirectoryStays DEF TreeInv, Step
      <3>2. CASE ~wt
        <4>1. wt' => At(p, "s_worktree") /\ pc'[p] = "s_meta"
          BY <1>1, <3>2, StartGoes
        <4>2. At(p, "s_worktree") => StartWorktree(p)
          BY <1>1 DEF Start, StartBegin, Begin, StartSkeleton, StartScaffold,
             StartMeta, StartCreate, StartRun, StartReload, StartCommit, StartFail, At
        <4>3. StartWorktree(p) => wt' = wt \/ dir' = TRUE
          BY DEF StartWorktree
        <4>4. dir' = TRUE => dir'
          OBVIOUS
        <4>. QED
          BY <3>2, <4>1, <4>2, <4>3, <4>4
      <3>. QED
        BY <3>1, <3>2
    <2>2. TreeInv'
      <3>1. CASE StartBegin(p)
        <4>1. ~wt /\ wt' = wt
          BY <3>1 DEF StartBegin, BirthInv, Unborn, Bare, disk, tree
        <4>. QED
          BY <2>a, <4>1 DEF TreeInv
      <3>2. CASE ~StartBegin(p)
        <4>1. pc[p] \in StartSteps
          BY <1>1, <3>2, StartMoves
        <4>2. \A q \in Proc \ {p} : pc'[q] \notin {"s_skeleton", "s_scaffold", "s_worktree"}
          BY <2>1, <4>1 DEF BirthInv, StartSteps
        <4>3. pc'[p] \in {"s_skeleton", "s_scaffold", "s_worktree"} =>
                 pc[p] \in {"s_skeleton", "s_scaffold"}
          BY <1>1, <3>2, StartMoves, StartGoes DEF StartSkeleton, StartScaffold, At
        <4>. QED
          BY <1>1, <2>a, <4>2, <4>3, StartGoes DEF TreeInv, At
      <3>. QED
        BY <3>1, <3>2
    <2>3. ASSUME wt'
          PROVE  rec'.worktree \/ \E q \in Proc : pc'[q] = "s_meta"
      <3>1. CASE wt
        <4>1. CASE \E q \in Proc \ {p} : pc[q] = "s_meta"
          BY <2>1, <4>1
        <4>2. CASE At(p, "s_meta")
          BY <1>1, <4>2, StartGoes, StartUpdates
        <4>3. CASE rec.worktree
          <5>1. ~StartScaffold(p)
            BY <3>1 DEF TreeInv, StartScaffold, At
          <5>2. CASE rec' = rec
            BY <4>3, <5>2
          <5>3. CASE StartMeta(p) \/ StartCommit(p) \/ StartFail(p)
            BY <4>3, <5>3, StartUpdates
          <5>. QED
            BY <1>1, <5>1, <5>2, <5>3, StartRecord
        <4>. QED
          BY <3>1, <4>1, <4>2, <4>3 DEF WorktreeRecorded, At
      <3>2. CASE ~wt
        BY <1>1, <2>3, <3>2, StartGoes
      <3>. QED
        BY <3>1, <3>2
    <2>. QED
      BY <2>2, <2>3 DEF WorktreeRecorded, At
  <1>2. ASSUME NEW p \in Proc, Other(p)
        PROVE  TreeInv' /\ WorktreeRecorded'
    <2>1. (\A q \in Proc \ {p} : pc'[q] = pc[q]) /\ pc'[p] \notin StartSteps
      BY <1>2, OtherMoves DEF Moves
    <2>2. (wt' => wt) /\ pc[p] \notin StartSteps
      BY <1>2, OtherWorld DEF Crash
    <2>3. CASE CleanRmtree(p)
      <3>1. ~wt'
        BY <2>3 DEF CleanRmtree, TreeInv
      <3>. QED
        BY <3>1 DEF TreeInv, WorktreeRecorded
    <2>4. CASE ~CleanRmtree(p)
      <3>1. dir => dir'
        BY <1>2, <2>4, DirectoryStays DEF Other
      <3>2. rec'.worktree = rec.worktree
        <4>1. Outcome(p)
          BY <1>2, StepOutcome, SameOutcome DEF Other, Crash, world, disk
        <4>2. ~At(p, "c_rmtree") \/ Crash(p)
          BY <1>2, <2>4, RemovingStep DEF Other
        <4>3. Crash(p) => rec' = rec
          BY DEF Crash, world, disk
        <4>. QED
          BY <4>1, <4>2, <4>3 DEF Outcome, Carries
      <3>. QED
        BY <2>1, <2>2, <3>1, <3>2 DEF TreeInv, WorktreeRecorded, At, StartSteps
    <2>. QED
      BY <2>3, <2>4
  <1>3. CASE Environment \/ UNCHANGED vars
    BY <1>3, EnvironmentBare DEF TreeInv, WorktreeRecorded, At
  <1>. QED
    BY <1>1, <1>2, <1>3 DEF Next, Other

\* lifecycle.py:356-380: while commands run to their end, rmtree included, a
\* worktree on disk is named in task.json, or start is about to name it.
THEOREM WorktreeRecordedHolds ==
    ASSUME "rmtree" \notin Faults, "crash" \notin Faults
    PROVE  Spec => []WorktreeRecorded
  <1>1. Init => TreeInv /\ WorktreeRecorded
    BY DEF Init, TreeInv, WorktreeRecorded
  <1>. QED
    BY <1>1, BirthInit, BirthInductive, NextType, TreeInductive, PTL DEF Spec
----------------------------------------------------------------------------
(* One invocation at a time.                                               *)

OneAtATime == \A p, q \in Proc : p = q

\* Where a command has found, or written, a readable task.json.
FoundSteps == WrittenSteps \cup {"f_probe"} \cup TeardownSteps
              \cup {"l_tail", "l_commit", "l_advance", "l_reread"}

\* The directory is only brought back while task.json can be read.
ReachInv ==
    /\ ctr # NoCtr => Readable \/ ~dir
    /\ \A p \in Proc :
          /\ pc[p] = "f_read" => dir
          /\ pc[p] \in FoundSteps => Readable
          /\ pc[p] \notin RecoverSteps

LEMMA ReachOther ==
    ASSUME "recover" \notin Commands, "rmtree" \notin Faults, TypeOK, ReachInv,
           NEW p \in Proc, Other(p)
    PROVE  /\ dir' => dir \/ Readable
           /\ dir' /\ Readable => Readable'
           /\ pc'[p] = "f_read" => dir'
           /\ pc'[p] \in FoundSteps => Readable /\ ~At(p, "c_rmtree")
           /\ pc'[p] \notin RecoverSteps
  <1>. USE DEF TypeOK, At, Goto, Exit, RecoverSteps, FoundSteps, WrittenSteps, StartSteps,
               TeardownSteps
  <1>1. ~Recover(p)
    BY DEF ReachInv, Recover, RecoverBegin, Begin, RecoverRead, RecoverGet,
       RecoverStop, RecoverRemove, RecoverCreate, RecoverRun, RecoverReload,
       RecoverCommit, RecoverKillStop, RecoverKillRemove
  <1>2. CASE Finish(p)
    BY <1>2 DEF ReachInv, Finish, FinishBegin, Begin, FinishRead, EnterTeardown, FinishProbe,
       ReadTouches, Readable, world, disk
  <1>3. CASE TeardownGet(p) \/ TeardownStop(p) \/ TeardownRemove(p) \/ TeardownVerify(p)
    BY <1>3 DEF ReachInv, TeardownGet, TeardownStop, TeardownRemove, TeardownVerify, Readable,
       world, disk
  <1>4. CASE TeardownRead(p) \/ TeardownWorktree(p)
    BY <1>4 DEF ReachInv, TeardownRead, TeardownWorktree, Readable
  <1>5. CASE TeardownRefuse(p) \/ TeardownMark(p) \/ ListCommit(p) \/ ListAdvance(p)
    <2>1. Readable
      BY <1>5 DEF ReachInv, TeardownRefuse, TeardownMark, ListCommit, ListAdvance
    <2>2. Readable' = Readable
      <3>1. ~At(p, "c_rmtree")
        BY <1>5 DEF TeardownRefuse, TeardownMark, ListCommit, ListAdvance
      <3>. QED
        BY <1>5, <3>1, TeardownOutcome, ListOutcome DEF Teardown, List, Outcome, Carries
    <2>3. pc'[p] \notin RecoverSteps \cup {"f_read"} /\ ~At(p, "c_rmtree")
      BY <1>5 DEF TeardownRefuse, TeardownMark, ListCommit, ListAdvance, Return
    <2>. QED
      BY <2>1, <2>2, <2>3
  <1>6. CASE ListBegin(p) \/ ListSnapshot(p) \/ ListRead(p) \/ ListTail(p) \/ ListReread(p)
    BY <1>6 DEF ReachInv, ListBegin, Begin, ListSnapshot, ListRead, ListTail, ListReread,
       Readable, world, disk
  <1>7. CASE CleanRmtree(p)
    <2>1. ~dir'
      BY <1>7 DEF CleanRmtree
    <2>2. pc'[p] = "c_rescan"
      BY <1>7 DEF CleanRmtree
    <2>. QED
      BY <2>1, <2>2
  <1>8. CASE Clean(p) /\ ~CleanRmtree(p)
    BY <1>8 DEF Clean, CleanBegin, Begin, CleanRead, CleanScan, CleanCheck, CleanRescan,
       CleanRecheck, CleanPrune, Readable, world, disk
  <1>9. CASE Crash(p)
    BY <1>9 DEF Crash, Readable, world, disk
  <1>. QED
    BY <1>1, <1>2, <1>3, <1>4, <1>5, <1>6, <1>7, <1>8, <1>9
    DEF Other, Step, Teardown, List

LEMMA ReachInductive ==
    ASSUME OneAtATime, "recover" \notin Commands, "rmtree" \notin Faults, TypeOK, BirthInv,
           ReachInv, [Next]_vars
    PROVE  ReachInv'
  <1>1. ASSUME NEW p \in Proc, Other(p)
        PROVE  ReachInv'
    <2>1. ctr' # NoCtr => ctr # NoCtr
      BY <1>1, OtherWorld DEF ReachInv, RecoverCreate, At, RecoverSteps
    <2>2. pc'[p] \in FoundSteps => Readable'
      <3>1. Readable /\ ~At(p, "c_rmtree") => Readable'
        <4>1. Outcome(p)
          BY <1>1, StepOutcome, SameOutcome DEF Other, Crash, world, disk
        <4>. QED
          BY <4>1 DEF Outcome, Carries
      <3>. QED
        BY <1>1, <3>1, ReachOther
    <2>. QED
      BY <1>1, <2>1, <2>2, ReachOther DEF ReachInv, OneAtATime
  <1>2. ASSUME NEW p \in Proc, Start(p)
        PROVE  ReachInv'
    <2>1. /\ pc'[p] \in StartSteps \cup {"idle"}
          /\ pc'[p] \in WrittenSteps => pc[p] \in WrittenSteps \/ StartScaffold(p)
      BY <1>2, StartGoes
    <2>2. (Readable => Readable') /\ (StartScaffold(p) => Readable')
      BY <1>2, StartKeepsRecord
    <2>3. pc[p] \in WrittenSteps => Readable
      BY DEF ReachInv, FoundSteps
    <2>4. pc'[p] \in FoundSteps => Readable'
      BY <2>1, <2>2, <2>3 DEF FoundSteps, StartSteps, TeardownSteps
    <2>5. ctr' # NoCtr => Readable'
      <3>1. CASE pc[p] \in WrittenSteps
        BY <2>2, <2>3, <3>1
      <3>2. CASE pc[p] \notin WrittenSteps
        <4>1. StartBegin(p) \/ StartSkeleton(p) \/ StartScaffold(p)
          BY <1>2, <3>2, StartGoes
        <4>2. ctr = NoCtr
          BY <4>1 DEF BirthInv, Unborn, Bare, StartBegin, StartSkeleton, StartScaffold, At
        <4>. QED
          BY <1>2, <3>2, <4>2, StartGoes
      <3>. QED
        BY <3>1, <3>2
    <2>6. pc'[p] \notin RecoverSteps \cup {"f_read"}
      BY <2>1 DEF RecoverSteps, StartSteps
    <2>. QED
      BY <2>4, <2>5, <2>6 DEF ReachInv, OneAtATime
  <1>3. CASE Environment \/ UNCHANGED vars
    BY <1>3, EnvironmentBare DEF ReachInv, Readable
  <1>. QED
    BY <1>1, <1>2, <1>3 DEF Next, Other

\* Whatever sequence of start, list, reap, finish and clean is run, one at a
\* time, however each of them fails or dies: a container that is left belongs
\* to a readable task.json, which finish works from, or has no directory,
\* which makes it an orphan that clean removes.
THEOREM ContainerReachableHolds ==
    ASSUME OneAtATime, "recover" \notin Commands, "rmtree" \notin Faults
    PROVE  Spec => []ContainerReachable
  <1>1. Init => ReachInv
    BY DEF Init, ReachInv, FoundSteps, WrittenSteps, StartSteps, TeardownSteps, RecoverSteps
  <1>2. ReachInv => ContainerReachable
    BY DEF ReachInv, ContainerReachable
  <1>. QED
    BY <1>1, <1>2, BirthInit, BirthInductive, NextType, ReachInductive, PTL DEF Spec
----------------------------------------------------------------------------
(* ... keeps the task on its lifecycle from the allocation of its id on.   *)

\* A start that has written task.json finds it as it left it.
CreatedInv ==
    /\ StatusInv /\ DoomedInv
    /\ \A p \in Proc : pc[p] \in WrittenSteps => Readable /\ rec.status = "created"

\* While start has yet to write task.json, the lifecycle has not begun.
LEMMA UnbornPhase == BirthInv /\ Unborn => Phase = "none" /\ rec.recoveries = 0
  <1>. SUFFICES ASSUME BirthInv, Unborn PROVE Phase = "none" /\ rec.recoveries = 0
    OBVIOUS
  <1>1. rec = NoRec
    BY DEF BirthInv, Bare
  <1>2. NoRec.file # "valid" /\ NoRec.recoveries = 0
    BY DEF NoRec
  <1>. QED
    BY <1>1, <1>2 DEF Phase, Readable

LEMMA UnbornPhasePrimed ==
    ASSUME BirthInv', Unborn'
    PROVE  Phase' = "none" /\ rec'.recoveries = 0
  <1>1. rec' = NoRec
    BY DEF BirthInv, Bare
  <1>2. NoRec.file # "valid" /\ NoRec.recoveries = 0
    BY DEF NoRec
  <1>. QED
    BY <1>1, <1>2 DEF Phase, Readable

\* Another command, or the death of a start.
LEMMA CreatedOther ==
    ASSUME OneAtATime, TypeOK, TypeOK', BirthInv, CreatedInv, NEW p \in Proc, Other(p)
    PROVE  CreatedInv' /\ [Lifecycle!Next]_<<Phase, rec.recoveries>>
  <1>1. Moves(p) /\ allocated' = allocated
    BY OtherMoves
  <1>2. \/ Quiet \/ Reconciles \/ Settles \/ Recovers
        \/ Removes /\ (Readable => rec.status \in Terminal)
    <2>1. CASE Crash(p)
      BY <2>1, UnchangedQuiet DEF Crash, world, disk
    <2>2. CASE ~Crash(p)
      BY <2>2, OtherStep DEF Other, CreatedInv
    <2>. QED
      BY <2>1, <2>2
  <1>3. StatusInv' /\ DoomedInv'
    BY <1>1, <1>2, EffectKeeps DEF CreatedInv
  <1>4. CreatedInv'
    BY <1>1, <1>3 DEF CreatedInv, Moves, OneAtATime, WrittenSteps
  <1>5. CASE ~Unborn
    <2>1. ~Unborn'
      BY <1>1, <1>5 DEF Unborn, Moves, StartSteps
    <2>. QED
      BY <1>2, <1>3, <1>4, <1>5, <2>1, PhaseOf, PhaseOfPrimed, EffectRefines DEF CreatedInv
  <1>6. CASE Unborn
    <2>1. rec' = rec /\ Bare /\ Bare'
      BY <1>6, EarlyStep DEF BirthInv
    <2>2. Phase = "none"
      BY <1>6, UnbornPhase
    <2>3. Phase' \in {"none", "removed"}
      <3>1. NoRec.file # "valid"
        BY DEF NoRec
      <3>. QED
        BY <2>1, <3>1 DEF Phase, Readable, Bare
    <2>. QED
      BY <1>4, <2>1, <2>2, <2>3 DEF Lifecycle!Next, Lifecycle!Abandon
  <1>. QED
    BY <1>5, <1>6

LEMMA CreatedStart ==
    ASSUME OneAtATime, TypeOK, TypeOK', BirthInv, BirthInv', CreatedInv, NEW p \in Proc,
           Start(p)
    PROVE  CreatedInv' /\ [Lifecycle!Next]_<<Phase, rec.recoveries>>
  <1>1. ~loc'[p].doomed /\ pc'[p] \in StartSteps \cup {"idle"}
    BY StartMoves, StartGoes DEF BirthInv, Unborn, StartBegin
  <1>2. DoomedInv'
    BY <1>1 DEF DoomedInv, OneAtATime, StartSteps
  <1>3. CASE StartBegin(p) \/ StartSkeleton(p)
    <2>1. rec' = rec /\ Unborn /\ pc'[p] \in {"s_skeleton", "s_scaffold"}
      BY <1>3 DEF StartBegin, StartSkeleton, Begin, Goto, TypeOK, disk, Unborn, At
    <2>2. Unborn'
      BY <2>1 DEF Unborn
    <2>3. Phase = "none" /\ Phase' = "none"
      BY <2>1, <2>2, UnbornPhase, UnbornPhasePrimed
    <2>4. CreatedInv'
      BY <1>2, <2>1 DEF CreatedInv, StatusInv, Readable, OneAtATime, WrittenSteps
    <2>. QED
      BY <2>1, <2>3, <2>4
  <1>4. CASE StartScaffold(p)
    <2>1. rec' = loc[p].snap /\ pc[p] = "s_scaffold"
      BY <1>4 DEF StartScaffold, At
    <2>2. Draft(rec')
      BY <2>1 DEF BirthInv
    <2>3. Phase = "none" /\ rec.recoveries = 0
      BY <2>1, UnbornPhase DEF Unborn
    <2>4. Readable' /\ rec'.status = "created" /\ rec'.recoveries = 0
      BY <2>2 DEF Draft, Readable
    <2>5. StatusInv'
      BY <2>4 DEF StatusInv, Readable, Statuses
    <2>6. Phase' = "created"
      BY <2>4, <2>5, PhaseOfPrimed DEF PhaseShown
    <2>. QED
      BY <1>2, <2>3, <2>4, <2>5, <2>6
      DEF CreatedInv, Readable, Lifecycle!Next, Lifecycle!Scaffold
  <1>5. CASE ~(StartBegin(p) \/ StartSkeleton(p) \/ StartScaffold(p))
    <2>1. pc[p] \in WrittenSteps /\ Readable /\ rec.status = "created" /\ Phase = "created"
      BY <1>5, StartGoes, PhaseOf DEF CreatedInv, PhaseShown
    <2>2. CASE rec' = rec
      <3>1. CreatedInv'
        BY <1>2, <2>1, <2>2 DEF CreatedInv, StatusInv, Readable
      <3>2. Phase' = "created"
        BY <2>1, <2>2, <3>1, PhaseOfPrimed DEF PhaseShown, CreatedInv, Readable
      <3>. QED
        BY <2>1, <2>2, <3>1, <3>2
    <2>3. CASE StartMeta(p) \/ StartCommit(p) \/ StartFail(p)
      <3>1. /\ Readable' /\ rec'.recoveries = rec.recoveries
            /\ \/ StartMeta(p) /\ rec'.status = "created"
               \/ StartCommit(p) /\ rec'.status = "running"
               \/ StartFail(p) /\ rec'.status = "failed"
        BY <2>1, <2>3, StartUpdates
      <3>2. StatusInv'
        BY <3>1 DEF StatusInv, Readable, Statuses, Terminal
      <3>3. /\ rec'.status = "created" => Phase' = "created"
            /\ rec'.status = "running" => Phase' = "active"
            /\ rec'.status = "failed" => Phase' = "settled"
        BY <3>1, <3>2, PhaseOfPrimed DEF PhaseShown, Terminal
      <3>4. rec'.status = "created" \/ pc'[p] = "idle"
        BY <3>1 DEF StartCommit, StartFail, Exit, Goto, TypeOK
      <3>5. CreatedInv'
        BY <1>2, <3>1, <3>2, <3>4
        DEF CreatedInv, Readable, OneAtATime, WrittenSteps, StartSteps
      <3>. QED
        BY <2>1, <3>1, <3>3, <3>5
        DEF Lifecycle!Next, Lifecycle!Activate, Lifecycle!Settle
    <2>. QED
      BY <1>5, <2>2, <2>3, StartRecord
  <1>. QED
    BY <1>3, <1>4, <1>5

LEMMA CreatedInductive ==
    ASSUME OneAtATime, TypeOK, BirthInv, CreatedInv, [Next]_vars
    PROVE  CreatedInv' /\ [Lifecycle!Next]_<<Phase, rec.recoveries>>
  <1>1. TypeOK' /\ BirthInv'
    BY NextType, BirthInductive
  <1>2. CASE Environment \/ UNCHANGED vars
    <2>1. rec' = rec /\ allocated' = allocated /\ pc' = pc /\ loc' = loc
      BY <1>2, EnvironmentBare
    <2>. QED
      BY <2>1 DEF CreatedInv, StatusInv, DoomedInv, Readable, Phase, Unborn
  <1>. QED
    BY <1>1, <1>2, CreatedStart, CreatedOther DEF Next, Other

\* Invocations that follow one another, start included, keep the task to its
\* lifecycle wherever each of them fails or dies: TaskLifecycle is implemented
\* from the allocation of the id on.
THEOREM LifecycleFromStartHolds ==
    ASSUME OneAtATime
    PROVE  Spec => FollowsLifecycleFromStart
  <1>1. Init => CreatedInv /\ Lifecycle!Init
    <2>. SUFFICES ASSUME Init PROVE CreatedInv /\ Lifecycle!Init
      OBVIOUS
    <2>1. ~Readable /\ rec.status = "" /\ rec.recoveries = 0
      BY DEF Init, NoRec, Readable
    <2>2. \A p \in Proc : pc[p] = "idle" /\ ~loc[p].doomed
      BY DEF Init, IdleLoc
    <2>3. CreatedInv
      BY <2>1, <2>2 DEF CreatedInv, StatusInv, DoomedInv, WrittenSteps, StartSteps
    <2>4. Unborn
      BY DEF Init, Unborn
    <2>. QED
      BY <2>3, <2>4, BirthInit, UnbornPhase DEF Lifecycle!Init
  <1>. QED
    BY <1>1, BirthInit, BirthInductive, NextType, CreatedInductive, PTL
    DEF Spec, FollowsLifecycleFromStart, Lifecycle!Spec
==============================================================================
