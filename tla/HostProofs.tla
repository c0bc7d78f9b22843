------------------------------ MODULE HostProofs ------------------------------
(***************************************************************************)
(* Theorems about the commands on one data root: for any number of         *)
(* invocations and tasks, any limit, and any subset of tasks on which      *)
(* Docker or rmtree fails.                                                 *)
(***************************************************************************)
EXTENDS Host, FiniteSetTheorems, TLAPS

\* Control points at which the invocation has a task of its own.
StartPoints == {"s_run", "s_commit"}
OwnPoints == StartPoints \cup {"r_recover", "f_teardown"}

\* What an invocation knows.  Its own task is one, and a start's has been made;
\* what it found in a listing has been started, and what clean is about to
\* prune was cleaned; the tasks a pass has yet to visit were present.
LocalInv(p) ==
    /\ pc[p] \in OwnPoints => loc[p].task \in Task
    /\ pc[p] \in StartPoints => rec[loc[p].task] # "none"
    /\ \A t \in loc[p].snap : rec[t] # "none"
    /\ pc[p] = "c_prune" => \A t \in loc[p].snap : rec[t] = "removed"
    /\ pc[p] = "l_row" => \A t \in loc[p].left : loc[p].seen[t] \notin {"none", "removed"}

\* A task in the middle of its life has a directory, and only a task that was
\* started has a container.
TaskInv ==
    /\ Present \subseteq dir
    /\ \A t \in ctr : rec[t] # "none"

HostInv == TypeOK /\ TaskInv /\ \A p \in Proc : LocalInv(p)

\* No task goes back to never started, and a cleaned one stays cleaned.
Keeps ==
    \A t \in Task : /\ rec[t] # "none" => rec'[t] # "none"
                    /\ rec[t] = "removed" => rec'[t] = "removed"

OnlyMoves(p) ==
    \A q \in Proc \ {p} : pc'[q] = pc[q] /\ loc'[q] = loc[q]
----------------------------------------------------------------------------
\* A finished pass leaves nothing of its locals behind.
LEMMA IdleOK ==
    /\ IdleLoc \in Locals /\ IdleLoc.snap = {}
BY DEF IdleLoc, Locals, Phases

LEMMA InitInv == Init => HostInv
BY IdleOK DEF Init, HostInv, TypeOK, TaskInv, LocalInv, Phases, Points, Present, OwnPoints,
    StartPoints, DockerStates

\* What a step of one invocation has to show; the others' knowledge is stable.
LEMMA StepFrame ==
    ASSUME HostInv, NEW p \in Proc, TypeOK', TaskInv', LocalInv(p)', Keeps, OnlyMoves(p)
    PROVE  HostInv'
<1> SUFFICES ASSUME NEW q \in Proc \ {p} PROVE LocalInv(q)'
    BY DEF HostInv
<1>1. LocalInv(q) /\ pc'[q] = pc[q] /\ loc'[q] = loc[q] /\ loc[q] \in Locals
    BY DEF HostInv, OnlyMoves, TypeOK
<1>2. loc[q].snap \subseteq Task
    BY <1>1 DEF Locals
<1> QED BY <1>1, <1>2 DEF LocalInv, Keeps, OwnPoints, StartPoints

\* An invocation that ends knows nothing.
LEMMA ExitFrame ==
    ASSUME HostInv, NEW p \in Proc, Exit(p)
    PROVE  /\ pc' \in [Proc -> Points] /\ loc' \in [Proc -> Locals]
           /\ OnlyMoves(p) /\ LocalInv(p)'
BY IdleOK DEF Exit, Goto, HostInv, TypeOK, OnlyMoves, LocalInv, Points, OwnPoints, StartPoints

\* A pass that goes on to its next row.
LEMMA RowFrame ==
    ASSUME HostInv, NEW p \in Proc, NEW t \in loc[p].left, At(p, "l_row"), NextRow(p, t), Keeps
    PROVE  /\ pc' \in [Proc -> Points] /\ loc' \in [Proc -> Locals]
           /\ OnlyMoves(p) /\ LocalInv(p)'
<1>1. CASE Exit(p)
    BY <1>1, ExitFrame
<1>2. CASE /\ Goto(p, "l_row")
           /\ loc' = [loc EXCEPT ![p] = Visited(@, t)]
  <2> DEFINE old == loc[p]
             new == Visited(old, t)
  <2>1. old \in Locals /\ loc \in [Proc -> Locals] /\ pc \in [Proc -> Points]
      BY DEF HostInv, TypeOK
  <2>2. new \in Locals
      BY <2>1 DEF Locals, Phases, Visited
  <2>3. loc' = [loc EXCEPT ![p] = new]
      BY <1>2
  <2>4. loc'[p] = new /\ pc'[p] = "l_row"
      BY <1>2, <2>1, <2>3 DEF Goto
  <2>5. \A u \in new.left : new.seen[u] = old.seen[u]
      BY <2>1 DEF Locals, Visited
  <2>6. LocalInv(p)'
      <3>1. LocalInv(p) /\ pc[p] = "l_row"
          BY DEF HostInv, At
      <3>2. new.snap = old.snap /\ new.left \subseteq old.left /\ old.snap \subseteq Task
          BY <2>1 DEF Locals, Visited
      <3> HIDE DEF new
      <3> QED BY <2>4, <2>5, <3>1, <3>2 DEF LocalInv, Keeps, OwnPoints, StartPoints
  <2> QED BY <1>2, <2>1, <2>2, <2>3, <2>6 DEF OnlyMoves, Goto, Points
<1> QED BY <1>1, <1>2 DEF NextRow
----------------------------------------------------------------------------
(* One lemma per command, one step per action.                             *)

LEMMA BeginStep ==
    ASSUME HostInv, NEW p \in Proc, NEW cmd \in Commands, NEW t \in Task, Begin(p, cmd, t)
    PROVE  HostInv'
<1> DEFINE new == [IdleLoc EXCEPT !.cmd = cmd, !.task = t, !.client = (docker = "up")]
<1>1. new \in Locals /\ new.task = t /\ new.snap = {} /\ new.left = {}
    BY DEF HostInv, TypeOK, IdleLoc, Locals, Phases
<1>2. First(cmd) \in Points \ (StartPoints \cup {"l_row", "c_prune"})
    BY DEF First, Commands, Cleans, Points, StartPoints
<1>3. loc' = [loc EXCEPT ![p] = new] /\ pc' = [pc EXCEPT ![p] = First(cmd)] /\ UNCHANGED world
    BY DEF Begin, Goto
<1> HIDE DEF new
<1>4. TypeOK' /\ TaskInv' /\ Keeps /\ OnlyMoves(p)
    BY <1>1, <1>2, <1>3 DEF HostInv, TypeOK, TaskInv, Present, Keeps, OnlyMoves, world
<1>5. LocalInv(p)'
    BY <1>1, <1>2, <1>3 DEF HostInv, TypeOK, LocalInv
<1> QED BY <1>4, <1>5, StepFrame

LEMMA StartStep ==
    ASSUME HostInv, NEW p \in Proc, Start(p)
    PROVE  HostInv'
<1> USE DEF HostInv, TypeOK, TaskInv, Present, Keeps, OnlyMoves, Phases
<1>1. CASE StartMake(p)
  <2>1. CASE Exit(p) /\ UNCHANGED world
      BY <2>1, ExitFrame, StepFrame DEF world
  <2>2. ASSUME NEW t \in Task, rec[t] = "none", UNCHANGED <<docker, ctr, events>>,
               rec' = [rec EXCEPT ![t] = "created"], dir' = dir \cup {t},
               loc' = [loc EXCEPT ![p].task = t], Goto(p, "s_run")
        PROVE  HostInv'
    <3>1. loc'[p] = [loc[p] EXCEPT !.task = t] /\ loc'[p] \in Locals /\ pc'[p] = "s_run"
        BY <2>2 DEF Locals, Goto
    <3>2. TypeOK' /\ TaskInv' /\ Keeps /\ OnlyMoves(p)
        BY <2>2, <3>1 DEF Goto, Points
    <3>3. loc'[p].task = t /\ loc'[p].snap = loc[p].snap /\ loc[p].snap \subseteq Task
        BY <3>1 DEF Locals
    <3>4. LocalInv(p)'
        BY <2>2, <3>1, <3>2, <3>3 DEF LocalInv, OwnPoints, StartPoints
    <3> QED BY <3>2, <3>4, StepFrame
  <2> QED BY <1>1, <2>1, <2>2 DEF StartMake, Foremost, world
<1>2. CASE StartRun(p)
  <2>1. loc[p].task \in Task /\ rec[loc[p].task] # "none"
      BY <1>2 DEF StartRun, At, LocalInv, OwnPoints, StartPoints
  <2>2. TypeOK' /\ TaskInv' /\ Keeps
    <3>1. CASE UNCHANGED <<rec, dir>>
        BY <1>2, <2>1, <3>1, ExitFrame DEF StartRun, Goto, Points
    <3>2. CASE Update(loc[p].task, "settled") /\ Exit(p)
        BY <1>2, <2>1, <3>2, ExitFrame DEF StartRun, Update
    <3> QED BY <1>2, <3>1, <3>2 DEF StartRun
  <2>3. OnlyMoves(p) /\ LocalInv(p)'
    <3>1. CASE Exit(p)
        BY <3>1, ExitFrame
    <3>2. CASE Goto(p, "s_commit") /\ UNCHANGED <<rec, loc>>
        BY <1>2, <3>2 DEF StartRun, Goto, At, LocalInv, OwnPoints, StartPoints
    <3> QED BY <1>2, <3>1, <3>2 DEF StartRun
  <2> QED BY <2>2, <2>3, StepFrame
<1>3. CASE StartCommit(p)
  <2>1. loc[p].task \in Task /\ rec[loc[p].task] # "none"
      BY <1>3 DEF StartCommit, At, LocalInv, OwnPoints, StartPoints
  <2>2. TypeOK' /\ TaskInv' /\ Keeps
      BY <1>3, <2>1, ExitFrame DEF StartCommit, Update
  <2> QED BY <1>3, <2>2, ExitFrame, StepFrame DEF StartCommit
<1> QED BY <1>1, <1>2, <1>3 DEF Start

LEMMA OwnStep ==
    ASSUME HostInv, NEW p \in Proc, RecoverTask(p) \/ FinishTeardown(p)
    PROVE  HostInv'
<1> USE DEF HostInv, TypeOK, TaskInv, Present, Keeps, Phases
<1>1. loc[p].task \in Task /\ Exit(p)
    BY DEF RecoverTask, FinishTeardown, At, LocalInv, OwnPoints
<1>2. CASE RecoverTask(p)
  <2>1. TypeOK' /\ TaskInv' /\ Keeps
      BY <1>1, <1>2, ExitFrame DEF RecoverTask
  <2> QED BY <1>1, <2>1, ExitFrame, StepFrame
<1>3. CASE FinishTeardown(p)
  <2>1. TypeOK' /\ TaskInv' /\ Keeps
      BY <1>1, <1>3, ExitFrame DEF FinishTeardown, Teardown, TeardownDies
  <2> QED BY <1>1, <2>1, ExitFrame, StepFrame
<1> QED BY <1>2, <1>3

LEMMA ReapStep ==
    ASSUME HostInv, NEW p \in Proc, ReapRead(p) \/ ReapRow(p)
    PROVE  HostInv'
<1> USE DEF HostInv, TypeOK, TaskInv, Present, Keeps, Phases
<1>1. CASE Exit(p) /\ UNCHANGED world
    BY <1>1, ExitFrame, StepFrame DEF world
<1>2. CASE /\ loc' = [loc EXCEPT ![p] = [@ EXCEPT !.snap = ctr, !.left = Present, !.seen = rec]]
           /\ Goto(p, "l_row") /\ UNCHANGED world
  <2> DEFINE new == [loc[p] EXCEPT !.snap = ctr, !.left = Present, !.seen = rec]
  <2>1. /\ new \in Locals
        /\ new.snap = ctr /\ new.left = Present /\ new.seen = rec
      BY DEF Locals
  <2>2. loc' = [loc EXCEPT ![p] = new]
      BY <1>2
  <2> HIDE DEF new
  <2>3. LocalInv(p)'
      BY <1>2, <2>1, <2>2 DEF LocalInv, Goto, world, OwnPoints, StartPoints
  <2>4. TypeOK' /\ TaskInv' /\ Keeps /\ OnlyMoves(p)
      BY <1>2, <2>1, <2>2 DEF Goto, world, Points, OnlyMoves
  <2> QED BY <2>3, <2>4, StepFrame
<1>3. ASSUME NEW t \in loc[p].left, At(p, "l_row"), UNCHANGED docker,
             RowStale(p, t) \/ RowReconciled(p, t) \/ RowReaped(p, t) \/ RowDies(p, t)
      PROVE  HostInv'
  <2>1. t \in Task
      BY DEF Locals
  <2>2. loc[p].seen[t] \notin {"none", "removed"}
      BY <1>3 DEF LocalInv, At
  <2>3. Keeps
      BY <1>3, <2>1, <2>2 DEF RowStale, RowReconciled, Reconciled, RowReaped, Teardown,
          RowDies, TeardownDies
  <2>4. /\ rec' \in [Task -> Phases]
        /\ dir' \subseteq Task /\ ctr' \subseteq Task /\ events' \subseteq Task
      BY <1>3, <2>1 DEF RowStale, RowReconciled, Reconciled, RowReaped, Teardown,
          RowDies, TeardownDies
  <2>5. TaskInv'
      BY <1>3, <2>1, <2>2, <2>3 DEF RowStale, RowReconciled, Reconciled, RowReaped, Teardown,
          RowDies, TeardownDies
  <2>6. CASE NextRow(p, t)
      BY <1>3, <2>1, <2>3, <2>4, <2>5, <2>6, RowFrame, StepFrame
  <2>7. CASE Exit(p)
      BY <1>3, <2>3, <2>4, <2>5, <2>7, ExitFrame, StepFrame
  <2> QED BY <1>3, <2>6, <2>7 DEF RowStale, RowReconciled, RowReaped, RowDies
<1> QED BY <1>1, <1>2, <1>3 DEF ReapRead, ReapRow, Foremost, world

LEMMA CleanStep ==
    ASSUME HostInv, NEW p \in Proc, Clean(p)
    PROVE  HostInv'
<1> USE DEF HostInv, TypeOK, TaskInv, Present, Keeps, Phases
<1>1. CASE Exit(p) /\ UNCHANGED world
    BY <1>1, ExitFrame, StepFrame DEF world
\* The steps that change one of the two sets of tasks in the locals.
<1>2. ASSUME NEW to \in {"c_remove", "c_list"}, NEW left \in SUBSET Task,
             loc' = [loc EXCEPT ![p].left = left], pc' = [pc EXCEPT ![p] = to], Keeps
      PROVE  /\ pc' \in [Proc -> Points] /\ loc' \in [Proc -> Locals]
             /\ OnlyMoves(p) /\ LocalInv(p)'
  <2>1. loc'[p] = [loc[p] EXCEPT !.left = left] /\ loc'[p] \in Locals /\ pc'[p] = to
      BY <1>2 DEF Locals
  <2>2. loc'[p].snap = loc[p].snap /\ loc[p].snap \subseteq Task
      BY <2>1 DEF Locals
  <2>3. LocalInv(p)'
      BY <1>2, <2>1, <2>2 DEF LocalInv, OwnPoints, StartPoints
  <2> QED BY <1>2, <2>1, <2>3 DEF OnlyMoves, Points
<1>3. ASSUME NEW to \in {"c_check", "c_prune"}, NEW snap \in SUBSET Task,
             loc' = [loc EXCEPT ![p].snap = snap], pc' = [pc EXCEPT ![p] = to],
             \A t \in snap : rec'[t] # "none",
             to = "c_prune" => \A t \in snap : rec'[t] = "removed"
      PROVE  /\ pc' \in [Proc -> Points] /\ loc' \in [Proc -> Locals]
             /\ OnlyMoves(p) /\ LocalInv(p)'
  <2>1. loc'[p] = [loc[p] EXCEPT !.snap = snap] /\ loc'[p] \in Locals /\ pc'[p] = to
      BY <1>3 DEF Locals
  <2>2. loc'[p].snap = snap
      BY <2>1 DEF Locals
  <2>3. LocalInv(p)'
      BY <1>3, <2>1, <2>2 DEF LocalInv, OwnPoints, StartPoints
  <2> QED BY <1>3, <2>1, <2>3 DEF OnlyMoves, Points
<1>4. CASE CleanRead(p)
  <2> SUFFICES ASSUME NEW old \in SUBSET Settled, UNCHANGED world, Goto(p, "c_remove"),
                      loc' = [loc EXCEPT ![p] = [@ EXCEPT !.left = old, !.cmd = "clean"]]
               PROVE  HostInv'
      BY <1>1, <1>4 DEF CleanRead
  <2> DEFINE new == [loc[p] EXCEPT !.left = old, !.cmd = "clean"]
  <2>1. new \in Locals /\ new.snap = loc[p].snap /\ loc[p].snap \subseteq Task
      BY DEF Locals, Settled, Commands, Cleans
  <2>2. loc' = [loc EXCEPT ![p] = new]
      OBVIOUS
  <2> HIDE DEF new
  <2>3. LocalInv(p)'
      BY <2>1, <2>2 DEF LocalInv, Goto, world, OwnPoints, StartPoints
  <2>4. TypeOK' /\ TaskInv' /\ Keeps /\ OnlyMoves(p)
      BY <2>1, <2>2 DEF Goto, world, Points, OnlyMoves
  <2> QED BY <2>3, <2>4, StepFrame
<1>5. CASE CleanRemove(p)
  <2>1. CASE loc[p].left = {} /\ Goto(p, "c_list") /\ UNCHANGED <<world, loc>>
    <3>1. OnlyMoves(p) /\ LocalInv(p)' /\ TypeOK' /\ TaskInv' /\ Keeps
        BY <2>1 DEF Goto, OnlyMoves, LocalInv, OwnPoints, StartPoints, Points, world
    <3> QED BY <3>1, StepFrame
  <2>2. ASSUME NEW t \in loc[p].left, UNCHANGED <<docker, ctr, pc>>, At(p, "c_remove"),
               loc' = [loc EXCEPT ![p].left = @ \ {t}],
               \/ dir' = dir \ {t} /\ Gone(t)
               \/ UNCHANGED dir /\ (Gone(t) \/ UNCHANGED <<rec, events>>)
        PROVE  HostInv'
    <3>1. t \in Task /\ loc[p].left \ {t} \in SUBSET Task
        BY <2>2 DEF Locals
    <3>2. /\ TaskInv' /\ Keeps /\ rec' \in [Task -> Phases]
          /\ dir' \subseteq Task /\ events' \subseteq Task
        BY <2>2, <3>1 DEF Gone
    <3>3. loc' = [loc EXCEPT ![p].left = loc[p].left \ {t}] /\ pc' = [pc EXCEPT ![p] = "c_remove"]
        BY <2>2 DEF At
    <3> QED BY <1>2, <2>2, <3>1, <3>2, <3>3, StepFrame
  <2> QED BY <1>5, <2>1, <2>2 DEF CleanRemove, Foremost, world
<1>6. CASE CleanList(p)
  <2> SUFFICES ASSUME UNCHANGED world, Goto(p, "c_check"),
                      loc' = [loc EXCEPT ![p] = [@ EXCEPT !.snap = Listed(p), !.client = TRUE]]
               PROVE  HostInv'
      BY <1>1, <1>6 DEF CleanList
  <2> DEFINE new == [loc[p] EXCEPT !.snap = Listed(p), !.client = TRUE]
  <2>1. Listed(p) \in SUBSET Task /\ \A t \in Listed(p) : rec[t] # "none"
      BY DEF Listed
  <2>2. new \in Locals /\ new.snap = Listed(p)
      BY <2>1 DEF Locals
  <2>3. loc' = [loc EXCEPT ![p] = new]
      OBVIOUS
  <2> HIDE DEF new
  <2>4. LocalInv(p)'
      BY <2>1, <2>2, <2>3 DEF LocalInv, Goto, world, OwnPoints, StartPoints
  <2>5. TypeOK' /\ TaskInv' /\ Keeps /\ OnlyMoves(p)
      BY <2>2, <2>3 DEF Goto, world, Points, OnlyMoves
  <2> QED BY <2>4, <2>5, StepFrame
<1>7. CASE CleanCheck(p)
  <2> DEFINE snap == loc[p].snap \ dir
  <2>1. snap \in SUBSET Task /\ \A t \in snap : rec[t] = "removed"
      BY DEF Locals, LocalInv
  <2>2. /\ loc' = [loc EXCEPT ![p].snap = snap] /\ pc' = [pc EXCEPT ![p] = "c_prune"]
        /\ UNCHANGED world
      BY <1>7 DEF CleanCheck, Goto
  <2> HIDE DEF snap
  <2> QED BY <1>3, <2>1, <2>2, StepFrame DEF world
<1>8. CASE CleanPrune(p)
  <2>1. CASE Exit(p) /\ UNCHANGED world
      BY <1>1, <2>1
  <2>2. ASSUME NEW t \in loc[p].snap, UNCHANGED <<docker, rec, dir, events, pc>>,
               At(p, "c_prune"), ctr' \in {ctr, ctr \ {t}},
               loc' = [loc EXCEPT ![p].snap = @ \ {t}]
        PROVE  HostInv'
    <3>1. loc[p].snap \ {t} \in SUBSET Task /\ \A u \in loc[p].snap \ {t} : rec[u] = "removed"
        BY <2>2 DEF Locals, LocalInv, At
    <3>2. /\ loc' = [loc EXCEPT ![p].snap = loc[p].snap \ {t}]
          /\ pc' = [pc EXCEPT ![p] = "c_prune"]
        BY <2>2 DEF At
    <3>3. TaskInv' /\ Keeps /\ ctr' \subseteq Task
        BY <2>2
    <3> QED BY <1>3, <2>2, <3>1, <3>2, <3>3, StepFrame
  <2> QED BY <1>8, <2>1, <2>2 DEF CleanPrune, Foremost, world
<1> QED BY <1>4, <1>5, <1>6, <1>7, <1>8 DEF Clean

LEMMA NextInv == HostInv /\ [Next]_vars => HostInv'
<1> SUFFICES ASSUME HostInv, [Next]_vars PROVE HostInv'
    OBVIOUS
<1>1. CASE DockerChanges \/ PiSettles \/ UNCHANGED vars
    BY <1>1 DEF DockerChanges, PiSettles, vars, world, HostInv, TypeOK, TaskInv, LocalInv, Present
<1>2. ASSUME NEW p \in Proc, Step(p) PROVE HostInv'
    BY <1>2, StartStep, OwnStep, ReapStep, CleanStep DEF Step
<1> QED BY <1>1, <1>2, BeginStep DEF Next

\* Every reachable state is well typed and has the invariant.
THEOREM InvHolds == Spec => []HostInv
BY InitInv, NextInv, PTL DEF Spec

\* clean force-removes only containers of tasks that were cleaned: the order of
\* listing and directory check in _enumerate_orphans is safe against start.
THEOREM PruneHolds == Spec => []PruneOnlyCleaned
<1>1. HostInv => PruneOnlyCleaned
    BY DEF HostInv, LocalInv, PruneOnlyCleaned, At
<1> QED BY <1>1, InvHolds, PTL
----------------------------------------------------------------------------
(* The disk threshold.                                                     *)

\* Starts past the disk check whose task is not there yet.
Passed == {p \in Proc : pc[p] = "s_make"}

\* Each start that has passed the check brings at most one task.
LimitInv ==
    100 * (Cardinality(Present) + Cardinality(Passed)) <= 95 * MaxData + 100 * Cardinality(Proc)

LEMMA Finite ==
    /\ IsFiniteSet(Task)
    /\ \A s \in SUBSET Task : IsFiniteSet(s) /\ Cardinality(s) \in Nat
    /\ \A s \in SUBSET Proc : IsFiniteSet(s) /\ Cardinality(s) \in Nat
                              /\ Cardinality(s) <= Cardinality(Proc)
<1>1. IsFiniteSet(Task)
    BY HostAssumption, FS_Interval DEF Task
<1> QED BY <1>1, HostAssumption, FS_Subset, FS_CardinalityType

LEMMA LimitInit == Init => LimitInv
<1> SUFFICES ASSUME Init PROVE LimitInv
    OBVIOUS
<1>1. Present = {} /\ Passed = {}
    BY DEF Init, Present, Passed
<1> QED BY <1>1, Finite, FS_EmptySet, HostAssumption DEF LimitInv

\* A step that adds neither a task nor a start past the check.
LEMMA Shrinks ==
    ASSUME LimitInv, Present' \subseteq Present, Passed' \subseteq Passed
    PROVE  LimitInv'
<1>1. Present \subseteq Task /\ Passed \subseteq Proc
    BY DEF Present, Passed
<1>2. Cardinality(Present') <= Cardinality(Present) /\ Cardinality(Passed') <= Cardinality(Passed)
    BY <1>1, Finite, FS_Subset
<1>3. Cardinality(Present) \in Nat /\ Cardinality(Present') \in Nat
    BY <1>1, Finite
<1>4. Cardinality(Passed) \in Nat /\ Cardinality(Passed') \in Nat /\ Cardinality(Proc) \in Nat
    BY <1>1, Finite
<1> QED BY <1>2, <1>3, <1>4, HostAssumption DEF LimitInv

\* The check itself.
LEMMA LimitBegin ==
    ASSUME HostInv, LimitInv, NEW p \in Proc, NEW cmd \in Commands, NEW t \in Task,
           Begin(p, cmd, t)
    PROVE  LimitInv'
<1>1. Present' = Present
    BY DEF Begin, world, Present
<1>2. CASE cmd = "start"
  <2>1. Present \in SUBSET Task /\ Passed' \in SUBSET Proc
      BY DEF Present, Passed
  <2>2. ~(100 * Cardinality(Present) > 95 * MaxData)
      BY <1>2, <2>1 DEF Begin, Admitted, Gated, Full, TooMuch
  <2>3. /\ Cardinality(Present) \in Nat /\ Cardinality(Passed') \in Nat
        /\ Cardinality(Proc) \in Nat /\ Cardinality(Passed') <= Cardinality(Proc)
      BY <2>1, Finite
  <2> QED BY <1>1, <2>2, <2>3, HostAssumption DEF LimitInv
<1>3. CASE cmd # "start"
  <2>1. First(cmd) # "s_make"
      BY <1>3 DEF First, Commands, Cleans
  <2>2. Passed' \subseteq Passed
      BY <2>1 DEF Begin, Goto, Passed, HostInv, TypeOK
  <2> QED BY <1>1, <2>2, Shrinks
<1> QED BY <1>2, <1>3

\* A start whose task appears has no longer passed.
LEMMA LimitMake ==
    ASSUME HostInv, LimitInv, NEW p \in Proc, StartMake(p)
    PROVE  LimitInv'
<1> USE DEF HostInv, TypeOK
<1>1. CASE Exit(p) /\ UNCHANGED rec
    BY <1>1, Shrinks DEF Exit, Goto, Present, Passed
<1>2. ASSUME NEW t \in Task, rec[t] = "none", rec' = [rec EXCEPT ![t] = "created"],
             At(p, "s_make"), Goto(p, "s_run")
      PROVE  LimitInv'
  <2>1. Present' = Present \cup {t} /\ t \notin Present /\ Present \in SUBSET Task
      BY <1>2 DEF Present
  <2>2. Passed' = Passed \ {p} /\ p \in Passed /\ Passed \in SUBSET Proc
      BY <1>2 DEF Passed, At, Goto
  <2>3. Cardinality(Present') = Cardinality(Present) + 1
      BY <2>1, Finite, FS_AddElement
  <2>4. Cardinality(Passed') = Cardinality(Passed) - 1
      BY <2>2, Finite, FS_RemoveElement
  <2>5. Cardinality(Present) \in Nat /\ Cardinality(Passed) \in Nat
      BY <2>1, <2>2, Finite
  <2> QED BY <2>3, <2>4, <2>5 DEF LimitInv
<1> QED BY <1>1, <1>2 DEF StartMake, Foremost

\* Every other step of an invocation.
LEMMA LimitStep ==
    ASSUME HostInv, LimitInv, NEW p \in Proc, Step(p), ~StartMake(p)
    PROVE  LimitInv'
<1> USE DEF HostInv, TypeOK, Present, Passed
<1>1. LocalInv(p)
    OBVIOUS
<1>2. CASE StartRun(p) \/ StartCommit(p)
    BY <1>1, <1>2, Shrinks DEF StartRun, StartCommit, Update, At, Goto, Exit,
        LocalInv, OwnPoints, StartPoints
<1>3. CASE RecoverTask(p)
    BY <1>3, Shrinks DEF RecoverTask, Goto, Exit
<1>4. CASE FinishTeardown(p)
    BY <1>4, Shrinks DEF FinishTeardown, Teardown, TeardownDies, Goto, Exit
<1>5. CASE ReapRead(p)
    BY <1>5, Shrinks DEF ReapRead, Goto, Exit, world
<1>6. CASE ReapRow(p)
  <2>1. CASE Exit(p) /\ UNCHANGED rec
      BY <2>1, Shrinks DEF Exit, Goto
  <2>2. ASSUME NEW t \in loc[p].left, At(p, "l_row"),
               RowStale(p, t) \/ RowReconciled(p, t) \/ RowReaped(p, t) \/ RowDies(p, t)
        PROVE  LimitInv'
    <3>1. t \in Task /\ loc[p].seen[t] \notin {"none", "removed"}
        BY <1>1, <2>2 DEF Locals, LocalInv, At
    <3>2. Passed' \subseteq Passed
        BY <2>2 DEF RowStale, RowReconciled, RowReaped, RowDies, NextRow, Exit, Goto
    <3>3. Present' \subseteq Present
        BY <2>2, <3>1 DEF RowStale, RowReconciled, RowReaped, Teardown, RowDies, TeardownDies
    <3> QED BY <3>2, <3>3, Shrinks
  <2> QED BY <1>6, <2>1, <2>2 DEF ReapRow, Foremost
<1>7. CASE Clean(p)
  <2>1. Passed' \subseteq Passed
      BY <1>7 DEF Clean, CleanRead, CleanRemove, CleanList, CleanCheck, CleanPrune, Goto, Exit
  <2>2. Present' \subseteq Present
      BY <1>7 DEF Clean, CleanRead, CleanRemove, CleanList, CleanCheck, CleanPrune, Gone, world
  <2> QED BY <2>1, <2>2, Shrinks
<1> QED BY <1>2, <1>3, <1>4, <1>5, <1>6, <1>7 DEF Step, Start

LEMMA LimitNext == HostInv /\ LimitInv /\ [Next]_vars => LimitInv'
<1> SUFFICES ASSUME HostInv, LimitInv, [Next]_vars PROVE LimitInv'
    OBVIOUS
<1>1. CASE DockerChanges \/ PiSettles \/ UNCHANGED vars
    BY <1>1, Shrinks DEF DockerChanges, PiSettles, vars, world, Present, Passed
<1> QED BY <1>1, LimitBegin, LimitMake, LimitStep DEF Next

\* However many starts pass the disk check together, the limit is exceeded by
\* at most one task for each invocation.
THEOREM SoftLimitHolds == Spec => []SoftLimit
<1>1. LimitInv => SoftLimit
  <2>1. Present \in SUBSET Task /\ Passed \in SUBSET Proc
      BY DEF Present, Passed
  <2>2. Cardinality(Present) \in Nat /\ Cardinality(Passed) \in Nat /\ Cardinality(Proc) \in Nat
      BY <2>1, Finite
  <2> QED BY <2>2, HostAssumption DEF LimitInv, SoftLimit
<1> QED BY <1>1, LimitInit, LimitNext, InvHolds, PTL DEF Spec
==============================================================================
