----------------------------- MODULE EventProofs -----------------------------
(***************************************************************************)
(* Pi's events and the passes of list and reap, for every number of        *)
(* concurrent invocations and every journal: no done or fail that ends a   *)
(* batch of an --auto-finish task is consumed before it has had its effect.*)
(***************************************************************************)
EXTENDS ControllerProofs

(* What a step of a command other than start does to task.json.            *)

Carries ==
    /\ Readable' = Readable /\ rec'.auto = rec.auto
    /\ rec'.worktree = rec.worktree /\ rec'.maxlog >= rec.maxlog

KeepsVerdict == rec'.status = rec.status /\ rec'.reason = rec.reason

\* A fresh, unheld pass of list or reap.
Commits(p) ==
    /\ At(p, "l_commit") /\ ~StaleState(p) /\ ~TerminalAutoPending(p)
    /\ rec'.offset = loc[p].newoff
    /\ \/ ~ComputedFor(p).transitioned /\ KeepsVerdict
       \/ ComputedFor(p).transitioned /\ rec'.status = ComputedFor(p).status

Outcome(p) ==
    \/ Removes /\ At(p, "c_rmtree")
    \/ Carries /\ KeepsVerdict /\ rec'.offset = rec.offset
    \/ Carries /\ KeepsVerdict /\ At(p, "l_advance") /\ rec'.offset = loc[p].newoff
    \/ Carries /\ Commits(p)
    \/ /\ Carries /\ At(p, "t_refuse") /\ rec'.offset = rec.offset
       /\ rec'.status = "failed" /\ rec'.reason = "finish"
    \/ /\ Carries /\ At(p, "t_mark") /\ rec'.offset = rec.offset
       /\ rec'.status = loc[p].target
    \/ /\ Carries /\ At(p, "r_commit") /\ rec'.offset = rec.offset
       /\ rec.status = "interrupted" /\ rec'.status = "running"

LEMMA RemovedUnreadable ==
    ASSUME Removes
    PROVE  ~Readable' /\ rec'.offset = 0
  BY DEF Removes, NoRec, Readable

\* The file update_task publishes shows what the mutator returned.
LEMMA UpdateFields ==
    ASSUME TypeOK, NEW d \in Rec, d.file = rec.file, UpdateTask(d)
    PROVE  /\ Readable' = Readable
           /\ rec'.status = d.status /\ rec'.reason = d.reason
           /\ rec'.auto = d.auto /\ rec'.worktree = d.worktree
           /\ rec'.maxlog = d.maxlog /\ rec'.offset = d.offset
           /\ rec'.recoveries = d.recoveries
  BY DEF UpdateTask, Published, Rec, Readable

LEMMA SameOutcome ==
    ASSUME TypeOK, NEW p \in Proc, rec' = rec
    PROVE  Outcome(p)
  <1>1. rec.maxlog \in Nat
    BY DEF TypeOK, Rec
  <1>2. rec'.maxlog >= rec.maxlog
    BY <1>1
  <1>. QED
    BY <1>2 DEF Outcome, Carries, KeepsVerdict, Readable

LEMMA ListOutcome ==
    ASSUME TypeOK, NEW p \in Proc, List(p)
    PROVE  Outcome(p)
  <1>0. rec \in Rec /\ rec.maxlog \in Nat /\ loc[p].newoff \in Nat /\ loc[p].newmax \in Nat
    BY DEF TypeOK, Rec, Locals
  <1>1. /\ LogRaised(p) \in Rec /\ LogRaised(p).file = rec.file
        /\ LogRaised(p).status = rec.status /\ LogRaised(p).reason = rec.reason
        /\ LogRaised(p).auto = rec.auto /\ LogRaised(p).worktree = rec.worktree
        /\ LogRaised(p).offset = rec.offset /\ LogRaised(p).maxlog >= rec.maxlog
    <2> DEFINE m == IF loc[p].newmax > rec.maxlog THEN loc[p].newmax ELSE rec.maxlog
    <2>1. m \in Nat /\ m >= rec.maxlog
      BY <1>0
    <2>2. LogRaised(p) = [rec EXCEPT !.maxlog = m]
      BY DEF LogRaised
    <2> HIDE DEF m
    <2>. QED
      BY <1>0, <2>1, <2>2, LogRaisedType DEF Rec
  <1>2. UpdateTask(LogRaised(p)) => Outcome(p)
    BY <1>1, UpdateFields DEF Outcome, Carries, KeepsVerdict
  <1>3. CASE ListCommit(p)
    <2>1. CASE ~(~StaleState(p) /\ ~TerminalAutoPending(p) /\ UpdateTask(Reconciled(p)))
      BY <1>2, <1>3, <2>1, SameOutcome DEF ListCommit
    <2>2. CASE ~StaleState(p) /\ ~TerminalAutoPending(p) /\ UpdateTask(Reconciled(p))
      <3> DEFINE row == ComputedFor(p)
                 moved == [LogRaised(p) EXCEPT !.offset = loc[p].newoff]
      <3>1. /\ moved \in Rec /\ moved.file = rec.file
            /\ moved.status = rec.status /\ moved.reason = rec.reason
            /\ moved.auto = rec.auto /\ moved.worktree = rec.worktree
            /\ moved.offset = loc[p].newoff /\ moved.maxlog >= rec.maxlog
        BY <1>0, <1>1 DEF Rec
      <3>2. Reconciled(p) =
              IF ~row.transitioned THEN moved
              ELSE [moved EXCEPT
                      !.status = row.status,
                      !.reason = IF row.reason # "none" THEN row.reason
                                 ELSE IF loc[p].latest = "fail" /\ row.status = "failed"
                                      THEN "signal" ELSE moved.reason]
        BY DEF Reconciled
      <3>3. /\ Reconciled(p).file = rec.file
            /\ Reconciled(p).auto = rec.auto /\ Reconciled(p).worktree = rec.worktree
            /\ Reconciled(p).offset = loc[p].newoff /\ Reconciled(p).maxlog >= rec.maxlog
            /\ ~row.transitioned => /\ Reconciled(p).status = rec.status
                                    /\ Reconciled(p).reason = rec.reason
            /\ row.transitioned => Reconciled(p).status = row.status
        <4> HIDE DEF row, moved
        <4>. QED
          BY <3>1, <3>2 DEF Rec
      <3>4. At(p, "l_commit")
        BY <1>3 DEF ListCommit
      <3> HIDE DEF moved
      <3>. QED
        BY <2>2, <3>3, <3>4, ReconciledType, UpdateFields
        DEF Outcome, Carries, Commits, KeepsVerdict
    <2>. QED
      BY <2>1, <2>2
  <1>4. CASE ListAdvance(p)
    <2> DEFINE d == [rec EXCEPT !.offset = loc[p].newoff]
    <2>1. /\ d \in Rec /\ d.file = rec.file /\ d.status = rec.status /\ d.reason = rec.reason
          /\ d.auto = rec.auto /\ d.worktree = rec.worktree
          /\ d.offset = loc[p].newoff /\ d.maxlog = rec.maxlog
      BY <1>0 DEF Rec
    <2>2. UpdateTask(d) /\ At(p, "l_advance")
      BY <1>4 DEF ListAdvance
    <2> HIDE DEF d
    <2>. QED
      BY <1>0, <2>1, <2>2, UpdateFields DEF Outcome, Carries, KeepsVerdict
  <1>5. CASE ~ListCommit(p) /\ ~ListAdvance(p)
    BY <1>5, SameOutcome
    DEF List, ListBegin, ListSnapshot, ListRead, ListTail, ListReread, world, disk
  <1>. QED
    BY <1>3, <1>4, <1>5

\* _to_terminal
LEMMA MarkOutcome ==
    ASSUME TypeOK, NEW p \in Proc, TeardownMark(p)
    PROVE  /\ Carries /\ At(p, "t_mark") /\ rec'.offset = rec.offset
           /\ rec'.status = loc[p].target /\ rec'.status \in Terminal
  <1> DEFINE why == IF loc[p].reason # "none" THEN loc[p].reason
                    ELSE IF loc[p].target = "completed" /\ rec.reason = "finish" THEN "none"
                    ELSE rec.reason
             d == [rec EXCEPT !.status = loc[p].target, !.finished = TRUE, !.reason = why]
  <1>1. rec \in Rec /\ rec.maxlog \in Nat
    BY DEF TypeOK, Rec
  <1>2. loc[p].target \in Terminal /\ why \in Reasons
    BY <1>1 DEF TypeOK, Locals, Rec, Reasons
  <1>3. UpdateTask(d) /\ At(p, "t_mark")
    BY DEF TeardownMark
  <1>4. /\ d \in Rec /\ d.file = rec.file /\ d.status = loc[p].target
        /\ d.auto = rec.auto /\ d.worktree = rec.worktree
        /\ d.offset = rec.offset /\ d.maxlog = rec.maxlog
    <2> HIDE DEF why
    <2>. QED
      BY <1>1, <1>2 DEF Rec, Statuses
  <1> HIDE DEF d
  <1>. QED
    BY <1>1, <1>2, <1>3, <1>4, UpdateFields DEF Carries

LEMMA TeardownOutcome ==
    ASSUME TypeOK, NEW p \in Proc, Teardown(p) \/ Finish(p)
    PROVE  Outcome(p)
  <1>0. rec \in Rec /\ rec.maxlog \in Nat
    BY DEF TypeOK, Rec
  <1>1. CASE TeardownRefuse(p)
    <2> DEFINE d == [rec EXCEPT !.status = "failed", !.reason = "finish"]
    <2>1. /\ d \in Rec /\ d.file = rec.file /\ d.status = "failed" /\ d.reason = "finish"
          /\ d.auto = rec.auto /\ d.worktree = rec.worktree
          /\ d.offset = rec.offset /\ d.maxlog = rec.maxlog
      BY <1>0 DEF Rec, Statuses, Terminal, Reasons
    <2>2. UpdateTask(d) /\ At(p, "t_refuse")
      BY <1>1 DEF TeardownRefuse
    <2> HIDE DEF d
    <2>. QED
      BY <1>0, <2>1, <2>2, UpdateFields DEF Outcome, Carries
  <1>2. CASE TeardownMark(p)
    BY <1>2, MarkOutcome DEF Outcome
  <1>3. CASE ~TeardownRefuse(p) /\ ~TeardownMark(p)
    BY <1>3, SameOutcome
    DEF Teardown, Finish, TeardownRead, TeardownGet, TeardownStop, TeardownRemove,
        TeardownVerify, TeardownWorktree, FinishBegin, FinishRead, FinishProbe, world, disk
  <1>. QED
    BY <1>1, <1>2, <1>3

LEMMA RecoverOutcome ==
    ASSUME TypeOK, NEW p \in Proc, Recover(p)
    PROVE  Outcome(p)
  <1>0. rec \in Rec /\ rec.maxlog \in Nat /\ rec.recoveries \in Nat
    BY DEF TypeOK, Rec
  <1>1. CASE RecoverCommit(p) /\ rec' # rec
    <2> DEFINE d == [rec EXCEPT !.status = "running", !.recoveries = rec.recoveries + 1]
    <2>1. rec.recoveries + 1 \in Nat
      BY <1>0
    <2>2. /\ d \in Rec /\ d.file = rec.file /\ d.status = "running"
          /\ d.auto = rec.auto /\ d.worktree = rec.worktree
          /\ d.offset = rec.offset /\ d.maxlog = rec.maxlog
      BY <1>0, <2>1 DEF Rec, Statuses
    <2>3. UpdateTask(d) /\ rec.status = "interrupted" /\ At(p, "r_commit")
      BY <1>1 DEF RecoverCommit
    <2> HIDE DEF d
    <2>. QED
      BY <1>0, <2>2, <2>3, UpdateFields DEF Outcome, Carries
  <1>2. CASE ~(RecoverCommit(p) /\ rec' # rec)
    BY <1>2, SameOutcome
    DEF Recover, RecoverBegin, RecoverRead, RecoverGet, RecoverStop, RecoverRemove,
        RecoverCreate, RecoverRun, RecoverReload, RecoverKillStop, RecoverKillRemove,
        world, disk
  <1>. QED
    BY <1>1, <1>2

LEMMA CleanOutcome ==
    ASSUME TypeOK, NEW p \in Proc, Clean(p)
    PROVE  Outcome(p)
  <1>1. CASE CleanRmtree(p)
    BY <1>1, SameOutcome DEF CleanRmtree, Outcome, Removes
  <1>2. CASE ~CleanRmtree(p)
    BY <1>2, SameOutcome
    DEF Clean, CleanBegin, CleanRead, CleanScan, CleanCheck, CleanRescan, CleanRecheck,
        CleanPrune, world, disk
  <1>. QED
    BY <1>1, <1>2

\* Every command but start, a crash, the environment, and stuttering.
LEMMA StepOutcome ==
    ASSUME TypeOK, NEW p \in Proc, Step(p) \/ Crash(p), ~Start(p)
    PROVE  Outcome(p)
  BY ListOutcome, TeardownOutcome, RecoverOutcome, CleanOutcome, SameOutcome
  DEF Step, Crash, world, disk
----------------------------------------------------------------------------
(* What it does to the invocation's locals and control point.              *)

\* The locals that the passes of list and reap rest on.
SameTail(m, l) ==
    /\ m.cmd = l.cmd /\ m.snap = l.snap /\ m.seen = l.seen
    /\ m.newoff = l.newoff /\ m.latest = l.latest

\* A new invocation, or one that has ended.
Resets(p) ==
    /\ loc'[p].snap = NoRec /\ loc'[p].newoff = 0
    /\ pc'[p] \in {"idle", "f_read", "l_snapshot", "r_read", "c_read"}
    /\ pc'[p] = "f_read" => loc'[p].cmd = "finish"

\* Any step that reads neither task.json nor the journal into its locals.
Proceeds(p) ==
    /\ SameTail(loc'[p], loc[p])
    /\ pc'[p] \notin {"l_read", "l_tail", "l_commit"} \cup StartSteps
    /\ pc'[p] = "l_advance" =>
          At(p, "t_mark") /\ loc[p].cmd = "reap" /\ rec'.status \in Terminal
    /\ pc'[p] \in FinishSteps => pc[p] \in FinishSteps
    /\ pc'[p] \in TeardownSteps =>
          \/ pc[p] \in FinishSteps \cup TeardownSteps
          \/ At(p, "l_commit") /\ loc[p].latest \in Settling

\* teardown_and_mark and recover read task.json for themselves.
Rereads(p) ==
    /\ \/ At(p, "t_read") /\ pc'[p] = "t_get"
       \/ At(p, "r_read") /\ pc'[p] = "r_get"
    /\ Readable /\ loc'[p] = [loc[p] EXCEPT !.snap = rec]

Snapshots(p) ==
    /\ At(p, "l_snapshot") /\ pc'[p] = "l_read"
    /\ loc'[p] = [loc[p] EXCEPT !.seen = ctr.st]
    /\ UNCHANGED world

Reads(p) ==
    /\ At(p, "l_read") /\ pc'[p] = "l_tail"
    /\ Readable /\ loc'[p] = [loc[p] EXCEPT !.snap = rec]
    /\ UNCHANGED world

Tails(p) ==
    /\ At(p, "l_tail") /\ pc'[p] = "l_commit"
    /\ loc'[p].cmd = loc[p].cmd /\ loc'[p].snap = loc[p].snap
    /\ loc'[p].seen = loc[p].seen
    /\ \/ /\ io /\ loc[p].snap.offset < Len(journal)
          /\ loc'[p].newoff = Len(journal) /\ loc'[p].latest = journal[Len(journal)]
       \/ /\ ~io \/ loc[p].snap.offset >= Len(journal)
          /\ loc'[p].newoff = loc[p].snap.offset /\ loc'[p].latest = "none"
    /\ UNCHANGED world

Locally(p) ==
    /\ \A q \in Proc \ {p} : pc'[q] = pc[q] /\ loc'[q] = loc[q]
    /\ \/ Resets(p) \/ Proceeds(p) \/ Rereads(p)
       \/ Snapshots(p) \/ Reads(p) \/ Tails(p)

\* Setting another local variable leaves those alone.
LEMMA SetOther ==
    ASSUME NEW l \in Locals, NEW x, NEW y
    PROVE  /\ SameTail(l, l)
           /\ SameTail([l EXCEPT !.handle = x], l)
           /\ SameTail([l EXCEPT !.target = x], l)
           /\ SameTail([l EXCEPT !.target = x, !.reason = y], l)
           /\ SameTail([l EXCEPT !.doomed = x], l)
  BY DEF Locals, SameTail

LEMMA ExitResets ==
    ASSUME TypeOK, NEW p \in Proc, Exit(p)
    PROVE  Locally(p)
  BY DEF TypeOK, Exit, Goto, Locally, Resets, IdleLoc

LEMMA GoesOn ==
    ASSUME TypeOK, NEW p \in Proc, NEW step, Goto(p, step),
           step \notin {"l_read", "l_tail", "l_commit"} \cup StartSteps,
           step = "l_advance" =>
              pc[p] = "t_mark" /\ loc[p].cmd = "reap" /\ rec'.status \in Terminal,
           step \in FinishSteps => pc[p] \in FinishSteps,
           step \in TeardownSteps =>
              \/ pc[p] \in FinishSteps \cup TeardownSteps
              \/ pc[p] = "l_commit" /\ loc[p].latest \in Settling,
           NEW x, NEW y,
           \/ loc' = loc
           \/ loc' = [loc EXCEPT ![p].handle = x]
           \/ loc' = [loc EXCEPT ![p].target = x]
           \/ loc' = [loc EXCEPT ![p].target = x, ![p].reason = y]
           \/ loc' = [loc EXCEPT ![p].doomed = x]
    PROVE  Locally(p)
  <1>1. loc[p] \in Locals
    BY DEF TypeOK
  <1>2. (\A q \in Proc \ {p} : pc'[q] = pc[q]) /\ pc'[p] = step
    BY DEF TypeOK, Goto
  <1>3. (\A q \in Proc \ {p} : loc'[q] = loc[q]) /\ SameTail(loc'[p], loc[p])
    <2>1. CASE loc' = loc
      BY <1>1, <2>1, SetOther
    <2>2. CASE loc' = [loc EXCEPT ![p].handle = x]
      BY <1>1, <2>2, SetOther DEF TypeOK
    <2>3. CASE loc' = [loc EXCEPT ![p].target = x]
      BY <1>1, <2>3, SetOther DEF TypeOK
    <2>4. CASE loc' = [loc EXCEPT ![p].target = x, ![p].reason = y]
      BY <1>1, <2>4, SetOther DEF TypeOK
    <2>5. CASE loc' = [loc EXCEPT ![p].doomed = x]
      BY <1>1, <2>5, SetOther DEF TypeOK
    <2>. QED
      BY <2>1, <2>2, <2>3, <2>4, <2>5
  <1>. QED
    BY <1>2, <1>3 DEF Locally, Proceeds, At

LEMMA FinishLocally ==
    ASSUME TypeOK, NEW p \in Proc, Finish(p)
    PROVE  Locally(p)
  <1>1. CASE FinishBegin(p)
    BY <1>1 DEF FinishBegin, Begin, Goto, TypeOK, IdleLoc, Locally, Resets
  <1>2. CASE FinishRead(p)
    BY <1>2, ExitResets, GoesOn
    DEF FinishRead, EnterTeardown, At, FinishSteps, TeardownSteps, StartSteps
  <1>3. CASE FinishProbe(p)
    BY <1>3, ExitResets, GoesOn
    DEF FinishProbe, At, FinishSteps, TeardownSteps, StartSteps
  <1>. QED
    BY <1>1, <1>2, <1>3 DEF Finish

LEMMA TeardownLocally ==
    ASSUME TypeOK, NEW p \in Proc, Teardown(p)
    PROVE  Locally(p)
  <1>. USE DEF At, FinishSteps, TeardownSteps, StartSteps
  <1>1. CASE TeardownRead(p)
    <2>1. CASE Exit(p)
      BY <2>1, ExitResets
    <2>2. CASE ~Exit(p)
      BY <1>1, <2>2 DEF TeardownRead, Goto, TypeOK, Locally, Rereads
    <2>. QED
      BY <2>1, <2>2
  <1>2. CASE TeardownGet(p) \/ TeardownVerify(p)
    BY <1>2, GoesOn DEF TeardownGet, TeardownVerify
  <1>3. CASE TeardownStop(p) \/ TeardownRemove(p)
    BY <1>3, GoesOn DEF TeardownStop, TeardownRemove
  <1>4. CASE TeardownWorktree(p)
    BY <1>4, GoesOn DEF TeardownWorktree
  <1>5. CASE TeardownRefuse(p)
    BY <1>5, GoesOn, ExitResets DEF TeardownRefuse, Return
  <1>6. CASE TeardownMark(p)
    BY <1>6, MarkOutcome, GoesOn, ExitResets DEF TeardownMark, Return
  <1>. QED
    BY <1>1, <1>2, <1>3, <1>4, <1>5, <1>6 DEF Teardown

LEMMA RecoverLocally ==
    ASSUME TypeOK, NEW p \in Proc, Recover(p)
    PROVE  Locally(p)
  <1>. USE DEF At, FinishSteps, TeardownSteps, StartSteps
  <1>1. CASE RecoverBegin(p)
    BY <1>1 DEF RecoverBegin, Begin, Goto, TypeOK, IdleLoc, Locally, Resets
  <1>2. CASE RecoverRead(p)
    <2>1. CASE Exit(p)
      BY <2>1, ExitResets
    <2>2. CASE ~Exit(p)
      BY <1>2, <2>2 DEF RecoverRead, Goto, TypeOK, Locally, Rereads
    <2>. QED
      BY <2>1, <2>2
  <1>3. CASE RecoverGet(p) \/ RecoverCreate(p) \/ RecoverReload(p)
    BY <1>3, GoesOn, ExitResets
    DEF RecoverGet, RecoverCreate, RecoverReload
  <1>4. CASE RecoverStop(p) \/ RecoverRemove(p) \/ RecoverRun(p)
    BY <1>4, GoesOn, ExitResets DEF RecoverStop, RecoverRemove, RecoverRun
  <1>5. CASE RecoverCommit(p) \/ RecoverKillStop(p) \/ RecoverKillRemove(p)
    BY <1>5, GoesOn, ExitResets
    DEF RecoverCommit, RecoverKillStop, RecoverKillRemove
  <1>. QED
    BY <1>1, <1>2, <1>3, <1>4, <1>5 DEF Recover

LEMMA ListLocally ==
    ASSUME TypeOK, NEW p \in Proc, List(p)
    PROVE  Locally(p)
  <1>. USE DEF At, FinishSteps, TeardownSteps, StartSteps
  <1>1. CASE ListBegin(p)
    BY <1>1 DEF ListBegin, Begin, Goto, TypeOK, IdleLoc, Locally, Resets
  <1>2. CASE ListSnapshot(p)
    <2>1. CASE Exit(p)
      BY <2>1, ExitResets
    <2>2. CASE ~Exit(p)
      BY <1>2, <2>2 DEF ListSnapshot, Goto, TypeOK, Locally, Snapshots
    <2>. QED
      BY <2>1, <2>2
  <1>3. CASE ListRead(p)
    <2>1. CASE Exit(p)
      BY <2>1, ExitResets
    <2>2. CASE ~Exit(p)
      BY <1>3, <2>2 DEF ListRead, Goto, TypeOK, Locally, Reads
    <2>. QED
      BY <2>1, <2>2
  <1>4. CASE ListTail(p)
    <2> DEFINE behind == io /\ loc[p].snap.offset < Len(journal)
               size == IF io THEN log ELSE 0
               o == IF behind THEN Len(journal) ELSE loc[p].snap.offset
               e == IF behind THEN journal[Len(journal)] ELSE "none"
               m == IF size < loc[p].snap.maxlog THEN loc[p].snap.maxlog ELSE size
    <2>1. loc' = [loc EXCEPT ![p] =
                    [loc[p] EXCEPT !.newoff = o, !.latest = e, !.newmax = m]]
      BY <1>4 DEF ListTail
    <2>2. \A x, y, z : LET l == [loc[p] EXCEPT !.newoff = x, !.latest = y, !.newmax = z]
                       IN  /\ l.cmd = loc[p].cmd /\ l.snap = loc[p].snap
                           /\ l.seen = loc[p].seen /\ l.newoff = x /\ l.latest = y
      BY DEF TypeOK, Locals
    <2>3. /\ loc'[p].cmd = loc[p].cmd /\ loc'[p].snap = loc[p].snap
          /\ loc'[p].seen = loc[p].seen /\ loc'[p].newoff = o /\ loc'[p].latest = e
          /\ \A q \in Proc \ {p} : loc'[q] = loc[q]
      <3> HIDE DEF o, e, m
      <3>. QED
        BY <2>1, <2>2 DEF TypeOK
    <2>4. pc'[p] = "l_commit" /\ \A q \in Proc \ {p} : pc'[q] = pc[q]
      BY <1>4 DEF ListTail, Goto, TypeOK
    <2>5. loc[p].snap.offset \in Nat /\ Len(journal) \in Nat
      <3>1. loc[p].snap \in Rec /\ journal \in Seq(EventKinds)
        BY DEF TypeOK, Locals
      <3>2. loc[p].snap.offset \in Nat
        BY <3>1 DEF Rec
      <3>. QED
        BY <3>1, <3>2
    <2>6. behind \/ ~io \/ loc[p].snap.offset >= Len(journal)
      BY <2>5
    <2>7. At(p, "l_tail") /\ UNCHANGED world
      BY <1>4 DEF ListTail
    <2>. QED
      BY <2>3, <2>4, <2>6, <2>7 DEF Locally, Tails
  <1>5. CASE ListCommit(p)
    BY <1>5, GoesOn DEF ListCommit, TerminalAutoPending
  <1>6. CASE ListAdvance(p) \/ ListReread(p)
    BY <1>6, GoesOn, ExitResets DEF ListAdvance, ListReread
  <1>. QED
    BY <1>1, <1>2, <1>3, <1>4, <1>5, <1>6 DEF List

LEMMA CleanLocally ==
    ASSUME TypeOK, NEW p \in Proc, Clean(p)
    PROVE  Locally(p)
  <1>. USE DEF At, FinishSteps, TeardownSteps, StartSteps
  <1>1. CASE CleanBegin(p)
    BY <1>1 DEF CleanBegin, Begin, Goto, TypeOK, IdleLoc, Locally, Resets
  <1>2. CASE CleanRead(p) \/ CleanScan(p) \/ CleanRescan(p)
    BY <1>2, GoesOn DEF CleanRead, CleanScan, CleanRescan, Scan
  <1>3. CASE CleanCheck(p) \/ CleanRecheck(p) \/ CleanPrune(p)
    BY <1>3, GoesOn, ExitResets DEF CleanCheck, CleanRecheck, CleanPrune
  <1>4. CASE CleanRmtree(p)
    BY <1>4, GoesOn DEF CleanRmtree
  <1>. QED
    BY <1>1, <1>2, <1>3, <1>4 DEF Clean

LEMMA StepLocally ==
    ASSUME TypeOK, NEW p \in Proc, Step(p) \/ Crash(p), ~Start(p)
    PROVE  Locally(p)
  BY FinishLocally, TeardownLocally, RecoverLocally, ListLocally, CleanLocally, ExitResets
  DEF Step, Crash
----------------------------------------------------------------------------
(* No settling event is lost.                                              *)

\* What is inductive speaks of the event that was consumed last.
LastWordKept ==
    Readable /\ rec.auto /\ rec.offset > 0 /\ journal[rec.offset] \in Settling
        => rec.status \in Terminal

\* Offsets point into the journal, which only grows.
OffsetInv ==
    /\ rec.offset <= Len(journal)
    /\ \A p \in Proc :
          loc[p].snap.offset <= Len(journal) /\ loc[p].newoff <= Len(journal)

\* --auto-finish is fixed when the task is created.
AutoInv ==
    \A p \in Proc : Readable /\ loc[p].snap.file = "valid" => loc[p].snap.auto = rec.auto

\* What a pass found in the journal behind the offset it read.
TailInv ==
    \A p \in Proc :
        /\ pc[p] \in {"l_tail", "l_commit"} => loc[p].snap.file = "valid"
        /\ pc[p] = "l_commit" =>
              \/ loc[p].latest = "none" /\ loc[p].newoff = loc[p].snap.offset
              \/ /\ loc[p].newoff \in 1..Len(journal) /\ loc[p].newoff > loc[p].snap.offset
                 /\ loc[p].latest = journal[loc[p].newoff]

\* reap advances the offset only past a teardown that has marked the task.
AdvanceInv ==
    \A p \in Proc : pc[p] = "l_advance" /\ Readable => rec.status \in Terminal

PassInv == OffsetInv /\ AutoInv /\ TailInv /\ AdvanceInv

LEMMA OffsetTypes ==
    ASSUME TypeOK
    PROVE  /\ rec.offset \in Nat /\ Len(journal) \in Nat
           /\ \A i \in 1..Len(journal) : journal[i] \in EventKinds
           /\ \A p \in Proc : loc[p].snap.offset \in Nat /\ loc[p].newoff \in Nat
  <1>1. rec \in Rec /\ journal \in Seq(EventKinds) /\ loc \in [Proc -> Locals]
    BY DEF TypeOK
  <1>2. rec.offset \in Nat
    BY <1>1 DEF Rec
  <1>3. \A p \in Proc : loc[p].snap \in Rec /\ loc[p].newoff \in Nat
    BY <1>1 DEF Locals
  <1>4. \A p \in Proc : loc[p].snap.offset \in Nat
    BY <1>3 DEF Rec
  <1>5. Len(journal) \in Nat /\ \A i \in 1..Len(journal) : journal[i] \in EventKinds
    BY <1>1
  <1>. QED
    BY <1>2, <1>3, <1>4, <1>5

\* Where the record of task.json and the offset that a step leaves in the locals
\* come from.
LEMMA LocalSources ==
    ASSUME TypeOK, NEW p \in Proc, Locally(p)
    PROVE  /\ loc'[p].snap \in {loc[p].snap, rec, NoRec}
           /\ loc'[p].newoff \in {loc[p].newoff, 0, Len(journal), loc[p].snap.offset}
  <1>1. loc[p] \in Locals
    BY DEF TypeOK
  <1>2. \A x : /\ [loc[p] EXCEPT !.snap = x].snap = x
               /\ [loc[p] EXCEPT !.snap = x].newoff = loc[p].newoff
               /\ [loc[p] EXCEPT !.seen = x].snap = loc[p].snap
               /\ [loc[p] EXCEPT !.seen = x].newoff = loc[p].newoff
    BY <1>1 DEF Locals
  <1>3. CASE Rereads(p) \/ Snapshots(p) \/ Reads(p)
    BY <1>2, <1>3 DEF Rereads, Snapshots, Reads
  <1>. QED
    BY <1>3 DEF Locally, Resets, Proceeds, Rereads, Snapshots, Reads, Tails, SameTail

\* A settled task stays settled as long as its task.json can be read.
LEMMA SettledStays ==
    ASSUME NEW p \in Proc, Outcome(p), TypeOK, Readable', rec.status \in Terminal
    PROVE  rec'.status \in Terminal
  <1>1. ~Removes
    BY RemovedUnreadable
  <1>2. ~(Commits(p) /\ ComputedFor(p).transitioned)
    BY ComputeMoves DEF Commits, ComputedFor, StaleState, Terminal
  <1>3. loc[p].target \in Terminal /\ "failed" \in Terminal /\ "interrupted" \notin Terminal
    BY DEF TypeOK, Locals, Terminal
  <1>. QED
    BY <1>1, <1>2, <1>3 DEF Outcome, KeepsVerdict, Commits

\* A pass that commits leaves an unconsumed done or fail to the next one, unless
\* it is settled.
LEMMA CommitKeepsEvent ==
    ASSUME NEW p \in Proc, TypeOK, PassInv, LastWordKept, Carries, Commits(p),
           Readable, rec.auto, loc[p].newoff > 0, journal[loc[p].newoff] \in Settling
    PROVE  rec.status \in Terminal
  <1>1. CASE loc[p].latest = "none" /\ loc[p].newoff = loc[p].snap.offset
    BY <1>1 DEF Commits, StaleState, LastWordKept
  <1>2. CASE loc[p].latest = journal[loc[p].newoff]
    <2>1. loc[p].snap.auto
      BY DEF PassInv, AutoInv, TailInv, Commits, At
    <2>2. ~AutoFinishCanRun(loc[p].snap)
      BY <1>2, <2>1 DEF Commits, TerminalAutoPending
    <2>. QED
      BY <2>2 DEF AutoFinishCanRun, Commits, StaleState
  <1>. QED
    BY <1>1, <1>2 DEF PassInv, TailInv, Commits, At

LEMMA PassStep ==
    ASSUME TypeOK, PassInv, NEW p \in Proc, Outcome(p), Locally(p), journal' = journal
    PROVE  PassInv'
  <1>1. OffsetInv /\ AutoInv /\ TailInv /\ AdvanceInv
    BY DEF PassInv
  <1>2. OffsetInv'
    <2>1. rec'.offset = rec.offset \/ rec'.offset = loc[p].newoff \/ rec'.offset = 0
      BY RemovedUnreadable DEF Outcome, Commits
    <2>2. /\ loc'[p].snap \in {loc[p].snap, rec, NoRec}
          /\ loc'[p].newoff \in {loc[p].newoff, 0, Len(journal), loc[p].snap.offset}
      BY LocalSources
    <2>3. \A q \in Proc \ {p} : loc'[q] = loc[q]
      BY DEF Locally
    <2>4. rec'.offset <= Len(journal)
      BY <1>1, <2>1, OffsetTypes DEF OffsetInv
    <2>5. NoRec.offset = 0
      BY DEF NoRec
    <2>6. loc'[p].snap.offset <= Len(journal)
      BY <1>1, <2>2, <2>5, OffsetTypes DEF OffsetInv
    <2>7. loc'[p].newoff <= Len(journal)
      BY <1>1, <2>2, OffsetTypes DEF OffsetInv
    <2>. QED
      BY <1>1, <2>3, <2>4, <2>6, <2>7 DEF OffsetInv
  <1>3. AutoInv'
    <2>1. Readable' => Readable /\ rec'.auto = rec.auto
      BY RemovedUnreadable DEF Outcome, Carries
    <2>2. loc'[p].snap \in {loc[p].snap, rec, NoRec} /\ NoRec.file # "valid"
      BY LocalSources DEF NoRec
    <2>3. \A q \in Proc \ {p} : loc'[q] = loc[q]
      BY DEF Locally
    <2>. QED
      BY <1>1, <2>1, <2>2, <2>3 DEF AutoInv, Readable
  <1>4. TailInv'
    <2>1. \A q \in Proc \ {p} : pc'[q] = pc[q] /\ loc'[q] = loc[q]
      BY DEF Locally
    <2>2. pc'[p] = "l_tail" => loc'[p].snap.file = "valid"
      <3>1. loc[p] \in Locals
        BY DEF TypeOK
      <3>. QED
        BY <3>1 DEF Locally, Resets, Proceeds, Rereads, Snapshots, Reads, Tails, Readable, Locals
    <2>3. pc'[p] = "l_commit" =>
              /\ loc'[p].snap.file = "valid"
              /\ \/ loc'[p].latest = "none" /\ loc'[p].newoff = loc'[p].snap.offset
                 \/ /\ loc'[p].newoff \in 1..Len(journal)
                    /\ loc'[p].newoff > loc'[p].snap.offset
                    /\ loc'[p].latest = journal[loc'[p].newoff]
      <3>. SUFFICES ASSUME pc'[p] = "l_commit"
                    PROVE  /\ loc'[p].snap.file = "valid"
                           /\ \/ loc'[p].latest = "none" /\ loc'[p].newoff = loc'[p].snap.offset
                              \/ /\ loc'[p].newoff \in 1..Len(journal)
                                 /\ loc'[p].newoff > loc'[p].snap.offset
                                 /\ loc'[p].latest = journal[loc'[p].newoff]
        OBVIOUS
      <3>1. Tails(p)
        BY DEF Locally, Resets, Proceeds, Rereads, Snapshots, Reads
      <3>2. loc[p].snap.offset < Len(journal) =>
               Len(journal) \in 1..Len(journal) /\ Len(journal) > loc[p].snap.offset
        BY OffsetTypes
      <3>. QED
        BY <1>1, <3>1, <3>2 DEF Tails, TailInv, At
    <2>. QED
      BY <1>1, <2>1, <2>2, <2>3 DEF TailInv
  <1>5. AdvanceInv'
    <2>1. ASSUME NEW q \in Proc, pc'[q] = "l_advance", Readable'
          PROVE  rec'.status \in Terminal
      <3>1. CASE pc[q] = "l_advance"
        <4>1. Readable
          BY <2>1, RemovedUnreadable DEF Outcome, Carries
        <4>. QED
          BY <1>1, <2>1, <3>1, <4>1, SettledStays DEF AdvanceInv
      <3>2. CASE pc[q] # "l_advance"
        BY <2>1, <3>2 DEF Locally, Resets, Proceeds, Rereads, Snapshots, Reads, Tails
      <3>. QED
        BY <3>1, <3>2
    <2>. QED
      BY <2>1 DEF AdvanceInv
  <1>. QED
    BY <1>2, <1>3, <1>4, <1>5 DEF PassInv

LEMMA NotLostStep ==
    ASSUME TypeOK, PassInv, LastWordKept, NEW p \in Proc, Outcome(p),
           journal' = journal
    PROVE  LastWordKept'
  <1>. SUFFICES ASSUME Readable', rec'.auto, rec'.offset > 0, journal[rec'.offset] \in Settling
                PROVE  rec'.status \in Terminal
    BY DEF LastWordKept, Settling
  <1>1. Carries /\ Readable /\ rec.auto
    BY RemovedUnreadable DEF Outcome, Carries
  <1>2. CASE rec'.offset = rec.offset
    BY <1>1, <1>2, SettledStays DEF LastWordKept
  <1>3. CASE At(p, "l_advance")
    BY <1>1, <1>3, SettledStays DEF PassInv, AdvanceInv, At
  <1>4. CASE Commits(p)
    BY <1>1, <1>4, CommitKeepsEvent, SettledStays DEF Commits
  <1>. QED
    BY <1>1, <1>2, <1>3, <1>4, RemovedUnreadable DEF Outcome

\* The commands only read the journal.
LEMMA StepKeepsJournal ==
    ASSUME NEW p \in Proc, Step(p) \/ Crash(p)
    PROVE  journal' = journal
  <1>1. CASE Start(p)
    BY <1>1 DEF Start, StartBegin, StartSkeleton, StartScaffold, StartWorktree, StartMeta,
       StartCreate, StartRun, StartReload, StartCommit, StartFail, world, disk, tree
  <1>2. CASE Finish(p) \/ Teardown(p)
    BY <1>2 DEF Finish, FinishBegin, FinishRead, FinishProbe, Teardown, TeardownRead,
       TeardownGet, TeardownStop, TeardownRemove, TeardownVerify, TeardownWorktree,
       TeardownRefuse, TeardownMark, world, disk, tree
  <1>3. CASE Recover(p)
    BY <1>3 DEF Recover, RecoverBegin, RecoverRead, RecoverGet, RecoverStop,
       RecoverRemove, RecoverCreate, RecoverRun, RecoverReload, RecoverCommit,
       RecoverKillStop, RecoverKillRemove, world, disk, tree
  <1>4. CASE List(p) \/ Clean(p) \/ Crash(p)
    BY <1>4 DEF List, ListBegin, ListSnapshot, ListRead, ListTail, ListCommit, ListAdvance,
       ListReread, Clean, CleanBegin, CleanRead, CleanScan, CleanCheck, CleanRmtree,
       CleanRescan, CleanRecheck, CleanPrune, Crash, world, disk, tree
  <1>. QED
    BY <1>1, <1>2, <1>3, <1>4 DEF Step

\* Pi appends one event; what is before it does not move.
LEMMA SignalAppends ==
    ASSUME TypeOK, PiSignals
    PROVE  /\ Len(journal') = Len(journal) + 1
           /\ \A i \in 1..Len(journal) : journal'[i] = journal[i]
           /\ rec' = rec /\ pc' = pc /\ loc' = loc /\ ctr' = ctr /\ io' = io
  <1>1. journal \in Seq(EventKinds)
    BY DEF TypeOK
  <1>2. PICK kind \in EventKinds : journal' = Append(journal, kind)
    BY DEF PiSignals
  <1>3. /\ Len(journal') = Len(journal) + 1
        /\ \A i \in 1..Len(journal) : journal'[i] = journal[i]
    BY <1>1, <1>2
  <1>. QED
    BY <1>3 DEF PiSignals, docker

\* The other steps of the environment and stuttering.
LEMMA QuietEnvironment ==
    ASSUME PiWritesLog \/ ContainerStops \/ UNCHANGED vars
    PROVE  rec' = rec /\ pc' = pc /\ loc' = loc /\ journal' = journal /\ io' = io
  BY DEF PiWritesLog, ContainerStops, vars, world, disk, tree

LEMMA EnvironmentPass ==
    ASSUME TypeOK, PassInv, LastWordKept, Environment \/ UNCHANGED vars
    PROVE  PassInv' /\ LastWordKept'
  <1>1. CASE PiSignals
    <2>1. OffsetInv /\ AutoInv /\ TailInv /\ AdvanceInv
      BY DEF PassInv
    <2>2. /\ Len(journal) \in Nat /\ Len(journal') = Len(journal) + 1
          /\ \A i \in 1..Len(journal) : journal'[i] = journal[i]
      BY <1>1, SignalAppends, OffsetTypes
    <2>3. rec' = rec /\ pc' = pc /\ loc' = loc
      BY <1>1, SignalAppends
    <2>4. OffsetInv'
      BY <2>1, <2>2, <2>3, OffsetTypes DEF OffsetInv
    <2>5. AutoInv' /\ AdvanceInv'
      BY <2>1, <2>3 DEF AutoInv, AdvanceInv, Readable
    <2>6. TailInv'
      <3>1. \A i \in 1..Len(journal) : i \in 1..Len(journal')
        BY <2>2
      <3>. QED
        BY <2>1, <2>2, <2>3, <3>1 DEF TailInv
    <2>7. LastWordKept'
      <3>1. rec.offset > 0 => journal'[rec.offset] = journal[rec.offset]
        BY <2>1, <2>2, OffsetTypes DEF OffsetInv
      <3>. QED
        BY <2>3, <3>1 DEF LastWordKept, Readable
    <2>. QED
      BY <2>4, <2>5, <2>6, <2>7 DEF PassInv
  <1>2. CASE PiWritesLog \/ ContainerStops \/ UNCHANGED vars
    BY <1>2, QuietEnvironment
    DEF PassInv, OffsetInv, AutoInv, TailInv, AdvanceInv, LastWordKept, Readable
  <1>. QED
    BY <1>1, <1>2 DEF Environment

LEMMA EventInvInductive ==
    ASSUME LifecycleInv, PassInv, LastWordKept, [Next]_vars
    PROVE  PassInv' /\ LastWordKept'
  <1>1. TypeOK /\ NoStarter
    BY DEF LifecycleInv
  <1>2. ASSUME NEW p \in Proc, Step(p) \/ Crash(p)
        PROVE  PassInv' /\ LastWordKept'
    <2>1. Outcome(p) /\ Locally(p) /\ journal' = journal
      BY <1>1, <1>2, NotStarting, StepOutcome, StepLocally, StepKeepsJournal
    <2>. QED
      BY <1>1, <2>1, PassStep, NotLostStep
  <1>. QED
    BY <1>1, <1>2, EnvironmentPass DEF Next

LEMMA EventInvInit == InitStarted => PassInv /\ LastWordKept
  <1>. SUFFICES ASSUME InitStarted PROVE PassInv /\ LastWordKept
    OBVIOUS
  <1>1. rec.offset = 0 /\ Len(journal) = 0
    BY DEF InitStarted, NoRec
  <1>2. \A p \in Proc : /\ pc[p] = "idle" /\ loc[p].snap.file = "absent"
                        /\ loc[p].snap.offset = 0 /\ loc[p].newoff = 0
    BY DEF InitStarted, IdleLoc, NoRec
  <1>. QED
    BY <1>1, <1>2
    DEF PassInv, OffsetInv, AutoInv, TailInv, AdvanceInv, LastWordKept

LEMMA KeptIsSettled ==
    ASSUME TypeOK, LastWordKept
    PROVE  SettlingEventNotLost
  <1>. SUFFICES ASSUME Readable, rec.auto, NEW i \in 1..rec.offset, journal[i] \in Settling,
                       \A j \in i + 1..rec.offset : journal[j] \in Settling
                PROVE  rec.status \in Terminal
    BY DEF SettlingEventNotLost
  <1>1. rec.offset > 0 /\ (i = rec.offset \/ rec.offset \in i + 1..rec.offset)
    BY OffsetTypes
  <1>. QED
    BY <1>1 DEF LastWordKept

\* list_cmd.py:105-114, 224-238: however list, reap, finish, recover and clean
\* overlap, crash or fail, and whatever Pi signals, events_offset moves past a
\* done or fail of an --auto-finish task only once task.json records the task
\* as settled, unless a later event of the same batch supersedes it.
THEOREM SettlingEventKept == SpecStarted => []SettlingEventNotLost
  <1>1. LifecycleInv /\ LastWordKept => SettlingEventNotLost
    BY KeptIsSettled DEF LifecycleInv
  <1>. QED
    BY <1>1, LifecycleInvInit, LifecycleInvInductive, EventInvInit, EventInvInductive, PTL
    DEF SpecStarted
----------------------------------------------------------------------------
(* ... and none is consumed before the container is gone.                  *)

\* d is an --auto-finish task that reap leaves alone.
Over(d) == d.auto /\ ~AutoFinishCanRun(d)

\* There is nothing reap would have to tear down: the container is gone, or it is
\* down and Pi's last word was neither done nor fail.
NothingPending == ctr = NoCtr \/ (ctr.st # "running" /\ ~PiSettled)

\* A listing that shows the container down is still right about that.
DownInv ==
    \A p \in Proc :
        pc[p] \in {"l_read", "l_tail", "l_commit"} /\ loc[p].seen # "running"
            => ctr.st # "running"

\* The events of a container that was down in the listing have all been read.
ReadAllInv ==
    \A p \in Proc :
        /\ pc[p] = "l_commit" /\ loc[p].seen # "running"
        /\ Readable /\ rec.status \notin Terminal
        => loc[p].newoff = Len(journal)

\* Only clean takes io/ away, and only from a settled task.
IoInv == Readable /\ ~io => rec.status \in Terminal

OverInv ==
    /\ Readable /\ Over(rec) => NothingPending
    /\ \A p \in Proc :
          /\ pc[p] \in {"l_tail", "l_commit"} /\ Over(loc[p].snap) => NothingPending
          /\ pc[p] = "l_commit" /\ Over(loc[p].snap) /\ loc[p].latest \in Settling
                => ctr = NoCtr

AdvanceGone == \A p \in Proc : pc[p] = "l_advance" => ctr = NoCtr

\* Of SettlingEventTornDown, too, the inductive part is about the last event.
LastWordTaken ==
    Readable /\ rec.auto /\ rec.offset > 0 /\ journal[rec.offset] \in Settling
        => ctr = NoCtr

DownParts == DownInv /\ ReadAllInv /\ IoInv /\ OverInv /\ AdvanceGone

EventInv == TeardownInv /\ PassInv /\ LastWordKept

\* A container that is not up stays so, and io/ goes only with the directory.
Calmly(p) ==
    /\ ctr.st # "running" => ctr'.st # "running"
    /\ io' = io \/ At(p, "c_rmtree")

\* With no new event, a row settles a task only if its container is down, and
\* interrupts it only then.
LEMMA ComputeDown ==
    ASSUME NEW status, NEW c, NEW e, ComputeStatus(status, c, e).transitioned
    PROVE  /\ ComputeStatus(status, c, e).status \in Terminal /\ e \notin Settling
                 => c # "running"
           /\ ComputeStatus(status, c, e).status = "interrupted" => c # "running"
  BY DEF ComputeStatus, FromRunning, FromCreated, FromWaiting, FromLost, Row, Stays, Becomes,
         Terminal, Settling

LEMMA HeldCalm ==
    ASSUME TypeOK, NEW p \in Proc, StopHeld(p) \/ RemoveHeld(p)
    PROVE  ctr.st # "running" => ctr'.st # "running"
  BY DEF TypeOK, Containers, StopHeld, RemoveHeld, NoCtr

LEMMA CalmStep ==
    ASSUME TypeOK, NoCreator, "recover" \notin Commands, NEW p \in Proc, Step(p) \/ Crash(p)
    PROVE  Calmly(p)
  <1>1. ~Start(p) /\ ~Recover(p)
    <2>1. ~Recover(p)
      BY DEF NoCreator, Recover, RecoverBegin, Begin, RecoverRead, RecoverGet,
             RecoverStop, RecoverRemove, RecoverCreate, RecoverRun, RecoverReload,
             RecoverCommit, RecoverKillStop, RecoverKillRemove, At, RecoverSteps
    <2>. QED
      BY <2>1, NotStarting DEF NoCreator
  <1>. USE DEF Calmly
  <1>2. CASE TeardownStop(p) \/ TeardownRemove(p) \/ CleanPrune(p)
    BY <1>2, HeldCalm DEF TeardownStop, TeardownRemove, CleanPrune, disk, tree
  <1>3. CASE Finish(p)
    BY <1>3 DEF Finish, FinishBegin, FinishRead, FinishProbe, world, disk, tree, docker
  <1>4. CASE Teardown(p) /\ ~TeardownStop(p) /\ ~TeardownRemove(p)
    BY <1>4 DEF Teardown, TeardownRead, TeardownGet, TeardownVerify, TeardownWorktree,
       TeardownRefuse, TeardownMark, world, disk, tree, docker
  <1>5. CASE List(p)
    BY <1>5 DEF List, ListBegin, ListSnapshot, ListRead, ListTail, ListCommit, ListAdvance,
       ListReread, world, disk, tree, docker
  <1>6. CASE Clean(p) /\ ~CleanPrune(p)
    BY <1>6 DEF Clean, CleanBegin, CleanRead, CleanScan, CleanCheck, CleanRmtree,
       CleanRescan, CleanRecheck, world, disk, tree, docker
  <1>7. CASE Crash(p)
    BY <1>7 DEF Crash, world, disk, tree, docker
  <1>. QED
    BY <1>1, <1>2, <1>3, <1>4, <1>5, <1>6, <1>7 DEF Step

LEMMA CrashSafe ==
    ASSUME TypeOK, NEW p \in Proc, Crash(p)
    PROVE  Safely(p)
  BY DEF Crash, Exit, Goto, Safely, TypeOK, StartSteps, RecoverSteps, world, docker

LEMMA PendingStable ==
    ASSUME NEW p \in Proc, Safely(p), Calmly(p), journal' = journal, NothingPending
    PROVE  NothingPending'
  BY DEF NothingPending, Safely, Calmly, PiSettled

\* A pass that settles the task leaves nothing to tear down.
LEMMA CommitPending ==
    ASSUME NEW p \in Proc, EventInv, DownParts, Carries, Commits(p),
           Readable, ComputedFor(p).transitioned, rec'.auto, rec'.status \in Terminal
    PROVE  NothingPending
  <1>1. TypeOK /\ PassInv /\ LastWordKept
    BY DEF EventInv, TeardownInv, LifecycleInv
  <1>2. /\ pc[p] = "l_commit" /\ rec.auto
        /\ rec.status = loc[p].snap.status /\ rec.offset = loc[p].snap.offset
        /\ rec'.status = ComputedFor(p).status
    BY DEF Commits, StaleState, Carries, KeepsVerdict, At
  <1>3. rec.status \notin Terminal
    BY <1>2, ComputeMoves DEF ComputedFor, Terminal
  <1>4. loc[p].snap.auto
    BY <1>1, <1>2 DEF PassInv, AutoInv, TailInv
  <1>5. loc[p].latest \notin Settling
    BY <1>2, <1>3, <1>4 DEF Commits, TerminalAutoPending, AutoFinishCanRun
  <1>6. loc[p].seen # "running"
    BY <1>2, <1>5, ComputeDown DEF ComputedFor
  <1>7. ctr.st # "running" /\ loc[p].newoff = Len(journal)
    BY <1>2, <1>3, <1>6 DEF DownParts, DownInv, ReadAllInv
  <1>8. ~PiSettled
    <2>1. PiSettled => loc[p].newoff > 0 /\ journal[loc[p].newoff] \in Settling
      <3>1. journal \in Seq(EventKinds)
        BY <1>1 DEF TypeOK
      <3>2. journal # << >> => Len(journal) > 0
        BY <3>1
      <3>. QED
        BY <1>7, <3>2 DEF PiSettled
    <2>. QED
      BY <1>1, <1>2, <1>3, <2>1, CommitKeepsEvent
  <1>. QED
    BY <1>7, <1>8 DEF NothingPending

LEMMA DownStep ==
    ASSUME EventInv, DownParts, NEW p \in Proc, Outcome(p), Locally(p), Safely(p),
           Calmly(p), journal' = journal
    PROVE  DownParts'
  <1>1. /\ TypeOK /\ PassInv /\ NoCreator /\ TornDownBeforeMarked /\ DoomedInv
        /\ DownInv /\ ReadAllInv /\ IoInv /\ OverInv /\ AdvanceGone
    BY DEF EventInv, TeardownInv, LifecycleInv, DownParts
  <1>2. \A q \in Proc \ {p} : pc'[q] = pc[q] /\ loc'[q] = loc[q]
    BY DEF Locally
  <1>3. loc[p] \in Locals
    BY <1>1 DEF TypeOK
  <1>4. Readable' => Readable /\ rec'.auto = rec.auto
    BY RemovedUnreadable DEF Outcome, Carries
  <1>5. DownInv'
    <2>1. ASSUME pc'[p] \in {"l_read", "l_tail", "l_commit"}, loc'[p].seen # "running"
          PROVE  ctr'.st # "running"
      <3>1. CASE Snapshots(p)
        <4>1. loc'[p].seen = ctr.st
          BY <1>3, <3>1 DEF Snapshots, Locals
        <4>. QED
          BY <2>1, <3>1, <4>1 DEF Snapshots, world, docker
      <3>2. CASE Reads(p) \/ Tails(p)
        <4>1. loc'[p].seen = loc[p].seen
          BY <1>3, <3>2 DEF Reads, Tails, Locals
        <4>. QED
          BY <1>1, <2>1, <3>2, <4>1 DEF Reads, Tails, At, DownInv, world, docker
      <3>. QED
        BY <2>1, <3>1, <3>2 DEF Locally, Resets, Proceeds, Rereads
    <2>. QED
      BY <1>1, <1>2, <2>1 DEF DownInv, Calmly
  <1>6. ReadAllInv'
    <2>1. ASSUME pc'[p] = "l_commit", Readable', rec'.status \notin Terminal
          PROVE  loc'[p].newoff = Len(journal)
      <3>1. Tails(p)
        BY <2>1 DEF Locally, Resets, Proceeds, Rereads, Snapshots, Reads
      <3>2. io
        BY <1>1, <1>4, <2>1, <3>1 DEF IoInv, Tails, world, disk
      <3>3. loc[p].snap.offset <= Len(journal)
        BY <1>1 DEF PassInv, OffsetInv
      <3>. QED
        BY <1>1, <3>1, <3>2, <3>3, OffsetTypes DEF Tails
    <2>2. Readable' /\ rec'.status \notin Terminal => rec.status \notin Terminal
      BY <1>1, SettledStays
    <2>. QED
      BY <1>1, <1>2, <1>4, <2>1, <2>2 DEF ReadAllInv
  <1>7. IoInv'
    <2>1. At(p, "c_rmtree") /\ Readable => rec.status \in Terminal
      BY <1>1 DEF DoomedInv, At
    <2>. SUFFICES ASSUME Readable', ~io'
                  PROVE  rec'.status \in Terminal
      BY DEF IoInv
    <2>2. rec.status \in Terminal
      BY <1>1, <1>4, <2>1 DEF IoInv, Calmly
    <2>. QED
      BY <1>1, <2>2, SettledStays
  <1>8. OverInv'
    <2>1. NothingPending => NothingPending'
      BY PendingStable
    <2>2. Readable' /\ Over(rec)' => NothingPending
      <3>. SUFFICES ASSUME Readable', Over(rec') PROVE NothingPending
        BY DEF Over, AutoFinishCanRun
      <3>1. Readable /\ rec.auto /\ rec'.auto /\ rec'.status \in Terminal
        BY <1>4 DEF Over, AutoFinishCanRun
      <3>2. CASE KeepsVerdict
        BY <1>1, <1>4, <3>1, <3>2 DEF KeepsVerdict, Over, AutoFinishCanRun, OverInv
      <3>3. CASE Commits(p) /\ ~KeepsVerdict /\ Carries
        BY <3>1, <3>3, CommitPending DEF Commits
      <3>4. ~(rec'.status = "failed" /\ rec'.reason = "finish")
        BY DEF Over, AutoFinishCanRun
      <3>5. CASE At(p, "t_mark")
        BY <1>1, <3>5 DEF TornDownBeforeMarked, At, NothingPending
      <3>6. ~At(p, "r_commit")
        BY <1>1 DEF NoCreator, RecoverSteps, At
      <3>. QED
        BY <3>2, <3>3, <3>4, <3>5, <3>6, RemovedUnreadable DEF Outcome
    <2>3. ASSUME pc'[p] \in {"l_tail", "l_commit"}, Over(loc'[p].snap)
          PROVE  /\ NothingPending
                 /\ pc'[p] = "l_commit" /\ loc'[p].latest \in Settling => ctr' = NoCtr
      <3>1. CASE Reads(p)
        <4>1. loc'[p].snap = rec /\ pc'[p] = "l_tail" /\ Readable
          BY <1>3, <3>1 DEF Reads, Locals
        <4>. QED
          BY <1>1, <2>3, <4>1 DEF OverInv
      <3>2. CASE Tails(p)
        <4>1. NothingPending
          BY <1>1, <2>3, <3>2 DEF OverInv, Tails, At
        <4>2. loc'[p].latest \in Settling => PiSettled
          <5>1. "none" \notin Settling
            BY DEF Settling
          <5>2. loc[p].snap.offset < Len(journal) => journal # << >>
            <6>1. loc[p].snap.offset \in Nat /\ Len(<< >>) = 0
              BY <1>1, OffsetTypes
            <6>. QED
              BY <6>1
          <5>. QED
            BY <3>2, <5>1, <5>2 DEF Tails, PiSettled
        <4>3. ctr' = ctr
          BY <3>2 DEF Tails, world, docker
        <4>. QED
          BY <4>1, <4>2, <4>3 DEF NothingPending
      <3>. QED
        BY <2>3, <3>1, <3>2 DEF Locally, Resets, Proceeds, Rereads, Snapshots
    <2>4. ctr = NoCtr => ctr' = NoCtr
      BY DEF Safely
    <2>5. ASSUME NEW q \in Proc \ {p}
          PROVE  /\ pc'[q] \in {"l_tail", "l_commit"} /\ Over(loc'[q].snap) => NothingPending'
                 /\ pc'[q] = "l_commit" /\ Over(loc'[q].snap) /\ loc'[q].latest \in Settling
                       => ctr' = NoCtr
      BY <1>1, <1>2, <2>1, <2>4, <2>5 DEF OverInv
    <2>6. /\ Readable' /\ Over(rec') => NothingPending'
          /\ \A q \in Proc :
                /\ pc'[q] \in {"l_tail", "l_commit"} /\ Over(loc'[q].snap) => NothingPending'
                /\ pc'[q] = "l_commit" /\ Over(loc'[q].snap) /\ loc'[q].latest \in Settling
                      => ctr' = NoCtr
      <3>1. Over(rec') = Over(rec)'
        BY DEF Over, AutoFinishCanRun
      <3>. QED
        BY <2>1, <2>2, <2>3, <2>5, <3>1
    <2>. QED
      BY <2>6 DEF OverInv, Over, AutoFinishCanRun
  <1>9. AdvanceGone'
    <2>1. pc'[p] = "l_advance" => At(p, "t_mark")
      BY DEF Locally, Resets, Proceeds, Rereads, Snapshots, Reads, Tails
    <2>. QED
      BY <1>1, <1>2, <2>1 DEF AdvanceGone, TornDownBeforeMarked, Safely, At
  <1>. QED
    BY <1>5, <1>6, <1>7, <1>8, <1>9 DEF DownParts

\* What Pi and its container do on their own needs the container up.
LEMMA EnvironmentDown ==
    ASSUME EventInv, DownParts, Environment \/ UNCHANGED vars
    PROVE  DownParts'
  <1>1. DownInv /\ ReadAllInv /\ IoInv /\ OverInv /\ AdvanceGone
    BY DEF DownParts
  <1>2. ctr.st # "running" => ctr' = ctr /\ journal' = journal
    BY DEF Environment, PiSignals, PiWritesLog, ContainerStops, vars, world, docker, disk, tree
  <1>3. rec' = rec /\ pc' = pc /\ loc' = loc /\ io' = io
    BY SignalAppends, QuietEnvironment DEF Environment, EventInv, TeardownInv, LifecycleInv
  <1>4. NothingPending => ctr' = ctr /\ journal' = journal
    BY <1>2 DEF NothingPending, NoCtr
  <1>5. DownInv' /\ ReadAllInv'
    BY <1>1, <1>2, <1>3 DEF DownInv, ReadAllInv, Readable
  <1>6. IoInv' /\ AdvanceGone'
    <2>1. ctr = NoCtr => ctr' = NoCtr
      BY <1>2 DEF NoCtr
    <2>. QED
      BY <1>1, <1>3, <2>1 DEF IoInv, AdvanceGone, Readable
  <1>7. OverInv'
    <2>1. NothingPending => NothingPending'
      BY <1>4 DEF NothingPending, PiSettled
    <2>2. ctr = NoCtr => ctr' = NoCtr
      BY <1>4 DEF NothingPending
    <2>. QED
      BY <1>1, <1>3, <2>1, <2>2 DEF OverInv, Readable, Over, AutoFinishCanRun
  <1>. QED
    BY <1>5, <1>6, <1>7 DEF DownParts

LEMMA TornDownStep ==
    ASSUME EventInv, DownParts, LastWordTaken, NEW p \in Proc, Outcome(p),
           Safely(p), journal' = journal
    PROVE  LastWordTaken'
  <1>. SUFFICES ASSUME Readable', rec'.auto, rec'.offset > 0, journal[rec'.offset] \in Settling
                PROVE  ctr = NoCtr
    BY DEF LastWordTaken, Safely
  <1>1. Carries /\ Readable /\ rec.auto
    BY RemovedUnreadable DEF Outcome, Carries
  <1>2. CASE rec'.offset = rec.offset
    BY <1>1, <1>2 DEF LastWordTaken
  <1>3. CASE At(p, "l_advance")
    BY <1>3 DEF DownParts, AdvanceGone, At
  <1>4. CASE Commits(p)
    <2>1. TypeOK /\ PassInv
      BY DEF EventInv, TeardownInv, LifecycleInv
    <2>2. pc[p] = "l_commit" /\ rec.offset = loc[p].snap.offset /\ rec'.offset = loc[p].newoff
      BY <1>4 DEF Commits, StaleState, At
    <2>3. CASE loc[p].latest = "none" /\ loc[p].newoff = loc[p].snap.offset
      BY <1>1, <2>2, <2>3 DEF LastWordTaken
    <2>4. CASE loc[p].latest = journal[loc[p].newoff]
      <3>1. loc[p].latest \in Settling /\ loc[p].snap.auto
        BY <1>1, <2>1, <2>2, <2>4 DEF PassInv, AutoInv, TailInv
      <3>2. Over(loc[p].snap)
        BY <1>4, <3>1 DEF Commits, TerminalAutoPending, Over
      <3>. QED
        BY <2>2, <3>1, <3>2 DEF DownParts, OverInv
    <2>. QED
      BY <2>1, <2>2, <2>3, <2>4 DEF PassInv, TailInv
  <1>. QED
    BY <1>1, <1>2, <1>3, <1>4, RemovedUnreadable DEF Outcome

\* A step of an invocation, once neither start nor recover is among them.
LEMMA PassingStep ==
    ASSUME "recover" \notin Commands, TypeOK, NoCreator, NEW p \in Proc, Step(p) \/ Crash(p)
    PROVE  /\ Outcome(p) /\ Locally(p) /\ Safely(p) /\ Calmly(p)
           /\ journal' = journal
  BY NotStarting, StepOutcome, StepLocally, SafeStep, CrashSafe, CalmStep, StepKeepsJournal
  DEF NoCreator

LEMMA DownInductive ==
    ASSUME "recover" \notin Commands, EventInv, DownParts, LastWordTaken, [Next]_vars
    PROVE  EventInv' /\ DownParts' /\ LastWordTaken'
  <1>1. EventInv'
    BY TeardownInvInductive, EventInvInductive DEF EventInv, TeardownInv
  <1>2. TypeOK /\ NoCreator
    BY DEF EventInv, TeardownInv, LifecycleInv
  <1>3. ASSUME NEW p \in Proc, Step(p) \/ Crash(p)
        PROVE  DownParts' /\ LastWordTaken'
    BY <1>2, <1>3, PassingStep, DownStep, TornDownStep
  <1>4. CASE Environment \/ UNCHANGED vars
    <2>1. DownParts'
      BY <1>4, EnvironmentDown
    <2>2. LastWordTaken'
      <3>1. rec' = rec /\ (ctr = NoCtr => ctr' = NoCtr)
        BY <1>4 DEF Environment, PiSignals, PiWritesLog, ContainerStops, vars, world, docker,
           disk, NoCtr
      <3>2. rec.offset > 0 => journal'[rec.offset] = journal[rec.offset]
        <4>1. rec.offset <= Len(journal)
          BY DEF EventInv, PassInv, OffsetInv
        <4>2. rec.offset > 0 => rec.offset \in 1..Len(journal)
          BY <1>2, <4>1, OffsetTypes
        <4>. QED
          BY <1>2, <1>4, <4>2, SignalAppends, QuietEnvironment DEF Environment
      <3>. QED
        BY <3>1, <3>2 DEF LastWordTaken, Readable
    <2>. QED
      BY <1>1, <2>1, <2>2
  <1>. QED
    BY <1>1, <1>3, <1>4 DEF Next

LEMMA DownInit == InitStarted => EventInv /\ DownParts /\ LastWordTaken
  <1>. SUFFICES ASSUME InitStarted PROVE EventInv /\ DownParts /\ LastWordTaken
    OBVIOUS
  <1>1. LifecycleInv /\ PassInv /\ LastWordKept
    BY LifecycleInvInit, EventInvInit
  <1>2. rec.offset = 0 /\ rec.status = "running" /\ io = TRUE
    BY DEF InitStarted, NoRec
  <1>3. \A p \in Proc : pc[p] = "idle"
    BY DEF InitStarted
  <1>. QED
    BY <1>1, <1>2, <1>3
    DEF EventInv, TeardownInv, LifecycleInv, NoCreator, TornDownBeforeMarked, RecoverSteps,
        DownParts, DownInv, ReadAllInv, IoInv, OverInv, Over, AutoFinishCanRun, AdvanceGone,
        Terminal, LastWordTaken

\* A Pi that is silent after done or fail says them last.
SilentInv == \A i \in 1..Len(journal) - 1 : journal[i] \notin Settling

LEMMA SilentInductive ==
    ASSUME ChattyPi = FALSE, TypeOK, SilentInv, [Next]_vars
    PROVE  SilentInv'
  <1>1. CASE PiSignals
    <2>1. /\ Len(journal) \in Nat /\ Len(journal') = Len(journal) + 1
          /\ \A i \in 1..Len(journal) : journal'[i] = journal[i]
      BY <1>1, SignalAppends, OffsetTypes
    <2>2. Len(journal) > 0 => journal[Len(journal)] \notin Settling
      <3>1. Len(<< >>) = 0
        OBVIOUS
      <3>. QED
        BY <1>1, <3>1 DEF PiSignals, PiSettled
    <2>3. ASSUME NEW i \in 1..Len(journal') - 1
          PROVE  journal'[i] \notin Settling
      <3>1. i \in 1..Len(journal) /\ (i = Len(journal) \/ i \in 1..Len(journal) - 1)
        BY <2>1
      <3>. QED
        BY <2>1, <2>2, <3>1 DEF SilentInv
    <2>. QED
      BY <2>3 DEF SilentInv, Settling
  <1>2. CASE journal' = journal
    BY <1>2 DEF SilentInv
  <1>. QED
    BY <1>1, <1>2, StepKeepsJournal, QuietEnvironment DEF Next, Environment

LEMMA TakenIsDown ==
    ASSUME EventInv, LastWordTaken, SilentInv
    PROVE  SettlingEventTornDown
  <1>. SUFFICES ASSUME Readable, rec.auto, NEW i \in 1..rec.offset, journal[i] \in Settling
                PROVE  ctr = NoCtr
    BY DEF SettlingEventTornDown
  <1>1. TypeOK /\ rec.offset <= Len(journal)
    BY DEF EventInv, TeardownInv, LifecycleInv, PassInv, OffsetInv
  <1>2. i \notin 1..Len(journal) - 1
    BY DEF SilentInv
  <1>3. i = rec.offset /\ rec.offset > 0
    BY <1>1, <1>2, OffsetTypes
  <1>. QED
    BY <1>3 DEF LastWordTaken

\* list_cmd.py:224-238: as long as done and fail are Pi's last word, the
\* container is gone once one of them is behind events_offset: no pass of list
\* or reap takes the event for one that something else has dealt with.
THEOREM SettlingEventTaken ==
    ASSUME "recover" \notin Commands, ChattyPi = FALSE
    PROVE  SpecStarted => []SettlingEventTornDown
  <1>1. InitStarted => SilentInv
    <2>1. Len(<< >>) = 0
      OBVIOUS
    <2>. QED
      BY <2>1 DEF InitStarted, SilentInv
  <1>2. EventInv => TypeOK
    BY DEF EventInv, TeardownInv, LifecycleInv
  <1>. QED
    BY <1>1, <1>2, DownInit, DownInductive, SilentInductive, TakenIsDown, PTL DEF SpecStarted
----------------------------------------------------------------------------
(* list's verdict on a container that is not up.                           *)

LEMMA InterruptedStep ==
    ASSUME "recover" \notin Commands, EventInv, DownParts, [Next]_vars,
           rec.status \in {"running", "waiting_for_user"}, rec'.status = "interrupted"
    PROVE  ctr.st # "running"
  <1>1. TypeOK /\ NoCreator
    BY DEF EventInv, TeardownInv, LifecycleInv
  <1>2. rec' # rec
    OBVIOUS
  <1>3. PICK p \in Proc : Outcome(p)
    <2>1. ~(Environment \/ UNCHANGED vars)
      BY <1>1, <1>2, SignalAppends, QuietEnvironment DEF Environment
    <2>. QED
      BY <1>1, <2>1, PassingStep DEF Next
  <1>4. Commits(p) /\ ComputedFor(p).transitioned /\ ComputedFor(p).status = "interrupted"
    <2>1. loc[p].target # "interrupted"
      BY <1>1 DEF TypeOK, Locals, Terminal
    <2>2. ~Removes
      <3>1. NoRec.status = ""
        BY DEF NoRec
      <3>. QED
        BY <3>1 DEF Removes
    <2>. QED
      BY <1>3, <2>1, <2>2 DEF Outcome, KeepsVerdict, Commits
  <1>5. loc[p].seen # "running"
    BY <1>4, ComputeDown DEF ComputedFor
  <1>. QED
    BY <1>4, <1>5 DEF Commits, At, DownParts, DownInv

\* reconcile.py:131-139: without recover, a listing that shows the container
\* down cannot be overtaken by one coming up, so a task recorded as interrupted
\* really has none.
THEOREM InterruptedIsDown ==
    ASSUME "recover" \notin Commands
    PROVE  SpecStarted => InterruptedOnlyWhenDown
  BY DownInit, DownInductive, InterruptedStep, PTL DEF SpecStarted, InterruptedOnlyWhenDown
----------------------------------------------------------------------------
(* The offset moves forward.  Only reap's _advance_offset writes without a *)
(* comparison, and it holds the offset of Pi's last word.                  *)

\* Between a tail that found a done or fail and the end of reap's teardown,
\* that event is the last of the journal.
LastWord(p) == loc[p].newoff = Len(journal) /\ PiSettled

FrozenInv ==
    \A p \in Proc :
        /\ pc[p] = "l_commit" /\ loc[p].latest \in Settling => LastWord(p)
        /\ pc[p] \in TeardownSteps /\ loc[p].cmd = "reap" => LastWord(p)
        /\ pc[p] = "l_advance" => LastWord(p)
        /\ pc[p] \in FinishSteps => loc[p].cmd = "finish"

LEMMA FrozenStep ==
    ASSUME TypeOK, FrozenInv, NEW p \in Proc, Locally(p), journal' = journal
    PROVE  FrozenInv'
  <1>1. \A q \in Proc \ {p} : pc'[q] = pc[q] /\ loc'[q] = loc[q]
    BY DEF Locally
  <1>2. loc[p] \in Locals
    BY DEF TypeOK
  <1> DEFINE Frozen ==
        /\ pc'[p] = "l_commit" /\ loc'[p].latest \in Settling
              => loc'[p].newoff = Len(journal) /\ PiSettled
        /\ pc'[p] \in TeardownSteps /\ loc'[p].cmd = "reap"
              => loc'[p].newoff = Len(journal) /\ PiSettled
        /\ pc'[p] = "l_advance" => loc'[p].newoff = Len(journal) /\ PiSettled
        /\ pc'[p] \in FinishSteps => loc'[p].cmd = "finish"
  <1>3. Frozen
    <2>. USE DEF TeardownSteps, FinishSteps
    <2>1. CASE Resets(p)
      BY <2>1 DEF Resets
    <2>2. CASE Proceeds(p)
      BY <2>2 DEF Proceeds, SameTail, FrozenInv, LastWord, At
    <2>3. CASE Rereads(p)
      <3>1. loc'[p].cmd = loc[p].cmd /\ loc'[p].newoff = loc[p].newoff
        BY <1>2, <2>3 DEF Rereads, Locals
      <3>. QED
        BY <2>3, <3>1 DEF Rereads, FrozenInv, LastWord, At
    <2>4. CASE Snapshots(p) \/ Reads(p)
      BY <2>4 DEF Snapshots, Reads
    <2>5. CASE Tails(p)
      <3>1. "none" \notin Settling
        BY DEF Settling
      <3>2. loc[p].snap.offset < Len(journal) => journal # << >>
        <4>1. loc[p].snap.offset \in Nat /\ Len(<< >>) = 0
          BY OffsetTypes
        <4>. QED
          BY <4>1
      <3>. QED
        BY <2>5, <3>1, <3>2 DEF Tails, PiSettled
    <2>. QED
      BY <2>1, <2>2, <2>3, <2>4, <2>5 DEF Locally
  <1>. QED
    BY <1>1, <1>3 DEF FrozenInv, LastWord, PiSettled

LEMMA FrozenInductive ==
    ASSUME ChattyPi = FALSE, LifecycleInv, FrozenInv, [Next]_vars
    PROVE  FrozenInv'
  <1>1. TypeOK /\ NoStarter
    BY DEF LifecycleInv
  <1>2. ASSUME NEW p \in Proc, Step(p) \/ Crash(p)
        PROVE  FrozenInv'
    BY <1>1, <1>2, NotStarting, StepLocally, StepKeepsJournal, FrozenStep
  <1>3. CASE PiSignals
    <2>1. ~PiSettled /\ pc' = pc /\ loc' = loc
      BY <1>1, <1>3, SignalAppends DEF PiSignals
    <2>. QED
      BY <2>1 DEF FrozenInv, LastWord
  <1>4. CASE PiWritesLog \/ ContainerStops \/ UNCHANGED vars
    BY <1>4, QuietEnvironment DEF FrozenInv, LastWord, PiSettled
  <1>. QED
    BY <1>2, <1>3, <1>4 DEF Next, Environment

LEMMA ForwardStep ==
    ASSUME LifecycleInv, PassInv, FrozenInv, [Next]_vars, Readable'
    PROVE  rec'.offset >= rec.offset
  <1>1. TypeOK /\ NoStarter
    BY DEF LifecycleInv
  <1>2. ASSUME NEW p \in Proc, Outcome(p)
        PROVE  rec'.offset >= rec.offset
    <2>1. ~Removes
      BY RemovedUnreadable
    <2>2. CASE rec'.offset = rec.offset
      BY <1>1, <2>2, OffsetTypes
    <2>3. CASE At(p, "l_advance") /\ rec'.offset = loc[p].newoff
      <3>1. rec'.offset = Len(journal)
        BY <2>3 DEF FrozenInv, LastWord, At
      <3>. QED
        BY <1>1, <3>1, OffsetTypes DEF PassInv, OffsetInv
    <2>4. CASE Commits(p)
      <3>1. /\ rec'.offset = loc[p].newoff /\ rec.offset = loc[p].snap.offset
            /\ pc[p] = "l_commit"
        BY <2>4 DEF Commits, StaleState, At
      <3>2. loc[p].newoff = loc[p].snap.offset \/ loc[p].newoff > loc[p].snap.offset
        BY <3>1 DEF PassInv, TailInv
      <3>. QED
        BY <1>1, <3>1, <3>2, OffsetTypes
    <2>. QED
      BY <1>2, <2>1, <2>2, <2>3, <2>4 DEF Outcome
  <1>3. CASE Environment \/ UNCHANGED vars
    BY <1>1, <1>3, SignalAppends, QuietEnvironment, OffsetTypes DEF Environment
  <1>. QED
    BY <1>1, <1>2, <1>3, NotStarting, StepOutcome DEF Next

\* list_cmd.py:313-316: as long as done and fail are Pi's last word, no
\* interleaving of passes, teardowns, recovers and cleans takes events_offset
\* back over events that were consumed, although _advance_offset does not
\* compare it with the one in task.json.
THEOREM OffsetAdvances ==
    ASSUME ChattyPi = FALSE
    PROVE  SpecStarted => OffsetNeverRewinds
  <1>1. InitStarted => FrozenInv
    BY DEF InitStarted, FrozenInv, TeardownSteps, FinishSteps
  <1>. QED
    BY <1>1, LifecycleInvInit, LifecycleInvInductive, EventInvInit, EventInvInductive,
       FrozenInductive, ForwardStep, PTL
    DEF SpecStarted, OffsetNeverRewinds
==============================================================================
