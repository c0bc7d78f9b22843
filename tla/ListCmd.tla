------------------------------- MODULE ListCmd -------------------------------
(***************************************************************************)
(* list_cmd.run and _reconcile_one: `list`, `reap` and `reap --dry-run`.   *)
(* One containers.list comes first; task.json, the journal tail and the    *)
(* log size are read after it, and the result is written by a mutator that *)
(* compares status and offset with what was read.                          *)
(***************************************************************************)
EXTENDS TaskState

ListBegin(p) ==
    /\ \E cmd \in {"list", "reap", "dry_reap"} :
          /\ Begin(p, cmd, "l_snapshot")
          /\ loc' = [loc EXCEPT ![p] = [IdleLoc EXCEPT !.cmd = cmd]]
    /\ UNCHANGED world

\* client.containers.list
ListSnapshot(p) ==
    /\ At(p, "l_snapshot")
    /\ \/ Goto(p, "l_read") /\ loc' = [loc EXCEPT ![p].seen = ctr.st]
       \/ DockerFails /\ Exit(p)
    /\ UNCHANGED world

\* _enumerate_tasks skips a missing directory and an unreadable task.json.
ListRead(p) ==
    /\ At(p, "l_read")
    /\ \/ /\ dir /\ Readable
          /\ Goto(p, "l_tail")
          /\ loc' = [loc EXCEPT ![p].snap = rec]
       \/ ~(dir /\ Readable) /\ Exit(p)
    /\ UNCHANGED world

\* events_tail.tail_events and the terminal.log growth check.  A missing
\* journal keeps the offset, a missing log has size 0.
ListTail(p) ==
    LET offset == loc[p].snap.offset
        size == IF io THEN log ELSE 0
    IN  /\ At(p, "l_tail")
        /\ loc' = [loc EXCEPT
              ![p].newoff = IF io /\ offset < Len(journal) THEN Len(journal) ELSE offset,
              ![p].latest = IF io /\ offset < Len(journal)
                            THEN journal[Len(journal)] ELSE "none",
              ![p].newmax = IF size < loc[p].snap.maxlog THEN loc[p].snap.maxlog ELSE size]
        /\ Goto(p, "l_commit")
        /\ UNCHANGED world
----------------------------------------------------------------------------
\* Mutants: an interrupted task is left to recover; a failed teardown is final.
AutoFinishCanRunLive(d) ==
    \/ d.status \in {"created", "running", "waiting_for_user"}
    \/ d.status = "failed" /\ d.reason = "finish"
AutoFinishCanRunOnce(d) == d.status \notin Terminal

AutoFinishCanRun(d) ==
    d.status \notin Terminal \/ (d.status = "failed" /\ d.reason = "finish")

\* A settling event of an --auto-finish task waits for reap's teardown.
TerminalAutoPending(p) ==
    /\ loc[p].snap.auto
    /\ loc[p].latest \in Settling
    /\ AutoFinishCanRun(loc[p].snap)

\* Mutants: one leg only.
StaleOffset(p) == rec.offset # loc[p].snap.offset
StaleStatus(p) == rec.status # loc[p].snap.status

\* Both legs of the compare-and-set.
StaleState(p) ==
    \/ rec.offset # loc[p].snap.offset
    \/ rec.status # loc[p].snap.status

ComputedFor(p) == ComputeStatus(loc[p].snap.status, loc[p].seen, loc[p].latest)

\* Mutant: the size is written without comparing it with the file's.
LogOverwritten(p) == [rec EXCEPT !.maxlog = loc[p].newmax]

LogRaised(p) ==
    [rec EXCEPT !.maxlog = IF loc[p].newmax > @ THEN loc[p].newmax ELSE @]

\* The contents a fresh, unheld pass publishes.
Reconciled(p) ==
    LET row == ComputedFor(p)
        moved == [LogRaised(p) EXCEPT !.offset = loc[p].newoff]
    IN  IF ~row.transitioned THEN moved
        ELSE [moved EXCEPT
                !.status = row.status,
                !.reason = IF row.reason # "none" THEN row.reason
                           ELSE IF loc[p].latest = "fail" /\ row.status = "failed"
                                THEN "signal" ELSE @]

\* The mutator under update_task; --dry-run writes nothing.
ListCommit(p) ==
    /\ At(p, "l_commit")
    /\ \/ /\ loc[p].cmd = "dry_reap"
          /\ Goto(p, "l_reread")
          /\ UNCHANGED <<rec, dir, loc>>
       \/ /\ loc[p].cmd # "dry_reap" /\ StaleState(p)
          /\ UpdateTask(LogRaised(p))
          /\ Goto(p, "l_reread") /\ UNCHANGED loc
       \/ /\ loc[p].cmd # "dry_reap" /\ ~StaleState(p) /\ ~TerminalAutoPending(p)
          /\ UpdateTask(Reconciled(p))
          /\ Goto(p, "l_reread") /\ UNCHANGED loc
       \/ /\ loc[p].cmd = "list" /\ ~StaleState(p) /\ TerminalAutoPending(p)
          /\ UpdateTask(LogRaised(p))
          /\ Goto(p, "l_reread") /\ UNCHANGED loc
       \/ /\ loc[p].cmd = "reap" /\ ~StaleState(p) /\ TerminalAutoPending(p)
          /\ UpdateTask(LogRaised(p))
          /\ Goto(p, "t_read")
          /\ loc' = [loc EXCEPT
                ![p].target = IF loc[p].latest = "done" THEN "completed" ELSE "failed",
                ![p].reason = IF loc[p].latest = "fail" THEN "signal" ELSE "none"]
    /\ UNCHANGED <<tree, docker, allocated>>

\* _advance_offset after a successful inline teardown: no comparison.
ListAdvance(p) ==
    /\ At(p, "l_advance")
    /\ UpdateTask([rec EXCEPT !.offset = loc[p].newoff])
    /\ Goto(p, "l_reread")
    /\ UNCHANGED <<tree, docker, allocated, loc>>

\* read_task once more for the row.
ListReread(p) ==
    /\ At(p, "l_reread")
    /\ ReadTouches
    /\ Exit(p)
    /\ UNCHANGED <<rec, tree, docker, allocated>>

List(p) ==
    \/ ListBegin(p) \/ ListSnapshot(p) \/ ListRead(p) \/ ListTail(p)
    \/ ListCommit(p) \/ ListAdvance(p) \/ ListReread(p)
==============================================================================
