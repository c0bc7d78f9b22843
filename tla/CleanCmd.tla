------------------------------- MODULE CleanCmd -------------------------------
(***************************************************************************)
(* clean.run: remove the directory of a terminal task that is old enough,  *)
(* then force-remove managed containers whose task directory is missing.   *)
(* Candidates are read once, before the prompt; neither the status nor the *)
(* lock is consulted again when the directory is removed.  Whether the     *)
(* task is older than the threshold is a free choice.                      *)
(***************************************************************************)
EXTENDS TaskState

CleanBegin(p) ==
    /\ Begin(p, "clean", "c_read")
    /\ loc' = [loc EXCEPT ![p] = [IdleLoc EXCEPT !.cmd = "clean"]]
    /\ UNCHANGED world

\* Mutant: whatever is not live is a candidate, interrupted tasks included.
CleanReadNotLive(p) ==
    /\ At(p, "c_read")
    /\ \E doomed \in BOOLEAN :
          /\ doomed => dir /\ Readable /\ rec.status \notin {"running", "waiting_for_user"}
          /\ loc' = [loc EXCEPT ![p].doomed = doomed]
    /\ Goto(p, "c_scan")
    /\ UNCHANGED world

\* _enumerate_candidates
CleanRead(p) ==
    /\ At(p, "c_read")
    /\ \E doomed \in BOOLEAN :
          /\ doomed => dir /\ Readable /\ rec.status \in Terminal
          /\ loc' = [loc EXCEPT ![p].doomed = doomed]
    /\ Goto(p, "c_scan")
    /\ UNCHANGED world

\* The listing half of _enumerate_orphans; an unreachable daemon lists nothing.
Scan(p) ==
    \/ loc' = [loc EXCEPT ![p].handle = ctr.id]
    \/ DockerFails /\ loc' = [loc EXCEPT ![p].handle = 0]

\* The other half: the listed container is an orphan if the directory is gone.
Orphaned(p) == loc[p].handle # 0 /\ ~dir

CleanScan(p) ==
    /\ At(p, "c_scan")
    /\ Scan(p)
    /\ Goto(p, "c_check")
    /\ UNCHANGED world

\* Nothing to clean, --dry-run and a declined prompt stop here.
CleanCheck(p) ==
    /\ At(p, "c_check")
    /\ \/ Exit(p)
       \/ /\ loc[p].doomed \/ Orphaned(p)
          /\ Goto(p, IF loc[p].doomed THEN "c_rmtree" ELSE "c_rescan")
          /\ UNCHANGED loc
    /\ UNCHANGED world

\* Mutant: the contents go, the directory itself stays.
CleanRmtreeKeepsRoot(p) ==
    /\ At(p, "c_rmtree")
    /\ dir' = dir /\ rec' = NoRec /\ io' = FALSE /\ wt' = FALSE
    /\ Goto(p, "c_rescan")
    /\ UNCHANGED <<journal, log, docker, allocated, loc>>

\* shutil.rmtree: everything, or an OSError after any part of it.
CleanRmtree(p) ==
    /\ At(p, "c_rmtree")
    /\ \/ dir' = FALSE /\ rec' = NoRec /\ io' = FALSE /\ wt' = FALSE
       \/ /\ "rmtree" \in Faults \/ ~dir
          /\ dir' = dir
          /\ rec' \in {rec, NoRec} /\ io' \in {io, FALSE} /\ wt' \in {wt, FALSE}
    /\ Goto(p, "c_rescan")
    /\ UNCHANGED <<journal, log, docker, allocated, loc>>

CleanRescan(p) ==
    /\ At(p, "c_rescan")
    /\ Scan(p)
    /\ Goto(p, "c_recheck")
    /\ UNCHANGED world

CleanRecheck(p) ==
    /\ At(p, "c_recheck")
    /\ \/ Orphaned(p) /\ Goto(p, "c_prune") /\ UNCHANGED loc
       \/ ~Orphaned(p) /\ Exit(p)
    /\ UNCHANGED world

CleanPrune(p) ==
    /\ At(p, "c_prune")
    /\ RemoveHeld(p)
    /\ Exit(p)
    /\ UNCHANGED <<disk, made, allocated>>

Clean(p) ==
    \/ CleanBegin(p) \/ CleanRead(p) \/ CleanScan(p) \/ CleanCheck(p)
    \/ CleanRmtree(p) \/ CleanRescan(p) \/ CleanRecheck(p) \/ CleanPrune(p)
==============================================================================
