----------------------------- MODULE AtomicRecord -----------------------------
(***************************************************************************)
(* What store.py promises about task.json: each update_task is one atomic  *)
(* read-modify-write, and a power loss leaves some complete contents that  *)
(* had been published.  The contents are abstracted to the number of       *)
(* updates of each process that they reflect.                              *)
(***************************************************************************)
EXTENDS Naturals

CONSTANT Proc
VARIABLES record, published

Contents == [Proc -> Nat]

Init == record = [p \in Proc |-> 0] /\ published = {record}

Update(p) ==
    /\ record' = [record EXCEPT ![p] = @ + 1]
    /\ published' = published \cup {record'}

PowerLoss == record' \in published /\ UNCHANGED published

Next == PowerLoss \/ \E p \in Proc : Update(p)

Spec == Init /\ [][Next]_<<record, published>>
==============================================================================
