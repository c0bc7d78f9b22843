---------------------------- MODULE TaskLifecycle ----------------------------
(***************************************************************************)
(* What task.json promises about one task, whatever commands run and in    *)
(* whatever order they overlap: the phases a task moves through and the    *)
(* recovery counter.  A settled task (completed, failed, cancelled) never  *)
(* becomes active again; only a settled task is removed; only recover      *)
(* leaves interrupted for active, and each such step counts exactly one    *)
(* recovery.  "removed" is final: the directory was cleaned, or the start  *)
(* that owned the id died before it published task.json.                   *)
(***************************************************************************)
EXTENDS Naturals

VARIABLES phase, recoveries

Phases == {"none", "created", "active", "interrupted", "settled", "removed"}

TypeInvariant == phase \in Phases /\ recoveries \in Nat

Init == phase = "none" /\ recoveries = 0

InitActive == phase = "active" /\ recoveries = 0

Scaffold == phase = "none" /\ phase' = "created" /\ UNCHANGED recoveries

Activate == phase = "created" /\ phase' = "active" /\ UNCHANGED recoveries

Interrupt == phase = "active" /\ phase' = "interrupted" /\ UNCHANGED recoveries

Recovered ==
    /\ phase = "interrupted"
    /\ phase' = "active"
    /\ recoveries' = recoveries + 1

Settle ==
    /\ phase \in {"created", "active", "interrupted"}
    /\ phase' = "settled"
    /\ UNCHANGED recoveries

Remove == phase = "settled" /\ phase' = "removed" /\ recoveries' = 0

Abandon == phase = "none" /\ phase' = "removed" /\ UNCHANGED recoveries

Next == Scaffold \/ Abandon \/ Activate
        \/ Interrupt \/ Recovered \/ Settle \/ Remove

Spec == Init /\ [][Next]_<<phase, recoveries>>

SpecActive == InitActive /\ [][Next]_<<phase, recoveries>>
==============================================================================
