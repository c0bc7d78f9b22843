----------------------------- MODULE IdAllocator -----------------------------
(***************************************************************************)
(* ids.allocate_task_id for one project alias: the flock, the counter file *)
(* and the scan of tasks/, run by concurrent `naiw-tasks start` commands   *)
(* that may die between any two steps, while clean removes directories and *)
(* the operator makes some by hand (scripts/naiw-new-task.sh).             *)
(* An id <alias>-NNN is its number.                                        *)
(***************************************************************************)
EXTENDS Naturals, Sequences

CONSTANTS
    Proc,             \* concurrent starts
    None,             \* nobody holds the lock
    AliasLength,      \* length of the alias, at most 60 (PROJECT_ALIAS_RE)
    InitialCounters,  \* values the counter file may start with; 0: missing
    InitialDirs,      \* numbers that may have a directory at the start
    HandMade,         \* numbers naiw-new-task.sh may be called with
    MaxCounter        \* bound: no start begins with a higher counter

ASSUME NoneAssumption == None \notin Proc
ASSUME NumbersAssumption ==
    /\ AliasLength \in 1..60
    /\ InitialCounters \subseteq Nat
    /\ InitialDirs \subseteq Nat /\ HandMade \subseteq Nat
    /\ MaxCounter \in Nat

VARIABLES
    counter,  \* .counters/<alias>.txt
    dirs,     \* numbers whose directory exists under tasks/
    lock,     \* holder of the flock on .locks/<alias>.lock
    issued,   \* every id returned so far, in the order they were returned
    pc, seen, candidate   \* control point and locals of each start

vars == <<counter, dirs, lock, issued, pc, seen, candidate>>

Critical == {"read", "scan", "check", "publish", "return"}
Points == {"idle", "lock", "skeleton"} \cup Critical

\* Length of the decimal number as {candidate:03d} prints it.
Digits(n) == IF n < 1000 THEN 3 ELSE IF n < 10000 THEN 4 ELSE 5

\* TASK_ID_RE: at most 64 characters, alias and hyphen included.
Fits(n) == AliasLength + 1 + Digits(n) <= 64

Init ==
    /\ counter \in InitialCounters
    /\ dirs \in SUBSET InitialDirs
    /\ lock = None
    /\ issued = << >>
    /\ pc = [p \in Proc |-> "idle"]
    /\ seen = [p \in Proc |-> 0]
    /\ candidate = [p \in Proc |-> 0]

At(p, point) == pc[p] = point
Goto(p, point) == pc' = [pc EXCEPT ![p] = point]

Begin(p) ==
    /\ At(p, "idle")
    /\ counter < MaxCounter
    /\ Goto(p, "lock")
    /\ UNCHANGED <<counter, dirs, lock, issued, seen, candidate>>

Lock(p) ==
    /\ At(p, "lock")
    /\ lock = None
    /\ lock' = p
    /\ Goto(p, "read")
    /\ UNCHANGED <<counter, dirs, issued, seen, candidate>>

ReadCounter(p) ==
    /\ At(p, "read")
    /\ seen' = [seen EXCEPT ![p] = counter]
    /\ Goto(p, "scan")
    /\ UNCHANGED <<counter, dirs, lock, issued, candidate>>

\* Mutant: the directories are not looked at.
ScanNothing(p) ==
    /\ At(p, "scan")
    /\ candidate' = [candidate EXCEPT ![p] = seen[p] + 1]
    /\ Goto(p, "check")
    /\ UNCHANGED <<counter, dirs, lock, issued, seen>>

\* candidate = max(counter + 1, highest existing number + 1)
ScanDirs(p) ==
    /\ At(p, "scan")
    /\ \E n \in {seen[p] + 1} \cup {d + 1 : d \in dirs} :
          /\ n > seen[p]
          /\ \A d \in dirs : n > d
          /\ candidate' = [candidate EXCEPT ![p] = n]
    /\ Goto(p, "check")
    /\ UNCHANGED <<counter, dirs, lock, issued, seen>>

\* validate_task_id on the composed id.
Accept(p) ==
    /\ At(p, "check")
    /\ Fits(candidate[p])
    /\ Goto(p, "publish")
    /\ UNCHANGED <<counter, dirs, lock, issued, seen, candidate>>

\* It raises, and the command ends without an id; closing the lock file
\* descriptor in the finally clause releases the flock.
Refuse(p) ==
    /\ At(p, "check")
    /\ ~Fits(candidate[p])
    /\ Goto(p, "idle")
    /\ lock' = None
    /\ UNCHANGED <<counter, dirs, issued, seen, candidate>>

\* Mutant: the counter is bumped by one, whatever the candidate.
PublishSeen(p) ==
    /\ At(p, "publish")
    /\ counter' = seen[p] + 1
    /\ Goto(p, "return")
    /\ UNCHANGED <<dirs, lock, issued, seen, candidate>>

\* _atomic_write_counter
Publish(p) ==
    /\ At(p, "publish")
    /\ counter' = candidate[p]
    /\ Goto(p, "return")
    /\ UNCHANGED <<dirs, lock, issued, seen, candidate>>

Return(p) ==
    /\ At(p, "return")
    /\ issued' = Append(issued, candidate[p])
    /\ lock' = None
    /\ Goto(p, "skeleton")
    /\ UNCHANGED <<counter, dirs, seen, candidate>>

\* _make_skeleton: mkdir with exist_ok, after the flock is gone.
MakeSkeleton(p) ==
    /\ At(p, "skeleton")
    /\ dirs' = dirs \cup {candidate[p]}
    /\ Goto(p, "idle")
    /\ UNCHANGED <<counter, lock, issued, seen, candidate>>

\* The process dies, or publishing fails: the kernel drops its flock.
Die(p) ==
    /\ ~At(p, "idle")
    /\ Goto(p, "idle")
    /\ lock' = IF lock = p THEN None ELSE lock
    /\ UNCHANGED <<counter, dirs, issued, seen, candidate>>

\* clean removes the directory of any finished task; it takes no lock.
Clean ==
    /\ \E n \in dirs : dirs' = dirs \ {n}
    /\ UNCHANGED <<counter, lock, issued, pc, seen, candidate>>

\* naiw-new-task.sh refuses an existing directory; it takes no lock.
MakeByHand ==
    /\ \E n \in HandMade \ dirs : dirs' = dirs \cup {n}
    /\ UNCHANGED <<counter, lock, issued, pc, seen, candidate>>

Allocate(p) ==
    \/ Lock(p) \/ ReadCounter(p) \/ ScanDirs(p) \/ Accept(p) \/ Refuse(p)
    \/ Publish(p) \/ Return(p) \/ MakeSkeleton(p)

Next == Clean \/ MakeByHand \/ \E p \in Proc : Begin(p) \/ Allocate(p) \/ Die(p)

Spec == Init /\ [][Next]_vars
----------------------------------------------------------------------------
TypeOK ==
    /\ counter \in Nat
    /\ dirs \subseteq Nat
    /\ lock \in Proc \cup {None}
    /\ issued \in Seq(Nat)
    /\ pc \in [Proc -> Points]
    /\ seen \in [Proc -> Nat] /\ candidate \in [Proc -> Nat]

\* ids.py:1-6: the numbers handed out only grow, so none comes back after a
\* crash, after its directory was cleaned, or from a concurrent start.
IssuedIncreasing ==
    \A i, j \in 1..Len(issued) : i < j => issued[i] < issued[j]

\* A start makes its skeleton (exist_ok=True) in a directory that no other
\* task has, unless the operator made one by hand under the new number.
OwnDirectory ==
    \A p \in Proc : At(p, "skeleton") /\ candidate[p] \in dirs
                        => candidate[p] \in HandMade
==============================================================================
