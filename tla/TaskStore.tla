------------------------------ MODULE TaskStore ------------------------------
(***************************************************************************)
(* store.update_task, step by step: the flock, the read, the temporary     *)
(* file, fsync and os.replace, run by concurrent processes that may die    *)
(* anywhere and by a host that may lose power.  The contents of task.json  *)
(* are the number of updates of each process they reflect; the mutator     *)
(* counts one more.                                                        *)
(* The task's directory is not removed meanwhile (module CleanCmd).        *)
(***************************************************************************)
EXTENDS Naturals

CONSTANTS
    Proc,      \* processes that update one task.json
    None,      \* nobody holds the lock
    MaxCount   \* bound: updates of one process

ASSUME NoneAssumption == None \notin Proc
ASSUME BoundAssumption == MaxCount \in Nat

VARIABLES
    task,       \* task.json: its contents, and whether they are on the disk
    onDisk,     \* the versions one of which a power loss would leave
    published,  \* every version ever published
    lock,       \* holder of the exclusive flock on .task.lock
    done,       \* updates that returned since the last power loss
    pc,
    data,       \* what each process read
    tmp         \* each process's temporary file

vars == <<task, onDisk, published, lock, done, pc, data, tmp>>

Contents == [Proc -> Nat]
Zero == [p \in Proc |-> 0]

\* whole: the bytes have reached the disk.  torn: a power loss cut them off.
File(contents, whole) == [contents |-> contents, whole |-> whole, torn |-> FALSE]
Files == [contents : Contents, whole : BOOLEAN, torn : BOOLEAN]

Points == {"idle", "flock", "read", "write", "fsync", "replace", "return"}
Critical == Points \ {"idle", "flock"}

Init ==
    /\ task = File(Zero, TRUE)
    /\ onDisk = {task}
    /\ published = {Zero}
    /\ lock = None
    /\ done = Zero
    /\ pc = [p \in Proc |-> "idle"]
    /\ data = [p \in Proc |-> Zero]
    /\ tmp = [p \in Proc |-> File(Zero, FALSE)]

At(p, point) == pc[p] = point
Goto(p, point) == pc' = [pc EXCEPT ![p] = point]

\* _open_lock
Open(p) ==
    /\ At(p, "idle")
    /\ task.contents[p] < MaxCount
    /\ Goto(p, "flock")
    /\ UNCHANGED <<task, onDisk, published, lock, done, data, tmp>>

\* Mutant: a shared lock does not exclude another writer.
FlockShared(p) ==
    /\ At(p, "flock")
    /\ lock' = p
    /\ Goto(p, "read")
    /\ UNCHANGED <<task, onDisk, published, done, data, tmp>>

Flock(p) ==
    /\ At(p, "flock")
    /\ lock = None
    /\ lock' = p
    /\ Goto(p, "read")
    /\ UNCHANGED <<task, onDisk, published, done, data, tmp>>

Read(p) ==
    /\ At(p, "read")
    /\ data' = [data EXCEPT ![p] = task.contents]
    /\ Goto(p, "write")
    /\ UNCHANGED <<task, onDisk, published, lock, done, tmp>>

\* The mutator, and json.dump into the temporary file.
Write(p) ==
    /\ At(p, "write")
    /\ tmp' = [tmp EXCEPT ![p] = File([data[p] EXCEPT ![p] = @ + 1], FALSE)]
    /\ Goto(p, "fsync")
    /\ UNCHANGED <<task, onDisk, published, lock, done, data>>

\* Mutant: the temporary file is flushed and closed, but not synced.
FlushOnly(p) ==
    /\ At(p, "fsync")
    /\ Goto(p, "replace")
    /\ UNCHANGED <<task, onDisk, published, lock, done, data, tmp>>

\* Mutant: the temporary file is synced and left where it is.
FsyncAndReturn(p) ==
    /\ At(p, "fsync")
    /\ tmp' = [tmp EXCEPT ![p].whole = TRUE]
    /\ Goto(p, "return")
    /\ UNCHANGED <<task, onDisk, published, lock, done, data>>

Fsync(p) ==
    /\ At(p, "fsync")
    /\ tmp' = [tmp EXCEPT ![p].whole = TRUE]
    /\ Goto(p, "replace")
    /\ UNCHANGED <<task, onDisk, published, lock, done, data>>

\* os.replace: the new directory entry reaches the disk some time later.
Replace(p) ==
    /\ At(p, "replace")
    /\ task' = tmp[p]
    /\ onDisk' = onDisk \cup {tmp[p]}
    /\ published' = published \cup {tmp[p].contents}
    /\ Goto(p, "return")
    /\ UNCHANGED <<lock, done, data, tmp>>

\* The finally clause closes the lock's descriptor.
Return(p) ==
    /\ At(p, "return")
    /\ done' = [done EXCEPT ![p] = @ + 1]
    /\ lock' = None
    /\ Goto(p, "idle")
    /\ UNCHANGED <<task, onDisk, published, data, tmp>>

\* The process dies, or the mutator or a file operation raises: nothing is
\* published, the flock is gone, the temporary file is irrelevant.
Fail(p) ==
    /\ ~At(p, "idle")
    /\ lock' = IF lock = p THEN None ELSE lock
    /\ Goto(p, "idle")
    /\ UNCHANGED <<task, onDisk, published, done, data, tmp>>

\* The kernel writes back the directory.
WriteBack ==
    /\ onDisk' = {task}
    /\ UNCHANGED <<task, published, lock, done, pc, data, tmp>>

\* What was not synced is cut off; every process is gone.
PowerLoss ==
    /\ \E f \in onDisk : task' = [f EXCEPT !.torn = ~f.whole]
    /\ onDisk' = {task'}
    /\ done' = task'.contents
    /\ lock' = None
    /\ pc' = [p \in Proc |-> "idle"]
    /\ UNCHANGED <<published, data, tmp>>

Update(p) ==
    \/ Open(p) \/ Flock(p) \/ Read(p) \/ Write(p) \/ Fsync(p) \/ Replace(p)
    \/ Return(p) \/ Fail(p)

Next == WriteBack \/ PowerLoss \/ \E p \in Proc : Update(p)

Spec == Init /\ [][Next]_vars
----------------------------------------------------------------------------
Atomic == INSTANCE AtomicRecord WITH record <- task.contents

\* store.py:1-10: update_task is one atomic read-modify-write of task.json.
UpdatesAreAtomic == Atomic!Spec

\* store.py:7-9: a power loss never leaves a zero-byte or torn task.json.
NeverTorn == ~task.torn

\* An update that has returned is in the file until the power fails.
NoLostUpdate == \A p \in Proc : done[p] <= task.contents[p]
==============================================================================
