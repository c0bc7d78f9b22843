--------------------------- MODULE TaskStoreProofs ---------------------------
(***************************************************************************)
(* update_task is atomic and survives crashes and power loss, for any      *)
(* number of processes: the flock serialises the read-modify-writes, and   *)
(* only synced temporary files are renamed over task.json.                 *)
(***************************************************************************)
EXTENDS TaskStore, TLAPS

TypeOK ==
    /\ task \in Files
    /\ onDisk \subseteq Files
    /\ published \subseteq Contents
    /\ lock \in Proc \cup {None}
    /\ done \in Contents
    /\ pc \in [Proc -> Points]
    /\ data \in [Proc -> Contents]
    /\ tmp \in [Proc -> Files]

LockInv == \A p \in Proc : pc[p] \in Critical => lock = p

\* While the lock is held, what was read is what is published.
FreshInv ==
    \A p \in Proc :
        /\ pc[p] = "write" => data[p] = task.contents
        /\ pc[p] \in {"fsync", "replace"} =>
              tmp[p].contents = [task.contents EXCEPT ![p] = @ + 1]
        /\ pc[p] = "replace" => tmp[p].whole

\* Whatever a power loss may leave was synced before it was published.
DiskInv ==
    /\ task \in onDisk
    /\ \A f \in onDisk : f.whole /\ ~f.torn /\ f.contents \in published
    /\ \A p \in Proc : ~tmp[p].torn

DoneInv ==
    /\ NoLostUpdate
    /\ \A p \in Proc : pc[p] = "return" => done[p] + 1 <= task.contents[p]

StoreInv == TypeOK /\ LockInv /\ FreshInv /\ DiskInv /\ DoneInv

\* Counting one more update of p.
LEMMA CountOne ==
    ASSUME NEW c \in Contents, NEW p \in Proc
    PROVE  /\ [c EXCEPT ![p] = @ + 1] \in Contents
           /\ [c EXCEPT ![p] = @ + 1][p] = c[p] + 1
           /\ \A q \in Proc \ {p} : [c EXCEPT ![p] = @ + 1][q] = c[q]
  <1>1. c[p] \in Nat /\ c[p] + 1 \in Nat
    <2>1. c[p] \in Nat
      BY DEF Contents
    <2>. QED
      BY <2>1
  <1>2. \A n \in Nat : [c EXCEPT ![p] = n] \in Contents
    BY DEF Contents
  <1>. QED
    BY <1>1, <1>2 DEF Contents

LEMMA StoreInit == Init => StoreInv
  <1>. SUFFICES ASSUME Init PROVE StoreInv
    OBVIOUS
  <1>1. Zero \in Contents /\ \A p \in Proc : Zero[p] = 0
    BY DEF Zero, Contents
  <1>. HIDE DEF Zero
  <1>2. TypeOK
    BY <1>1 DEF Init, TypeOK, File, Files, Points
  <1>. QED
    BY <1>1, <1>2
    DEF Init, StoreInv, LockInv, FreshInv, DiskInv, DoneInv, NoLostUpdate, File, Critical

LEMMA TypeStep ==
    ASSUME TypeOK, [Next]_vars
    PROVE  TypeOK'
  <1>. USE DEF At, Goto, Points
  <1>1. ASSUME NEW p \in Proc, Open(p) \/ Flock(p) \/ Read(p) \/ Fail(p)
        PROVE  TypeOK'
    BY <1>1 DEF TypeOK, Files, Open, Flock, Read, Fail
  <1>2. ASSUME NEW p \in Proc, Write(p)
        PROVE  TypeOK'
    <2>1. data[p] \in Contents
      BY DEF TypeOK
    <2>2. File([data[p] EXCEPT ![p] = @ + 1], FALSE) \in Files
      BY <2>1, CountOne DEF File, Files
    <2>. QED
      BY <1>2, <2>2 DEF TypeOK, Write
  <1>3. ASSUME NEW p \in Proc, Fsync(p)
        PROVE  TypeOK'
    BY <1>3 DEF TypeOK, Files, Fsync
  <1>4. ASSUME NEW p \in Proc, Replace(p)
        PROVE  TypeOK'
    BY <1>4 DEF TypeOK, Files, Replace
  <1>5. ASSUME NEW p \in Proc, Return(p)
        PROVE  TypeOK'
    BY <1>5, CountOne DEF TypeOK, Return
  <1>6. CASE WriteBack
    BY <1>6 DEF TypeOK, WriteBack
  <1>7. CASE PowerLoss
    <2>1. PICK f \in onDisk : task' = [f EXCEPT !.torn = ~f.whole]
      BY <1>7 DEF PowerLoss
    <2>2. task' \in Files /\ task'.contents \in Contents
      BY <2>1 DEF TypeOK, Files
    <2>. QED
      BY <1>7, <2>2 DEF TypeOK, PowerLoss
  <1>8. CASE UNCHANGED vars
    BY <1>8 DEF TypeOK, vars
  <1>. QED
    BY <1>1, <1>2, <1>3, <1>4, <1>5, <1>6, <1>7, <1>8 DEF Next, Update

\* A power loss leaves a complete version that had been published.
LEMMA AfterPowerLoss ==
    ASSUME TypeOK, DiskInv, PowerLoss
    PROVE  /\ task' \in onDisk
           /\ onDisk' = {task'} /\ done' = task'.contents
           /\ \A p \in Proc : pc'[p] = "idle"
  <1>1. PICK f \in onDisk : task' = [f EXCEPT !.torn = ~f.whole]
    BY DEF PowerLoss
  <1>2. f \in Files /\ f.whole /\ ~f.torn
    BY <1>1 DEF TypeOK, DiskInv
  <1>3. f.whole = TRUE /\ f.torn = FALSE
    BY <1>2 DEF Files
  <1>4. task' = f
    BY <1>1, <1>2, <1>3 DEF Files
  <1>. QED
    BY <1>4 DEF PowerLoss

\* Renaming applies exactly one update to the current contents.
LEMMA AfterReplace ==
    ASSUME StoreInv, NEW p \in Proc, Replace(p)
    PROVE  /\ task'.contents = [task.contents EXCEPT ![p] = @ + 1]
           /\ task' = tmp[p] /\ tmp[p].whole
           /\ onDisk' = onDisk \cup {task'}
           /\ published' = published \cup {task'.contents}
  BY DEF StoreInv, FreshInv, Replace, At

LEMMA StoreStep ==
    ASSUME StoreInv, [Next]_vars
    PROVE  StoreInv'
  <1>1. TypeOK /\ TypeOK'
    BY TypeStep DEF StoreInv
  <1>2. LockInv /\ FreshInv /\ DiskInv /\ DoneInv
    BY DEF StoreInv
  <1>3. ASSUME NEW p \in Proc, Update(p)
        PROVE  LockInv'
    BY <1>1, <1>2, <1>3, NoneAssumption
    DEF Update, Open, Flock, Read, Write, Fsync, Replace, Return, Fail,
        At, Goto, TypeOK, LockInv, Critical, Points
  <1>4. ASSUME NEW p \in Proc, Update(p)
        PROVE  FreshInv' /\ DiskInv' /\ DoneInv'
    <2>1. CASE Open(p) \/ Flock(p) \/ Fail(p)
      <3>1. /\ pc'[p] \notin {"write", "fsync", "replace", "return"}
            /\ \A q \in Proc \ {p} : pc'[q] = pc[q]
            /\ UNCHANGED <<task, onDisk, published, done, data, tmp>>
        BY <1>1, <2>1 DEF Open, Flock, Fail, Goto, TypeOK
      <3>. QED
        BY <1>2, <3>1 DEF FreshInv, DiskInv, DoneInv, NoLostUpdate
    <2>2. CASE Read(p)
      BY <1>1, <1>2, <2>2
      DEF Read, At, Goto, TypeOK, FreshInv, DiskInv, DoneInv, NoLostUpdate
    <2>3. CASE Write(p)
      <3>1. tmp'[p].contents = [task.contents EXCEPT ![p] = @ + 1] /\ ~tmp'[p].torn
        BY <1>1, <1>2, <2>3 DEF Write, At, TypeOK, FreshInv, File
      <3>2. /\ pc' = [pc EXCEPT ![p] = "fsync"]
            /\ \A q \in Proc \ {p} : tmp'[q] = tmp[q]
        BY <1>1, <2>3 DEF Write, Goto, TypeOK
      <3>. QED
        BY <1>1, <1>2, <2>3, <3>1, <3>2
        DEF Write, TypeOK, FreshInv, DiskInv, DoneInv, NoLostUpdate
    <2>4. CASE Fsync(p)
      <3>1. /\ tmp'[p].contents = tmp[p].contents /\ tmp'[p].whole
            /\ tmp'[p].torn = tmp[p].torn
            /\ \A q \in Proc \ {p} : tmp'[q] = tmp[q]
        BY <1>1, <2>4 DEF Fsync, TypeOK, Files
      <3>2. pc' = [pc EXCEPT ![p] = "replace"] /\ pc[p] = "fsync"
        BY <1>1, <2>4 DEF Fsync, Goto, At, TypeOK
      <3>3. /\ pc'[p] = "replace" /\ \A q \in Proc \ {p} : pc'[q] = pc[q]
            /\ UNCHANGED <<task, onDisk, published, done, data>>
        BY <1>1, <2>4, <3>2 DEF Fsync, TypeOK
      <3>4. FreshInv'
        BY <1>2, <3>1, <3>2, <3>3 DEF FreshInv
      <3>5. DiskInv' /\ DoneInv'
        BY <1>2, <3>1, <3>3 DEF DiskInv, DoneInv, NoLostUpdate
      <3>. QED
        BY <3>4, <3>5
    <2>5. CASE Replace(p)
      <3>1. \A q \in Proc \ {p} : pc'[q] = pc[q] /\ pc[q] \notin Critical
        BY <1>1, <1>2, <2>5 DEF Replace, At, Goto, TypeOK, LockInv, Critical, Points
      <3>2. pc'[p] = "return"
        BY <1>1, <2>5 DEF Replace, Goto, TypeOK
      <3>3. FreshInv'
        BY <3>1, <3>2 DEF FreshInv, Critical, Points
      <3>4. DiskInv'
        BY <1>2, <2>5, AfterReplace DEF StoreInv, DiskInv, Replace
      <3>5. task.contents \in Contents /\ done \in Contents /\ done' = done
        BY <1>1, <2>5 DEF TypeOK, Files, Replace
      <3>6. /\ task'.contents[p] = task.contents[p] + 1
            /\ \A q \in Proc \ {p} : task'.contents[q] = task.contents[q]
        <4>1. task'.contents = [task.contents EXCEPT ![p] = @ + 1]
          BY <2>5, AfterReplace
        <4>. QED
          BY <3>5, <4>1, CountOne
      <3>7. \A q \in Proc : done[q] \in Nat /\ task.contents[q] \in Nat
        BY <3>5 DEF Contents
      <3>8. DoneInv'
        BY <1>2, <3>1, <3>2, <3>5, <3>6, <3>7 DEF DoneInv, NoLostUpdate, Critical, Points
      <3>. QED
        BY <3>3, <3>4, <3>8
    <2>6. CASE Return(p)
      <3>1. /\ done'[p] = done[p] + 1
            /\ \A q \in Proc \ {p} : done'[q] = done[q]
            /\ done[p] + 1 <= task.contents[p]
        BY <1>1, <1>2, <2>6 DEF Return, At, DoneInv, TypeOK, Contents
      <3>2. pc'[p] = "idle" /\ \A q \in Proc \ {p} : pc'[q] = pc[q]
        BY <1>1, <2>6 DEF Return, Goto, TypeOK
      <3>. QED
        BY <1>2, <2>6, <3>1, <3>2 DEF Return, FreshInv, DiskInv, DoneInv, NoLostUpdate
    <2>. QED
      BY <1>4, <2>1, <2>2, <2>3, <2>4, <2>5, <2>6 DEF Update
  <1>5. CASE WriteBack
    BY <1>1, <1>2, <1>5
    DEF StoreInv, WriteBack, LockInv, FreshInv, DiskInv, DoneInv, NoLostUpdate
  <1>6. CASE PowerLoss
    <2>1. LockInv' /\ FreshInv' /\ DiskInv'
      BY <1>1, <1>2, <1>6, AfterPowerLoss DEF LockInv, FreshInv, DiskInv, Critical, PowerLoss
    <2>2. task'.contents \in Contents
      BY <1>1 DEF TypeOK, Files
    <2>3. \A p \in Proc : task'.contents[p] \in Nat
      BY <2>2 DEF Contents
    <2>4. DoneInv'
      BY <1>1, <1>2, <1>6, <2>3, AfterPowerLoss DEF DoneInv, NoLostUpdate
    <2>. QED
      BY <1>1, <2>1, <2>4 DEF StoreInv
  <1>7. CASE UNCHANGED vars
    BY <1>2, <1>7, <1>1
    DEF StoreInv, vars, LockInv, FreshInv, DiskInv, DoneInv, NoLostUpdate
  <1>. QED
    BY <1>1, <1>3, <1>4, <1>5, <1>6, <1>7 DEF Next, StoreInv

\* Every step changes task.json as one update of the current contents does, or
\* as a power loss may, or not at all.
LEMMA StoreRefines ==
    ASSUME StoreInv, [Next]_vars
    PROVE  [Atomic!Next]_<<task.contents, published>>
  <1>1. ASSUME NEW p \in Proc, Replace(p)
        PROVE  Atomic!Next
    BY <1>1, AfterReplace DEF Atomic!Next, Atomic!Update
  <1>2. CASE PowerLoss
    <2>1. task' \in onDisk /\ published' = published
      BY <1>2, AfterPowerLoss DEF StoreInv, PowerLoss
    <2>. QED
      BY <2>1 DEF Atomic!Next, Atomic!PowerLoss, StoreInv, DiskInv
  <1>3. ASSUME NEW p \in Proc, Update(p), ~Replace(p)
        PROVE  UNCHANGED <<task.contents, published>>
    BY <1>3 DEF Update, Open, Flock, Read, Write, Fsync, Return, Fail
  <1>4. CASE WriteBack \/ UNCHANGED vars
    BY <1>4 DEF WriteBack, vars
  <1>. QED
    BY <1>1, <1>2, <1>3, <1>4 DEF Next

\* store.py:1-10: the locked, renamed update implements the atomic one.
THEOREM StoreIsAtomic == Spec => UpdatesAreAtomic
  <1>1. Init => Atomic!Init
    BY DEF Init, Atomic!Init, File, Zero
  <1>. QED
    BY <1>1, StoreInit, StoreStep, StoreRefines, PTL DEF Spec, UpdatesAreAtomic, Atomic!Spec

\* store.py:7-9: a power loss never leaves a torn task.json.
THEOREM StoreNeverTorn == Spec => []NeverTorn
  <1>1. StoreInv => NeverTorn
    BY DEF StoreInv, DiskInv, NeverTorn
  <1>. QED
    BY <1>1, StoreInit, StoreStep, PTL DEF Spec

\* An update that returned is not lost to a concurrent one or to a crash.
THEOREM StoreLosesNothing == Spec => []NoLostUpdate
  <1>1. StoreInv => NoLostUpdate
    BY DEF StoreInv, DoneInv
  <1>. QED
    BY <1>1, StoreInit, StoreStep, PTL DEF Spec
==============================================================================
