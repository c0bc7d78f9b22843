-------------------------- MODULE IdAllocatorProofs --------------------------
(***************************************************************************)
(* Ids are handed out in strictly increasing order, for any number of      *)
(* concurrent starts that may die anywhere, and whatever clean and the     *)
(* operator do to the directories.                                         *)
(***************************************************************************)
EXTENDS IdAllocator, TLAPS

\* Inside the critical section the lock is held, so what was read is current.
LockInv ==
    \A p \in Proc :
        /\ pc[p] \in Critical => lock = p
        /\ pc[p] \in {"scan", "check", "publish"} => seen[p] = counter
        /\ pc[p] \in {"check", "publish"} => candidate[p] > seen[p]

\* The file is never behind an id that was returned, and is ahead of them all
\* while the next one is about to be.
CounterInv ==
    /\ \A i \in 1..Len(issued) : issued[i] <= counter
    /\ \A p \in Proc : pc[p] = "return" =>
          /\ candidate[p] = counter
          /\ \A i \in 1..Len(issued) : issued[i] < counter

AllocatorInv == TypeOK /\ LockInv /\ CounterInv /\ IssuedIncreasing

LEMMA AllocatorInit == Init => AllocatorInv
  BY NumbersAssumption
  DEF Init, AllocatorInv, TypeOK, LockInv, CounterInv, IssuedIncreasing, Critical, Points

LEMMA TypeStep ==
    ASSUME TypeOK, [Next]_vars
    PROVE  TypeOK'
  <1>. USE DEF TypeOK, Goto, At, Points, Critical
  <1>1. ASSUME NEW p \in Proc, Begin(p) \/ Lock(p) \/ ReadCounter(p)
        PROVE  TypeOK'
    BY <1>1 DEF Begin, Lock, ReadCounter
  <1>2. ASSUME NEW p \in Proc, ScanDirs(p)
        PROVE  TypeOK'
    <2>1. \A n \in {seen[p] + 1} \cup {d + 1 : d \in dirs} : n \in Nat
      OBVIOUS
    <2>. QED
      BY <1>2, <2>1 DEF ScanDirs
  <1>3. ASSUME NEW p \in Proc, Accept(p) \/ Refuse(p) \/ Die(p)
        PROVE  TypeOK'
    BY <1>3 DEF Accept, Refuse, Die
  <1>4. ASSUME NEW p \in Proc, Publish(p) \/ Return(p) \/ MakeSkeleton(p)
        PROVE  TypeOK'
    <2>1. CASE Publish(p)
      BY <2>1 DEF Publish
    <2>2. CASE Return(p)
      <3>1. Append(issued, candidate[p]) \in Seq(Nat)
        OBVIOUS
      <3>. QED
        BY <2>2, <3>1 DEF Return
    <2>3. CASE MakeSkeleton(p)
      BY <2>3 DEF MakeSkeleton
    <2>. QED
      BY <1>4, <2>1, <2>2, <2>3
  <1>5. CASE Clean \/ MakeByHand
    BY <1>5, NumbersAssumption DEF Clean, MakeByHand
  <1>6. CASE UNCHANGED vars
    BY <1>6 DEF vars
  <1>. QED
    BY <1>1, <1>2, <1>3, <1>4, <1>5, <1>6 DEF Next, Allocate

LEMMA AllocatorStep ==
    ASSUME AllocatorInv, [Next]_vars
    PROVE  AllocatorInv'
  <1>1. TypeOK /\ TypeOK'
    BY TypeStep DEF AllocatorInv
  <1>. USE NoneAssumption DEF Goto, At, Critical, AllocatorInv
  <1>2. LockInv'
    <2>1. ASSUME NEW p \in Proc, Begin(p) \/ Lock(p) \/ ReadCounter(p)
          PROVE  LockInv'
      BY <1>1, <2>1 DEF TypeOK, LockInv, Begin, Lock, ReadCounter
    <2>2. ASSUME NEW p \in Proc, ScanDirs(p)
          PROVE  LockInv'
      BY <1>1, <2>2 DEF TypeOK, LockInv, ScanDirs
    <2>3. ASSUME NEW p \in Proc, Accept(p) \/ Refuse(p) \/ Die(p)
          PROVE  LockInv'
      BY <1>1, <2>3 DEF TypeOK, LockInv, Accept, Refuse, Die
    <2>4. ASSUME NEW p \in Proc, Publish(p) \/ Return(p) \/ MakeSkeleton(p)
          PROVE  LockInv'
      BY <1>1, <2>4 DEF TypeOK, LockInv, Publish, Return, MakeSkeleton
    <2>5. CASE Clean \/ MakeByHand \/ UNCHANGED vars
      BY <2>5 DEF LockInv, Clean, MakeByHand, vars
    <2>. QED
      BY <2>1, <2>2, <2>3, <2>4, <2>5 DEF Next, Allocate
  <1>3. CounterInv' /\ IssuedIncreasing'
    <2>1. ASSUME NEW p \in Proc, Publish(p)
          PROVE  CounterInv' /\ IssuedIncreasing'
      <3>1. candidate[p] > counter /\ counter' = candidate[p] /\ issued' = issued
        BY <1>1, <2>1 DEF TypeOK, LockInv, Publish
      <3>2. \A q \in Proc : pc'[q] = "return" => q = p
        BY <1>1, <2>1 DEF TypeOK, LockInv, Publish
      <3>3. \A i \in 1..Len(issued) : issued[i] \in Nat
        <4>1. issued \in Seq(Nat)
          BY <1>1 DEF TypeOK
        <4>. QED
          BY ONLY <4>1
      <3>. QED
        BY <1>1, <2>1, <3>1, <3>2, <3>3 DEF TypeOK, CounterInv, IssuedIncreasing, Publish
    <2>2. ASSUME NEW p \in Proc, Return(p)
          PROVE  CounterInv' /\ IssuedIncreasing'
      <3>1. /\ counter' = counter
            /\ candidate[p] = counter
            /\ \A i \in 1..Len(issued) : issued[i] < counter
        BY <2>2 DEF CounterInv, Return
      <3>2. /\ Len(issued') = Len(issued) + 1 /\ Len(issued) \in Nat
            /\ issued'[Len(issued) + 1] = counter
            /\ \A i \in 1..Len(issued) : issued'[i] = issued[i] /\ issued[i] \in Nat
        BY <1>1, <2>2, <3>1 DEF TypeOK, Return
      <3>3. \A q \in Proc : pc'[q] # "return"
        BY <1>1, <2>2 DEF TypeOK, LockInv, Return
      <3> DEFINE n == Len(issued)
      <3>4. \A i \in 1..(n + 1) : issued'[i] <= counter
        <4>1. \A i \in 1..(n + 1) : i = n + 1 \/ i \in 1..n
          BY <3>2
        <4>2. counter \in Nat
          BY <1>1 DEF TypeOK
        <4>3. counter <= counter /\ \A k \in Nat : k < counter => k <= counter
          BY <4>2
        <4>. QED
          BY <3>1, <3>2, <4>1, <4>3
      <3>5. \A i, j \in 1..(n + 1) : i < j => issued'[i] < issued'[j]
        <4>1. \A i, j \in 1..(n + 1) : i < j => i \in 1..n /\ (j = n + 1 \/ j \in 1..n)
          BY <3>2
        <4>. QED
          BY <3>1, <3>2, <4>1 DEF IssuedIncreasing
      <3>. QED
        BY <3>1, <3>2, <3>3, <3>4, <3>5 DEF CounterInv, IssuedIncreasing
    <2>3. ASSUME NEW p \in Proc, Begin(p) \/ Lock(p) \/ ReadCounter(p)
          PROVE  CounterInv' /\ IssuedIncreasing'
      <3>1. /\ pc'[p] # "return" /\ \A q \in Proc \ {p} : pc'[q] = pc[q]
            /\ candidate' = candidate /\ issued' = issued /\ counter' = counter
        BY <1>1, <2>3 DEF TypeOK, Begin, Lock, ReadCounter
      <3>. QED
        BY <3>1 DEF CounterInv, IssuedIncreasing
    <2>6. ASSUME NEW p \in Proc, ScanDirs(p)
          PROVE  CounterInv' /\ IssuedIncreasing'
      <3>1. pc'[p] # "return" /\ \A q \in Proc \ {p} : /\ pc'[q] = pc[q]
                                                       /\ candidate'[q] = candidate[q]
        BY <1>1, <2>6 DEF TypeOK, ScanDirs
      <3>. QED
        BY <2>6, <3>1 DEF CounterInv, IssuedIncreasing, ScanDirs
    <2>4. ASSUME NEW p \in Proc, Accept(p) \/ Refuse(p) \/ Die(p) \/ MakeSkeleton(p)
          PROVE  CounterInv' /\ IssuedIncreasing'
      <3>1. /\ pc'[p] # "return" /\ \A q \in Proc \ {p} : pc'[q] = pc[q]
            /\ candidate' = candidate /\ issued' = issued /\ counter' = counter
        BY <1>1, <2>4 DEF TypeOK, Accept, Refuse, Die, MakeSkeleton
      <3>. QED
        BY <3>1 DEF CounterInv, IssuedIncreasing
    <2>5. CASE Clean \/ MakeByHand \/ UNCHANGED vars
      BY <2>5 DEF CounterInv, IssuedIncreasing, Clean, MakeByHand, vars
    <2>. QED
      BY <2>1, <2>2, <2>3, <2>4, <2>5, <2>6 DEF Next, Allocate
  <1>. QED
    BY <1>1, <1>2, <1>3

\* ids.py:1-6: every id returned is greater than all that were returned before.
THEOREM IdsNeverReturn == Spec => []IssuedIncreasing
  <1>1. AllocatorInv => IssuedIncreasing
    BY DEF AllocatorInv
  <1>. QED
    BY <1>1, AllocatorInit, AllocatorStep, PTL DEF Spec
----------------------------------------------------------------------------
(* The directory a start makes is its own.                                 *)

Reserving == {"check", "publish", "return", "skeleton"}

\* An id that is still to become a directory: nobody else has made it (but the
\* operator may), the counter covers it once it is returned, and no other start
\* holds the same one.
ReservedInv ==
    \A p \in Proc :
        /\ pc[p] \in Reserving /\ candidate[p] \in dirs => candidate[p] \in HandMade
        /\ pc[p] = "skeleton" => candidate[p] <= counter
        /\ \A q \in Proc \ {p} :
              /\ pc[p] = "skeleton" /\ pc[q] = "skeleton" => candidate[p] # candidate[q]
              /\ pc[p] = "skeleton" /\ pc[q] = "return" => candidate[p] < candidate[q]

LEMMA ReservedStep ==
    ASSUME AllocatorInv, ReservedInv, [Next]_vars
    PROVE  ReservedInv'
  <1>1. TypeOK /\ LockInv /\ CounterInv
    BY DEF AllocatorInv
  <1>. USE NoneAssumption DEF Goto, At, Critical, Reserving
  <1>2. ASSUME NEW p \in Proc, Begin(p) \/ Lock(p) \/ ReadCounter(p)
        PROVE  ReservedInv'
    BY <1>1, <1>2 DEF TypeOK, ReservedInv, Begin, Lock, ReadCounter
  <1>3. ASSUME NEW p \in Proc, ScanDirs(p)
        PROVE  ReservedInv'
    <2>1. PICK n \in {seen[p] + 1} \cup {d + 1 : d \in dirs} :
             (\A d \in dirs : n > d) /\ candidate' = [candidate EXCEPT ![p] = n]
      BY <1>3 DEF ScanDirs
    <2>2. n \notin dirs
      BY <1>1, <2>1 DEF TypeOK
    <2>3. /\ candidate'[p] \notin dirs' /\ pc'[p] = "check"
          /\ dirs' = dirs /\ counter' = counter
          /\ \A q \in Proc \ {p} : pc'[q] = pc[q] /\ candidate'[q] = candidate[q]
      BY <1>1, <1>3, <2>1, <2>2 DEF TypeOK, ScanDirs
    <2>. QED
      BY <2>3 DEF ReservedInv
  <1>4. ASSUME NEW p \in Proc, Accept(p) \/ Refuse(p) \/ Die(p)
        PROVE  ReservedInv'
    BY <1>1, <1>4 DEF TypeOK, ReservedInv, Accept, Refuse, Die
  <1>5. ASSUME NEW p \in Proc, Publish(p)
        PROVE  ReservedInv'
    \* Publishing raises the counter over every id that was returned before.
    <2>1. /\ counter' = candidate[p] /\ counter < candidate[p]
          /\ candidate' = candidate /\ dirs' = dirs /\ pc'[p] = "return"
          /\ \A q \in Proc \ {p} : pc'[q] = pc[q] /\ pc'[q] # "return"
      BY <1>1, <1>5 DEF TypeOK, LockInv, Publish
    <2>2. \A q \in Proc : candidate[q] \in Nat
      BY <1>1 DEF TypeOK
    <2>. QED
      BY <1>1, <1>5, <2>1, <2>2 DEF ReservedInv, TypeOK, Publish
  <1>6. ASSUME NEW p \in Proc, Return(p)
        PROVE  ReservedInv'
    <2>1. /\ counter' = counter /\ candidate[p] = counter
          /\ candidate' = candidate /\ dirs' = dirs
          /\ pc[p] = "return" /\ pc'[p] = "skeleton"
          /\ \A q \in Proc \ {p} : pc'[q] = pc[q] /\ pc'[q] # "return"
      BY <1>1, <1>6 DEF TypeOK, LockInv, CounterInv, Return
    <2>2. counter \in Nat /\ \A q \in Proc : candidate[q] \in Nat
      BY <1>1 DEF TypeOK
    <2>. QED
      BY <2>1, <2>2 DEF ReservedInv
  <1>7. ASSUME NEW p \in Proc, MakeSkeleton(p)
        PROVE  ReservedInv'
    <2>1. /\ pc[p] = "skeleton" /\ pc'[p] = "idle"
          /\ \A q \in Proc \ {p} : pc'[q] = pc[q]
          /\ candidate' = candidate /\ counter' = counter
          /\ dirs' = dirs \cup {candidate[p]}
      BY <1>1, <1>7 DEF TypeOK, MakeSkeleton
    <2>2. counter \in Nat /\ \A q \in Proc : candidate[q] \in Nat
      BY <1>1 DEF TypeOK
    <2>3. \A q \in Proc \ {p} : pc[q] \in Reserving => candidate[q] # candidate[p]
      <3>. TAKE q \in Proc \ {p}
      <3>1. CASE pc[q] \in {"check", "publish"}
        BY <1>1, <2>1, <2>2, <3>1 DEF LockInv, ReservedInv
      <3>2. CASE pc[q] \in {"return", "skeleton"}
        BY <2>1, <2>2, <3>2 DEF ReservedInv
      <3>. QED
        BY <3>1, <3>2
    <2>. QED
      BY <2>1, <2>3 DEF ReservedInv
  <1>8. CASE Clean \/ MakeByHand \/ UNCHANGED vars
    BY <1>8 DEF ReservedInv, Clean, MakeByHand, vars
  <1>. QED
    BY <1>2, <1>3, <1>4, <1>5, <1>6, <1>7, <1>8 DEF Next, Allocate

\* _make_skeleton (exist_ok=True) never adopts the directory of another task,
\* although it runs after the flock is gone: only one the operator made by hand
\* under the new number since the scan.
THEOREM SkeletonIsOwn == Spec => []OwnDirectory
  <1>1. Init => ReservedInv
    BY DEF Init, ReservedInv, Reserving
  <1>2. ReservedInv => OwnDirectory
    BY DEF ReservedInv, OwnDirectory, At, Reserving
  <1>. QED
    BY <1>1, <1>2, AllocatorInit, AllocatorStep, ReservedStep, PTL DEF Spec
==============================================================================
