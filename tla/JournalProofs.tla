---------------------------- MODULE JournalProofs ----------------------------
(***************************************************************************)
(* Theorems about the event journal, for every number of passes and        *)
(* signals.                                                                *)
(***************************************************************************)
EXTENDS EventJournal, SequenceTheorems, WellFoundedInduction, TLAPS

(* Induction over the numbers, for a set of them.                          *)

LEMMA Least ==
    ASSUME NEW S \in SUBSET Nat, S # {}
    PROVE  \E x \in S : \A y \in S : x <= y
  <1> DEFINE R == {ss \in Nat \X Nat : ss[1] < ss[2]}
  <1>1. IsWellFoundedOn(OpToRel(<,Nat), Nat)
    BY NatLessThanWellFounded
  <1>2. IsWellFoundedOn(R, Nat)
    BY <1>1 DEF OpToRel
  <1>3. PICK x \in S : \A y \in S : ~(<<y, x>> \in R)
    <2> HIDE DEF R
    <2>. QED
      BY <1>2, WFMin
  <1>4. \A y \in S : ~(y < x)
    BY <1>3
  <1>5. x \in Nat /\ \A y \in S : y \in Nat
    OBVIOUS
  <1>. QED
    BY <1>4, <1>5, SMT

LEMMA Induct ==
    ASSUME NEW S \in SUBSET Nat, 0 \in S, \A n \in S : n + 1 \in S
    PROVE  S = Nat
  <1>. SUFFICES ASSUME S # Nat PROVE FALSE
    OBVIOUS
  <1>1. Nat \ S \in SUBSET Nat /\ Nat \ S # {}
    OBVIOUS
  <1>2. PICK x \in Nat \ S : \A y \in Nat \ S : x <= y
    BY <1>1, Least
  <1>. QED
    BY <1>2
-----------------------------------------------------------------------------
(* The events of a sequence of cells.                                      *)

Scanned(f, c, good, n) ==
    IF n = 0 THEN << >>
    ELSE IF n \in good THEN Append(f[n - 1], c[n].event)
    ELSE f[n - 1]

LEMMA ScanExists ==
    ASSUME NEW c, NEW good, NEW m \in Nat
    PROVE  \E f : f = [n \in 0..m |-> Scanned(f, c, good, n)]
  <1> DEFINE S == {k \in Nat : \E f : f = [n \in 0..k |-> Scanned(f, c, good, n)]}
  <1>1. 0 \in S
    <2> DEFINE f == [n \in 0..0 |-> << >>]
    <2>1. \A n \in 0..0 : n = 0
      OBVIOUS
    <2>2. f = [n \in 0..0 |-> Scanned(f, c, good, n)]
      BY <2>1 DEF Scanned
    <2>. QED
      BY <2>2
  <1>2. ASSUME NEW k \in S PROVE k + 1 \in S
    <2>1. PICK f : f = [n \in 0..k |-> Scanned(f, c, good, n)]
      BY <1>2
    <2> DEFINE g == [n \in 0..(k + 1) |->
                        IF n <= k THEN f[n] ELSE Scanned(f, c, good, n)]
    <2>2. ASSUME NEW n \in 0..(k + 1)
          PROVE  Scanned(f, c, good, n) = Scanned(g, c, good, n)
      <3>1. CASE n = 0
        BY <3>1 DEF Scanned
      <3>2. CASE n # 0
        <4>1. n - 1 \in 0..(k + 1) /\ n - 1 <= k
          BY <3>2
        <4>2. g[n - 1] = f[n - 1]
          BY <4>1
        <4>. HIDE DEF g
        <4>. QED
          BY <4>2 DEF Scanned
      <3>. QED
        BY <3>1, <3>2
    <2>3. \A n \in 0..(k + 1) : g[n] = Scanned(f, c, good, n)
      <3>. SUFFICES ASSUME NEW n \in 0..(k + 1) PROVE g[n] = Scanned(f, c, good, n)
        OBVIOUS
      <3>1. CASE n <= k
        <4>1. n \in 0..k
          BY <3>1
        <4>2. f[n] = Scanned(f, c, good, n)
          BY <4>1, <2>1
        <4>. QED
          BY <4>2, <3>1
      <3>. QED
        BY <3>1
    <2>4. g = [n \in 0..(k + 1) |-> Scanned(g, c, good, n)]
      <3>1. \A n \in 0..(k + 1) : g[n] = Scanned(g, c, good, n)
        BY <2>2, <2>3
      <3>2. g = [n \in 0..(k + 1) |-> g[n]]
        OBVIOUS
      <3>. HIDE DEF g
      <3>. QED
        BY <3>1, <3>2
    <2>5. \E h : h = [n \in 0..(k + 1) |-> Scanned(h, c, good, n)]
      <3>. HIDE DEF g
      <3>. QED
        BY <2>4
    <2>. QED
      BY <2>5
  <1>3. S = Nat
    <2>. S \in SUBSET Nat
      OBVIOUS
    <2>. HIDE DEF S
    <2>. QED
      BY <1>1, <1>2, Induct
  <1>. QED
    BY <1>3

LEMMA Scan ==
    ASSUME NEW c, Len(c) \in Nat
    PROVE  EventsUpTo(c) = [n \in 0..Len(c) |-> Scanned(EventsUpTo(c), c, GoodLines(c), n)]
  <1> DEFINE f == CHOOSE f : f = [n \in 0..Len(c) |-> Scanned(f, c, GoodLines(c), n)]
  <1>1. EventsUpTo(c) = f
    BY DEF EventsUpTo, Scanned
  <1>2. f = [n \in 0..Len(c) |-> Scanned(f, c, GoodLines(c), n)]
    BY ScanExists
  <1>. QED
    BY <1>1, <1>2

\* What EventsUpTo is after no cell and after one more.
LEMMA ScanStep ==
    ASSUME NEW c, Len(c) \in Nat
    PROVE  /\ EventsUpTo(c)[0] = << >>
           /\ \A n \in 1..Len(c) :
                 EventsUpTo(c)[n] = IF n \in GoodLines(c)
                                    THEN Append(EventsUpTo(c)[n - 1], c[n].event)
                                    ELSE EventsUpTo(c)[n - 1]
  <1>1. \A n \in 0..Len(c) : EventsUpTo(c)[n] = Scanned(EventsUpTo(c), c, GoodLines(c), n)
    <2> DEFINE f == EventsUpTo(c)
    <2>1. f = [n \in 0..Len(c) |-> Scanned(f, c, GoodLines(c), n)]
      BY Scan
    <2>. HIDE DEF f
    <2>. QED
      BY <2>1
  <1>2. 0 \in 0..Len(c) /\ \A n \in 1..Len(c) : n \in 0..Len(c) /\ n # 0
    OBVIOUS
  <1>. QED
    BY <1>1, <1>2 DEF Scanned

Cells == [event : Nat, last : BOOLEAN]

\* Sequences that start with the same m cells.
SamePrefix(c, d, m) ==
    /\ m <= Len(c) /\ m <= Len(d)
    /\ \A i \in 1..m : c[i] = d[i]

LEMMA Prefix ==
    ASSUME NEW c \in Seq(Cells), NEW d \in Seq(Cells), NEW m \in Nat, SamePrefix(c, d, m)
    PROVE  EventsUpTo(c)[m] = EventsUpTo(d)[m]
  <1> DEFINE S == {n \in Nat : n <= m => EventsUpTo(c)[n] = EventsUpTo(d)[n]}
  <1>0. Len(c) \in Nat /\ Len(d) \in Nat
    OBVIOUS
  <1>1. 0 \in S
    BY <1>0, ScanStep
  <1>2. ASSUME NEW n \in S PROVE n + 1 \in S
    <2>. SUFFICES ASSUME n + 1 <= m PROVE EventsUpTo(c)[n + 1] = EventsUpTo(d)[n + 1]
      OBVIOUS
    <2>1. EventsUpTo(c)[n] = EventsUpTo(d)[n]
      BY <1>2
    <2>2. n + 1 \in 1..Len(c) /\ n + 1 \in 1..Len(d) /\ (n + 1) - 1 = n
      BY <1>0 DEF SamePrefix
    <2>3. c[n + 1] = d[n + 1]
      BY DEF SamePrefix
    <2>4. n + 1 \in GoodLines(c) <=> n + 1 \in GoodLines(d)
      <3>1. n + 1 >= 2 => c[n] = d[n]
        BY DEF SamePrefix
      <3>2. n + 1 > 2 => c[n - 1] = d[n - 1]
        BY DEF SamePrefix
      <3>3. (n + 1) - 1 = n /\ (n + 1) - 2 = n - 1
        OBVIOUS
      <3>. QED
        BY <3>1, <3>2, <3>3, <2>2, <2>3 DEF GoodLines
    <2>5. EventsUpTo(c)[n + 1] = IF n + 1 \in GoodLines(c)
                                 THEN Append(EventsUpTo(c)[n], c[n + 1].event)
                                 ELSE EventsUpTo(c)[n]
      BY <1>0, <2>2, ScanStep
    <2>6. EventsUpTo(d)[n + 1] = IF n + 1 \in GoodLines(d)
                                 THEN Append(EventsUpTo(d)[n], d[n + 1].event)
                                 ELSE EventsUpTo(d)[n]
      BY <1>0, <2>2, ScanStep
    <2>. QED
      BY <2>1, <2>3, <2>4, <2>5, <2>6
  <1>3. S = Nat
    <2>. S \in SUBSET Nat
      OBVIOUS
    <2>. HIDE DEF S
    <2>. QED
      BY <1>1, <1>2, Induct
  <1>. QED
    BY <1>3

\* Where a line ends, or none has begun.
Boundary(c, n) == n \in 0..Len(c) /\ (n = 0 \/ c[n].last)

LEMMA EventsTyped ==
    ASSUME NEW c \in Seq(Cells)
    PROVE  \A n \in 0..Len(c) : EventsUpTo(c)[n] \in Seq(Nat)
  <1> DEFINE S == {n \in Nat : n <= Len(c) => EventsUpTo(c)[n] \in Seq(Nat)}
  <1>0. Len(c) \in Nat
    OBVIOUS
  <1>1. 0 \in S
    <2>1. EventsUpTo(c)[0] = << >> /\ << >> \in Seq(Nat)
      BY <1>0, ScanStep
    <2>. QED
      BY <2>1
  <1>2. ASSUME NEW n \in S PROVE n + 1 \in S
    <2>. SUFFICES ASSUME n + 1 <= Len(c) PROVE EventsUpTo(c)[n + 1] \in Seq(Nat)
      OBVIOUS
    <2>1. n + 1 \in 1..Len(c) /\ (n + 1) - 1 = n
      BY <1>0
    <2>2. EventsUpTo(c)[n] \in Seq(Nat)
      BY <1>0, <1>2
    <2>3. c[n + 1].event \in Nat
      <3>1. c[n + 1] \in Cells
        BY <2>1
      <3>. QED
        BY <3>1 DEF Cells
    <2>4. EventsUpTo(c)[n + 1] = IF n + 1 \in GoodLines(c)
                                 THEN Append(EventsUpTo(c)[n], c[n + 1].event)
                                 ELSE EventsUpTo(c)[n]
      BY <1>0, <2>1, ScanStep
    <2>. QED
      BY <2>2, <2>3, <2>4
  <1>3. S = Nat
    <2>. S \in SUBSET Nat
      OBVIOUS
    <2>. HIDE DEF S
    <2>. QED
      BY <1>1, <1>2, Induct
  <1>. QED
    BY <1>3

\* Reading on from a boundary.
LEMMA Split ==
    ASSUME NEW c \in Seq(Cells), NEW a, Boundary(c, a)
    PROVE  \A b \in a..Len(c) :
              EventsUpTo(c)[b] = EventsUpTo(c)[a] \o EventsOf(SubSeq(c, a + 1, b))
  <1> DEFINE Rest(b) == SubSeq(c, a + 1, b)
             S == {n \in Nat : a + n <= Len(c) =>
                      EventsUpTo(c)[a + n] = EventsUpTo(c)[a] \o EventsOf(Rest(a + n))}
  <1>0. Len(c) \in Nat /\ a \in Nat /\ a <= Len(c)
    BY DEF Boundary
  <1>a. ASSUME NEW n \in Nat, a + n <= Len(c)
        PROVE  /\ Rest(a + n) \in Seq(Cells) /\ Len(Rest(a + n)) = n
               /\ \A i \in 1..n : Rest(a + n)[i] = c[a + i]
    BY <1>0, <1>a
  <1>1. 0 \in S
    <2>1. Rest(a + 0) \in Seq(Cells) /\ Len(Rest(a + 0)) = 0
      BY <1>0, <1>a
    <2>2. EventsOf(Rest(a + 0)) = << >>
      BY <2>1, ScanStep DEF EventsOf
    <2>3. EventsUpTo(c)[a] \in Seq(Nat)
      BY <1>0, EventsTyped
    <2>4. EventsUpTo(c)[a] \o << >> = EventsUpTo(c)[a]
      BY <2>3
    <2>5. a + 0 = a
      BY <1>0
    <2>. HIDE DEF Rest
    <2>. QED
      BY <2>2, <2>4, <2>5
  <1>2. ASSUME NEW n \in S PROVE n + 1 \in S
    <2>0. n \in Nat /\ n + 1 \in Nat
      OBVIOUS
    <2>. SUFFICES ASSUME a + (n + 1) <= Len(c)
                  PROVE  EventsUpTo(c)[a + (n + 1)]
                            = EventsUpTo(c)[a] \o EventsOf(Rest(a + (n + 1)))
      <3>. HIDE DEF Rest
      <3>. QED
        BY <2>0
    <2> DEFINE d == Rest(a + n)
               e == Rest(a + (n + 1))
               b == a + (n + 1)
    <2>1. n \in Nat /\ n + 1 \in Nat /\ a + n <= Len(c)
      BY <1>0
    <2>2. /\ d \in Seq(Cells) /\ Len(d) = n /\ \A i \in 1..n : d[i] = c[a + i]
          /\ e \in Seq(Cells) /\ Len(e) = n + 1 /\ \A i \in 1..(n + 1) : e[i] = c[a + i]
      BY <1>a, <2>1
    <2>3. EventsUpTo(c)[a + n] = EventsUpTo(c)[a] \o EventsOf(d)
      BY <1>2, <2>1
    <2>. HIDE DEF Rest, d, e, S
    <2>4. EventsOf(d) = EventsUpTo(e)[n]
      <3>1. SamePrefix(d, e, n)
        BY <2>1, <2>2 DEF SamePrefix
      <3>. QED
        BY <2>1, <2>2, <3>1, Prefix DEF EventsOf
    <2>5. EventsOf(e) = IF n + 1 \in GoodLines(e)
                        THEN Append(EventsUpTo(e)[n], e[n + 1].event)
                        ELSE EventsUpTo(e)[n]
      <3>1. n + 1 \in 1..Len(e) /\ (n + 1) - 1 = n
        BY <2>1, <2>2
      <3>. QED
        BY <2>1, <2>2, <3>1, ScanStep DEF EventsOf
    <2>6. EventsUpTo(c)[b] = IF b \in GoodLines(c)
                             THEN Append(EventsUpTo(c)[a + n], c[b].event)
                             ELSE EventsUpTo(c)[a + n]
      <3>1. b \in 1..Len(c) /\ b - 1 = a + n
        BY <1>0, <2>1
      <3>. QED
        BY <1>0, <3>1, ScanStep
    <2>7. b \in GoodLines(c) <=> n + 1 \in GoodLines(e)
      <3>1. /\ e[n + 1] = c[b]
            /\ n + 1 >= 2 => e[(n + 1) - 1] = c[b - 1]
            /\ n + 1 > 2 => e[(n + 1) - 2] = c[b - 2]
        <4>1. a + (n + 1) = b /\ n + 1 \in 1..(n + 1)
          BY <1>0, <2>1
        <4>2. n + 1 >= 2 => (n + 1) - 1 \in 1..(n + 1) /\ a + ((n + 1) - 1) = b - 1
          BY <1>0, <2>1
        <4>3. n + 1 > 2 => (n + 1) - 2 \in 1..(n + 1) /\ a + ((n + 1) - 2) = b - 2
          BY <1>0, <2>1
        <4>. QED
          BY <2>2, <4>1, <4>2, <4>3
      <3>2. n + 1 \in GoodLines(e) <=>
               /\ n + 1 >= 2
               /\ e[n + 1].last /\ ~e[(n + 1) - 1].last
               /\ e[n + 1].event = e[(n + 1) - 1].event
               /\ n + 1 > 2 => e[(n + 1) - 2].last
        BY <2>1, <2>2 DEF GoodLines
      <3>3. b \in GoodLines(c) <=>
               /\ b >= 2
               /\ c[b].last /\ ~c[b - 1].last /\ c[b].event = c[b - 1].event
               /\ b > 2 => c[b - 2].last
        BY <1>0, <2>1 DEF GoodLines
      <3>4. CASE n + 1 > 2
        <4>1. b > 2 /\ b >= 2 /\ n + 1 >= 2
          BY <1>0, <2>1, <3>4
        <4>. QED
          BY <3>1, <3>2, <3>3, <3>4, <4>1
      <3>5. CASE n + 1 = 2
        <4>1. b >= 2 /\ n + 1 >= 2 /\ ~(n + 1 > 2) /\ b - 2 = a /\ (b > 2 => a # 0)
          BY <1>0, <2>1, <3>5
        <4>2. b > 2 => c[b - 2].last
          BY <4>1 DEF Boundary
        <4>. QED
          BY <3>1, <3>2, <3>3, <4>1, <4>2
      <3>6. CASE n + 1 = 1
        <4>1. ~(n + 1 >= 2) /\ b - 1 = a /\ (b >= 2 => a # 0)
          BY <1>0, <2>1, <3>6
        <4>2. b >= 2 => c[b - 1].last
          BY <4>1 DEF Boundary
        <4>. QED
          BY <3>2, <3>3, <4>1, <4>2
      <3>. QED
        BY <2>1, <3>4, <3>5, <3>6
    <2>8. c[b] = e[n + 1]
      BY <2>1, <2>2
    <2>9. EventsUpTo(c)[a] \in Seq(Nat) /\ EventsUpTo(e)[n] \in Seq(Nat) /\ e[n + 1].event \in Nat
      <3>1. n \in 0..Len(e) /\ n + 1 \in 1..Len(e)
        BY <2>1, <2>2
      <3>2. e[n + 1] \in Cells
        BY <2>2, <3>1
      <3>. QED
        BY <1>0, <2>2, <3>1, <3>2, EventsTyped DEF Cells
    <2>10. Append(EventsUpTo(c)[a] \o EventsUpTo(e)[n], e[n + 1].event)
              = EventsUpTo(c)[a] \o Append(EventsUpTo(e)[n], e[n + 1].event)
      <3> DEFINE x == EventsUpTo(c)[a]
                 y == EventsUpTo(e)[n]
                 z == e[n + 1].event
      <3>1. x \in Seq(Nat) /\ y \in Seq(Nat) /\ z \in Nat /\ <<z>> \in Seq(Nat)
        BY <2>9
      <3>2. x \o y \in Seq(Nat)
        BY <3>1
      <3>. HIDE DEF x, y, z
      <3>3. Append(x \o y, z) = (x \o y) \o <<z>> /\ Append(y, z) = y \o <<z>>
        BY <3>1, <3>2, AppendIsConcat
      <3>4. (x \o y) \o <<z>> = x \o (y \o <<z>>)
        BY <3>1, ConcatAssociative
      <3>. QED
        BY <3>3, <3>4 DEF x, y, z
    <2>11. EventsUpTo(c)[b] = EventsUpTo(c)[a] \o EventsOf(e)
      <3>. HIDE DEF b
      <3>. QED
        BY <2>3, <2>4, <2>5, <2>6, <2>7, <2>8, <2>10
    <2>. QED
      BY <2>11 DEF e
  <1>3. S = Nat
    <2>. S \in SUBSET Nat
      OBVIOUS
    <2>. HIDE DEF S
    <2>. QED
      BY <1>1, <1>2, Induct
  <1>4. ASSUME NEW b \in a..Len(c)
        PROVE  EventsUpTo(c)[b] = EventsUpTo(c)[a] \o EventsOf(Rest(b))
    <2>1. b - a \in Nat /\ a + (b - a) = b /\ a + (b - a) <= Len(c)
      BY <1>0
    <2>2. b - a \in S
      BY <1>3, <2>1
    <2>. QED
      BY <2>1, <2>2
  <1>. QED
    BY <1>4

\* No event is collected where no line ends.
LEMMA Quiet ==
    ASSUME NEW c \in Seq(Cells), NEW a \in Nat, NEW b \in Nat, a <= b, b <= Len(c),
           \A i \in (a + 1)..b : ~c[i].last
    PROVE  EventsUpTo(c)[b] = EventsUpTo(c)[a]
  <1> DEFINE S == {n \in Nat : a + n <= b => EventsUpTo(c)[a + n] = EventsUpTo(c)[a]}
  <1>0. Len(c) \in Nat
    OBVIOUS
  <1>1. 0 \in S
    <2>1. a + 0 = a
      OBVIOUS
    <2>. QED
      BY <2>1
  <1>2. ASSUME NEW n \in S PROVE n + 1 \in S
    <2>0. n \in Nat /\ n + 1 \in Nat
      OBVIOUS
    <2>. SUFFICES ASSUME a + (n + 1) <= b
                  PROVE  EventsUpTo(c)[a + (n + 1)] = EventsUpTo(c)[a]
      BY <2>0
    <2>1. EventsUpTo(c)[a + n] = EventsUpTo(c)[a]
      BY <1>2, <2>0
    <2> DEFINE k == a + (n + 1)
    <2>2. k \in 1..Len(c) /\ k - 1 = a + n /\ k \in (a + 1)..b
      BY <1>0, <2>0
    <2>3. k \notin GoodLines(c)
      BY <2>2 DEF GoodLines
    <2>4. EventsUpTo(c)[k] = EventsUpTo(c)[k - 1]
      <3>. HIDE DEF k
      <3>. QED
        BY <1>0, <2>2, <2>3, ScanStep
    <2>. QED
      BY <2>1, <2>2, <2>4
  <1>3. S = Nat
    <2>. S \in SUBSET Nat
      OBVIOUS
    <2>. HIDE DEF S
    <2>. QED
      BY <1>1, <1>2, Induct
  <1>4. b - a \in Nat /\ a + (b - a) = b
    OBVIOUS
  <1>5. b - a \in S
    BY <1>3, <1>4
  <1>. QED
    BY <1>4, <1>5

\* The file grows by one cell.
LEMMA OneMore ==
    ASSUME NEW c \in Seq(Cells), NEW x \in Cells
    PROVE  /\ \A n \in 0..Len(c) : EventsUpTo(Append(c, x))[n] = EventsUpTo(c)[n]
           /\ \/ EventsOf(Append(c, x)) = EventsOf(c)
              \/ x.last /\ EventsOf(Append(c, x)) = Append(EventsOf(c), x.event)
  <1> DEFINE d == Append(c, x)
  <1>1. /\ d \in Seq(Cells) /\ Len(d) = Len(c) + 1 /\ Len(c) \in Nat
        /\ \A i \in 1..Len(c) : d[i] = c[i]
        /\ d[Len(c) + 1] = x
    OBVIOUS
  <1>. HIDE DEF d
  <1>2. \A n \in 0..Len(c) : EventsUpTo(d)[n] = EventsUpTo(c)[n]
    <2>. SUFFICES ASSUME NEW n \in 0..Len(c) PROVE EventsUpTo(d)[n] = EventsUpTo(c)[n]
      OBVIOUS
    <2>1. n \in Nat /\ SamePrefix(d, c, n)
      BY <1>1 DEF SamePrefix
    <2>. QED
      BY <1>1, <2>1, Prefix
  <1>3. EventsOf(d) = IF Len(d) \in GoodLines(d)
                      THEN Append(EventsUpTo(d)[Len(c)], x.event)
                      ELSE EventsUpTo(d)[Len(c)]
    <2>1. Len(d) \in 1..Len(d) /\ Len(d) - 1 = Len(c)
      BY <1>1
    <2>. QED
      BY <1>1, <2>1, ScanStep DEF EventsOf
  <1>4. EventsUpTo(d)[Len(c)] = EventsOf(c)
    <2>1. Len(c) \in 0..Len(c)
      BY <1>1
    <2>. QED
      BY <1>2, <2>1 DEF EventsOf
  <1>5. Len(d) \in GoodLines(d) => x.last
    BY <1>1 DEF GoodLines
  <1>. QED
    BY <1>2, <1>3, <1>4, <1>5 DEF d

LEMMA ConsumedIsLast ==
    ASSUME NEW c \in Seq(Cells)
    PROVE  /\ Boundary(c, Consumed(c))
           /\ \A i \in 1..Len(c) : c[i].last => i <= Consumed(c)
  <1> DEFINE S == {0} \cup {i \in 1..Len(c) : c[i].last}
             U == {n \in Nat : \A y \in S : y <= n}
  <1>0. Len(c) \in Nat /\ S \in SUBSET Nat /\ 0 \in S /\ \A y \in S : y <= Len(c)
    OBVIOUS
  <1>1. PICK u \in U : \A n \in U : u <= n
    <2>1. Len(c) \in U
      BY <1>0
    <2>2. U \in SUBSET Nat /\ U # {}
      BY <2>1
    <2>. HIDE DEF U
    <2>. QED
      BY <2>2, Least
  <1>2. u \in S
    <2>. SUFFICES ASSUME u \notin S PROVE FALSE
      OBVIOUS
    <2>. HIDE DEF S
    <2>1. u \in Nat /\ u # 0 /\ \A y \in S : y <= u /\ y # u
      BY <1>0
    <2>2. u - 1 \in Nat /\ \A y \in S : y <= u - 1
      BY <1>0, <2>1
    <2>3. u - 1 \in U
      BY <2>2
    <2>. QED
      BY <1>1, <2>1, <2>3
  <1>3. u \in S /\ \A y \in S : u >= y
    <2>. HIDE DEF S
    <2>. QED
      BY <1>0, <1>2
  <1>4. Consumed(c) \in S /\ \A y \in S : Consumed(c) >= y
    <2>1. Consumed(c) = Max(S)
      BY DEF Consumed
    <2>. HIDE DEF S
    <2>. QED
      BY <1>3, <2>1 DEF Max
  <1>5. Consumed(c) \in 0..Len(c) /\ (Consumed(c) = 0 \/ c[Consumed(c)].last)
    BY <1>4
  <1>6. ASSUME NEW i \in 1..Len(c), c[i].last PROVE i <= Consumed(c)
    <2>1. i \in S
      BY <1>6
    <2>2. Consumed(c) >= i /\ Consumed(c) \in Nat
      <3>. HIDE DEF S
      <3>. QED
        BY <1>0, <1>4, <2>1
    <2>. QED
      BY <2>2
  <1>. QED
    BY <1>5, <1>6 DEF Boundary
-----------------------------------------------------------------------------
(* Types.                                                                  *)

Batches == [next : Nat, events : Seq(Nat)]

JournalType ==
    /\ file \in Seq(Cells) /\ signals \in 0..MaxEvents /\ writing \in BOOLEAN
    /\ offset \in Nat /\ received \in Seq(Nat)
    /\ pc \in [Reader -> {"idle", "lstat", "read", "commit"}]
    /\ start \in [Reader -> Nat] /\ size \in [Reader -> Nat]
    /\ batch \in [Reader -> Batches]
    /\ \A i \in 1..Len(file) : file[i].event \in 1..signals
    /\ writing => signals >= 1

\* What ReadChunk parses.
End(r) == Min({size[r], Len(file)})
Chunk(r) == SubSeq(file, From(r) + 1, End(r))

LEMMA ChunkTyped ==
    ASSUME JournalType, NEW r \in Reader
    PROVE  /\ From(r) \in Nat /\ (From(r) = start[r] \/ (From(r) = 0 /\ start[r] > size[r]))
           /\ End(r) \in Nat /\ End(r) <= size[r] /\ End(r) <= Len(file)
           /\ size[r] <= Len(file) => End(r) = size[r]
           /\ Chunk(r) \in Seq(Cells)
           /\ Len(Chunk(r)) = IF From(r) < End(r) THEN End(r) - From(r) ELSE 0
           /\ \A i \in 1..Len(Chunk(r)) : Chunk(r)[i] = file[From(r) + i]
           /\ Consumed(Chunk(r)) \in Nat /\ EventsOf(Chunk(r)) \in Seq(Nat)
  <1>1. start[r] \in Nat /\ size[r] \in Nat /\ Len(file) \in Nat
    BY DEF JournalType
  <1>2. From(r) \in Nat /\ (From(r) = start[r] \/ (From(r) = 0 /\ start[r] > size[r]))
    BY <1>1 DEF From
  <1>3. /\ End(r) \in Nat /\ End(r) <= size[r] /\ End(r) <= Len(file)
        /\ size[r] <= Len(file) => End(r) = size[r]
    <2> DEFINE S == {size[r], Len(file)}
    <2>1. \E x \in S : \A y \in S : x <= y
      BY <1>1
    <2>2. End(r) \in S /\ \A y \in S : End(r) <= y
      <3>. HIDE DEF S
      <3>1. End(r) = Min(S)
        BY DEF End, S
      <3>. QED
        BY <2>1, <3>1 DEF Min
    <2>. QED
      BY <1>1, <2>2
  <1>4. \A i \in (From(r) + 1)..End(r) : file[i] \in Cells
    BY <1>1, <1>2, <1>3 DEF JournalType
  <1> DEFINE a == From(r) + 1
             b == End(r)
  <1>5. /\ SubSeq(file, a, b) \in Seq(Cells)
        /\ Len(SubSeq(file, a, b)) = IF a <= b THEN b - a + 1 ELSE 0
        /\ \A i \in 1..(b - a + 1) : SubSeq(file, a, b)[i] = file[a + i - 1]
    <2>1. a \in Int /\ b \in Int /\ \A i \in a..b : file[i] \in Cells
      BY <1>2, <1>3, <1>4
    <2>. HIDE DEF a, b
    <2>. QED
      BY <2>1, SubSeqProperties
  <1>6. /\ Chunk(r) \in Seq(Cells)
        /\ Len(Chunk(r)) = IF From(r) < End(r) THEN End(r) - From(r) ELSE 0
    BY <1>2, <1>3, <1>5 DEF Chunk
  <1>7. \A i \in 1..Len(Chunk(r)) : Chunk(r)[i] = file[From(r) + i]
    <2>. SUFFICES ASSUME NEW i \in 1..Len(Chunk(r)) PROVE Chunk(r)[i] = file[From(r) + i]
      OBVIOUS
    <2>1. i \in 1..(b - a + 1) /\ a + i - 1 = From(r) + i
      BY <1>2, <1>3, <1>6
    <2>. QED
      BY <1>5, <2>1 DEF Chunk
  <1>8. Consumed(Chunk(r)) \in Nat
    BY <1>6, ConsumedIsLast DEF Boundary
  <1>9. EventsOf(Chunk(r)) \in Seq(Nat)
    <2>1. Len(Chunk(r)) \in 0..Len(Chunk(r))
      BY <1>6
    <2>. QED
      BY <1>6, <2>1, EventsTyped DEF EventsOf
  <1>. QED
    BY <1>2, <1>3, <1>6, <1>7, <1>8, <1>9

\* A pass changes its own locals only.
OwnLocals(r) ==
    \A q \in Reader \ {r} : /\ pc'[q] = pc[q] /\ start'[q] = start[q]
                            /\ size'[q] = size[q] /\ batch'[q] = batch[q]

LEMMA PassOwnLocals ==
    ASSUME JournalType, NEW r \in Reader, Pass(r)
    PROVE  OwnLocals(r)
  BY DEF JournalType, OwnLocals, Pass, ReadTask, Missing, Lstat, ReadChunk, Commit, Finished, Goto

LEMMA TypeInit == Init => JournalType
  <1>. SUFFICES ASSUME Init PROVE JournalType
    OBVIOUS
  <1>1. /\ file = << >> /\ << >> \in Seq(Cells) /\ received = << >> /\ << >> \in Seq(Nat)
        /\ \A i \in 1..Len(file) : file[i].event \in 1..signals
    BY DEF Init
  <1>2. signals \in 0..MaxEvents /\ offset \in Nat
    BY JournalAssumption DEF Init
  <1>3. writing \in BOOLEAN /\ ~writing
    BY DEF Init
  <1>4. [next |-> 0, events |-> << >>] \in Batches
    BY DEF Batches
  <1>5. /\ pc \in [Reader -> {"idle", "lstat", "read", "commit"}]
        /\ start \in [Reader -> Nat] /\ size \in [Reader -> Nat]
        /\ batch \in [Reader -> Batches]
    BY <1>4 DEF Init
  <1>. QED
    BY <1>1, <1>2, <1>3, <1>5 DEF JournalType

LEMMA WriteTypes ==
    ASSUME JournalType, Write \/ Recreate
    PROVE  /\ file' \in Seq(Cells) /\ signals' \in 0..MaxEvents /\ writing' \in BOOLEAN
           /\ \A i \in 1..Len(file') : file'[i].event \in 1..signals'
           /\ writing' => signals' >= 1
  <1>0. MaxEvents \in Nat /\ signals \in Nat
    BY JournalAssumption DEF JournalType
  <1>1. ASSUME NEW x \in Cells, NEW n \in Nat, file' = Append(file, x), x.event \in 1..n,
               signals <= n
        PROVE  file' \in Seq(Cells) /\ \A i \in 1..Len(file') : file'[i].event \in 1..n
    <2>1. /\ file' \in Seq(Cells) /\ Len(file') = Len(file) + 1 /\ Len(file) \in Nat
          /\ \A i \in 1..Len(file) : file'[i] = file[i]
          /\ file'[Len(file) + 1] = x
      BY <1>1 DEF JournalType
    <2>2. \A i \in 1..Len(file) : file[i].event \in 1..n
      BY <1>0, <1>1 DEF JournalType
    <2>3. \A i \in 1..Len(file') : i \in 1..Len(file) \/ i = Len(file) + 1
      BY <2>1
    <2>. QED
      BY <1>1, <2>1, <2>2, <2>3
  <1>2. CASE WriteFirstBytes
    <2> DEFINE x == Cell(signals + 1, FALSE)
    <2>1. x \in Cells /\ x.event = signals + 1
      BY <1>0 DEF Cell, Cells
    <2>2. file' = Append(file, x) /\ signals' = signals + 1 /\ signals < MaxEvents /\ writing' = TRUE
      BY <1>2 DEF WriteFirstBytes
    <2>3. signals' \in Nat /\ x.event \in 1..signals' /\ signals <= signals' /\ signals' >= 1
          /\ signals' \in 0..MaxEvents
      <3>. HIDE DEF x
      <3>. QED
        BY <1>0, <2>1, <2>2
    <2>. HIDE DEF x
    <2>. QED
      BY <1>1, <2>1, <2>2, <2>3
  <1>3. CASE WriteRest
    <2> DEFINE x == Cell(signals, TRUE)
    <2>1. x \in Cells /\ x.event = signals
      BY <1>0 DEF Cell, Cells
    <2>2. file' = Append(file, x) /\ signals' = signals /\ writing /\ writing' = FALSE
      BY <1>3 DEF WriteRest
    <2>3. x.event \in 1..signals
      <3>1. signals >= 1
        BY <2>2 DEF JournalType
      <3>. HIDE DEF x
      <3>. QED
        BY <1>0, <2>1, <3>1
    <2>. HIDE DEF x
    <2>4. file' \in Seq(Cells) /\ \A i \in 1..Len(file') : file'[i].event \in 1..signals
      BY <1>0, <1>1, <2>1, <2>2, <2>3
    <2>. QED
      BY <2>2, <2>4 DEF JournalType
  <1>4. CASE WriteShort
    BY <1>4 DEF WriteShort, JournalType
  <1>5. CASE Recreate
    <2>1. file' = << >> /\ << >> \in Seq(Cells) /\ Len(<< >>) = 0
      BY <1>5 DEF Recreate
    <2>2. signals' = signals /\ writing' = writing
      BY <1>5 DEF Recreate
    <2>. QED
      BY <2>1, <2>2 DEF JournalType
  <1>. QED
    BY <1>2, <1>3, <1>4, <1>5 DEF Write

LEMMA PassTypes ==
    ASSUME JournalType, NEW r \in Reader, Pass(r)
    PROVE  /\ offset' \in Nat /\ received' \in Seq(Nat)
           /\ pc' \in [Reader -> {"idle", "lstat", "read", "commit"}]
           /\ start' \in [Reader -> Nat] /\ size' \in [Reader -> Nat]
           /\ batch' \in [Reader -> Batches]
           /\ file' = file /\ signals' = signals /\ writing' = writing
  <1>1. CASE ReadTask(r)
    BY <1>1 DEF ReadTask, Goto, JournalType
  <1>2. CASE Missing(r)
    <2>1. PICK next \in {start[r], 0} :
            batch' = [batch EXCEPT ![r] = [next |-> next, events |-> << >>]]
      BY <1>2 DEF Missing
    <2>2. next \in Nat
      BY DEF JournalType
    <2>3. [next |-> next, events |-> << >>] \in Batches
      BY <2>2 DEF Batches
    <2>4. batch' \in [Reader -> Batches]
      BY <2>1, <2>3 DEF JournalType
    <2>. QED
      BY <1>2, <2>4 DEF Missing, Goto, JournalType
  <1>3. CASE Lstat(r)
    <2>1. Len(file) \in Nat
      BY DEF JournalType
    <2>. QED
      BY <1>3, <2>1 DEF Lstat, Goto, JournalType
  <1>4. CASE ReadChunk(r)
    <2> DEFINE b == [next |-> From(r) + Consumed(Chunk(r)), events |-> EventsOf(Chunk(r))]
    <2>1. From(r) + Consumed(Chunk(r)) \in Nat /\ EventsOf(Chunk(r)) \in Seq(Nat)
      BY ChunkTyped
    <2>2. b \in Batches
      BY <2>1 DEF Batches
    <2>3. batch' = [batch EXCEPT ![r] = b]
      BY <1>4 DEF ReadChunk, Chunk, End
    <2>. HIDE DEF b
    <2>4. batch' \in [Reader -> Batches]
      BY <2>2, <2>3 DEF JournalType
    <2>. QED
      BY <1>4, <2>4 DEF ReadChunk, Goto, JournalType
  <1>5. CASE Commit(r)
    <2>1. batch[r].next \in Nat /\ batch[r].events \in Seq(Nat)
      <3>1. batch[r] \in Batches
        BY DEF JournalType
      <3>. QED
        BY <3>1 DEF Batches
    <2>2. offset' \in Nat /\ received' \in Seq(Nat)
      <3>1. offset \in Nat /\ received \in Seq(Nat) /\ received \o batch[r].events \in Seq(Nat)
        BY <2>1 DEF JournalType
      <3>2. \/ offset' = batch[r].next /\ received' = received \o batch[r].events
            \/ offset' = offset /\ received' = received
        BY <1>5 DEF Commit
      <3>. QED
        BY <2>1, <3>1, <3>2
    <2>3. [next |-> 0, events |-> << >>] \in Batches
      BY DEF Batches
    <2>. QED
      BY <1>5, <2>2, <2>3 DEF Commit, Finished, Goto, JournalType
  <1>. QED
    BY <1>1, <1>2, <1>3, <1>4, <1>5 DEF Pass

LEMMA TypeInductive ==
    ASSUME JournalType, [Next]_vars
    PROVE  JournalType'
  <1>1. CASE Write \/ Recreate
    <2>1. UNCHANGED <<offset, received, locals>>
      BY <1>1 DEF Write, WriteFirstBytes, WriteRest, WriteShort, Recreate
    <2>. QED
      BY <1>1, <2>1, WriteTypes DEF JournalType, locals
  <1>2. ASSUME NEW r \in Reader, Pass(r) PROVE JournalType'
    BY <1>2, PassTypes DEF JournalType
  <1>3. CASE UNCHANGED vars
    BY <1>3 DEF vars, locals, JournalType
  <1>. QED
    BY <1>1, <1>2, <1>3 DEF Next
-----------------------------------------------------------------------------
(* The journal is a first-in first-out stream.                             *)

\* Until the journal is deleted every offset is the end of a line, and a batch
\* is what lies between the offset its pass read and the one it will write.
PassInv(r) ==
    /\ pc[r] # "idle" => Boundary(file, start[r])
    /\ pc[r] = "read" => start[r] <= size[r] /\ size[r] <= Len(file)
    /\ pc[r] = "commit" =>
          /\ Boundary(file, batch[r].next) /\ start[r] <= batch[r].next
          /\ EventsUpTo(file)[batch[r].next] = EventsUpTo(file)[start[r]] \o batch[r].events

StreamInv ==
    ~deleted =>
        /\ Boundary(file, offset) /\ received = EventsUpTo(file)[offset]
        /\ \A r \in Reader : PassInv(r)

\* What has been read stays where it is when a cell is added.
LEMMA Grows ==
    ASSUME NEW c \in Seq(Cells), NEW x \in Cells, NEW n, Boundary(c, n)
    PROVE  /\ Boundary(Append(c, x), n)
           /\ EventsUpTo(Append(c, x))[n] = EventsUpTo(c)[n]
  <1>1. /\ Len(Append(c, x)) = Len(c) + 1 /\ Len(c) \in Nat
        /\ \A i \in 1..Len(c) : Append(c, x)[i] = c[i]
    OBVIOUS
  <1>2. n \in 0..Len(c)
    BY DEF Boundary
  <1>3. n \in 0..(Len(c) + 1) /\ (n # 0 => Append(c, x)[n] = c[n])
    BY <1>1, <1>2
  <1>4. Boundary(Append(c, x), n)
    BY <1>1, <1>3 DEF Boundary
  <1>. QED
    BY <1>2, <1>4, OneMore

LEMMA WriteStreams ==
    ASSUME JournalType, StreamInv, Write
    PROVE  StreamInv' /\ [deleted' \/ Stream!Next]_<<Readable, received>>
  <1>0. UNCHANGED <<offset, received, deleted, pc, start, size, batch>>
    BY DEF Write, WriteFirstBytes, WriteRest, WriteShort, locals, deletions
  <1>1. CASE WriteShort
    <2>1. file' = file
      BY <1>1 DEF WriteShort
    <2>. QED
      BY <1>0, <2>1 DEF StreamInv, PassInv, Readable
  <1>2. ASSUME NEW x \in Cells, file' = Append(file, x), x.last => x.event \in Event
        PROVE  StreamInv' /\ [deleted' \/ Stream!Next]_<<Readable, received>>
    <2>1. file \in Seq(Cells) /\ Len(file) \in Nat /\ Len(file') = Len(file) + 1
      BY <1>2 DEF JournalType
    <2>2. ASSUME ~deleted, NEW r \in Reader PROVE PassInv(r)'
      <3>1. PassInv(r)
        BY <2>2 DEF StreamInv
      <3>2. pc[r] # "idle" => /\ Boundary(file', start[r])
                              /\ EventsUpTo(file')[start[r]] = EventsUpTo(file)[start[r]]
        BY <1>2, <2>1, <3>1, Grows DEF PassInv
      <3>3. pc[r] = "commit" =>
               /\ Boundary(file', batch[r].next)
               /\ EventsUpTo(file')[batch[r].next] = EventsUpTo(file)[batch[r].next]
        BY <1>2, <2>1, <3>1, Grows DEF PassInv
      <3>4. pc[r] = "read" => start[r] <= size[r] /\ size[r] <= Len(file')
        <4>1. size[r] \in Nat
          BY DEF JournalType
        <4>. QED
          BY <2>1, <3>1, <4>1 DEF PassInv
      <3>. QED
        BY <1>0, <3>1, <3>2, <3>3, <3>4 DEF PassInv
    <2>3. ~deleted => Boundary(file', offset) /\ received = EventsUpTo(file')[offset]
      BY <1>2, <2>1, Grows DEF StreamInv
    <2>4. StreamInv'
      BY <1>0, <2>2, <2>3 DEF StreamInv
    <2>5. \/ Readable' = Readable
          \/ \E e \in Event : Readable' = Append(Readable, e)
      BY <1>2, <2>1, OneMore DEF Readable
    <2>6. [Stream!Next]_<<Readable, received>>
      BY <1>0, <2>5 DEF Stream!Next, Stream!Send
    <2>. QED
      BY <2>4, <2>6
  <1>3. signals \in Nat /\ signals + 1 \in Nat /\ MaxEvents \in Nat
    BY JournalAssumption DEF JournalType
  <1>4. CASE WriteFirstBytes
    <2>1. Cell(signals + 1, FALSE) \in Cells /\ ~Cell(signals + 1, FALSE).last
      BY <1>3 DEF Cell, Cells
    <2>2. file' = Append(file, Cell(signals + 1, FALSE))
      BY <1>4 DEF WriteFirstBytes
    <2>. QED
      BY <1>2, <2>1, <2>2
  <1>5. CASE WriteRest
    <2>1. Cell(signals, TRUE) \in Cells /\ Cell(signals, TRUE).event = signals
      BY <1>3 DEF Cell, Cells
    <2>2. file' = Append(file, Cell(signals, TRUE)) /\ writing
      BY <1>5 DEF WriteRest
    <2>3. signals >= 1 /\ signals <= MaxEvents
      BY <1>3, <2>2 DEF JournalType
    <2>4. signals \in Event
      BY <1>3, <2>3 DEF Event
    <2>. QED
      BY <1>2, <2>1, <2>2, <2>4
  <1>. QED
    BY <1>1, <1>4, <1>5 DEF Write

\* A pass that parses the cells up to the size it has seen.
LEMMA ReadStreams ==
    ASSUME JournalType, NEW r \in Reader, Boundary(file, start[r]),
           start[r] <= size[r], size[r] <= Len(file)
    PROVE  LET next == From(r) + Consumed(Chunk(r))
           IN  /\ Boundary(file, next) /\ start[r] <= next
               /\ EventsUpTo(file)[next] = EventsUpTo(file)[start[r]] \o EventsOf(Chunk(r))
  <1> DEFINE a == start[r]
             b == size[r]
             k == Consumed(Chunk(r))
  <1>1. file \in Seq(Cells) /\ Len(file) \in Nat /\ a \in Nat /\ b \in Nat /\ a <= b /\ b <= Len(file)
    BY DEF JournalType
  <1>2. From(r) = a /\ End(r) = b /\ Chunk(r) = SubSeq(file, a + 1, b)
    <2>1. From(r) = start[r] \/ start[r] > size[r]
      BY ChunkTyped
    <2>2. End(r) = size[r]
      BY ChunkTyped
    <2>. QED
      BY <1>1, <2>1, <2>2 DEF Chunk
  <1>3. /\ Chunk(r) \in Seq(Cells) /\ Len(Chunk(r)) = b - a
        /\ \A i \in 1..(b - a) : Chunk(r)[i] = file[a + i]
    <2>1. /\ Chunk(r) \in Seq(Cells)
          /\ Len(Chunk(r)) = IF From(r) < End(r) THEN End(r) - From(r) ELSE 0
          /\ \A i \in 1..Len(Chunk(r)) : Chunk(r)[i] = file[From(r) + i]
      BY ChunkTyped
    <2>2. Len(Chunk(r)) = b - a
      BY <1>1, <1>2, <2>1
    <2>. QED
      BY <1>2, <2>1, <2>2
  <1>4. /\ k \in 0..(b - a) /\ (k = 0 \/ Chunk(r)[k].last)
        /\ \A i \in 1..(b - a) : Chunk(r)[i].last => i <= k
    BY <1>3, ConsumedIsLast DEF Boundary
  <1>. HIDE DEF k
  <1>5. Boundary(file, a + k) /\ a <= a + k
    <2>1. CASE k = 0
      <3>1. a + k = a /\ a <= a + k
        BY <1>1, <2>1
      <3>. QED
        BY <3>1
    <2>2. CASE k # 0
      <3>1. k \in 1..(b - a) /\ a + k \in 0..Len(file) /\ a <= a + k
        BY <1>1, <1>4, <2>2
      <3>2. file[a + k].last
        BY <1>3, <1>4, <2>2, <3>1
      <3>. QED
        BY <3>1, <3>2 DEF Boundary
    <2>. QED
      BY <2>1, <2>2
  <1>6. EventsUpTo(file)[b] = EventsUpTo(file)[a] \o EventsOf(Chunk(r))
    <2>1. b \in a..Len(file) /\ Boundary(file, a)
      BY <1>1
    <2>2. \A j \in a..Len(file) :
             EventsUpTo(file)[j] = EventsUpTo(file)[a] \o EventsOf(SubSeq(file, a + 1, j))
      <3>. HIDE DEF a
      <3>. QED
        BY <1>1, <2>1, Split
    <2>. QED
      BY <1>2, <2>1, <2>2
  <1>7. EventsUpTo(file)[b] = EventsUpTo(file)[a + k]
    <2>1. a + k \in Nat /\ a + k <= b
      BY <1>1, <1>4
    <2>2. ASSUME NEW i \in ((a + k) + 1)..b PROVE ~file[i].last
      <3>1. i - a \in 1..(b - a) /\ ~(i - a <= k) /\ a + (i - a) = i
        BY <1>1, <1>4
      <3>. QED
        BY <1>3, <1>4, <3>1
    <2>. HIDE DEF a, b
    <2>. QED
      BY <1>1, <2>1, <2>2, Quiet
  <1>. QED
    BY <1>2, <1>5, <1>6, <1>7 DEF k

LEMMA PassStreams ==
    ASSUME JournalType, StreamInv, NEW r \in Reader, Pass(r)
    PROVE  StreamInv' /\ [deleted' \/ Stream!Next]_<<Readable, received>>
  <1>0. /\ file' = file /\ Readable' = Readable /\ deleted' = deleted /\ OwnLocals(r)
        /\ pc \in [Reader -> {"idle", "lstat", "read", "commit"}]
    BY PassOwnLocals, PassTypes
    DEF Readable, Pass, ReadTask, Missing, Lstat, ReadChunk, Commit, deletions, JournalType
  <1>1. SUFFICES ASSUME ~deleted
                 PROVE  /\ Boundary(file, offset') /\ received' = EventsUpTo(file)[offset']
                        /\ PassInv(r)'
                        /\ [Stream!Next]_<<Readable, received>>
    <2>1. ASSUME ~deleted, NEW q \in Reader \ {r} PROVE PassInv(q)'
      BY <1>0, <2>1 DEF StreamInv, PassInv, OwnLocals
    <2>. QED
      BY <1>0, <2>1 DEF StreamInv
  <1>2. /\ Boundary(file, offset) /\ received = EventsUpTo(file)[offset]
        /\ PassInv(r)
    BY <1>1 DEF StreamInv
  <1>3. file \in Seq(Cells) /\ Len(file) \in Nat /\ start[r] \in Nat
    BY DEF JournalType
  <1>4. CASE ReadTask(r)
    <2>1. start'[r] = offset /\ pc'[r] = "lstat" /\ UNCHANGED <<offset, received>>
      BY <1>4 DEF ReadTask, Goto, JournalType
    <2>. QED
      BY <1>0, <1>2, <2>1 DEF PassInv
  <1>5. CASE Missing(r)
    <2>1. PICK next \in {start[r], 0} :
            batch' = [batch EXCEPT ![r] = [next |-> next, events |-> << >>]]
      BY <1>5 DEF Missing
    <2>2. /\ start'[r] = start[r] /\ pc'[r] = "commit" /\ UNCHANGED <<offset, received>>
          /\ batch'[r].next = next /\ batch'[r].events = << >> /\ pc[r] = "lstat" /\ file = << >>
      BY <1>5, <2>1 DEF Missing, Goto, JournalType, At
    <2>3. start[r] = 0 /\ next = 0
      BY <1>2, <1>3, <2>1, <2>2 DEF PassInv, Boundary
    <2>5. EventsUpTo(file)[0] \o << >> = EventsUpTo(file)[0]
      BY <1>3, ScanStep
    <2>6. Boundary(file, 0) /\ 0 <= 0
      BY <1>3 DEF Boundary
    <2>. QED
      BY <1>0, <1>2, <2>2, <2>3, <2>5, <2>6 DEF PassInv
  <1>6. CASE Lstat(r)
    <2>1. /\ start'[r] = start[r] /\ pc'[r] = "read" /\ UNCHANGED <<offset, received>>
          /\ size'[r] = Len(file) /\ pc[r] = "lstat"
      BY <1>6 DEF Lstat, Goto, JournalType, At
    <2>2. start[r] <= Len(file) /\ Len(file) <= Len(file)
      BY <1>2, <1>3, <2>1 DEF PassInv, Boundary
    <2>. QED
      BY <1>0, <1>2, <2>1, <2>2 DEF PassInv
  <1>7. CASE ReadChunk(r)
    <2>1. /\ start'[r] = start[r] /\ pc'[r] = "commit" /\ UNCHANGED <<offset, received>>
          /\ batch'[r].next = From(r) + Consumed(Chunk(r))
          /\ batch'[r].events = EventsOf(Chunk(r)) /\ pc[r] = "read"
      BY <1>7 DEF ReadChunk, Goto, JournalType, At, Chunk, End
    <2>2. Boundary(file, start[r]) /\ start[r] <= size[r] /\ size[r] <= Len(file)
      BY <1>2, <2>1 DEF PassInv
    <2>. QED
      BY <1>0, <1>2, <2>1, <2>2, ReadStreams DEF PassInv
  <1>8. CASE Commit(r) /\ offset # start[r]
    <2>1. pc'[r] = "idle" /\ UNCHANGED <<offset, received>>
      BY <1>8 DEF Commit, Finished, Goto, JournalType
    <2>. QED
      BY <1>0, <1>2, <2>1 DEF PassInv
  <1>9. CASE Commit(r) /\ offset = start[r]
    <2> DEFINE n == batch[r].next
    <2>1. /\ pc'[r] = "idle" /\ offset' = n /\ received' = received \o batch[r].events
          /\ pc[r] = "commit"
      BY <1>9 DEF Commit, Finished, Goto, JournalType, At
    <2>2. /\ Boundary(file, n) /\ offset <= n
          /\ EventsUpTo(file)[n] = EventsUpTo(file)[offset] \o batch[r].events
      BY <1>2, <1>9, <2>1 DEF PassInv
    <2>. HIDE DEF n
    <2>3. received' = EventsUpTo(file)[n]
      BY <1>2, <2>1, <2>2
    <2>4. Readable = received' \o EventsOf(SubSeq(file, n + 1, Len(file)))
      <3>1. Len(file) \in n..Len(file)
        BY <1>3, <2>2 DEF Boundary
      <3>. QED
        BY <1>3, <2>2, <2>3, <3>1, Split DEF Readable, EventsOf
    <2>5. received' \in Seq(Nat) /\ received \in Seq(Nat) /\ Readable \in Seq(Nat)
      <3>1. Len(file) \in 0..Len(file)
        BY <1>3
      <3>. QED
        BY <1>3, <3>1, PassTypes, EventsTyped DEF Readable, EventsOf, JournalType
    <2>6. batch[r].events \in Seq(Nat) /\ EventsOf(SubSeq(file, n + 1, Len(file))) \in Seq(Nat)
      <3>1. batch[r] \in Batches
        BY DEF JournalType
      <3>2. SubSeq(file, n + 1, Len(file)) \in Seq(Cells)
        BY <1>3, <2>2 DEF Boundary
      <3>3. Len(SubSeq(file, n + 1, Len(file))) \in 0..Len(SubSeq(file, n + 1, Len(file)))
        BY <3>2
      <3>. QED
        BY <3>1, <3>2, <3>3, EventsTyped DEF Batches, EventsOf
    <2>7. Len(received') \in Len(received)..Len(Readable)
      <3> DEFINE x == batch[r].events
                 y == EventsOf(SubSeq(file, n + 1, Len(file)))
      <3>1. /\ Len(received') = Len(received) + Len(x) /\ Len(x) \in Nat
            /\ Len(Readable) = Len(received') + Len(y) /\ Len(y) \in Nat
            /\ Len(received) \in Nat
        <4>. HIDE DEF x, y
        <4>1. x \in Seq(Nat) /\ y \in Seq(Nat)
          BY <2>6 DEF x, y
        <4>2. received' = received \o x /\ Readable = received' \o y
          BY <2>1, <2>4 DEF x, y
        <4>. QED
          BY <2>5, <4>1, <4>2, ConcatProperties
      <3>. HIDE DEF x, y
      <3>. QED
        BY <3>1
    <2>8. received' = SubSeq(Readable, 1, Len(received'))
      <3> DEFINE s == received'
                 t == EventsOf(SubSeq(file, n + 1, Len(file)))
      <3>1. s \in Seq(Nat) /\ t \in Seq(Nat) /\ Readable = s \o t
        BY <2>4, <2>5, <2>6
      <3>. HIDE DEF s, t
      <3>2. s = SubSeq(s \o t, 1, Len(s))
        BY <3>1
      <3>. QED
        BY <3>1, <3>2 DEF s
    <2>9. Stream!Receive
      BY <1>0, <2>7, <2>8 DEF Stream!Receive
    <2>10. PassInv(r)'
      BY <2>1 DEF PassInv
    <2>. QED
      BY <2>1, <2>2, <2>3, <2>9, <2>10 DEF Stream!Next
  <1>. QED
    BY <1>4, <1>5, <1>6, <1>7, <1>8, <1>9 DEF Pass

LEMMA StreamStep ==
    ASSUME JournalType, StreamInv, [Next]_vars
    PROVE  StreamInv' /\ [deleted' \/ Stream!Next]_<<Readable, received>>
  <1>1. CASE Recreate
    BY <1>1 DEF Recreate, StreamInv
  <1>2. CASE UNCHANGED vars
    BY <1>2 DEF vars, locals, deletions, StreamInv, PassInv, Readable
  <1>. QED
    BY <1>1, <1>2, WriteStreams, PassStreams DEF Next

LEMMA StreamInit == Init => StreamInv /\ Stream!Init
  <1>. SUFFICES ASSUME Init PROVE StreamInv /\ Stream!Init
    OBVIOUS
  <1>1. file = << >> /\ received = << >> /\ offset = 0 /\ \A r \in Reader : pc[r] = "idle"
    BY DEF Init
  <1>2. EventsUpTo(<< >>)[0] = << >> /\ EventsOf(<< >>) = << >> /\ Boundary(<< >>, 0)
    <2>1. Len(<< >>) = 0 /\ 0 \in Nat
      OBVIOUS
    <2>. QED
      BY <2>1, ScanStep DEF EventsOf, Boundary
  <1>. QED
    BY <1>1, <1>2 DEF StreamInv, PassInv, Stream!Init, Readable

\* events_tail.py:3-5, list_cmd.py:245-258: however many passes overlap with
\* each other and with half-written lines, every well-formed line is consumed
\* exactly once and in file order, until Pi deletes the journal.
THEOREM StreamFollowed == Spec => FollowsStream
  <1>1. Init => JournalType /\ StreamInv /\ Stream!Init
    BY TypeInit, StreamInit
  <1>2. ASSUME JournalType, StreamInv, [Next]_vars
        PROVE  JournalType' /\ StreamInv' /\ [deleted' \/ Stream!Next]_<<Readable, received>>
    BY <1>2, TypeInductive, StreamStep
  <1>. QED
    BY <1>1, <1>2, PTL DEF Spec, FollowsStream
-----------------------------------------------------------------------------
(* No event is consumed twice.                                             *)

Distinct(c) ==
    \A i, j \in 1..Len(c) : c[i].last /\ c[j].last /\ c[i].event = c[j].event => i = j

Injective(s) == \A i, j \in 1..Len(s) : s[i] = s[j] => i = j

\* The lines of the events of s, as far as they are in the file, end by n.
Within(s, n) ==
    \A k \in 1..Len(s), i \in 1..Len(file) :
        file[i].last /\ file[i].event = s[k] => i <= n

\* Nobody has the event that is still being written.
FreshInv ==
    /\ Distinct(file)
    /\ \A k \in 1..Len(received) : received[k] \in 1..signals
    /\ \A r \in Reader : pc[r] = "commit" =>
          \A k \in 1..Len(batch[r].events) : batch[r].events[k] \in 1..signals
    /\ writing =>
          /\ \A i \in 1..Len(file) : file[i].last => file[i].event # signals
          /\ \A k \in 1..Len(received) : received[k] # signals
          /\ \A r \in Reader : pc[r] = "commit" =>
                \A k \in 1..Len(batch[r].events) : batch[r].events[k] # signals

\* A pass since whose beginning neither the journal was deleted nor the offset
\* moved, which the compare-and-set cannot tell from one that has missed both.
Trusted(r) ==
    /\ pc[r] # "idle" => start[r] = offset
    /\ pc[r] = "read" =>
          size[r] <= Len(file) /\ (start[r] > size[r] => Within(received, 0))
    /\ pc[r] = "commit" =>
          /\ Injective(batch[r].events)
          /\ \A k \in 1..Len(received), l \in 1..Len(batch[r].events) :
                received[k] # batch[r].events[l]
          /\ Within(batch[r].events, batch[r].next) /\ Within(received, batch[r].next)
          /\ batch[r].next <= Len(file) \/ batch[r].next = start[r]
          /\ batch[r].next = start[r] => batch[r].events = << >>

OnceInv ==
    ~mixed =>
        /\ Injective(received) /\ Within(received, offset)
        /\ offset > Len(file) => Within(received, 0)
        /\ \A r \in Reader \ stale : Trusted(r)

\* What EventsUpTo collects are the events of different lines.
LEMMA Collected ==
    ASSUME NEW c \in Seq(Cells), Distinct(c)
    PROVE  \A m \in 0..Len(c) :
              /\ \A k \in 1..Len(EventsUpTo(c)[m]) :
                    \E i \in 1..m : c[i].last /\ c[i].event = EventsUpTo(c)[m][k]
              /\ Injective(EventsUpTo(c)[m])
  <1> DEFINE Good(m) ==
               /\ \A k \in 1..Len(EventsUpTo(c)[m]) :
                    \E i \in 1..m : c[i].last /\ c[i].event = EventsUpTo(c)[m][k]
               /\ Injective(EventsUpTo(c)[m])
             S == {m \in Nat : m <= Len(c) => Good(m)}
  <1>0. Len(c) \in Nat
    OBVIOUS
  <1>1. 0 \in S
    <2>1. EventsUpTo(c)[0] = << >> /\ Len(<< >>) = 0
      BY <1>0, ScanStep
    <2>2. Good(0)
      BY <2>1 DEF Injective
    <2>. HIDE DEF Good
    <2>. QED
      BY <2>2
  <1>2. ASSUME NEW m \in S PROVE m + 1 \in S
    <2>0. m \in Nat /\ m + 1 \in Nat
      OBVIOUS
    <2>1. ASSUME m + 1 <= Len(c) PROVE Good(m + 1)
      <3> DEFINE e == EventsUpTo(c)[m]
                 x == c[m + 1].event
      <3>1. m + 1 \in 1..Len(c) /\ (m + 1) - 1 = m /\ m \in 0..Len(c) /\ m <= Len(c)
        BY <1>0, <2>0, <2>1
      <3>2. Good(m)
        <4>. HIDE DEF Good
        <4>. QED
          BY <1>2, <3>1
      <3>3. e \in Seq(Nat) /\ x \in Nat
        <4>1. c[m + 1] \in Cells
          BY <3>1
        <4>. QED
          BY <3>1, <4>1, EventsTyped DEF Cells
      <3>4. EventsUpTo(c)[m + 1] = IF m + 1 \in GoodLines(c) THEN Append(e, x) ELSE e
        BY <1>0, <3>1, ScanStep
      <3>5. CASE m + 1 \notin GoodLines(c)
        <4>1. EventsUpTo(c)[m + 1] = EventsUpTo(c)[m]
          BY <3>4, <3>5
        <4>2. \A i \in 1..m : i \in 1..(m + 1)
          BY <2>0
        <4>. QED
          BY <3>2, <4>1, <4>2
      <3>6. CASE m + 1 \in GoodLines(c)
        <4> DEFINE f == EventsUpTo(c)[m + 1]
        <4>0. f = Append(e, x)
          BY <3>4, <3>6
        <4>1. c[m + 1].last
          BY <3>6 DEF GoodLines
        <4>2. \A k \in 1..Len(e) : \E i \in 1..m : c[i].last /\ c[i].event = e[k]
          BY <3>2
        <4>3. Injective(e)
          BY <3>2
        <4>. HIDE DEF e, f
        <4>4. /\ Len(e) \in Nat /\ Len(f) = Len(e) + 1
              /\ \A k \in 1..Len(e) : f[k] = e[k]
              /\ f[Len(e) + 1] = x
          BY <3>3, <4>0
        <4>5. \A k \in 1..Len(f) : k \in 1..Len(e) \/ k = Len(e) + 1
          BY <4>4
        <4>6. ASSUME NEW k \in 1..Len(e) PROVE e[k] # x
          <5>1. PICK i \in 1..m : c[i].last /\ c[i].event = e[k]
            BY <4>2
          <5>2. i \in 1..Len(c) /\ i # m + 1
            BY <1>0, <2>0, <3>1
          <5>. QED
            BY <3>1, <4>1, <5>1, <5>2 DEF Distinct
        <4>7. Injective(f)
          BY <4>3, <4>4, <4>5, <4>6 DEF Injective
        <4>8. \A k \in 1..Len(f) : \E i \in 1..(m + 1) : c[i].last /\ c[i].event = f[k]
          <5>1. m + 1 \in 1..(m + 1) /\ \A i \in 1..m : i \in 1..(m + 1)
            BY <2>0
          <5>. QED
            BY <4>1, <4>2, <4>4, <4>5, <5>1
        <4>. QED
          BY <4>7, <4>8 DEF f
      <3>. QED
        BY <3>5, <3>6
    <2>. HIDE DEF Good
    <2>. QED
      BY <2>0, <2>1
  <1>3. S = Nat
    <2>. S \in SUBSET Nat
      OBVIOUS
    <2>. HIDE DEF S
    <2>. QED
      BY <1>1, <1>2, Induct
  <1>4. \A m \in 0..Len(c) : Good(m)
    <2>. HIDE DEF Good
    <2>. QED
      BY <1>3
  <1>. QED
    BY <1>4

LEMMA WriteOnce ==
    ASSUME JournalType, FreshInv, OnceInv, Write
    PROVE  FreshInv' /\ OnceInv'
  <1>0. UNCHANGED <<offset, received, deleted, stale, mixed, pc, start, size, batch>>
    BY DEF Write, WriteFirstBytes, WriteRest, WriteShort, locals, deletions
  <1>1. /\ file \in Seq(Cells) /\ Len(file) \in Nat /\ signals \in Nat /\ offset \in Nat
        /\ \A i \in 1..Len(file) : file[i].event \in 1..signals
        /\ \A r \in Reader : size[r] \in Nat /\ batch[r].next \in Nat
    <2>1. \A r \in Reader : batch[r] \in Batches
      BY DEF JournalType
    <2>. QED
      BY <2>1 DEF JournalType, Batches
  <1>2. CASE WriteShort
    BY <1>0, <1>2 DEF WriteShort, FreshInv, OnceInv, Trusted, Within
  <1>3. ASSUME NEW x \in Cells, file' = Append(file, x),
               \/ ~x.last
               \/ /\ x.event = signals /\ writing
        PROVE  OnceInv' /\ Distinct(file')
    <2>1. /\ Len(file') = Len(file) + 1
          /\ \A i \in 1..Len(file) : file'[i] = file[i]
          /\ file'[Len(file) + 1] = x
          /\ \A i \in 1..Len(file') : i \in 1..Len(file) \/ i = Len(file) + 1
      BY <1>1, <1>3
    <2>2. Distinct(file')
      <3>1. \A i \in 1..Len(file) : x.last /\ file[i].last => file[i].event # x.event
        BY <1>3 DEF FreshInv
      <3>. QED
        BY <2>1, <3>1 DEF Distinct, FreshInv
    <2>3. ASSUME NEW s, NEW n, Within(s, n),
                 \A k \in 1..Len(s) : x.last => s[k] # x.event
          PROVE  Within(s, n)'
      <3>. SUFFICES ASSUME NEW k \in 1..Len(s), NEW i \in 1..Len(file'),
                           file'[i].last, file'[i].event = s[k]
                    PROVE  i <= n
        BY DEF Within
      <3>1. i # Len(file) + 1
        BY <2>1, <2>3
      <3>. QED
        BY <2>1, <2>3, <3>1 DEF Within
    <2>4. \A k \in 1..Len(received) : x.last => received[k] # x.event
      BY <1>3 DEF FreshInv
    <2>5. \A r \in Reader : pc[r] = "commit" =>
             \A k \in 1..Len(batch[r].events) : x.last => batch[r].events[k] # x.event
      BY <1>3 DEF FreshInv
    <2>6. ASSUME NEW r \in Reader, Trusted(r) PROVE Trusted(r)'
      <3>1. pc[r] = "read" =>
               size[r] <= Len(file') /\ (start[r] > size[r] => Within(received, 0)')
        BY <1>0, <1>1, <2>1, <2>3, <2>4, <2>6 DEF Trusted
      <3>2. pc[r] = "commit" =>
               /\ Within(batch[r].events, batch[r].next)'
               /\ Within(received, batch[r].next)'
               /\ batch[r].next <= Len(file') \/ batch[r].next = start[r]
        <4>1. batch[r].next <= Len(file) => batch[r].next <= Len(file')
          BY <1>1, <2>1
        <4>2. pc[r] = "commit" => Within(received, batch[r].next)'
          BY <1>0, <2>3, <2>4, <2>6 DEF Trusted
        <4>3. pc[r] = "commit" => Within(batch[r].events, batch[r].next)'
          BY <1>0, <2>3, <2>5, <2>6 DEF Trusted
        <4>. QED
          BY <2>6, <4>1, <4>2, <4>3 DEF Trusted
      <3>. QED
        BY <1>0, <2>6, <3>1, <3>2 DEF Trusted
    <2>7. offset > Len(file') => offset > Len(file)
      BY <1>1, <2>1
    <2>8. ~mixed => Within(received, offset)' /\ (offset > Len(file') => Within(received, 0)')
      BY <1>0, <2>3, <2>4, <2>7 DEF OnceInv
    <2>. QED
      BY <1>0, <2>2, <2>6, <2>8 DEF OnceInv
  <1>4. CASE WriteFirstBytes
    <2> DEFINE x == Cell(signals + 1, FALSE)
    <2>1. x \in Cells /\ ~x.last
      BY <1>1 DEF Cell, Cells
    <2>2. file' = Append(file, x) /\ signals' = signals + 1
      BY <1>4 DEF WriteFirstBytes
    <2>. HIDE DEF x
    <2>3. OnceInv' /\ Distinct(file')
      BY <1>3, <2>1, <2>2
    <2>4. \A e \in 1..signals : e \in 1..signals' /\ e # signals'
      BY <1>1, <2>2
    <2>5. \A i \in 1..Len(file') : file'[i].last => file'[i].event # signals'
      <3>1. /\ \A i \in 1..Len(file) : file'[i] = file[i]
            /\ file'[Len(file) + 1] = x
            /\ \A i \in 1..Len(file') : i \in 1..Len(file) \/ i = Len(file) + 1
        BY <1>1, <2>1, <2>2
      <3>. QED
        BY <1>1, <2>1, <2>4, <3>1
    <2>. QED
      BY <1>0, <2>3, <2>4, <2>5 DEF FreshInv
  <1>5. CASE WriteRest
    <2> DEFINE x == Cell(signals, TRUE)
    <2>1. x \in Cells /\ x.event = signals
      BY <1>1 DEF Cell, Cells
    <2>2. file' = Append(file, x) /\ signals' = signals /\ writing /\ ~writing'
      BY <1>5 DEF WriteRest
    <2>. HIDE DEF x
    <2>3. OnceInv' /\ Distinct(file')
      BY <1>3, <2>1, <2>2
    <2>. QED
      BY <1>0, <2>2, <2>3 DEF FreshInv
  <1>. QED
    BY <1>2, <1>4, <1>5 DEF Write

LEMMA RecreateOnce ==
    ASSUME JournalType, FreshInv, OnceInv, Recreate
    PROVE  FreshInv' /\ OnceInv'
  <1>0. /\ UNCHANGED <<signals, writing, offset, received, mixed, pc, start, size, batch>>
        /\ file' = << >> /\ stale' = Busy /\ ~writing
    BY DEF Recreate, locals
  <1>1. Len(file') = 0
    BY <1>0
  <1>2. FreshInv'
    BY <1>0, <1>1 DEF FreshInv, Distinct
  <1>3. \A s, n : Within(s, n)'
    BY <1>1 DEF Within
  <1>4. \A r \in Reader \ stale' : pc'[r] = "idle"
    BY <1>0 DEF Busy
  <1>. QED
    BY <1>0, <1>2, <1>3, <1>4 DEF OnceInv, Trusted

LEMMA Concatenated ==
    ASSUME NEW s \in Seq(Nat), NEW t \in Seq(Nat)
    PROVE  \A k \in 1..Len(s \o t) :
              \/ k \in 1..Len(s) /\ (s \o t)[k] = s[k]
              \/ k - Len(s) \in 1..Len(t) /\ (s \o t)[k] = t[k - Len(s)]
  <1>1. Len(s) \in Nat /\ Len(t) \in Nat /\ Len(s \o t) = Len(s) + Len(t)
    OBVIOUS
  <1>. SUFFICES ASSUME NEW k \in 1..Len(s \o t)
                PROVE  \/ k \in 1..Len(s) /\ (s \o t)[k] = s[k]
                       \/ k - Len(s) \in 1..Len(t) /\ (s \o t)[k] = t[k - Len(s)]
    OBVIOUS
  <1>2. k \in 1..(Len(s) + Len(t))
    BY <1>1
  <1>3. (s \o t)[k] = IF k <= Len(s) THEN s[k] ELSE t[k - Len(s)]
    BY <1>2, ConcatProperties
  <1>. QED
    BY <1>1, <1>2, <1>3

\* The events of a chunk are those of lines that end in it, each of one line.
LEMMA ChunkCollected ==
    ASSUME JournalType, Distinct(file), NEW r \in Reader
    PROVE  /\ Injective(EventsOf(Chunk(r)))
           /\ \A k \in 1..Len(EventsOf(Chunk(r))) :
                 \E i \in (From(r) + 1)..(From(r) + Consumed(Chunk(r))) :
                    /\ i \in 1..Len(file) /\ i <= End(r)
                    /\ file[i].last /\ file[i].event = EventsOf(Chunk(r))[k]
  <1> DEFINE c == Chunk(r)
             a == From(r)
  <1>1. /\ a \in Nat /\ End(r) \in Nat /\ End(r) <= Len(file) /\ Len(file) \in Nat
        /\ c \in Seq(Cells) /\ Len(c) \in Nat
        /\ Len(c) = IF a < End(r) THEN End(r) - a ELSE 0
        /\ \A i \in 1..Len(c) : c[i] = file[a + i]
    BY ChunkTyped DEF JournalType
  <1>. HIDE DEF c, a
  <1>2. \A i \in 1..Len(c) : a + i \in 1..Len(file) /\ a + i <= End(r) /\ a + i \in Nat
    BY <1>1
  <1>3. Distinct(c)
    <2>. SUFFICES ASSUME NEW i \in 1..Len(c), NEW j \in 1..Len(c),
                         c[i].last, c[j].last, c[i].event = c[j].event
                  PROVE  i = j
      BY DEF Distinct
    <2>1. a + i = a + j
      BY <1>1, <1>2 DEF Distinct
    <2>. QED
      BY <1>1, <2>1
  <1>4. /\ \A k \in 1..Len(EventsOf(c)) :
              \E i \in 1..Len(c) : c[i].last /\ c[i].event = EventsOf(c)[k]
        /\ Injective(EventsOf(c))
    <2>1. Len(c) \in 0..Len(c)
      BY <1>1
    <2>. QED
      BY <1>1, <1>3, <2>1, Collected DEF EventsOf
  <1>5. ASSUME NEW k \in 1..Len(EventsOf(c))
        PROVE  \E i \in (a + 1)..(a + Consumed(c)) :
                  /\ i \in 1..Len(file) /\ i <= End(r)
                  /\ file[i].last /\ file[i].event = EventsOf(c)[k]
    <2>1. PICK i \in 1..Len(c) : c[i].last /\ c[i].event = EventsOf(c)[k]
      BY <1>4
    <2>2. i <= Consumed(c) /\ Consumed(c) \in 0..Len(c)
      BY <1>1, <2>1, ConsumedIsLast DEF Boundary
    <2>3. a + i \in (a + 1)..(a + Consumed(c))
      BY <1>1, <2>2
    <2>. QED
      BY <1>1, <1>2, <2>1, <2>3
  <1>. QED
    BY <1>4, <1>5 DEF c, a

LEMMA PassFresh ==
    ASSUME JournalType, FreshInv, NEW r \in Reader, Pass(r)
    PROVE  FreshInv'
  <1>0. /\ file' = file /\ signals' = signals /\ writing' = writing /\ OwnLocals(r)
        /\ pc \in [Reader -> {"idle", "lstat", "read", "commit"}]
        /\ batch \in [Reader -> Batches]
    BY PassOwnLocals, PassTypes DEF JournalType
  <1> DEFINE Fresh(s) == /\ \A k \in 1..Len(s) : s[k] \in 1..signals
                         /\ writing => \A k \in 1..Len(s) : s[k] # signals
  <1>1. SUFFICES Fresh(received') /\ (pc'[r] = "commit" => Fresh(batch'[r].events))
    <2>1. \A q \in Reader \ {r} : pc'[q] = "commit" => Fresh(batch'[q].events)
      BY <1>0 DEF OwnLocals, FreshInv
    <2>. HIDE DEF Fresh
    <2>2. \A q \in Reader : pc'[q] = "commit" => Fresh(batch'[q].events)
      BY <1>1, <2>1
    <2>. USE DEF Fresh
    <2>. QED
      BY <1>0, <1>1, <2>2 DEF FreshInv
  <1>2. Fresh(received)
    BY DEF FreshInv
  <1>3. Fresh(<< >>)
    OBVIOUS
  <1>4. CASE ReadTask(r) \/ Lstat(r)
    <2>1. received' = received /\ pc'[r] # "commit"
      BY <1>0, <1>4 DEF ReadTask, Lstat, Goto
    <2>. QED
      BY <1>2, <2>1
  <1>5. CASE Missing(r)
    <2>1. received' = received /\ batch'[r].events = << >>
      BY <1>0, <1>5 DEF Missing
    <2>. QED
      BY <1>2, <1>3, <2>1
  <1>6. CASE ReadChunk(r)
    <2>1. received' = received /\ batch'[r].events = EventsOf(Chunk(r))
      BY <1>0, <1>6 DEF ReadChunk, Chunk, End
    <2>2. \A k \in 1..Len(EventsOf(Chunk(r))) :
             \E i \in 1..Len(file) : file[i].last /\ file[i].event = EventsOf(Chunk(r))[k]
      <3>1. Distinct(file)
        BY DEF FreshInv
      <3>. QED
        BY <3>1, ChunkCollected
    <2>3. Fresh(EventsOf(Chunk(r)))
      BY <2>2 DEF JournalType, FreshInv
    <2>. QED
      BY <1>2, <2>1, <2>3
  <1>7. CASE Commit(r)
    <2>1. /\ pc[r] = "commit" /\ pc'[r] = "idle"
          /\ received' = received \/ received' = received \o batch[r].events
      BY <1>0, <1>7 DEF Commit, Finished, At, Goto
    <2>2. Fresh(batch[r].events)
      BY <2>1 DEF FreshInv
    <2>3. received \in Seq(Nat) /\ batch[r].events \in Seq(Nat)
      <3>1. batch[r] \in Batches
        BY <1>0
      <3>. QED
        BY <3>1 DEF JournalType, Batches
    <2>4. Fresh(received \o batch[r].events)
      <3> DEFINE s == received
                 t == batch[r].events
      <3>1. Fresh(s) /\ Fresh(t) /\ s \in Seq(Nat) /\ t \in Seq(Nat)
        BY <1>2, <2>2, <2>3
      <3>. HIDE DEF s, t
      <3>2. Fresh(s \o t)
        BY <3>1, Concatenated
      <3>. QED
        BY <3>2 DEF s, t
    <2>. HIDE DEF Fresh
    <2>. QED
      BY <1>2, <2>1, <2>4
  <1>. QED
    BY <1>4, <1>5, <1>6, <1>7 DEF Pass

\* What ReadChunk of a trusted pass leaves behind.
LEMMA ReadOnce ==
    ASSUME JournalType, FreshInv, NEW r \in Reader, Within(received, offset),
           start[r] = offset, size[r] <= Len(file), start[r] > size[r] => Within(received, 0)
    PROVE  LET s    == EventsOf(Chunk(r))
               next == From(r) + Consumed(Chunk(r))
           IN  /\ Injective(s)
               /\ \A k \in 1..Len(received), l \in 1..Len(s) : received[k] # s[l]
               /\ Within(s, next) /\ Within(received, next)
               /\ next <= Len(file) \/ next = start[r]
               /\ next = start[r] => s = << >>
  <1> DEFINE s == EventsOf(Chunk(r))
             used == Consumed(Chunk(r))
             a == From(r)
             next == a + used
  <1>1. Distinct(file)
    BY DEF FreshInv
  <1>2. /\ Injective(s)
        /\ \A k \in 1..Len(s) :
              \E i \in (a + 1)..next :
                 i \in 1..Len(file) /\ i <= End(r) /\ file[i].last /\ file[i].event = s[k]
    BY <1>1, ChunkCollected
  <1>3. /\ a \in Nat /\ used \in Nat /\ s \in Seq(Nat) /\ Len(file) \in Nat
        /\ size[r] \in Nat /\ start[r] \in Nat /\ End(r) = size[r]
        /\ a = start[r] \/ (a = 0 /\ start[r] > size[r])
    BY ChunkTyped DEF JournalType
  <1>4. used = 0 \/ (used > 0 /\ next <= size[r])
    <2>1. used \in 0..Len(Chunk(r))
      BY ChunkTyped, ConsumedIsLast DEF Boundary
    <2>2. Len(Chunk(r)) = IF a < End(r) THEN End(r) - a ELSE 0
      BY ChunkTyped
    <2>. HIDE DEF a, used
    <2>. QED
      BY <1>3, <2>1, <2>2
  <1>. HIDE DEF s, a, used
  <1>5. Within(received, a)
    BY <1>3
  <1>6. Within(received, next)
    BY <1>3, <1>5 DEF Within
  <1>7. ASSUME NEW k \in 1..Len(received), NEW l \in 1..Len(s) PROVE received[k] # s[l]
    <2>1. PICK i \in (a + 1)..next : i \in 1..Len(file) /\ file[i].last /\ file[i].event = s[l]
      BY <1>2
    <2>2. ~(i <= a)
      BY <1>3, <2>1
    <2>. QED
      BY <1>5, <2>1, <2>2 DEF Within
  <1>8. Within(s, next)
    <2>. SUFFICES ASSUME NEW k \in 1..Len(s), NEW i \in 1..Len(file),
                         file[i].last, file[i].event = s[k]
                  PROVE  i <= next
      BY DEF Within
    <2>1. PICK j \in (a + 1)..next : j \in 1..Len(file) /\ file[j].last /\ file[j].event = s[k]
      BY <1>2
    <2>2. i = j
      BY <1>1, <2>1 DEF Distinct
    <2>. QED
      BY <1>3, <2>1, <2>2
  <1>9. next <= Len(file) \/ next = start[r]
    BY <1>3, <1>4
  <1>10. next = start[r] => s = << >>
    <2>. SUFFICES ASSUME next = start[r] PROVE s = << >>
      OBVIOUS
    <2>1. used = 0
      BY <1>3, <1>4
    <2>2. \A l \in 1..Len(s) : FALSE
      BY <1>2, <1>3, <2>1
    <2>. QED
      BY <1>3, <2>2
  <1>. QED
    BY <1>2, <1>6, <1>7, <1>8, <1>9, <1>10 DEF s, a, used

\* A pass that is not trusted and wins sets mixed; of two trusted passes the
\* first to move the offset makes the other one stale.
LEMMA CommitOnce ==
    ASSUME JournalType, FreshInv, OnceInv, NEW r \in Reader, Commit(r)
    PROVE  OnceInv'
  <1>0. /\ file' = file /\ OwnLocals(r)
        /\ pc[r] = "commit" /\ pc'[r] = "idle" /\ pc' = [pc EXCEPT ![r] = "idle"]
    BY PassOwnLocals DEF Commit, Pass, Finished, At, Goto, JournalType
  <1>1. CASE offset # start[r]
    <2>1. UNCHANGED <<offset, received, mixed>> /\ stale' = stale \ {r}
      BY <1>1 DEF Commit
    <2>2. ASSUME ~mixed, NEW q \in Reader \ stale' PROVE Trusted(q)'
      <3>1. CASE q = r
        BY <1>0, <3>1 DEF Trusted
      <3>2. CASE q # r
        <4>1. Trusted(q)
          BY <2>1, <2>2, <3>2 DEF OnceInv
        <4>. QED
          BY <1>0, <2>1, <3>2, <4>1 DEF OwnLocals, Trusted, Within
      <3>. QED
        BY <3>1, <3>2
    <2>. QED
      BY <1>0, <2>1, <2>2 DEF OnceInv, Within
  <1>2. CASE offset = start[r]
    <2> DEFINE s == batch[r].events
               n == batch[r].next
    <2>1. /\ offset' = n /\ received' = received \o s /\ mixed' = (mixed \/ r \in stale)
          /\ stale' = (IF offset' = offset THEN stale ELSE Busy) \ {r}
      BY <1>2 DEF Commit
    <2>2. SUFFICES ASSUME ~mixed, r \notin stale
                   PROVE  /\ Injective(received') /\ Within(received, offset)'
                          /\ offset' > Len(file) => Within(received, 0)'
                          /\ \A q \in Reader \ stale' : Trusted(q)'
      <3>1. ~mixed' => ~mixed /\ r \notin stale
        BY <2>1
      <3>. QED
        BY <1>0, <2>2, <3>1 DEF OnceInv
    <2>3. /\ Injective(received) /\ Within(received, offset) /\ Trusted(r)
          /\ offset > Len(file) => Within(received, 0)
      BY <2>2 DEF OnceInv
    <2>4. /\ Injective(s)
          /\ \A k \in 1..Len(received), l \in 1..Len(s) : received[k] # s[l]
          /\ Within(s, n) /\ Within(received, n)
          /\ n <= Len(file) \/ n = offset
          /\ n = offset => s = << >>
      BY <1>0, <1>2, <2>3 DEF Trusted
    <2>5. received \in Seq(Nat) /\ s \in Seq(Nat) /\ n \in Nat /\ Len(file) \in Nat
      <3>1. batch[r] \in Batches
        BY DEF JournalType
      <3>. QED
        BY <3>1 DEF JournalType, Batches
    <2>. HIDE DEF s, n
    <2>6. Injective(received \o s)
      <3>. SUFFICES ASSUME NEW i \in 1..Len(received \o s), NEW j \in 1..Len(received \o s),
                           (received \o s)[i] = (received \o s)[j]
                    PROVE  i = j
        BY DEF Injective
      <3>1. /\ \/ i \in 1..Len(received) /\ (received \o s)[i] = received[i]
               \/ i - Len(received) \in 1..Len(s) /\ (received \o s)[i] = s[i - Len(received)]
            /\ \/ j \in 1..Len(received) /\ (received \o s)[j] = received[j]
               \/ j - Len(received) \in 1..Len(s) /\ (received \o s)[j] = s[j - Len(received)]
        BY <2>5, Concatenated
      <3>2. CASE i \in 1..Len(received) /\ j \in 1..Len(received)
        <4>1. \/ received[i] = received[j]
              \/ i - Len(received) \in 1..Len(s)
              \/ j - Len(received) \in 1..Len(s)
          BY <3>1
        <4>2. i - Len(received) \notin 1..Len(s) /\ j - Len(received) \notin 1..Len(s)
          BY <2>5, <3>2
        <4>. QED
          BY <2>3, <3>2, <4>1, <4>2 DEF Injective
      <3>3. CASE i \notin 1..Len(received) /\ j \notin 1..Len(received)
        <4>1. i - Len(received) = j - Len(received)
          BY <2>4, <3>1, <3>3 DEF Injective
        <4>. QED
          BY <2>5, <4>1
      <3>4. CASE i \in 1..Len(received) /\ j \notin 1..Len(received)
        <4>1. i - Len(received) \notin 1..Len(s)
          BY <2>5, <3>4
        <4>. QED
          BY <2>4, <3>1, <3>4, <4>1
      <3>5. CASE i \notin 1..Len(received) /\ j \in 1..Len(received)
        <4>1. j - Len(received) \notin 1..Len(s)
          BY <2>5, <3>5
        <4>. QED
          BY <2>4, <3>1, <3>5, <4>1
      <3>. QED
        BY <3>2, <3>3, <3>4, <3>5
    <2>7. Within(received \o s, n)
      <3>. SUFFICES ASSUME NEW k \in 1..Len(received \o s), NEW i \in 1..Len(file),
                           file[i].last, file[i].event = (received \o s)[k]
                    PROVE  i <= n
        BY DEF Within
      <3>1. \/ k \in 1..Len(received) /\ (received \o s)[k] = received[k]
            \/ k - Len(received) \in 1..Len(s) /\ (received \o s)[k] = s[k - Len(received)]
        BY <2>5, Concatenated
      <3>. QED
        BY <2>4, <3>1 DEF Within
    <2>8. n = offset => received \o s = received
      BY <2>4, <2>5, ConcatEmptySeq
    <2>9. n > Len(file) => Within(received \o s, 0)
      <3>1. n > Len(file) => n = offset
        BY <2>4, <2>5
      <3>. QED
        BY <2>3, <2>8, <3>1
    <2>10. ASSUME NEW q \in Reader \ stale' PROVE Trusted(q)'
      <3>1. CASE q = r
        BY <1>0, <3>1 DEF Trusted
      <3>2. CASE q # r /\ n # offset
        <4>1. q \notin Busy
          BY <2>1, <2>10, <3>2
        <4>2. pc'[q] = "idle"
          BY <1>0, <3>2, <4>1 DEF Busy, OwnLocals
        <4>. QED
          BY <4>2 DEF Trusted
      <3>3. CASE q # r /\ n = offset
        <4>1. q \in Reader \ stale /\ offset' = offset /\ received' = received
          BY <2>1, <2>8, <2>10, <3>3
        <4>2. Trusted(q)
          BY <2>2, <4>1 DEF OnceInv
        <4>. QED
          BY <1>0, <3>3, <4>1, <4>2 DEF OwnLocals, Trusted, Within
      <3>. QED
        BY <3>1, <3>2, <3>3
    <2>. QED
      BY <1>0, <2>1, <2>6, <2>7, <2>9, <2>10 DEF Within
  <1>. QED
    BY <1>1, <1>2

LEMMA PassOnce ==
    ASSUME JournalType, FreshInv, OnceInv, NEW r \in Reader, Pass(r)
    PROVE  OnceInv'
  <1>1. CASE Commit(r)
    BY <1>1, CommitOnce
  <1>2. CASE ~Commit(r)
    <2>0. /\ UNCHANGED <<file, offset, received, mixed, stale>> /\ OwnLocals(r)
          /\ pc \in [Reader -> {"idle", "lstat", "read", "commit"}]
      BY <1>2, PassOwnLocals DEF Pass, ReadTask, Missing, Lstat, ReadChunk, deletions, JournalType
    <2>1. SUFFICES ASSUME ~mixed, r \notin stale
                   PROVE  Trusted(r)'
      <3>1. ASSUME ~mixed, NEW q \in Reader \ stale, q # r PROVE Trusted(q)'
        <4>1. Trusted(q)
          BY <3>1 DEF OnceInv
        <4>. QED
          BY <2>0, <3>1, <4>1 DEF OwnLocals, Trusted, Within
      <3>. QED
        BY <2>0, <2>1, <3>1 DEF OnceInv, Within
    <2>2. /\ Trusted(r) /\ Within(received, offset)
          /\ offset > Len(file) => Within(received, 0)
      BY <2>1 DEF OnceInv
    <2>3. CASE ReadTask(r)
      <3>1. start'[r] = offset /\ pc'[r] = "lstat"
        BY <2>3 DEF ReadTask, Goto, JournalType
      <3>. QED
        BY <2>0, <3>1 DEF Trusted
    <2>4. CASE Missing(r)
      <3>1. PICK next \in {start[r], 0} :
              batch' = [batch EXCEPT ![r] = [next |-> next, events |-> << >>]]
        BY <2>4 DEF Missing
      <3>2. /\ start'[r] = start[r] /\ pc[r] = "lstat" /\ pc'[r] = "commit" /\ file = << >>
            /\ batch'[r].next = next /\ batch'[r].events = << >>
        BY <2>4, <3>1 DEF Missing, Goto, At, JournalType
      <3>3. Len(file) = 0 /\ Len(<< >>) = 0
        BY <3>2
      <3>4. /\ Injective(<< >>) /\ Within(<< >>, next) /\ Within(received, next)
            /\ \A k \in 1..Len(received), l \in 1..Len(<< >>) : received[k] # << >>[l]
        BY <3>3 DEF Injective, Within
      <3>5. next <= Len(file) \/ next = start[r]
        BY <3>1, <3>3
      <3>6. start[r] = offset
        BY <2>2, <3>2 DEF Trusted
      <3>. QED
        BY <2>0, <3>2, <3>4, <3>5, <3>6 DEF Trusted, Within
    <2>5. CASE Lstat(r)
      <3>1. /\ start'[r] = start[r] /\ pc[r] = "lstat" /\ pc'[r] = "read"
            /\ size'[r] = Len(file) /\ Len(file) \in Nat
        BY <2>5 DEF Lstat, Goto, At, JournalType
      <3>2. start[r] = offset
        BY <2>2, <3>1 DEF Trusted
      <3>. QED
        BY <2>0, <2>2, <3>1, <3>2 DEF Trusted, Within
    <2>6. CASE ReadChunk(r)
      <3>1. /\ start'[r] = start[r] /\ pc[r] = "read" /\ pc'[r] = "commit"
            /\ batch'[r].next = From(r) + Consumed(Chunk(r))
            /\ batch'[r].events = EventsOf(Chunk(r))
        BY <2>6 DEF ReadChunk, Goto, At, JournalType, Chunk, End
      <3>2. /\ start[r] = offset /\ size[r] <= Len(file)
            /\ start[r] > size[r] => Within(received, 0)
        BY <2>2, <3>1 DEF Trusted
      <3> DEFINE s == EventsOf(Chunk(r))
                 next == From(r) + Consumed(Chunk(r))
      <3>3. /\ Injective(s)
            /\ \A k \in 1..Len(received), l \in 1..Len(s) : received[k] # s[l]
            /\ Within(s, next) /\ Within(received, next)
            /\ next <= Len(file) \/ next = start[r]
            /\ next = start[r] => s = << >>
        BY <2>2, <3>2, ReadOnce
      <3>4. batch'[r].next = next /\ batch'[r].events = s
        BY <3>1
      <3>. HIDE DEF s, next
      <3>. QED
        BY <2>0, <3>1, <3>2, <3>3, <3>4 DEF Trusted, Within
    <2>. QED
      BY <1>2, <2>3, <2>4, <2>5, <2>6 DEF Pass
  <1>. QED
    BY <1>1, <1>2

LEMMA OnceInit == Init => FreshInv /\ OnceInv
  <1>. SUFFICES ASSUME Init PROVE FreshInv /\ OnceInv
    OBVIOUS
  <1>1. /\ Len(file) = 0 /\ Len(received) = 0 /\ ~writing /\ offset = 0
        /\ \A r \in Reader : pc[r] = "idle"
    BY DEF Init
  <1>. QED
    BY <1>1 DEF FreshInv, OnceInv, Distinct, Injective, Within, Trusted

LEMMA OnceInductive ==
    ASSUME JournalType, FreshInv, OnceInv, [Next]_vars
    PROVE  FreshInv' /\ OnceInv'
  <1>1. CASE UNCHANGED vars
    BY <1>1 DEF vars, locals, deletions, FreshInv, OnceInv, Trusted, Within
  <1>. QED
    BY <1>1, WriteOnce, RecreateOnce, PassFresh, PassOnce DEF Next

\* events_tail.py:82-87: however passes, writes and deletions of the journal
\* overlap, no event is consumed twice, unless a pass that began before a deletion or
\* a move of the offset finds the same offset again and wins.
THEOREM NothingTwice == Spec => []NoDuplicates
  <1>1. JournalType /\ OnceInv => NoDuplicates
    <2>. SUFFICES ASSUME JournalType, OnceInv, NEW i \in DOMAIN received,
                         NEW j \in DOMAIN received, received[i] = received[j], i # j
                  PROVE  mixed
      BY DEF NoDuplicates
    <2>1. i \in 1..Len(received) /\ j \in 1..Len(received)
      BY DEF JournalType
    <2>. QED
      BY <2>1 DEF OnceInv, Injective
  <1>. QED
    BY <1>1, TypeInit, TypeInductive, OnceInit, OnceInductive, PTL DEF Spec
==============================================================================
