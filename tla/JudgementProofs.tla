-------------------------- MODULE JudgementProofs ---------------------------
(***************************************************************************)
(* What the verdicts of module Judgement imply of the drive, for any drive,*)
(* any machine that looks and any reads that fail; and that the two orders *)
(* of module Survey put any number of drives in one order, so that exactly *)
(* one comes first and exactly one intent follows.                         *)
(***************************************************************************)
EXTENDS Judgement, Survey, WellFoundedInduction, FunctionTheorems, FiniteSetTheorems, TLAPS

-----------------------------------------------------------------------------
(***************************************************************************)
(* A set of naturals that is not empty has a least element.                *)
(***************************************************************************)

\* The library's order on the naturals, free of its operator parameter.
LEMMA NatOrder ==
    \E R : /\ IsWellFoundedOn(R, Nat)
           /\ \A x, y \in Nat : x < y => <<x, y>> \in R
<1>1. IsWellFoundedOn(OpToRel(<, Nat), Nat)
  BY NatLessThanWellFounded, Zenon
<1>2. \A x, y \in Nat : x < y => <<x, y>> \in OpToRel(<, Nat)
  BY DEF OpToRel
<1> QED
  BY <1>1, <1>2, Zenon

LEMMA LeastNatural ==
    ASSUME NEW T, T \subseteq Nat, T # {}
    PROVE  \E x \in T : \A y \in T : x <= y
<1>1. PICK R : /\ IsWellFoundedOn(R, Nat)
               /\ \A x, y \in Nat : x < y => <<x, y>> \in R
  BY NatOrder
<1>2. PICK x \in T : \A y \in T : ~ (<<y, x>> \in R)
  <2>1. IsWellFoundedOn(R, Nat) /\ T \subseteq Nat /\ T # {}
    BY <1>1
  <2> QED
    BY <2>1, WFMin, Zenon
<1>3. ASSUME NEW y \in T PROVE x <= y
  <2>1. x \in Nat /\ y \in Nat
    OBVIOUS
  <2>2. ~ (y < x)
    BY <1>1, <1>2, <2>1
  <2> QED
    BY <2>1, <2>2
<1> QED
  BY <1>3

-----------------------------------------------------------------------------
\* The records of the model are in the sets the types name.
LEMMA RecordTypes ==
    /\ NoEsp \in Esps
    /\ \A k \in {"AnotherNode", "Foreign", "Blank", "Unreadable"} : Of(k) \in Verdicts
    /\ \A d \in Drives, i \in Nat :
          ContentAt(d, i) \in Roles => MineVerdict(d, i) \in Verdicts
  BY DEF Esps, Of, Verdicts, MineVerdict

LEMMA DriveTypes ==
    ASSUME NEW d \in Drives
    PROVE  /\ d.size \in Nat /\ d.removable \in BOOLEAN /\ d.remote \in BOOLEAN
           /\ d.parts \in Seq(Roles \cup {"other"}) /\ Len(d.parts) \in Nat
           /\ d.esp \in Esps
  BY DEF Drives

\* What a read answers has its type, whichever reads fail.
LEMMA ReadTypes ==
    ASSUME NEW d \in Drives, NEW f
    PROVE  /\ SizeRead(d, f) \in Nat
           /\ RemovableRead(d, f) \in BOOLEAN
           /\ RemoteRead(d, f) \in BOOLEAN
           /\ PartsRead(d, f) \subseteq 1..Len(d.parts)
           /\ EspRead(d, f) \in Esps
<1>1. EspRead(d, f) \in Esps
  <2>1. CASE d.esp.present
    <3>1. d.esp \in [present : {TRUE}, claim : Nodes \cup {NoNode}, boot : BOOLEAN]
      <4>1. d.esp # NoEsp
        BY <2>1 DEF NoEsp
      <4> QED
        BY <4>1, DriveTypes DEF Esps
    <3>2. \A c \in Nodes \cup {NoNode}, b \in BOOLEAN :
             [d.esp EXCEPT !.claim = c, !.boot = b] \in Esps
      BY <3>1 DEF Esps
    <3>3. d.esp.claim \in Nodes \cup {NoNode} /\ d.esp.boot \in BOOLEAN
      BY <3>1
    <3>4. EspRead(d, f) = NoEsp \/
          \E c \in Nodes \cup {NoNode}, b \in BOOLEAN :
             EspRead(d, f) = [d.esp EXCEPT !.claim = c, !.boot = b]
      <4> DEFINE c == IF Site("record") \in f THEN NoNode ELSE d.esp.claim
                 b == d.esp.boot /\ Site("loader") \notin f
      <4>1. c \in Nodes \cup {NoNode} /\ b \in BOOLEAN
        BY <3>3
      <4>2. EspRead(d, f) = NoEsp \/ EspRead(d, f) = [d.esp EXCEPT !.claim = c, !.boot = b]
        BY DEF EspRead
      <4> HIDE DEF c, b
      <4> QED
        BY <4>1, <4>2
    <3> QED
      BY <3>2, <3>4, RecordTypes
  <2>2. CASE ~d.esp.present
    BY <2>2, RecordTypes DEF EspRead
  <2> QED
    BY <2>1, <2>2
<1> QED
  BY <1>1, DriveTypes DEF SizeRead, RemovableRead, RemoteRead, PartsRead

\* The loop stops at the first device that answers with a slab.
LEMMA FirstSlabIsFirst ==
    ASSUME NEW d \in Drives, NEW f, SlabProbes(d, f) # {}
    PROVE  /\ FirstSlab(d, f) \in SlabProbes(d, f)
           /\ \A j \in SlabProbes(d, f) : FirstSlab(d, f) <= j
<1>1. SlabProbes(d, f) \subseteq Nat
  BY ReadTypes, DriveTypes DEF SlabProbes
<1>2. \E i \in SlabProbes(d, f) : \A j \in SlabProbes(d, f) : i <= j
  BY <1>1, LeastNatural
<1> QED
  BY <1>2 DEF FirstSlab

LEMMA FirstSlabIsThere ==
    ASSUME NEW d \in Drives, NEW f, SlabProbes(d, f) # {}
    PROVE  /\ FirstSlab(d, f) \in 0..Len(d.parts)
           /\ ContentAt(d, FirstSlab(d, f)) \in Roles
<1>1. FirstSlab(d, f) \in SlabProbes(d, f)
  BY FirstSlabIsFirst
<1>2. PartsRead(d, f) \subseteq 1..Len(d.parts) /\ Len(d.parts) \in Nat
  BY ReadTypes, DriveTypes
<1> QED
  BY <1>1, <1>2 DEF SlabProbes

\* A judgement is one of the verdicts.
LEMMA JudgeType ==
    ASSUME NEW d \in Drives, NEW who, NEW f
    PROVE  Judge(d, who, f) \in Verdicts
<1>1. ASSUME SlabProbes(d, f) # {}
      PROVE  JudgeSlab(d, who, f, FirstSlab(d, f)) \in Verdicts
  BY <1>1, FirstSlabIsThere, DriveTypes, RecordTypes DEF JudgeSlab
<1>2. JudgeBare(d, f) \in Verdicts
  BY RecordTypes DEF JudgeBare
<1> QED
  BY <1>1, <1>2, RecordTypes DEF Judge

\* Only a slab is ever this node's, on a drive read as local, whose claim, as
\* read, names nobody else.
LEMMA JudgedMine ==
    ASSUME NEW d \in Drives, NEW who, NEW f, Judge(d, who, f).kind = "Mine"
    PROVE  /\ SlabProbes(d, f) # {}
           /\ ~RemoteRead(d, f) /\ ~RemovableRead(d, f)
           /\ ~ClaimedByAnother(EspRead(d, f), who)
<1>1. Judge(d, who, f) = JudgeSlab(d, who, f, FirstSlab(d, f))
      /\ SlabProbes(d, f) # {} /\ ~RemovableRead(d, f)
  BY DEF Judge, JudgeBare, Of
<1>2. ~RemoteRead(d, f) /\ ~ClaimedByAnother(EspRead(d, f), who)
  BY <1>1 DEF JudgeSlab, Of
<1> QED
  BY <1>1, <1>2

\* A drive called blank has no ESP; read as fixed and local for a reason, it is
\* untouched.
LEMMA JudgedBlank ==
    ASSUME NEW d \in Drives, TableInSight(d), NEW who, NEW f,
           Judge(d, who, f).kind = "Blank"
    PROVE  /\ ~RemoteRead(d, f) /\ ~d.esp.present
           /\ Site("removable") \notin f /\ Site("transport") \notin f => Untouched(d)
<1>1. /\ SizeRead(d, f) # 0 /\ ~RemovableRead(d, f) /\ SlabProbes(d, f) = {}
      /\ Judge(d, who, f) = JudgeBare(d, f)
  BY DEF Judge, JudgeSlab, Of, MineVerdict
<1>2. /\ ~RemoteRead(d, f) /\ d.head = "zero" /\ d.rest # "sampled"
      /\ d.tail \notin {"signature", "noise"}
  BY <1>1 DEF JudgeBare, Signature, Of
<1>3. d.tail = "zero"
  BY <1>2 DEF Drives
<1>4. d.size > 0
  BY <1>1, DriveTypes DEF SizeRead
<1>5. d.parts = << >> /\ ~d.esp.present
  BY <1>2, <1>3 DEF TableInSight
<1> QED
  BY <1>1, <1>2, <1>3, <1>4, <1>5 DEF Untouched, RemovableRead, RemoteRead

-----------------------------------------------------------------------------
(***************************************************************************)
(* Order.  A relation that puts any two elements of a finite set one       *)
(* before the other has a first element in it, and sorts it.               *)
(***************************************************************************)

\* A set of naturals with 0 and every successor has all of them.
LEMMA Counting ==
    ASSUME NEW T \in SUBSET Nat, 0 \in T, \A n \in T : n + 1 \in T
    PROVE  T = Nat
<1>1. PICK R : /\ IsWellFoundedOn(R, Nat)
               /\ \A x, y \in Nat : x < y => <<x, y>> \in R
  <2>1. IsWellFoundedOn(OpToRel(<, Nat), Nat)
    BY NatLessThanWellFounded, Zenon
  <2>2. \A x, y \in Nat : x < y => <<x, y>> \in OpToRel(<, Nat)
    BY DEF OpToRel
  <2> QED
    BY <2>1, <2>2, Zenon
<1>2. SUFFICES ASSUME Nat \ T # {} PROVE FALSE
  OBVIOUS
<1>3. PICK n \in Nat \ T : \A k \in Nat \ T : ~ (<<k, n>> \in R)
  <2>1. IsWellFoundedOn(R, Nat) /\ Nat \ T \subseteq Nat /\ Nat \ T # {}
    BY <1>1, <1>2
  <2> QED
    BY <2>1, WFMin, Zenon
<1>4. n - 1 \in Nat /\ n - 1 < n /\ (n - 1) + 1 = n
  BY <1>3
<1>5. n - 1 \in T
  BY <1>1, <1>3, <1>4
<1> QED
  BY <1>3, <1>4, <1>5

\* Any two one before the other, and not both ways.
Orders(R, S) ==
    /\ \A p, q \in S : p # q => (<<p, q>> \in R \/ <<q, p>> \in R)
    /\ \A p, q \in S : <<p, q>> \in R => ~ (<<q, p>> \in R)
    /\ \A p, q, r \in S : <<p, q>> \in R /\ <<q, r>> \in R => <<p, r>> \in R

IsFirst(R, S, p) == p \in S /\ \A q \in S \ {p} : <<p, q>> \in R

LEMMA OrdersPart ==
    ASSUME NEW R, NEW S, Orders(R, S), NEW B \in SUBSET S
    PROVE  Orders(R, B)
  BY DEF Orders

LEMMA FirstExists ==
    ASSUME NEW S, IsFiniteSet(S), NEW R, Orders(R, S), S # {}
    PROVE  \E p : IsFirst(R, S, p)
<1> DEFINE T == {n \in Nat : \A B \in SUBSET S :
                    B # {} /\ Cardinality(B) = n => \E p : IsFirst(R, B, p)}
<1>1. 0 \in T
  <2>1. ASSUME NEW B \in SUBSET S, B # {}, Cardinality(B) = 0 PROVE FALSE
    BY <2>1, FS_Subset, FS_EmptySet
  <2> QED
    BY <2>1
<1>2. ASSUME NEW n \in T PROVE n + 1 \in T
  <2>1. SUFFICES ASSUME NEW B \in SUBSET S, B # {}, Cardinality(B) = n + 1
                 PROVE  \E p : IsFirst(R, B, p)
    OBVIOUS
  <2>2. PICK x : x \in B
    BY <2>1
  <2>3. IsFiniteSet(B) /\ n \in Nat
    BY FS_Subset
  <2>4. Cardinality(B \ {x}) = n /\ B \ {x} \in SUBSET S
    <3>1. Cardinality(B \ {x}) = Cardinality(B) - 1
      BY <2>2, <2>3, FS_RemoveElement, Zenon
    <3> QED
      BY <2>1, <2>3, <3>1
  <2>5. CASE B \ {x} = {}
    BY <2>2, <2>5 DEF IsFirst
  <2>6. CASE B \ {x} # {}
    <3>1. PICK y : IsFirst(R, B \ {x}, y)
      BY <2>4, <2>6
    <3>2. y \in B /\ y # x /\ x \in S /\ y \in S
      BY <2>1, <2>2, <3>1 DEF IsFirst
    <3>3. CASE <<x, y>> \in R
      <4>1. ASSUME NEW q \in B \ {x} PROVE <<x, q>> \in R
        BY <3>1, <3>2, <3>3, <4>1 DEF IsFirst, Orders
      <4> QED
        BY <2>2, <4>1 DEF IsFirst
    <3>4. CASE <<y, x>> \in R
      BY <3>1, <3>2, <3>4 DEF IsFirst
    <3> QED
      BY <3>2, <3>3, <3>4 DEF Orders
  <2> QED
    BY <2>5, <2>6
<1>3. T = Nat
  <2> HIDE DEF T
  <2>1. T \in SUBSET Nat
    BY DEF T
  <2> QED
    BY <1>1, <1>2, <2>1, Counting
<1>4. Cardinality(S) \in T
  BY <1>3, FS_CardinalityType
<1> QED
  BY <1>4

LEMMA FirstIsOne ==
    ASSUME NEW R, NEW S, Orders(R, S), NEW p, NEW q, IsFirst(R, S, p), IsFirst(R, S, q)
    PROVE  p = q
  BY DEF IsFirst, Orders

\* The list that has a set in its order.
Sorted(R, S, list) ==
    /\ list \in [1..Cardinality(S) -> S]
    /\ \A i, j \in 1..Cardinality(S) : i < j => <<list[i], list[j]>> \in R

LEMMA SortedExists ==
    ASSUME NEW S, IsFiniteSet(S), NEW R, Orders(R, S)
    PROVE  \E list : Sorted(R, S, list)
<1> DEFINE T == {n \in Nat : \A B \in SUBSET S :
                    Cardinality(B) = n => \E list : Sorted(R, B, list)}
<1>1. 0 \in T
  <2>1. ASSUME NEW B \in SUBSET S, Cardinality(B) = 0
        PROVE  \E list : Sorted(R, B, list)
    <3>1. Sorted(R, B, [i \in 1..0 |-> i])
      BY <2>1 DEF Sorted
    <3> QED
      BY <3>1
  <2> QED
    BY <2>1
<1>2. ASSUME NEW n \in T PROVE n + 1 \in T
  <2>1. SUFFICES ASSUME NEW B \in SUBSET S, Cardinality(B) = n + 1
                 PROVE  \E list : Sorted(R, B, list)
    OBVIOUS
  <2>2. IsFiniteSet(B) /\ n \in Nat
    BY FS_Subset
  <2>3. B # {} /\ Orders(R, B)
    <3>1. Cardinality(B) # 0
      BY <2>1, <2>2
    <3> QED
      BY <3>1, FS_EmptySet, OrdersPart
  <2>4. PICK x : IsFirst(R, B, x)
    BY <2>2, <2>3, FirstExists
  <2>5. Cardinality(B \ {x}) = n /\ B \ {x} \in SUBSET S
    <3>1. Cardinality(B \ {x}) = Cardinality(B) - 1
      BY <2>2, <2>4, FS_RemoveElement, Zenon DEF IsFirst
    <3> QED
      BY <2>1, <2>2, <3>1
  <2>6. PICK rest : Sorted(R, B \ {x}, rest)
    BY <2>5
  <2> DEFINE list == [i \in 1..(n + 1) |-> IF i = 1 THEN x ELSE rest[i - 1]]
  <2>7. \A i \in 1..(n + 1) : i # 1 => i - 1 \in 1..n
    BY <2>2
  <2>8. \A i \in 1..n : rest[i] \in B \ {x}
    BY <2>5, <2>6 DEF Sorted
  <2>9. list \in [1..(n + 1) -> B]
    BY <2>4, <2>7, <2>8 DEF IsFirst
  <2>10. ASSUME NEW i \in 1..(n + 1), NEW j \in 1..(n + 1), i < j
         PROVE  <<list[i], list[j]>> \in R
    <3>1. j # 1 /\ list[j] = rest[j - 1] /\ j - 1 \in 1..n
      BY <2>2, <2>7, <2>10
    <3>2. CASE i = 1
      BY <2>4, <2>8, <3>1, <3>2 DEF IsFirst
    <3>3. CASE i # 1
      <4>1. list[i] = rest[i - 1] /\ i - 1 \in 1..n /\ i - 1 < j - 1
        BY <2>2, <2>7, <2>10, <3>3
      <4> QED
        BY <2>5, <2>6, <3>1, <4>1 DEF Sorted
    <3> QED
      BY <3>2, <3>3
  <2> QED
    <3> HIDE DEF list
    <3>1. Sorted(R, B, list)
      BY <2>1, <2>9, <2>10 DEF Sorted
    <3> QED
      BY <3>1
<1>3. T = Nat
  <2> HIDE DEF T
  <2>1. T \in SUBSET Nat
    BY DEF T
  <2> QED
    BY <1>1, <1>2, <2>1, Counting
<1>4. Cardinality(S) \in T
  BY <1>3, FS_CardinalityType
<1> QED
  BY <1>4

\* A sorted list holds every element of its set.
LEMMA SortedHolds ==
    ASSUME NEW S, IsFiniteSet(S), NEW R, Orders(R, S), NEW list, Sorted(R, S, list)
    PROVE  \A p \in S : \E i \in 1..Cardinality(S) : list[i] = p
<1> DEFINE n == Cardinality(S)
<1>1. n \in Nat
  BY FS_CardinalityType
<1>2. ASSUME NEW i \in 1..n, NEW j \in 1..n, list[i] = list[j] PROVE i = j
  <2>1. i < j \/ j < i \/ i = j
    BY <1>1
  <2> QED
    BY <1>2, <2>1 DEF Sorted, Orders
<1>3. list \in Injection(1..n, S)
  <2>1. list \in [1..n -> S]
    BY DEF Sorted
  <2> QED
    BY <1>2, <2>1, Fun_IsInj
<1>4. IsFiniteSet(1..n) /\ Cardinality(1..n) = n
  BY <1>1, FS_Interval
<1>5. list \in Surjection(1..n, S)
  BY <1>3, <1>4, FS_Injection
<1>6. \A p \in S : \E i \in 1..n : list[i] = p
  BY <1>5 DEF Surjection
<1> QED
  BY <1>6
-----------------------------------------------------------------------------
(***************************************************************************)
(* The two orders of survey.rs are orders of any machine's drives, so each *)
(* choice falls on one drive.                                              *)
(***************************************************************************)
Machine(ds) ==
    /\ \E n \in Nat : DOMAIN ds = 1..n
    /\ \A p \in DOMAIN ds : ds[p].size \in Nat /\ ds[p].rotational \in BOOLEAN

BootOrder(ds) == {e \in (DOMAIN ds) \X (DOMAIN ds) : BootsBefore(ds, e[1], e[2])}

TakeOrder(ds) == {e \in (DOMAIN ds) \X (DOMAIN ds) : TakenBefore(ds, e[1], e[2])}

LEMMA MachineTypes ==
    ASSUME NEW ds, Machine(ds)
    PROVE  /\ IsFiniteSet(DOMAIN ds) /\ DOMAIN ds \subseteq Nat \ {0}
           /\ \A p \in DOMAIN ds : ds[p].size \in Nat /\ ds[p].rotational \in BOOLEAN
<1>1. PICK n \in Nat : DOMAIN ds = 1..n
  BY DEF Machine
<1>2. IsFiniteSet(1..n)
  BY <1>1, FS_Interval
<1> QED
  BY <1>1, <1>2 DEF Machine

LEMMA BootOrders ==
    ASSUME NEW ds, Machine(ds)
    PROVE  Orders(BootOrder(ds), DOMAIN ds)
<1>1. \A p \in DOMAIN ds : p \in Nat
  BY MachineTypes
<1> QED
  BY <1>1 DEF Orders, BootOrder, BootsBefore

LEMMA TakeOrders ==
    ASSUME NEW ds, Machine(ds)
    PROVE  Orders(TakeOrder(ds), DOMAIN ds)
<1>1. \A p \in DOMAIN ds : p \in Nat /\ ds[p].size \in Nat /\ ds[p].rotational \in BOOLEAN
  BY MachineTypes
<1>2. \A p, q \in DOMAIN ds : <<p, q>> \in TakeOrder(ds) <=> TakenBefore(ds, p, q)
  BY DEF TakeOrder
<1>3. ASSUME NEW p \in DOMAIN ds, NEW q \in DOMAIN ds, p # q
      PROVE  TakenBefore(ds, p, q) \/ TakenBefore(ds, q, p)
  BY <1>1, <1>3 DEF TakenBefore
<1>4. ASSUME NEW p \in DOMAIN ds, NEW q \in DOMAIN ds, TakenBefore(ds, p, q)
      PROVE  ~ TakenBefore(ds, q, p)
  BY <1>1, <1>4 DEF TakenBefore
<1>5. ASSUME NEW p \in DOMAIN ds, NEW q \in DOMAIN ds, NEW r \in DOMAIN ds,
             TakenBefore(ds, p, q), TakenBefore(ds, q, r)
      PROVE  TakenBefore(ds, p, r)
  BY <1>1, <1>5 DEF TakenBefore
<1> QED
  BY <1>2, <1>3, <1>4, <1>5 DEF Orders

\* The sets the intent chooses from, and the first of each.
LEMMA ChoiceSets ==
    ASSUME NEW ds, Machine(ds)
    PROVE  /\ Bootable(ds) \subseteq Mine(ds)
           /\ Mine(ds) \subseteq DOMAIN ds /\ IsFiniteSet(Mine(ds))
           /\ Orders(BootOrder(ds), Mine(ds))
           /\ Available(ds) \subseteq DOMAIN ds /\ IsFiniteSet(Available(ds))
           /\ Orders(TakeOrder(ds), Available(ds))
           /\ \A p : p \in FirstBootable(ds) <=> IsFirst(BootOrder(ds), Bootable(ds), p)
           /\ \A p : p \in FirstAvailable(ds) <=> IsFirst(TakeOrder(ds), Available(ds), p)
<1>1. Bootable(ds) \subseteq Mine(ds) /\ Mine(ds) \subseteq DOMAIN ds
      /\ Available(ds) \subseteq DOMAIN ds
  BY DEF Bootable, Mine, Available
<1>2. IsFiniteSet(Mine(ds)) /\ IsFiniteSet(Available(ds))
  BY <1>1, MachineTypes, FS_Subset
<1>3. Orders(BootOrder(ds), Mine(ds)) /\ Orders(TakeOrder(ds), Available(ds))
  BY <1>1, BootOrders, TakeOrders, OrdersPart
<1>4. \A p : p \in FirstBootable(ds) <=> IsFirst(BootOrder(ds), Bootable(ds), p)
  BY <1>1 DEF FirstBootable, IsFirst, BootOrder
<1>5. \A p : p \in FirstAvailable(ds) <=> IsFirst(TakeOrder(ds), Available(ds), p)
  BY <1>1 DEF FirstAvailable, IsFirst, TakeOrder
<1> QED
  BY <1>1, <1>2, <1>3, <1>4, <1>5

LEMMA OneChoice ==
    ASSUME NEW ds, Machine(ds)
    PROVE  /\ Bootable(ds) # {} => \E p \in Bootable(ds) : FirstBootable(ds) = {p}
           /\ Available(ds) # {} => \E p \in Available(ds) : FirstAvailable(ds) = {p}
<1>1. ASSUME Bootable(ds) # {}
      PROVE  \E p \in Bootable(ds) : FirstBootable(ds) = {p}
  <2>1. IsFiniteSet(Bootable(ds)) /\ Orders(BootOrder(ds), Bootable(ds))
    BY ChoiceSets, FS_Subset, OrdersPart
  <2>2. PICK p : IsFirst(BootOrder(ds), Bootable(ds), p)
    BY <1>1, <2>1, FirstExists
  <2>3. \A q : q \in FirstBootable(ds) <=> q = p
    BY <2>1, <2>2, ChoiceSets, FirstIsOne
  <2> QED
    BY <2>2, <2>3 DEF IsFirst
<1>2. ASSUME Available(ds) # {}
      PROVE  \E p \in Available(ds) : FirstAvailable(ds) = {p}
  <2>1. IsFiniteSet(Available(ds)) /\ Orders(TakeOrder(ds), Available(ds))
    BY ChoiceSets
  <2>2. PICK p : IsFirst(TakeOrder(ds), Available(ds), p)
    BY <1>2, <2>1, FirstExists
  <2>3. \A q : q \in FirstAvailable(ds) <=> q = p
    BY <2>1, <2>2, ChoiceSets, FirstIsOne
  <2> QED
    BY <2>2, <2>3 DEF IsFirst
<1> QED
  BY <1>1, <1>2

\* What the survey concludes, by what there is to conclude from.
LEMMA OneIntent ==
    ASSUME NEW ds, Machine(ds)
    PROVE  /\ Bootable(ds) # {} =>
                 \E p \in Bootable(ds) :
                    /\ FirstBootable(ds) = {p}
                    /\ Intents(ds) = {Intent("AlreadyMine", p, ds[p].verdict.slab)}
           /\ Bootable(ds) = {} /\ Mine(ds) # {} =>
                 Intents(ds) = {Intent("MineButNoneBoots", NoDevice, 0)}
           /\ Mine(ds) = {} /\ Available(ds) # {} =>
                 \E p \in Available(ds) : /\ FirstAvailable(ds) = {p}
                                          /\ Intents(ds) = {Intent("TakeOver", p, 0)}
           /\ Mine(ds) = {} /\ Available(ds) = {} =>
                 Intents(ds) = {Intent("NothingToTake", NoDevice, 0)}
<1>1. Bootable(ds) \subseteq Mine(ds)
  BY ChoiceSets
<1>2. ASSUME Bootable(ds) # {}
      PROVE  \E p \in Bootable(ds) :
                /\ FirstBootable(ds) = {p}
                /\ Intents(ds) = {Intent("AlreadyMine", p, ds[p].verdict.slab)}
  <2>1. PICK p \in Bootable(ds) : FirstBootable(ds) = {p}
    BY <1>2, OneChoice
  <2>2. Intents(ds) = {Intent("AlreadyMine", x, ds[x].verdict.slab) : x \in {p}}
    BY <1>2, <2>1 DEF Intents
  <2> QED
    BY <2>1, <2>2
<1>3. ASSUME Mine(ds) = {}, Available(ds) # {}
      PROVE  \E p \in Available(ds) : /\ FirstAvailable(ds) = {p}
                                      /\ Intents(ds) = {Intent("TakeOver", p, 0)}
  <2>1. PICK p \in Available(ds) : FirstAvailable(ds) = {p}
    BY <1>3, OneChoice
  <2>2. Intents(ds) = {Intent("TakeOver", x, 0) : x \in {p}}
    BY <1>1, <1>3, <2>1 DEF Intents
  <2> QED
    BY <2>1, <2>2
<1> QED
  BY <1>1, <1>2, <1>3 DEF Intents
=============================================================================
