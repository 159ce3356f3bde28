---------------------------- MODULE SurveyProofs ----------------------------
(***************************************************************************)
(* The survey concludes one thing from any number of drives: what the code *)
(* reads off the heads of its sorted lists is what module Survey says of   *)
(* the sets of drives, no name decides between drives, and no drive that   *)
(* is looked at later takes an owned one back.                             *)
(***************************************************************************)
EXTENDS SurveyWalk, JudgementProofs

-----------------------------------------------------------------------------
(***************************************************************************)
(* The walk.                                                               *)
(***************************************************************************)
\* What has been seen is a machine of candidates: the proofs' induction hypothesis.
Walks == seen \in UNION {[1..k -> Candidates] : k \in 0..MaxDrives}

\* Judged drives under names from 1 on are a machine, in which only a slab has a role.
BlanksAreBare(ds) ==
    \A p \in DOMAIN ds : ds[p].verdict.kind = "Blank" => ds[p].verdict.role = "none"

LEMMA JudgedMachine ==
    ASSUME NEW n \in Nat, NEW ds \in [1..n -> JudgedDrives]
    PROVE  Machine(ds) /\ BlanksAreBare(ds)
<1>1. DOMAIN ds = 1..n
  OBVIOUS
<1>2. ASSUME NEW p \in 1..n
      PROVE  /\ ds[p].size \in Nat /\ ds[p].rotational \in BOOLEAN
             /\ ds[p].verdict.kind = "Blank" => ds[p].verdict.role = "none"
  <2>1. ds[p] \in JudgedDrives /\ ds[p].verdict \in Judgements
    BY DEF JudgedDrives
  <2> QED
    BY <2>1 DEF JudgedDrives, Judgements
<1> QED
  BY <1>1, <1>2 DEF Machine, BlanksAreBare

LEMMA WalkTypes ==
    ASSUME Walks
    PROVE  /\ Machine(seen) /\ BlanksAreBare(seen) /\ seen \in Seq(Candidates)
           /\ DOMAIN seen = 1..Len(seen) /\ Len(seen) \in 0..MaxDrives
<1>1. PICK k \in 0..MaxDrives : seen \in [1..k -> Candidates]
  BY DEF Walks
<1>2. k \in Nat /\ MaxDrives \in Nat /\ Candidates \subseteq JudgedDrives
  BY <1>1, WalkAssumption
<1>3. Machine(seen) /\ BlanksAreBare(seen)
  <2>1. seen \in [1..k -> JudgedDrives]
    BY <1>1, <1>2
  <2> QED
    BY <1>2, <2>1, JudgedMachine
<1>4. seen \in Seq(Candidates) /\ DOMAIN seen = 1..k
  BY <1>1, <1>2
<1>5. Len(seen) = k
  BY <1>2, <1>4
<1> QED
  BY <1>1, <1>3, <1>4, <1>5

\* What a step does to the list: nothing, or one drive more behind the others.
LEMMA WalkGrows ==
    ASSUME Walks, [Next]_seen, seen' # seen
    PROVE  /\ DOMAIN seen' = 1..(Len(seen) + 1) /\ Len(seen) + 1 \in 0..MaxDrives
           /\ seen' \in [1..(Len(seen) + 1) -> Candidates]
           /\ \A p \in DOMAIN seen : p \in DOMAIN seen' /\ seen'[p] = seen[p]
<1>1. PICK dr \in Candidates : Len(seen) < MaxDrives /\ seen' = Append(seen, dr)
  BY DEF Next, LookAtNext, Walked
<1>2. /\ seen \in Seq(Candidates) /\ Len(seen) \in Nat /\ DOMAIN seen = 1..Len(seen)
      /\ MaxDrives \in Nat
  BY WalkTypes, WalkAssumption
<1>3. /\ seen' \in Seq(Candidates) /\ Len(seen') = Len(seen) + 1
      /\ \A p \in 1..Len(seen) : seen'[p] = seen[p]
  <2>1. /\ Append(seen, dr) \in Seq(Candidates) /\ Len(Append(seen, dr)) = Len(seen) + 1
        /\ \A p \in 1..Len(seen) : Append(seen, dr)[p] = seen[p]
    BY <1>2, SMT
  <2> QED
    BY <1>1, <2>1
<1>4. DOMAIN seen' = 1..(Len(seen) + 1) /\ seen' \in [1..(Len(seen) + 1) -> Candidates]
  BY <1>3
<1>5. /\ Len(seen) + 1 \in 0..MaxDrives
      /\ \A p \in 1..Len(seen) : p \in 1..(Len(seen) + 1)
  <2>1. Len(seen) < MaxDrives
    BY <1>1
  <2> QED
    BY <2>1, <1>2, SMT
<1> QED
  BY <1>2, <1>3, <1>4, <1>5

LEMMA WalkOnly == Spec => []Walks
<1>1. Init => Walks
  <2>1. ASSUME Init PROVE seen \in [1..0 -> Candidates]
    BY <2>1 DEF Init
  <2>2. 0 \in 0..MaxDrives
    BY WalkAssumption
  <2> QED
    BY <2>1, <2>2 DEF Walks
<1>2. Walks /\ [Next]_seen => Walks'
  <2>1. ASSUME Walks, [Next]_seen, seen' # seen PROVE Walks'
    BY <2>1, WalkGrows DEF Walks
  <2>2. ASSUME Walks, seen' = seen PROVE Walks'
    BY <2>2 DEF Walks
  <2> QED
    BY <2>1, <2>2
<1> QED
  BY <1>1, <1>2, PTL DEF Spec

LEMMA KindIs ==
    ASSUME NEW ds, Machine(ds)
    PROVE  /\ Kind(ds) = "AlreadyMine" <=> Bootable(ds) # {}
           /\ Kind(ds) \in {"AlreadyMine", "MineButNoneBoots"} <=> Mine(ds) # {}
<1>1. Bootable(ds) \subseteq Mine(ds)
  BY ChoiceSets
<1>2. ASSUME NEW i, Intents(ds) = {i} PROVE Kind(ds) = i.kind
  BY <1>2 DEF Kind
<1>3. ASSUME Bootable(ds) # {} PROVE Kind(ds) = "AlreadyMine"
  <2>1. PICK p \in Bootable(ds) :
           Intents(ds) = {Intent("AlreadyMine", p, ds[p].verdict.slab)}
    BY <1>3, OneIntent
  <2>2. Kind(ds) = Intent("AlreadyMine", p, ds[p].verdict.slab).kind
    BY <2>1, <1>2, Zenon
  <2> QED
    BY <2>2 DEF Intent
<1>4. ASSUME Bootable(ds) = {}, Mine(ds) # {} PROVE Kind(ds) = "MineButNoneBoots"
  <2>1. Intents(ds) = {Intent("MineButNoneBoots", NoDevice, 0)}
    BY <1>4, OneIntent
  <2>2. Kind(ds) = Intent("MineButNoneBoots", NoDevice, 0).kind
    BY <2>1, <1>2, Zenon
  <2> QED
    BY <2>2 DEF Intent
<1>5. ASSUME Mine(ds) = {}, Available(ds) # {} PROVE Kind(ds) = "TakeOver"
  <2>1. PICK p \in Available(ds) : Intents(ds) = {Intent("TakeOver", p, 0)}
    BY <1>5, OneIntent
  <2>2. Kind(ds) = Intent("TakeOver", p, 0).kind
    BY <2>1, <1>2, Zenon
  <2> QED
    BY <2>2 DEF Intent
<1>6. ASSUME Mine(ds) = {}, Available(ds) = {} PROVE Kind(ds) = "NothingToTake"
  <2>1. Intents(ds) = {Intent("NothingToTake", NoDevice, 0)}
    BY <1>6, OneIntent
  <2>2. Kind(ds) = Intent("NothingToTake", NoDevice, 0).kind
    BY <2>1, <1>2, Zenon
  <2> QED
    BY <2>2 DEF Intent
<1> QED
  BY <1>1, <1>3, <1>4, <1>5, <1>6

\* However many drives are still to be looked at, none takes back what a node
\* owns: it neither offers a drive after it owned one nor stops booting.
THEOREM OwnershipSticks == Spec => OwnershipIsSticky
<1>1. ASSUME Walks, Walks', [Next]_seen, seen' # seen
      PROVE  /\ Kind(seen) \in {"AlreadyMine", "MineButNoneBoots"} =>
                    Kind(seen') \in {"AlreadyMine", "MineButNoneBoots"}
             /\ Kind(seen) = "AlreadyMine" => Kind(seen') = "AlreadyMine"
  <2>1. PICK ds : ds = seen'
    OBVIOUS
  <2>2. Machine(seen) /\ Machine(ds)
    <3>1. PICK k \in 0..MaxDrives : ds \in [1..k -> Candidates]
      BY <1>1, <2>1 DEF Walks
    <3> QED
      <4>1. k \in Nat /\ ds \in [1..k -> JudgedDrives]
        BY <3>1, WalkAssumption
      <4> QED
        BY <1>1, <4>1, WalkTypes, JudgedMachine
  <2>3. \A p \in DOMAIN seen : p \in DOMAIN ds /\ ds[p] = seen[p]
    BY <1>1, <2>1, WalkGrows
  <2>4. Mine(seen) \subseteq Mine(ds) /\ Bootable(seen) \subseteq Bootable(ds)
    BY <2>3 DEF Mine, Bootable
  <2>5. /\ Kind(seen) \in {"AlreadyMine", "MineButNoneBoots"} =>
              Kind(ds) \in {"AlreadyMine", "MineButNoneBoots"}
        /\ Kind(seen) = "AlreadyMine" => Kind(ds) = "AlreadyMine"
    BY <2>2, <2>4, KindIs
  <2> QED
    BY <2>1, <2>5
<1>2. ASSUME Walks, Walks', [Next]_seen
      PROVE  [/\ Kind(seen) \in {"AlreadyMine", "MineButNoneBoots"} =>
                    Kind(seen') \in {"AlreadyMine", "MineButNoneBoots"}
              /\ Kind(seen) = "AlreadyMine" => Kind(seen') = "AlreadyMine"]_seen
  BY <1>1, <1>2
<1> QED
  BY <1>2, WalkOnly, PTL DEF Spec, OwnershipIsSticky
-----------------------------------------------------------------------------
(***************************************************************************)
(* The same drives under other names.                                      *)
(***************************************************************************)
LEMMA RenamedMachine ==
    ASSUME NEW ds, Machine(ds), BlanksAreBare(ds), NEW f \in [DOMAIN ds -> DOMAIN ds],
           \A p, q \in DOMAIN ds : f[p] = f[q] => p = q,
           NEW rn, rn = [p \in DOMAIN ds |-> ds[f[p]]]
    PROVE  /\ Machine(rn) /\ BlanksAreBare(rn) /\ DOMAIN rn = DOMAIN ds
           /\ \A p \in DOMAIN ds : \E o \in DOMAIN ds : f[o] = p
           /\ \A p \in DOMAIN ds : f[p] \in DOMAIN ds /\ rn[p] = ds[f[p]]
<1>1. Machine(rn) /\ BlanksAreBare(rn)
  <2>1. DOMAIN rn = DOMAIN ds /\ \A p \in DOMAIN ds : rn[p] = ds[f[p]] /\ f[p] \in DOMAIN ds
    OBVIOUS
  <2> QED
    BY <2>1 DEF Machine, BlanksAreBare
<1>2. f \in Surjection(DOMAIN ds, DOMAIN ds)
  <2>1. f \in Injection(DOMAIN ds, DOMAIN ds)
    BY Fun_IsInj
  <2> QED
    BY <2>1, MachineTypes, FS_Injection
<1> QED
  BY <1>1, <1>2 DEF Surjection

\* Which of the choices there is does not change with the names, and neither
\* does what the chosen drive is chosen for.
LEMMA NamesDecideNothing ==
    ASSUME NEW ds, Machine(ds), BlanksAreBare(ds),
           NEW rn, Machine(rn), BlanksAreBare(rn), DOMAIN rn = DOMAIN ds,
           NEW f \in [DOMAIN ds -> DOMAIN ds],
           \A p \in DOMAIN ds : \E o \in DOMAIN ds : f[o] = p,
           \A p \in DOMAIN ds : f[p] \in DOMAIN ds /\ rn[p] = ds[f[p]]
    PROVE  /\ Mine(ds) = {} <=> Mine(rn) = {}
           /\ Bootable(ds) = {} <=> Bootable(rn) = {}
           /\ Available(ds) = {} <=> Available(rn) = {}
           /\ \A p \in FirstBootable(ds), q \in FirstBootable(rn) :
                 ds[p].verdict.role = "system" <=> rn[q].verdict.role = "system"
           /\ \A p \in FirstAvailable(ds), q \in FirstAvailable(rn) :
                 /\ ds[p].verdict.role = rn[q].verdict.role
                 /\ ds[p].size = rn[q].size /\ ds[p].rotational = rn[q].rotational
<1>1. \A p \in DOMAIN ds : /\ p \in Mine(rn) <=> f[p] \in Mine(ds)
                           /\ p \in Bootable(rn) <=> f[p] \in Bootable(ds)
                           /\ p \in Available(rn) <=> f[p] \in Available(ds)
  BY DEF Mine, Bootable, Available, Boots
<1>2. /\ Mine(ds) \subseteq DOMAIN ds /\ Mine(rn) \subseteq DOMAIN ds
      /\ Bootable(ds) \subseteq DOMAIN ds /\ Bootable(rn) \subseteq DOMAIN ds
      /\ Available(ds) \subseteq DOMAIN ds /\ Available(rn) \subseteq DOMAIN ds
  BY DEF Mine, Bootable, Available
<1>3. /\ Mine(ds) = {} <=> Mine(rn) = {}
      /\ Bootable(ds) = {} <=> Bootable(rn) = {}
      /\ Available(ds) = {} <=> Available(rn) = {}
  BY <1>1, <1>2
<1>4. ASSUME NEW p \in FirstBootable(ds), NEW q \in FirstBootable(rn)
      PROVE  ds[p].verdict.role = "system" <=> rn[q].verdict.role = "system"
  <2>1. p \in Bootable(ds) /\ q \in Bootable(rn) /\ p \in DOMAIN ds /\ q \in DOMAIN ds
    BY <1>2, <1>4 DEF FirstBootable
  <2>2. PICK o \in DOMAIN ds : f[o] = p
    BY <2>1
  <2>3. o \in Bootable(rn) /\ f[q] \in Bootable(ds) /\ rn[o] = ds[p] /\ rn[q] = ds[f[q]]
    BY <1>1, <2>1, <2>2
  <2>4. p = f[q] \/ BootsBefore(ds, p, f[q])
    BY <1>4, <2>3 DEF FirstBootable
  <2>5. q = o \/ BootsBefore(rn, q, o)
    BY <1>4, <2>3 DEF FirstBootable
  <2> QED
    BY <2>3, <2>4, <2>5 DEF BootsBefore
<1>5. ASSUME NEW p \in FirstAvailable(ds), NEW q \in FirstAvailable(rn)
      PROVE  /\ ds[p].verdict.role = rn[q].verdict.role
             /\ ds[p].size = rn[q].size /\ ds[p].rotational = rn[q].rotational
  <2>1. p \in Available(ds) /\ q \in Available(rn) /\ p \in DOMAIN ds /\ q \in DOMAIN ds
    BY <1>2, <1>5 DEF FirstAvailable
  <2>2. PICK o \in DOMAIN ds : f[o] = p
    BY <2>1
  <2>3. o \in Available(rn) /\ f[q] \in Available(ds) /\ rn[o] = ds[p] /\ rn[q] = ds[f[q]]
        /\ f[q] \in DOMAIN ds
    BY <1>1, <2>1, <2>2
  <2>4. p = f[q] \/ TakenBefore(ds, p, f[q])
    BY <1>5, <2>3 DEF FirstAvailable
  <2>5. q = o \/ TakenBefore(rn, q, o)
    BY <1>5, <2>3 DEF FirstAvailable
  <2>6. /\ ds[p].size \in Nat /\ ds[p].rotational \in BOOLEAN
        /\ rn[q].size \in Nat /\ rn[q].rotational \in BOOLEAN
    BY <2>1, MachineTypes
  <2>7. ds[p].size = rn[q].size /\ ds[p].rotational = rn[q].rotational
    BY <2>3, <2>4, <2>5, <2>6 DEF TakenBefore
  <2>8. ds[p].verdict.role = "none" /\ rn[q].verdict.role = "none"
    BY <2>1 DEF Available, BlanksAreBare
  <2> QED
    BY <2>7, <2>8
<1> QED
  BY <1>3, <1>4, <1>5

LEMMA NamesInIntents ==
    ASSUME NEW ds, Machine(ds), BlanksAreBare(ds),
           NEW rn, Machine(rn), BlanksAreBare(rn), DOMAIN rn = DOMAIN ds,
           NEW f \in [DOMAIN ds -> DOMAIN ds],
           \A p \in DOMAIN ds : \E o \in DOMAIN ds : f[o] = p,
           \A p \in DOMAIN ds : f[p] \in DOMAIN ds /\ rn[p] = ds[f[p]],
           NEW i \in Intents(ds), NEW j \in Intents(rn)
    PROVE  /\ i.kind = j.kind
           /\ i.kind = "TakeOver" => Merit(ds, i) = Merit(rn, j)
           /\ i.kind = "AlreadyMine" =>
                (Merit(ds, i)[1] = "system" <=> Merit(rn, j)[1] = "system")
<1>1. /\ Mine(ds) = {} <=> Mine(rn) = {}
      /\ Bootable(ds) = {} <=> Bootable(rn) = {}
      /\ Available(ds) = {} <=> Available(rn) = {}
      /\ \A p \in FirstBootable(ds), q \in FirstBootable(rn) :
            ds[p].verdict.role = "system" <=> rn[q].verdict.role = "system"
      /\ \A p \in FirstAvailable(ds), q \in FirstAvailable(rn) :
            /\ ds[p].verdict.role = rn[q].verdict.role
            /\ ds[p].size = rn[q].size /\ ds[p].rotational = rn[q].rotational
  BY NamesDecideNothing
<1>2. \A p \in DOMAIN ds : p # NoDevice
  BY MachineTypes DEF NoDevice
<1>3. CASE Bootable(ds) # {}
  <2>1. PICK p \in Bootable(ds), q \in Bootable(rn) :
           /\ FirstBootable(ds) = {p} /\ FirstBootable(rn) = {q}
           /\ i = Intent("AlreadyMine", p, ds[p].verdict.slab)
           /\ j = Intent("AlreadyMine", q, rn[q].verdict.slab)
    BY <1>1, <1>3, OneIntent
  <2>2. /\ i.kind = "AlreadyMine" /\ i.drive = p /\ p # NoDevice
        /\ j.kind = "AlreadyMine" /\ j.drive = q /\ q # NoDevice
    BY <1>2, <2>1 DEF Intent, Bootable, Mine
  <2>3. Merit(ds, i)[1] = ds[p].verdict.role /\ Merit(rn, j)[1] = rn[q].verdict.role
    BY <2>2 DEF Merit
  <2>4. ds[p].verdict.role = "system" <=> rn[q].verdict.role = "system"
    BY <1>1, <2>1
  <2> QED
    BY <2>2, <2>3, <2>4
<1>4. CASE Bootable(ds) = {} /\ Mine(ds) # {}
  <2>1. /\ i = Intent("MineButNoneBoots", NoDevice, 0)
        /\ j = Intent("MineButNoneBoots", NoDevice, 0)
    BY <1>1, <1>4, OneIntent
  <2> QED
    BY <2>1 DEF Intent
<1>5. CASE Mine(ds) = {} /\ Available(ds) # {}
  <2>1. PICK p \in Available(ds), q \in Available(rn) :
           /\ FirstAvailable(ds) = {p} /\ FirstAvailable(rn) = {q}
           /\ i = Intent("TakeOver", p, 0) /\ j = Intent("TakeOver", q, 0)
    BY <1>1, <1>5, OneIntent
  <2>2. /\ i.kind = "TakeOver" /\ i.drive = p /\ p # NoDevice
        /\ j.kind = "TakeOver" /\ j.drive = q /\ q # NoDevice
    BY <1>2, <2>1 DEF Intent, Available
  <2>3. /\ ds[p].verdict.role = rn[q].verdict.role
        /\ ds[p].size = rn[q].size /\ ds[p].rotational = rn[q].rotational
    BY <1>1, <2>1
  <2> QED
    BY <2>2, <2>3 DEF Merit
<1>6. CASE Mine(ds) = {} /\ Available(ds) = {}
  <2>1. /\ i = Intent("NothingToTake", NoDevice, 0)
        /\ j = Intent("NothingToTake", NoDevice, 0)
    BY <1>1, <1>6, OneIntent
  <2> QED
    BY <2>1 DEF Intent
<1> QED
  BY <1>3, <1>4, <1>5, <1>6

\* The roles, the sizes and the media decide, never the names: however the same
\* drives are numbered, the survey concludes the same and chooses a drive as good.
THEOREM NamesAreIdle == Spec => []NamesDoNotDecide
<1>1. ASSUME Walks PROVE NamesDoNotDecide
  <2>1. SUFFICES ASSUME NEW f \in Renamings,
                        NEW rn, rn = [p \in DOMAIN seen |-> seen[f[p]]],
                        NEW i \in Intents(seen), NEW j \in Intents(rn)
                 PROVE  /\ i.kind = j.kind
                        /\ i.kind = "TakeOver" => Merit(seen, i) = Merit(rn, j)
                        /\ i.kind = "AlreadyMine" =>
                             (Merit(seen, i)[1] = "system" <=> Merit(rn, j)[1] = "system")
    BY Zenon DEF NamesDoNotDecide
  <2>2. Machine(seen) /\ BlanksAreBare(seen)
    BY <1>1, WalkTypes
  <2>3. /\ f \in [DOMAIN seen -> DOMAIN seen]
        /\ \A p, q \in DOMAIN seen : f[p] = f[q] => p = q
    BY <2>1 DEF Renamings
  <2>4. /\ Machine(rn) /\ BlanksAreBare(rn) /\ DOMAIN rn = DOMAIN seen
        /\ \A p \in DOMAIN seen : \E o \in DOMAIN seen : f[o] = p
        /\ \A p \in DOMAIN seen : f[p] \in DOMAIN seen /\ rn[p] = seen[f[p]]
    BY <2>1, <2>2, <2>3, RenamedMachine
  <2> QED
    BY <2>1, <2>2, <2>3, <2>4, NamesInIntents
<1> QED
  BY <1>1, WalkOnly, PTL
-----------------------------------------------------------------------------
(***************************************************************************)
(* The lists.  Each stable sort by a key puts its list in the order module *)
(* Survey defines, so a list begins with the first of its set.             *)
(***************************************************************************)
LEMMA MineListSorted ==
    ASSUME Machine(seen)
    PROVE  Sorted(BootOrder(seen), Mine(seen), MineList)
<1> DEFINE Before(p, q) == \/ RoleKey(p) < RoleKey(q)
                           \/ ~(RoleKey(q) < RoleKey(p)) /\ p < q
           Lists == [1..Cardinality(Mine(seen)) -> Mine(seen)]
           Good(list) == \A i, j \in DOMAIN list : i < j => Before(list[i], list[j])
<1>1. ASSUME NEW p \in Mine(seen), NEW q \in Mine(seen)
      PROVE  Before(p, q) <=> <<p, q>> \in BootOrder(seen)
  <2>1. p \in DOMAIN seen /\ q \in DOMAIN seen /\ p \in Nat /\ q \in Nat
    BY ChoiceSets, MachineTypes
  <2> QED
    BY <2>1 DEF RoleKey, BootOrder, BootsBefore
<1>2. MineList = CHOOSE list \in Lists : Good(list)
  BY DEF MineList, StableSort
<1> HIDE DEF Before
<1>3. ASSUME NEW list \in Lists
      PROVE  Good(list) <=> Sorted(BootOrder(seen), Mine(seen), list)
  BY <1>1, <1>3 DEF Sorted
<1>4. \E list \in Lists : Good(list)
  <2>1. PICK list : Sorted(BootOrder(seen), Mine(seen), list)
    BY ChoiceSets, SortedExists
  <2> QED
    BY <1>3, <2>1 DEF Sorted
<1>5. MineList \in Lists /\ Good(MineList)
  <2> HIDE DEF Lists, Good
  <2> QED
    BY <1>2, <1>4
<1> QED
  BY <1>3, <1>5

LEMMA AvailableListSorted ==
    ASSUME Machine(seen)
    PROVE  Sorted(TakeOrder(seen), Available(seen), AvailableList)
<1> DEFINE Less(p, q) == \/ ~seen[p].rotational /\ seen[q].rotational
                         \/ /\ seen[p].rotational = seen[q].rotational
                            /\ seen[p].size > seen[q].size
           Before(p, q) == Less(p, q) \/ (~Less(q, p) /\ p < q)
           Lists == [1..Cardinality(Available(seen)) -> Available(seen)]
           Good(list) == \A i, j \in DOMAIN list : i < j => Before(list[i], list[j])
<1>1. ASSUME NEW p \in Available(seen), NEW q \in Available(seen)
      PROVE  Before(p, q) <=> <<p, q>> \in TakeOrder(seen)
  <2>1. /\ p \in DOMAIN seen /\ q \in DOMAIN seen /\ p \in Nat /\ q \in Nat
        /\ seen[p].size \in Nat /\ seen[p].rotational \in BOOLEAN
        /\ seen[q].size \in Nat /\ seen[q].rotational \in BOOLEAN
    BY ChoiceSets, MachineTypes
  <2>2. <<p, q>> \in TakeOrder(seen) <=> TakenBefore(seen, p, q)
    BY <2>1 DEF TakeOrder
  <2> QED
    BY <2>1, <2>2 DEF TakenBefore
<1>2. AvailableList = CHOOSE list \in Lists : Good(list)
  BY DEF AvailableList, StableSort
<1> HIDE DEF Less, Before
<1>3. ASSUME NEW list \in Lists
      PROVE  Good(list) <=> Sorted(TakeOrder(seen), Available(seen), list)
  BY <1>1, <1>3 DEF Sorted
<1>4. \E list \in Lists : Good(list)
  <2>1. PICK list : Sorted(TakeOrder(seen), Available(seen), list)
    BY ChoiceSets, SortedExists
  <2> QED
    BY <1>3, <2>1 DEF Sorted
<1>5. AvailableList \in Lists /\ Good(AvailableList)
  <2> HIDE DEF Lists, Good
  <2> QED
    BY <1>2, <1>4
<1> QED
  BY <1>3, <1>5

\* The first in a sorted list that is in some part of its set is the first of
\* that part; there is none only when the part is empty.
LEMMA FirstInList ==
    ASSUME NEW S, IsFiniteSet(S), NEW R, Orders(R, S), NEW list, Sorted(R, S, list),
           NEW B \in SUBSET S
    PROVE  LET I == {i \in 1..Cardinality(S) : list[i] \in B}
           IN  /\ I = {} <=> B = {}
               /\ \A k \in I : (\A i \in I : k <= i) => IsFirst(R, B, list[k])
               /\ B # {} => \E k \in I : \A i \in I : k <= i
<1> DEFINE n == Cardinality(S)
           I == {i \in 1..n : list[i] \in B}
<1>1. \A p \in S : \E i \in 1..n : list[i] = p
  BY SortedHolds
<1>2. I = {} <=> B = {}
  BY <1>1
<1>3. ASSUME NEW k \in I, \A i \in I : k <= i
      PROVE  IsFirst(R, B, list[k])
  <2>1. ASSUME NEW q \in B \ {list[k]} PROVE <<list[k], q>> \in R
    <3>1. PICK i \in 1..n : list[i] = q
      BY <1>1, <2>1
    <3>2. i \in I /\ k <= i /\ k # i /\ k \in 1..n /\ n \in Nat
      BY <1>3, <2>1, <3>1, FS_CardinalityType
    <3>3. k < i
      BY <3>2
    <3> QED
      BY <3>1, <3>2, <3>3 DEF Sorted
  <2> QED
    BY <2>1 DEF IsFirst
<1>4. ASSUME B # {} PROVE \E k \in I : \A i \in I : k <= i
  <2> DEFINE Less == {e \in I \X I : e[1] < e[2]}
  <2>1. n \in Nat /\ I \subseteq 1..n /\ IsFiniteSet(1..n)
    BY FS_CardinalityType, FS_Interval
  <2>2. IsFiniteSet(I) /\ I # {}
    BY <1>2, <1>4, <2>1, FS_Subset
  <2>3. \A i \in I : i \in Nat
    BY <2>1
  <2>4. Orders(Less, I)
    BY <2>3 DEF Orders
  <2>5. PICK k : IsFirst(Less, I, k)
    BY <2>2, <2>4, FirstExists
  <2>6. k \in I /\ k \in Nat
    BY <2>3, <2>5 DEF IsFirst
  <2>7. ASSUME NEW i \in I PROVE k <= i
    <3>1. i = k \/ <<k, i>> \in Less
      BY <2>5, <2>7 DEF IsFirst
    <3> HIDE DEF I
    <3>2. i = k \/ k < i
      BY <3>1
    <3> QED
      BY <2>3, <2>6, <2>7, <3>2
  <2> QED
    BY <2>6, <2>7
<1> QED
  BY <1>2, <1>3, <1>4
LEMMA FirstThatBootsIs ==
    ASSUME Machine(seen)
    PROVE  /\ FirstThatBoots = 0 <=> Bootable(seen) = {}
           /\ FirstThatBoots # 0 => MineList[FirstThatBoots] \in FirstBootable(seen)
<1> DEFINE S == Mine(seen)
           R == BootOrder(seen)
           B == Bootable(seen)
           I == {i \in 1..Cardinality(S) : MineList[i] \in B}
           J == {i \in 1..Len(MineList) : Boots(seen[MineList[i]])}
<1>1. /\ IsFiniteSet(S) /\ Orders(R, S) /\ Sorted(R, S, MineList) /\ B \in SUBSET S
      /\ Cardinality(S) \in Nat /\ MineList \in [1..Cardinality(S) -> S]
  BY ChoiceSets, MineListSorted, FS_CardinalityType DEF Sorted
<1>2. Len(MineList) = Cardinality(S)
  <2>1. MineList \in Seq(S)
    BY <1>1
  <2> QED
    BY <1>1, <2>1
<1>3. J = I
  BY <1>1, <1>2 DEF Bootable
<1>4. FirstThatBoots = IF I # {} THEN CHOOSE k \in I : \A i \in I : k <= i ELSE 0
  <2>1. FirstThatBoots = IF J # {} THEN Min(J) ELSE 0
    BY DEF FirstThatBoots, SelectInSeq
  <2> HIDE DEF I, J
  <2> QED
    BY <1>3, <2>1 DEF Min
<1>5. /\ I = {} <=> B = {}
      /\ \A k \in I : (\A i \in I : k <= i) => IsFirst(R, B, MineList[k])
      /\ B # {} => \E k \in I : \A i \in I : k <= i
  BY <1>1, FirstInList
<1>6. \A k \in I : k # 0
  OBVIOUS
<1> HIDE DEF I, B, R
<1>7. CASE B = {}
  BY <1>4, <1>5, <1>7 DEF B
<1>8. CASE B # {}
  <2>1. FirstThatBoots \in I /\ \A i \in I : FirstThatBoots <= i
    BY <1>4, <1>5, <1>8
  <2>2. IsFirst(R, B, MineList[FirstThatBoots]) /\ FirstThatBoots # 0
    BY <1>5, <1>6, <2>1
  <2> QED
    BY <1>8, <2>2, ChoiceSets DEF B, R
<1> QED
  BY <1>7, <1>8

LEMMA ListsBegin ==
    ASSUME Machine(seen)
    PROVE  /\ MineList = << >> <=> Mine(seen) = {}
           /\ AvailableList = << >> <=> Available(seen) = {}
           /\ Available(seen) # {} => AvailableList[1] \in FirstAvailable(seen)
<1>1. ASSUME NEW S, IsFiniteSet(S), NEW R, Orders(R, S), NEW list, Sorted(R, S, list)
      PROVE  /\ list = << >> <=> S = {}
             /\ S # {} => IsFirst(R, S, list[1])
  <2> DEFINE I == {i \in 1..Cardinality(S) : list[i] \in S}
  <2>1. Cardinality(S) \in Nat /\ (Cardinality(S) = 0 <=> S = {})
    BY <1>1, FS_CardinalityType, FS_EmptySet
  <2>2. list \in [1..Cardinality(S) -> S]
    BY <1>1 DEF Sorted
  <2>3. list = << >> <=> S = {}
    <3>1. list \in Seq(S)
      BY <2>1, <2>2
    <3>2. Len(list) = Cardinality(S)
      BY <2>1, <2>2, <3>1
    <3> QED
      BY <2>1, <3>1, <3>2
  <2>4. ASSUME S # {} PROVE IsFirst(R, S, list[1])
    <3>1. 1 \in I /\ \A i \in I : 1 <= i
      BY <2>1, <2>2, <2>4
    <3> QED
      BY <1>1, <3>1, FirstInList
  <2> QED
    BY <2>3, <2>4
<1> QED
  BY <1>1, ChoiceSets, MineListSorted, AvailableListSorted

\* From any number of drives the survey concludes one thing, and it is what the
\* code reads off the heads of its filtered and stably sorted lists.
THEOREM ListsDecide == Spec => []IntentIsTheLists
<1>1. ASSUME Walks PROVE IntentIsTheLists
  <2>1. Machine(seen)
    BY <1>1, WalkTypes
  <2>2. Bootable(seen) \subseteq Mine(seen)
    BY <2>1, ChoiceSets
  <2>3. CASE Bootable(seen) # {}
    <3>1. PICK p \in Bootable(seen) :
             /\ FirstBootable(seen) = {p}
             /\ Intents(seen) = {Intent("AlreadyMine", p, seen[p].verdict.slab)}
      BY <2>1, <2>3, OneIntent
    <3>2. FirstThatBoots # 0 /\ MineList[FirstThatBoots] = p
      BY <2>1, <2>3, <3>1, FirstThatBootsIs
    <3>3. IntentOfLists = Intent("AlreadyMine", p, seen[p].verdict.slab)
      BY <3>2 DEF IntentOfLists
    <3> QED
      BY <3>1, <3>3 DEF IntentIsTheLists
  <2>4. CASE Bootable(seen) = {} /\ Mine(seen) # {}
    <3>1. FirstThatBoots = 0 /\ MineList # << >>
      BY <2>1, <2>4, FirstThatBootsIs, ListsBegin
    <3>2. IntentOfLists = Intent("MineButNoneBoots", NoDevice, 0)
      BY <3>1 DEF IntentOfLists
    <3> QED
      BY <2>1, <2>4, <3>2, OneIntent DEF IntentIsTheLists
  <2>5. CASE Mine(seen) = {} /\ Available(seen) # {}
    <3>1. PICK p \in Available(seen) :
             FirstAvailable(seen) = {p} /\ Intents(seen) = {Intent("TakeOver", p, 0)}
      BY <2>1, <2>5, OneIntent
    <3>2. /\ FirstThatBoots = 0 /\ MineList = << >> /\ AvailableList # << >>
          /\ AvailableList[1] = p
      BY <2>1, <2>2, <2>5, <3>1, FirstThatBootsIs, ListsBegin
    <3>3. IntentOfLists = Intent("TakeOver", p, 0)
      BY <3>2 DEF IntentOfLists
    <3> QED
      BY <3>1, <3>3 DEF IntentIsTheLists
  <2>6. CASE Mine(seen) = {} /\ Available(seen) = {}
    <3>1. FirstThatBoots = 0 /\ MineList = << >> /\ AvailableList = << >>
      BY <2>1, <2>2, <2>6, FirstThatBootsIs, ListsBegin
    <3>2. IntentOfLists = Intent("NothingToTake", NoDevice, 0)
      BY <3>1 DEF IntentOfLists
    <3> QED
      BY <2>1, <2>6, <3>2, OneIntent DEF IntentIsTheLists
  <2> QED
    BY <2>3, <2>4, <2>5, <2>6
<1> QED
  BY <1>1, WalkOnly, PTL
=============================================================================
