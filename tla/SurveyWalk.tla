----------------------------- MODULE SurveyWalk -----------------------------
(***************************************************************************)
(* probe::survey looks at the machine's drives one name after another and  *)
(* survey.rs decides over the list.  Here the list grows drive by drive,   *)
(* and after each the intent of module Survey is compared with the lists   *)
(* the code really sorts, and with the intent under any other naming.      *)
(***************************************************************************)
EXTENDS Survey, SequencesExt

CONSTANTS Candidates,  \* the judged drives a machine may have
          MaxDrives    \* bound: how many of them at most

\* What Verdict says of a drive: only Verdict::Mine carries a slab and its role.
Judgements ==
    [kind : {"Mine"}, role : {"system", "data", "unknown"}, slab : Nat]
      \cup [kind : {"AnotherNode", "Foreign", "Blank", "Unreadable"},
            role : {"none"}, slab : {0}]

\* What is kept of a drive that was looked at (struct Drive), as far as it decides.
JudgedDrives == [size : Nat, rotational : BOOLEAN,
                 esp : [present : BOOLEAN, boot : BOOLEAN], verdict : Judgements]

ASSUME WalkAssumption == /\ MaxDrives \in Nat \ {0}
                         /\ Candidates \subseteq JudgedDrives

VARIABLE seen   \* the drives judged so far, in name order

Init == seen = << >>

\* One turn of survey's map over the sorted names.
LookAtNext == /\ Len(seen) < MaxDrives
              /\ \E dr \in Candidates : seen' = Append(seen, dr)

Walked == Len(seen) = MaxDrives /\ UNCHANGED seen

Next == LookAtNext \/ Walked

Spec == Init /\ [][Next]_seen

-----------------------------------------------------------------------------
(***************************************************************************)
(* The code's own pipeline: filter, stable sort, filter, first.            *)
(***************************************************************************)
StableSort(S, Less(_, _)) ==
    CHOOSE list \in [1..Cardinality(S) -> S] :
        \A i, j \in DOMAIN list : i < j =>
            \/ Less(list[i], list[j])
            \/ ~Less(list[j], list[i]) /\ list[i] < list[j]

RoleKey(p) == IF seen[p].verdict.role = "system" THEN 0 ELSE 1

MineList == StableSort(Mine(seen), LAMBDA p, q : RoleKey(p) < RoleKey(q))

\* Where the first of them that boots stands, or 0: find_map over the filtered list.
FirstThatBoots == SelectInSeq(MineList, LAMBDA p : Boots(seen[p]))

AvailableList ==
    StableSort(Available(seen),
               LAMBDA p, q : \/ ~seen[p].rotational /\ seen[q].rotational
                             \/ /\ seen[p].rotational = seen[q].rotational
                                /\ seen[p].size > seen[q].size)

IntentOfLists ==
    IF FirstThatBoots # 0
      THEN LET p == MineList[FirstThatBoots]
           IN  Intent("AlreadyMine", p, seen[p].verdict.slab)
    ELSE IF MineList # << >> THEN Intent("MineButNoneBoots", NoDevice, 0)
    ELSE IF AvailableList # << >> THEN Intent("TakeOver", AvailableList[1], 0)
    ELSE Intent("NothingToTake", NoDevice, 0)

-----------------------------------------------------------------------------
(***************************************************************************)
(* Properties.                                                             *)
(***************************************************************************)
\* The survey always concludes, and never two things: the intent over sets of
\* drives is the one the code reads off the heads of its sorted lists.
IntentIsTheLists == Intents(seen) = {IntentOfLists}

Renamings == {f \in [DOMAIN seen -> DOMAIN seen] :
                 \A p, q \in DOMAIN seen : f[p] = f[q] => p = q}

\* What a choice between drives may rest on.
Merit(ds, i) == IF i.drive = NoDevice THEN << >>
                ELSE <<ds[i.drive].verdict.role, ds[i.drive].size,
                       ds[i.drive].rotational>>

\* The roles decide, not the names: the same drives behind other names give the
\* same intent, on a drive with the same role when one is booted, and with the
\* same size and the same kind of medium when one is taken.
NamesDoNotDecide ==
    \A f \in Renamings :
        LET renamed == [p \in DOMAIN seen |-> seen[f[p]]]
        IN  \A i \in Intents(seen), j \in Intents(renamed) :
                /\ i.kind = j.kind
                /\ i.kind = "TakeOver" => Merit(seen, i) = Merit(renamed, j)
                /\ i.kind = "AlreadyMine" =>
                     (Merit(seen, i)[1] = "system" <=> Merit(renamed, j)[1] = "system")

Kind(ds) == (CHOOSE i \in Intents(ds) : TRUE).kind

\* A drive looked at later never talks a node out of what it owns: it never
\* offers a drive again, and never stops booting one.
OwnershipIsSticky ==
    [][/\ Kind(seen) \in {"AlreadyMine", "MineButNoneBoots"} =>
              Kind(seen') \in {"AlreadyMine", "MineButNoneBoots"}
       /\ Kind(seen) = "AlreadyMine" => Kind(seen') = "AlreadyMine"]_seen
=============================================================================
