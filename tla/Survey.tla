------------------------------- MODULE Survey -------------------------------
(***************************************************************************)
(* What follows from the drives that were looked at (survey.rs): which are *)
(* this node's, which of them boot, which may be taken, and the intent.    *)
(* `ds` maps each device name, numbered in name order, to what was seen    *)
(* there.  The code sorts lists; only their first element is ever used, so *)
(* a list is a set here and its first element the one nothing precedes.    *)
(***************************************************************************)
EXTENDS Naturals

\* A plausible slip: only an ESP says that a drive boots.
BootsFromEspOnly(dr) == dr.esp.present /\ dr.esp.boot

\* Drive::boots: a system slab without an ESP is taken at its word.
Boots(dr) == IF dr.esp.present THEN dr.esp.boot ELSE dr.verdict.role = "system"

Mine(ds) == {p \in DOMAIN ds : ds[p].verdict.kind = "Mine"}

Bootable(ds) == {p \in Mine(ds) : Boots(ds[p])}

\* A plausible slip: a drive nothing was found on, for whatever reason.
NotAnswering(ds) == {p \in DOMAIN ds : ds[p].verdict.kind \in {"Blank", "Unreadable"}}

Available(ds) == {p \in DOMAIN ds : ds[p].verdict.kind = "Blank"}

\* A plausible slip: the first name boots, whatever its role.
FirstNameBoots(ds, p, q) == p < q

\* Survey::mine's order: the system slabs first, each group in name order.
BootsBefore(ds, p, q) ==
    LET system(x) == ds[x].verdict.role = "system"
    IN  \/ system(p) /\ ~system(q)
        \/ (system(p) <=> system(q)) /\ p < q

\* A plausible slip: the smallest first.
SmallestTaken(ds, p, q) ==
    \/ ds[p].size < ds[q].size
    \/ ds[p].size = ds[q].size /\ p < q

\* Survey::available's order: solid state first, then the largest, then by name.
TakenBefore(ds, p, q) ==
    \/ ~ds[p].rotational /\ ds[q].rotational
    \/ /\ ds[p].rotational = ds[q].rotational
       /\ \/ ds[p].size > ds[q].size
          \/ ds[p].size = ds[q].size /\ p < q

FirstBootable(ds) ==
    {p \in Bootable(ds) : \A q \in Bootable(ds) \ {p} : BootsBefore(ds, p, q)}

FirstAvailable(ds) ==
    {p \in Available(ds) : \A q \in Available(ds) \ {p} : TakenBefore(ds, p, q)}

\* No drive is named: devices are numbered from 1.
NoDevice == 0

Intent(kind, p, slab) == [kind |-> kind, drive |-> p, slab |-> slab]

\* A plausible slip: an empty drive is taken before an owned one is looked for.
TakesBeforeOwning(ds) ==
    IF Available(ds) # {} THEN {Intent("TakeOver", p, 0) : p \in FirstAvailable(ds)}
    ELSE IF Bootable(ds) # {}
      THEN {Intent("AlreadyMine", p, ds[p].verdict.slab) : p \in FirstBootable(ds)}
    ELSE IF Mine(ds) # {} THEN {Intent("MineButNoneBoots", NoDevice, 0)}
    ELSE {Intent("NothingToTake", NoDevice, 0)}

\* Survey::intent, as the set of its answers; it always has exactly one.
Intents(ds) ==
    IF Bootable(ds) # {}
      THEN {Intent("AlreadyMine", p, ds[p].verdict.slab) : p \in FirstBootable(ds)}
    ELSE IF Mine(ds) # {} THEN {Intent("MineButNoneBoots", NoDevice, 0)}
    ELSE IF Available(ds) # {}
      THEN {Intent("TakeOver", p, 0) : p \in FirstAvailable(ds)}
    ELSE {Intent("NothingToTake", NoDevice, 0)}
=============================================================================
