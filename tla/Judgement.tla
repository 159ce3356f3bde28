----------------------------- MODULE Judgement ------------------------------
(***************************************************************************)
(* What one look at one drive concludes (crates/zeroboot/src/probe.rs,     *)
(* look_at and judge), as a function of what is on the drive, of who is    *)
(* looking, and of which of its reads fail.  Module Probe is the same look *)
(* one read at a time; module Boot uses this function as one step.         *)
(***************************************************************************)
EXTENDS Naturals, Sequences

CONSTANTS Nodes,   \* the machines, by the identity their firmware gives
          NoNode   \* no identity, no claim

ASSUME NoNodeAssumption == NoNode \notin Nodes

-----------------------------------------------------------------------------
(***************************************************************************)
(* A drive is what its reads can return.  `head` and `tail` are the first  *)
(* and last megabyte: all zero, a slab of some role, a signature from the  *)
(* list in `signature`, or bytes that match nothing ("noise").  `rest` is  *)
(* everything between: zero, non-zero where first_nonzero reads, or        *)
(* non-zero only in the gaps of its sample.  `parts` is what the head of   *)
(* each partition holds, in the order of their names.  A slab whose role   *)
(* stormblock does not print has the role "unknown".                       *)
(***************************************************************************)
Roles == {"system", "data", "unknown"}

NoEsp == [present |-> FALSE, claim |-> NoNode, boot |-> FALSE]

Esps == {NoEsp}
          \cup [present : {TRUE}, claim : Nodes \cup {NoNode}, boot : BOOLEAN]

Drives == [size : Nat, rotational : BOOLEAN, removable : BOOLEAN,
           remote : BOOLEAN,
           head : Roles \cup {"zero", "signature", "noise"},
           tail : {"zero", "signature", "noise"},
           rest : {"zero", "sampled", "unsampled"},
           parts : Seq(Roles \cup {"other"}),
           esp : Esps]

\* What the first bytes of probe i hold: the whole drive is probe 0.
ContentAt(d, i) == IF i = 0 THEN d.head ELSE d.parts[i]

\* A partition table is in the first megabyte, and its backup in the last.
TableInSight(d) ==
    d.parts # << >> \/ d.esp.present => d.head # "zero" \/ d.tail # "zero"

\* The promise of Verdict::Blank: attached here, nothing on it, nothing lost.
Untouched(d) ==
    /\ d.size > 0 /\ ~d.removable /\ ~d.remote
    /\ d.head = "zero" /\ d.tail = "zero" /\ d.rest # "sampled"
    /\ d.parts = << >> /\ ~d.esp.present

-----------------------------------------------------------------------------
(***************************************************************************)
(* A read that fails is named by its site: <<"sniff", i>> and              *)
(* <<"identify", i>> for probe i, Site(name) for the reads made once.      *)
(***************************************************************************)
Site(name) == <<name, 0>>

Once == {Site(name) : name \in {"size", "rotational", "removable", "transport", "parts",
                                "esp", "record", "loader", "resniff", "deep"}}

\* Reading whose the drive is takes the ESP, and the record of the claim on it.
EspReads == {Site("esp"), Site("record")}

Sites == Once \cup ({"sniff", "identify", "entry"} \X Nat)

Verdicts == [kind : {"Mine", "AnotherNode", "Foreign", "Blank", "Unreadable"},
             role : Roles \cup {"none"},
             slab : Nat]

Of(kind) == [kind |-> kind, role |-> "none", slab |-> 0]

MineVerdict(d, i) == [kind |-> "Mine", role |-> ContentAt(d, i), slab |-> i]

-----------------------------------------------------------------------------
\* The sysfs reads of look_at, each with the value its unwrap_or gives it.
SizeRead(d, failed) == IF Site("size") \in failed THEN 0 ELSE d.size

\* Spinning, unless the drive says otherwise.
RotationalRead(d, failed) == Site("rotational") \in failed \/ d.rotational

RemovableRead(d, failed) == Site("removable") \notin failed /\ d.removable

\* esp::read(&path).ok().flatten(): an error reads as no ESP, a record that cannot
\* be read as no claim, and a loader entry, or a kernel or initramfs that it names,
\* that cannot be read as nothing to boot.
EspRead(d, failed) ==
    IF Site("esp") \in failed \/ ~d.esp.present THEN NoEsp
    ELSE [d.esp EXCEPT !.claim = IF Site("record") \in failed THEN NoNode ELSE @,
                       !.boot = @ /\ Site("loader") \notin failed]

\* A plausible slip: everything is taken to be attached here.
TransportNotRead(d, failed) == FALSE

\* remote_transport: neither a transport file nor a link means local.
RemoteRead(d, failed) == Site("transport") \notin failed /\ d.remote

\* partitions: a directory that cannot be listed has none, and an entry of it that
\* cannot be read is left out.
PartsRead(d, failed) ==
    IF Site("parts") \in failed THEN {}
    ELSE {i \in 1..Len(d.parts) : <<"entry", i>> \notin failed}

\* The probes on which the slab magic is read.
SlabProbes(d, failed) ==
    {i \in {0} \cup PartsRead(d, failed) :
        ContentAt(d, i) \in Roles /\ <<"sniff", i>> \notin failed}

FirstSlab(d, failed) ==
    CHOOSE i \in SlabProbes(d, failed) : \A j \in SlabProbes(d, failed) : i <= j

\* A plausible slip: a drive in this chassis is this node's, whatever its claim.
ClaimNotCompared(esp, me) == FALSE

\* A claim settles it only when both the claim and this machine have a name.
ClaimedByAnother(esp, me) == esp.claim # NoNode /\ me # NoNode /\ esp.claim # me

\* signature and tail_signature: something whose name is known, or a slab.
Signature(d) == d.head \notin {"zero", "noise"} \/ d.tail = "signature"

\* The body of judge's loop, on the first probe that carries a slab.
JudgeSlab(d, me, failed, i) ==
    IF <<"identify", i>> \in failed THEN Of("Foreign")
    ELSE IF \/ RemoteRead(d, failed)
            \/ ClaimedByAnother(EspRead(d, failed), me) THEN Of("AnotherNode")
    ELSE MineVerdict(d, i)

\* The rest of judge, on a drive with no slab on it.
JudgeBare(d, failed) ==
    IF RemoteRead(d, failed) THEN Of("Foreign")
    ELSE IF Site("resniff") \in failed THEN Of("Unreadable")
    ELSE IF PartsRead(d, failed) # {} \/ Signature(d) THEN Of("Foreign")
    ELSE IF Site("deep") \in failed THEN Of("Unreadable")
    ELSE IF d.head = "noise" \/ d.rest = "sampled" \/ d.tail = "noise" THEN Of("Foreign")
    ELSE Of("Blank")

Judge(d, me, failed) ==
    IF SizeRead(d, failed) = 0 THEN Of("Unreadable")
    ELSE IF RemovableRead(d, failed) THEN Of("Foreign")
    ELSE IF <<"sniff", 0>> \in failed THEN Of("Unreadable")
    ELSE IF SlabProbes(d, failed) # {}
         THEN JudgeSlab(d, me, failed, FirstSlab(d, failed))
    ELSE JudgeBare(d, failed)
=============================================================================
