----------------------------- MODULE BootProofs -----------------------------
(***************************************************************************)
(* Module Boot, proved in three parts.  The first is its types, for which  *)
(* one must carry from the survey to the flow-over that what is offered    *)
(* has no ESP.  The second is that what a survey concluded still holds     *)
(* when it is acted on, and from that the properties of the runs.  The     *)
(* third is that a boot concludes, and only ever moves on.                 *)
(***************************************************************************)
EXTENDS Boot, JudgementProofs

-----------------------------------------------------------------------------
(***************************************************************************)
(* The type invariant of module Boot.  It is not inductive as it stands:   *)
(* writing a claim would give one to a disk with no ESP, if a node could   *)
(* be at it on such a disk, or if another node could lay a table over a    *)
(* disk while a claim is written there.  So what follows carries, from the *)
(* survey to the flow-over, that what is offered has no ESP.               *)
(***************************************************************************)
TablesInSight == \A d \in Disks : TableInSight(disk[d])

\* A machine that is off, still looking, or past init has nothing to tell it.
Quiet(n) == pc[n] \in {"off", "list", "look", "flow"} => out[n] = Silent

\* The survey is all there is of what was seen.
SeenBySurvey(n) == pc[n] # "look" => seen[n] = [s \in Slots |-> NotSeen]

\* What was called blank is a disk, with no ESP.
BlankHasNoEsp(n) ==
    pc[n] = "look" => \A s \in Slots : seen[n][s].verdict.kind = "Blank" =>
        bay[n][s] \in Disks /\ ~disk[bay[n][s]].esp.present

\* So is what is offered.
OfferHasNoEsp(n) ==
    out[n].action = "ask-appliance" /\ out[n].drive # NoDevice =>
        /\ out[n].drive \in Slots
        /\ bay[n][out[n].drive] \in Disks
        /\ ~disk[bay[n][out[n].drive]].esp.present

\* What is booted is a device that was looked at.
BootsASlot(n) == out[n].action = "boot-local" => out[n].drive \in Slots

\* A claim is for a device that was named, and is written to an ESP that was
\* opened.
ClaimsASlot(n) == pc[n] = "claim" => task[n].slot \in Slots

WritesToAnEsp(n) ==
    pc[n] = "write" => task[n].disk \in Disks /\ disk[task[n].disk].esp.present

\* What is flowed over onto is a disk with a table on it.
FlowsToADisk(n) ==
    pc[n] = "flow" => target[n] \in Disks /\ disk[target[n]].head # "zero"

Carried(n) == /\ Quiet(n) /\ SeenBySurvey(n)
              /\ BlankHasNoEsp(n) /\ OfferHasNoEsp(n)
              /\ BootsASlot(n) /\ ClaimsASlot(n) /\ WritesToAnEsp(n)
              /\ FlowsToADisk(n)

TypeInv == TypeOK /\ TablesInSight /\ \A n \in Nodes : Carried(n)

-----------------------------------------------------------------------------
(***************************************************************************)
(* What steps do to disks.                                                 *)
(***************************************************************************)

\* A claim changes nothing else on the disk.
LEMMA SetClaimDoes ==
    ASSUME disk \in [Disks -> Drives], NEW d \in Disks, disk[d].esp.present,
           NEW name \in Names, SetClaim(d, name)
    PROVE  /\ disk' \in [Disks -> Drives]
           /\ \A e \in Disks \ {d} : disk'[e] = disk[e]
           /\ disk'[d] = [disk[d] EXCEPT !.esp.claim = name]
<1>1. disk[d].esp \in [present : {TRUE}, claim : Names, boot : BOOLEAN]
  <2>1. disk[d] \in Drives /\ disk[d].esp \in Esps
    BY DriveTypes
  <2>2. disk[d].esp # NoEsp
    BY DEF NoEsp
  <2> QED
    BY <2>1, <2>2 DEF Esps, Names
<1>2. [disk[d].esp EXCEPT !.claim = name] \in Esps
  BY <1>1 DEF Esps, Names
<1>3. [disk[d] EXCEPT !.esp.claim = name] \in Drives
  <2>1. disk[d] \in Drives
    OBVIOUS
  <2> QED
    BY <1>2, <2>1, ZenonT(40) DEF Drives
<1> QED
  BY <1>3 DEF SetClaim

LEMMA ClaimType ==
    ASSUME disk \in [Disks -> Drives], NEW d \in Disks
    PROVE  disk[d].esp.claim \in Names
<1>1. disk[d].esp = NoEsp \/ disk[d].esp \in [present : {TRUE}, claim : Names, boot : BOOLEAN]
  BY DriveTypes DEF Esps, Names
<1>2. NoEsp.claim = NoNode
  BY DEF NoEsp
<1> QED
  BY <1>1, <1>2 DEF Names

\* A claim is read as it is, unless reading it failed.
LEMMA ClaimReadAsItIs ==
    ASSUME NEW d \in Drives, NEW f, EspReads \cap f = {}
    PROVE  EspRead(d, f).claim = d.esp.claim
<1>1. CASE d.esp.present
  <2>1. d.esp # NoEsp /\ d.esp \in Esps
    BY <1>1, DriveTypes DEF NoEsp
  <2>2. d.esp \in [present : {TRUE}, claim : Names, boot : BOOLEAN]
    BY <2>1 DEF Esps, Names
  <2>3. \A c, b : [d.esp EXCEPT !.claim = c, !.boot = b].claim = c
    BY <2>2
  <2>4. Site("esp") \notin f /\ Site("record") \notin f
    BY DEF EspReads
  <2> QED
    BY <1>1, <2>3, <2>4 DEF EspRead
<1>2. CASE ~d.esp.present
  <2>1. d.esp = NoEsp
    BY <1>2, DriveTypes DEF Esps
  <2> QED
    BY <1>2, <2>1 DEF EspRead
<1> QED
  BY <1>1, <1>2

\* The start of a flow-over leaves of its disk how it is attached and how large.
LEMMA LayTableDoes ==
    ASSUME disk \in [Disks -> Drives], NEW n \in Nodes, LayTable(n),
           NEW d \in Disks, d = bay[n][out[n].drive]
    PROVE  /\ \A e \in Disks \ {d} : disk'[e] = disk[e]
           /\ disk'[d].head = "signature" /\ disk'[d].esp = NoEsp
           /\ disk'[d].size = disk[d].size /\ disk'[d].removable = disk[d].removable
           /\ disk'[d].remote = disk[d].remote
<1>1. PICK roles \in Layouts :
          disk' = [disk EXCEPT ![d].head = "signature", ![d].tail = "signature",
                               ![d].parts = [i \in 1..Len(roles) |-> "other"],
                               ![d].esp = NoEsp]
  BY DEF LayTable
<1>2. disk[d] \in Drives
  OBVIOUS
<1> QED
  BY <1>1, <1>2 DEF Drives

\* The roles a flow-over lays are parts, as is the empty table it starts with.
LEMMA LayoutParts ==
    ASSUME NEW roles \in Layouts
    PROVE  /\ Len(roles) \in Nat \ {0}
           /\ [i \in 1..Len(roles) |-> "other"] \in Seq(Roles \cup {"other"})
           /\ \A p \in Seq(Roles \cup {"other"}), i \in 1..Len(roles) :
                 [p EXCEPT ![i] = roles[i]] \in Seq(Roles \cup {"other"})
<1>1. /\ roles \in Seq(Roles) /\ Len(roles) \in Nat \ {0}
      /\ \A i \in 1..Len(roles) : roles[i] \in Roles
  BY BootAssumption
<1>2. [i \in 1..Len(roles) |-> "other"] \in Seq(Roles \cup {"other"})
  BY <1>1
<1>3. ASSUME NEW p \in Seq(Roles \cup {"other"}), NEW i \in 1..Len(roles)
      PROVE  [p EXCEPT ![i] = roles[i]] \in Seq(Roles \cup {"other"})
  <2>1. p \in [1..Len(p) -> Roles \cup {"other"}] /\ Len(p) \in Nat
    OBVIOUS
  <2>2. [p EXCEPT ![i] = roles[i]] \in [1..Len(p) -> Roles \cup {"other"}]
    BY <1>1, <2>1
  <2> QED
    BY <2>1, <2>2
<1> QED
  BY <1>1, <1>2, <1>3

-----------------------------------------------------------------------------
(***************************************************************************)
(* What the survey hands on.                                               *)
(***************************************************************************)

\* An intent that names a drive names one of the list, judged accordingly.
LEMMA IntentNames ==
    ASSUME NEW ds, NEW i \in Intents(ds)
    PROVE  \/ i.kind = "AlreadyMine" /\ i.drive \in Bootable(ds)
           \/ i.kind = "TakeOver" /\ i.drive \in Available(ds)
           \/ i.kind \in {"MineButNoneBoots", "NothingToTake"} /\ i.drive = NoDevice
  BY DEF Intents, Intent, FirstBootable, FirstAvailable

LEMMA IntentDrives ==
    ASSUME NEW ds \in [Slots -> Seen], NEW i \in Intents(ds)
    PROVE  /\ i.kind = "AlreadyMine" =>
                 i.drive \in Slots /\ ds[i.drive].verdict.kind = "Mine"
           /\ i.kind # "AlreadyMine" =>
                 \/ i.drive = NoDevice
                 \/ i.drive \in Slots /\ ds[i.drive].verdict.kind = "Blank"
<1>1. DOMAIN ds = Slots
  OBVIOUS
<1> QED
  BY <1>1, IntentNames DEF Bootable, Mine, Available

LEMMA SlotTypes == NumSlots \in Nat /\ NumSlots > 0 /\ Slots \subseteq Nat /\ NoDevice \notin Slots
  BY BootAssumption DEF Slots, NoDevice

LEMMA LookAtType ==
    ASSUME disk \in [Disks -> Drives], NEW d \in Disks, NEW who, NEW f
    PROVE  LookAt(d, who, f) \in Seen
<1>1. /\ SizeRead(disk[d], f) \in Nat /\ EspRead(disk[d], f) \in Esps
      /\ Judge(disk[d], who, f) \in Verdicts
  BY ReadTypes, JudgeType
<1>2. RotationalRead(disk[d], f) \in BOOLEAN
  BY DEF RotationalRead, Drives
<1> QED
  BY <1>1, <1>2 DEF LookAt, Seen

LEMMA ConstantTypes ==
    /\ NotSeen \in Seen /\ Silent \in Outs /\ NoTask \in Tasks
    /\ NoNode \in Names /\ NoDisk \in MaybeDisk /\ Nodes \subseteq Names
    /\ Disks \subseteq MaybeDisk /\ 1 \in 1..(NumSlots + 1)
<1>1. NotSeen \in Seen
  BY RecordTypes DEF NotSeen, Seen, Of
<1>2. Silent \in Outs
  BY DEF Silent, Outs
<1>3. NoTask \in Tasks
  BY DEF NoTask, Tasks, Names, MaybeDisk
<1> QED
  BY <1>1, <1>2, <1>3, SlotTypes DEF Names, MaybeDisk

-----------------------------------------------------------------------------
(***************************************************************************)
(* Types, action by action.                                                *)
(***************************************************************************)

LEMMA InitTypes == Init => TypeOK
<1> SUFFICES ASSUME Init PROVE TypeOK
  OBVIOUS
<1>1. disk \in [Disks -> Drives] /\ bay \in [Nodes -> [Slots -> MaybeDisk]]
  BY BootAssumption DEF Init
<1>2. /\ pc \in [Nodes -> Pcs] /\ me \in [Nodes -> Names]
      /\ cursor \in [Nodes -> 1..(NumSlots + 1)]
      /\ seen \in [Nodes -> [Slots -> Seen]] /\ out \in [Nodes -> Outs]
      /\ task \in [Nodes -> Tasks] /\ root \in [Nodes -> MaybeDisk]
      /\ target \in [Nodes -> MaybeDisk] /\ author \in [Disks -> Names]
      /\ missed \in [Nodes -> SUBSET Faulty]
  BY ConstantTypes DEF Init, Pcs
<1> QED
  BY <1>1, <1>2 DEF TypeOK

LEMMA MissType ==
    ASSUME missed \in [Nodes -> SUBSET Faulty], NEW n \in Nodes, NEW what,
           NEW f \in Failing(what), Miss(n, f)
    PROVE  missed' \in [Nodes -> SUBSET Faulty]
  BY DEF Failing, Miss

LEMMA ForgetType ==
    ASSUME TypeOK, NEW n \in Nodes, Forget(n)
    PROVE  /\ me' \in [Nodes -> Names] /\ cursor' \in [Nodes -> 1..(NumSlots + 1)]
           /\ seen' \in [Nodes -> [Slots -> Seen]]
  BY ConstantTypes DEF Forget, TypeOK

LEMMA ZerobootTypes ==
    ASSUME TypeOK, NEW n \in Nodes, Zeroboot(n)
    PROVE  TypeOK'
<1> USE DEF TypeOK
<1>1. CASE CannotList(n)
  BY <1>1 DEF CannotList, Goto, Pcs, Outs
<1>2. CASE ListDrives(n)
  <2>1. me' \in [Nodes -> Names] /\ pc' \in [Nodes -> Pcs]
    BY <1>2, ConstantTypes DEF ListDrives, Identity, Goto, Pcs
  <2>2. missed' \in [Nodes -> SUBSET Faulty]
    BY <1>2, MissType DEF ListDrives
  <2> QED
    BY <1>2, <2>1, <2>2 DEF ListDrives
<1>3. CASE LookAtNext(n)
  <2>1. cursor[n] \in Slots /\ cursor' \in [Nodes -> 1..(NumSlots + 1)]
    BY <1>3, SlotTypes DEF LookAtNext, Slots
  <2>2. seen' \in [Nodes -> [Slots -> Seen]] /\ missed' \in [Nodes -> SUBSET Faulty]
    <3>1. CASE bay[n][cursor[n]] = NoDisk
      BY <1>3, <3>1 DEF LookAtNext
    <3>2. CASE bay[n][cursor[n]] # NoDisk
      <4>1. bay[n][cursor[n]] \in Disks
        BY <2>1, <3>2 DEF MaybeDisk
      <4>2. PICK f \in Failing(Sites) :
                /\ seen' = [seen EXCEPT ![n][cursor[n]] = LookAt(bay[n][cursor[n]], me[n], f)]
                /\ Miss(n, f)
        BY <1>3, <3>2 DEF LookAtNext
      <4>3. LookAt(bay[n][cursor[n]], me[n], f) \in Seen
        BY <4>1, LookAtType
      <4> QED
        BY <2>1, <4>2, <4>3, MissType
    <3> QED
      BY <3>1, <3>2
  <2> QED
    BY <1>3, <2>1, <2>2 DEF LookAtNext
<1>4. CASE DecideBootLocal(n)
  <2>1. PICK i \in Intents(seen[n]) :
            /\ i.kind = "AlreadyMine"
            /\ out' = [out EXCEPT ![n] = [action |-> "boot-local", drive |-> i.drive]]
            /\ \E failed \in Failing({Site("identity")}) :
                  /\ Miss(n, failed)
                  /\ \/ /\ task' = [task EXCEPT ![n] = [@ EXCEPT !.slot = i.drive, !.then = "init"]]
                        /\ Goto(n, "claim")
                     \/ UNCHANGED task /\ Goto(n, "init")
    BY <1>4 DEF DecideBootLocal
  <2>2. i.drive \in Slots
    BY <2>1, IntentDrives
  <2>3. out' \in [Nodes -> Outs] /\ pc' \in [Nodes -> Pcs]
    BY <2>1, <2>2 DEF Outs, Goto, Pcs
  <2>4. task' \in [Nodes -> Tasks]
    <3>1. [task[n] EXCEPT !.slot = i.drive, !.then = "init"] \in Tasks
      <4>1. task[n] \in Tasks
        OBVIOUS
      <4> QED
        BY <2>2, <4>1, ZenonT(40) DEF Tasks
    <3> QED
      BY <2>1, <3>1
  <2>5. missed' \in [Nodes -> SUBSET Faulty]
    BY <2>1, MissType
  <2> QED
    BY <1>4, <2>3, <2>4, <2>5, ForgetType DEF DecideBootLocal
<1>5. CASE DecideAsk(n)
  <2>1. PICK i \in Intents(seen[n]) :
            /\ i.kind # "AlreadyMine"
            /\ out' = [out EXCEPT ![n] = [action |-> "ask-appliance", drive |-> i.drive]]
    BY <1>5 DEF DecideAsk
  <2>2. i.drive \in Slots \cup {NoDevice}
    BY <2>1, IntentDrives
  <2>3. out' \in [Nodes -> Outs] /\ pc' \in [Nodes -> Pcs]
    BY <1>5, <2>1, <2>2 DEF DecideAsk, Outs, Goto, Pcs
  <2> QED
    BY <1>5, <2>3, ForgetType DEF DecideAsk
<1> QED
  BY <1>1, <1>2, <1>3, <1>4, <1>5 DEF Zeroboot

LEMMA GoonType ==
    ASSUME TypeOK, NEW n \in Nodes, Goon(n)
    PROVE  pc' \in [Nodes -> Pcs] /\ task' \in [Nodes -> Tasks]
<1>1. task[n].then \in Pcs
  BY DEF TypeOK, Tasks, Pcs
<1> QED
  BY <1>1, ConstantTypes DEF Goon, Goto, TypeOK

LEMMA ClaimingTypes ==
    ASSUME TypeOK, NEW n \in Nodes, ClaimsASlot(n), WritesToAnEsp(n), Claiming(n)
    PROVE  TypeOK'
<1>1. CASE ClaimNotWritten(n)
  <2>1. missed' \in [Nodes -> SUBSET Faulty]
    BY <1>1, MissType DEF ClaimNotWritten, TypeOK
  <2> QED
    BY <1>1, <2>1, GoonType DEF ClaimNotWritten, TypeOK
<1>2. CASE TruncateClaim(n)
  <2> DEFINE d == bay[n][task[n].slot]
  <2>1. /\ OpensEsp(d) /\ SetClaim(d, NoNode) /\ Goto(n, "write")
        /\ task' = [task EXCEPT ![n] = [@ EXCEPT !.disk = d, !.held = disk[d].esp.claim]]
        /\ UNCHANGED <<bay, me, cursor, seen, out, root, target, author, missed>>
    BY <1>2 DEF TruncateClaim
  <2>2. bay[n] \in [Slots -> MaybeDisk]
    BY DEF TypeOK
  <2>3. d \in Disks
    BY <1>2, <2>1, <2>2 DEF TruncateClaim, ClaimsASlot, OpensEsp, MaybeDisk
  <2>4. disk' \in [Disks -> Drives]
    BY <2>1, <2>3, SetClaimDoes, ConstantTypes DEF OpensEsp, TypeOK
  <2>5. disk[d].esp.claim \in Names
    BY <2>3, ClaimType DEF TypeOK
  <2>6. task' \in [Nodes -> Tasks]
    <3>1. task[n] \in Tasks
      BY DEF TypeOK
    <3>2. [task[n] EXCEPT !.disk = d, !.held = disk[d].esp.claim] \in Tasks
      BY <2>3, <2>5, <3>1 DEF Tasks, MaybeDisk
    <3> QED
      BY <2>1, <3>2 DEF TypeOK
  <2> QED
    BY <2>1, <2>4, <2>6 DEF TypeOK, Goto, Pcs
<1>3. CASE WriteClaim(n)
  <2>1. disk' \in [Disks -> Drives]
    BY <1>3, SetClaimDoes, ConstantTypes DEF WriteClaim, WritesToAnEsp, TypeOK
  <2> QED
    BY <1>3, <2>1, GoonType DEF WriteClaim, TypeOK
<1>4. CASE ClaimCutShort(n)
  <2>1. missed' \in [Nodes -> SUBSET Faulty]
    BY <1>4 DEF ClaimCutShort, Miss, TypeOK
  <2> QED
    BY <1>4, <2>1, GoonType DEF ClaimCutShort, TypeOK
<1> QED
  BY <1>1, <1>2, <1>3, <1>4 DEF Claiming

LEMMA StormblockTypes ==
    ASSUME TypeOK, NEW n \in Nodes, OfferHasNoEsp(n), BootsASlot(n), FlowsToADisk(n),
           Stormblock(n)
    PROVE  TypeOK'
<1>1. CASE BootLocal(n)
  <2>1. out[n].drive \in Slots
    BY <1>1 DEF BootLocal, BootsASlot
  <2>2. bay[n][out[n].drive] \in MaybeDisk
    BY <2>1 DEF TypeOK
  <2> QED
    BY <1>1, <2>2, ConstantTypes DEF BootLocal, Goto, TypeOK, Pcs
<1>2. CASE BootFromAppliance(n)
  BY <1>2, ConstantTypes DEF BootFromAppliance, Goto, TypeOK, Pcs
<1>3. CASE LayTable(n)
  <2> PICK roles \in Layouts :
          disk' = [disk EXCEPT ![bay[n][out[n].drive]].head = "signature",
                               ![bay[n][out[n].drive]].tail = "signature",
                               ![bay[n][out[n].drive]].parts =
                                    [i \in 1..Len(roles) |-> "other"],
                               ![bay[n][out[n].drive]].esp = NoEsp]
    BY <1>3 DEF LayTable
  <2> DEFINE d == bay[n][out[n].drive]
             t == [disk[d] EXCEPT !.head = "signature", !.tail = "signature",
                                  !.parts = [i \in 1..Len(roles) |-> "other"],
                                  !.esp = NoEsp]
  <2>1. d \in Disks
    BY <1>3 DEF LayTable, MayFlowOver, OfferHasNoEsp
  <2>2. t \in Drives
    <3>1. disk[d] \in Drives
      BY <2>1 DEF TypeOK
    <3>2. [i \in 1..Len(roles) |-> "other"] \in Seq(Roles \cup {"other"})
      BY LayoutParts
    <3> QED
      BY <3>1, <3>2, RecordTypes DEF Drives
  <2>3. disk' = [disk EXCEPT ![d] = t]
    BY <2>1 DEF TypeOK
  <2>4. disk' \in [Disks -> Drives] /\ author' \in [Disks -> Names]
        /\ target' \in [Nodes -> MaybeDisk]
    <3>1. author' = [author EXCEPT ![d] = n] /\ target' = [target EXCEPT ![n] = d]
      BY <1>3 DEF LayTable
    <3> HIDE DEF d, t
    <3> QED
      BY <2>1, <2>2, <2>3, <3>1, ConstantTypes DEF TypeOK
  <2> QED
    BY <1>3, <2>4, ConstantTypes DEF LayTable, Goto, TypeOK, Pcs
<1>4. CASE LaySlab(n)
  <2> DEFINE d == target[n]
  <2>1. PICK roles \in Layouts, i \in 1..Len(disk[d].parts) :
            /\ Len(disk[d].parts) = Len(roles)
            /\ disk' = [disk EXCEPT ![d].parts[i] = roles[i]]
    BY <1>4 DEF LaySlab, InPart
  <2>2. d \in Disks /\ disk[d] \in Drives
    BY <1>4 DEF LaySlab, FlowsToADisk, TypeOK
  <2>3. [disk[d].parts EXCEPT ![i] = roles[i]] \in Seq(Roles \cup {"other"})
    BY <2>1, <2>2, LayoutParts, DriveTypes
  <2>4. [disk[d] EXCEPT !.parts[i] = roles[i]] \in Drives
    BY <2>2, <2>3 DEF Drives
  <2>5. disk' \in [Disks -> Drives]
    BY <2>1, <2>2, <2>4 DEF TypeOK
  <2> QED
    BY <1>4, <2>5 DEF LaySlab, TypeOK
<1>5. CASE FlowDone(n)
  BY <1>5, ConstantTypes DEF FlowDone, Goto, TypeOK, Pcs
<1> QED
  BY <1>1, <1>2, <1>3, <1>4, <1>5 DEF Stormblock

\* `zeroboot claim` goes by the claim it read, which is the claim on the disk unless
\* the record could not be read.
LEMMA ClaimReads ==
    ASSUME TypeOK, NEW n \in Nodes, NEW s \in Slots, NEW force \in BOOLEAN,
           Claim(n, s, force)
    PROVE  \E f \in SUBSET (Faulty \cap {Site("record")}) :
              /\ missed' = [missed EXCEPT ![n] = @ \cup f]
              /\ missed' \in [Nodes -> SUBSET Faulty]
              /\ f = {} => /\ disk[bay[n][s]].esp.claim # n
                           /\ disk[bay[n][s]].esp.claim = NoNode \/ force
<1> DEFINE d == disk[bay[n][s]]
<1>1. PICK f \in Failing({Site("record")}) :
          /\ EspRead(d, f).claim # n
          /\ EspRead(d, f).claim = NoNode \/ force
          /\ Miss(n, f)
  BY DEF Claim
<1>2. f \in SUBSET (Faulty \cap {Site("record")})
  BY <1>1 DEF Failing
<1>3. missed' = [missed EXCEPT ![n] = @ \cup f]
  BY <1>1 DEF Miss
<1>4. ASSUME f = {} PROVE EspRead(d, f).claim = d.esp.claim
  <2>1. d \in Drives
    BY DEF Claim, OpensEsp, MaybeDisk, TypeOK
  <2> QED
    BY <1>4, <2>1, ClaimReadAsItIs
<1> QED
  BY <1>1, <1>2, <1>3, <1>4 DEF TypeOK

LEMMA OperatorTypes ==
    ASSUME TypeOK, NEW n \in Nodes, Operator(n)
    PROVE  TypeOK'
<1>1. PICK s \in Slots, force \in BOOLEAN : Claim(n, s, force)
  BY DEF Operator
<1>2. task[n] \in Tasks
  BY DEF TypeOK
<1>3. [task[n] EXCEPT !.slot = s, !.force = force] \in Tasks
  BY <1>2 DEF Tasks
<1>4. missed' \in [Nodes -> SUBSET Faulty]
  BY <1>1, ClaimReads DEF TypeOK
<1> QED
  BY <1>1, <1>3, <1>4 DEF Claim, Goto, TypeOK, Pcs

LEMMA WorldTypes ==
    ASSUME TypeOK, NEW n \in Nodes, WritesToAnEsp(n), World(n)
    PROVE  TypeOK'
<1>1. CASE PowerOn(n)
  <2>1. PICK f \in Permutations : bay' = [bay EXCEPT ![n] = [s \in Slots |-> bay[n][f[s]]]]
    BY <1>1 DEF PowerOn
  <2>2. [s \in Slots |-> bay[n][f[s]]] \in [Slots -> MaybeDisk]
    BY <2>1 DEF Permutations, TypeOK
  <2> QED
    BY <1>1, <2>1, <2>2 DEF PowerOn, Goto, TypeOK, Pcs
<1>2. CASE PowerOff(n)
  <2>1. disk' \in [Disks -> Drives]
    <3>1. CASE pc[n] = "write"
      <4>1. PICK name \in {task[n].held, NoNode, n} : SetClaim(task[n].disk, name)
        BY <1>2, <3>1 DEF PowerOff
      <4>2. name \in Names
        BY <4>1, ConstantTypes DEF TypeOK, Tasks
      <4> QED
        BY <3>1, <4>1, <4>2, SetClaimDoes DEF WritesToAnEsp, TypeOK
    <3>2. CASE pc[n] # "write"
      BY <1>2, <3>2 DEF PowerOff, TypeOK
    <3> QED
      BY <3>1, <3>2
  <2>2. /\ out' \in [Nodes -> Outs] /\ task' \in [Nodes -> Tasks]
        /\ root' \in [Nodes -> MaybeDisk] /\ target' \in [Nodes -> MaybeDisk]
        /\ missed' \in [Nodes -> SUBSET Faulty] /\ pc' \in [Nodes -> Pcs]
        /\ UNCHANGED <<bay, author>>
    BY <1>2, ConstantTypes DEF PowerOff, Goto, TypeOK, Pcs
  <2>3. Forget(n)
    BY <1>2 DEF PowerOff
  <2> QED
    BY <2>1, <2>2, <2>3, ForgetType DEF TypeOK
<1>3. ASSUME NEW m \in Nodes, NEW s \in Slots, NEW t \in Slots, MoveDisk(n, s, m, t)
      PROVE  TypeOK'
  <2>1. bay' \in [Nodes -> [Slots -> MaybeDisk]]
    <3>1. bay' = [bay EXCEPT ![n][s] = NoDisk, ![m][t] = bay[n][s]]
      BY <1>3 DEF MoveDisk
    <3>2. bay \in [Nodes -> [Slots -> MaybeDisk]] /\ NoDisk \in MaybeDisk
      BY ConstantTypes DEF TypeOK
    <3> QED
      BY <3>1, <3>2
  <2> QED
    BY <1>3, <2>1 DEF MoveDisk, TypeOK
<1> QED
  BY <1>1, <1>2, <1>3 DEF World

-----------------------------------------------------------------------------
(***************************************************************************)
(* What any step leaves of the disks and the bays.                         *)
(***************************************************************************)

\* No ESP appears, none goes where a claim is being written, and a table stays.
DisksKept ==
    /\ \A d \in Disks : disk'[d].esp.present => disk[d].esp.present
    /\ \A d \in Disks : disk[d].head # "zero" => disk'[d].head # "zero"
    /\ \A n \in Nodes : pc[n] = "write" => disk'[task[n].disk].esp.present
    /\ TablesInSight'

LEMMA SetClaimKeeps ==
    ASSUME TypeInv, NEW d \in Disks, disk[d].esp.present, NEW name \in Names,
           SetClaim(d, name)
    PROVE  DisksKept
<1>1. \A e \in Disks :
         /\ disk'[e].esp.present = disk[e].esp.present
         /\ disk'[e].head = disk[e].head /\ disk'[e].tail = disk[e].tail
         /\ disk'[e].parts = disk[e].parts
  <2>1. /\ \A e \in Disks \ {d} : disk'[e] = disk[e]
        /\ disk'[d] = [disk[d] EXCEPT !.esp.claim = name]
    BY SetClaimDoes DEF TypeInv, TypeOK
  <2>2. disk[d] \in Drives /\ disk[d].esp \in Esps
    BY DriveTypes DEF TypeInv, TypeOK
  <2>3. disk'[d].esp = [disk[d].esp EXCEPT !.claim = name]
    BY <2>1, <2>2 DEF Drives
  <2>4. disk'[d].esp.present = disk[d].esp.present
    BY <2>2, <2>3 DEF Esps, NoEsp
  <2>5. /\ disk'[d].head = disk[d].head /\ disk'[d].tail = disk[d].tail
        /\ disk'[d].parts = disk[d].parts
    BY <2>1, <2>2 DEF Drives
  <2> QED
    BY <2>1, <2>4, <2>5
<1> QED
  BY <1>1 DEF DisksKept, TypeInv, TablesInSight, TableInSight, Carried, WritesToAnEsp

LEMMA UnchangedKeeps ==
    ASSUME TypeInv, UNCHANGED disk
    PROVE  DisksKept
  BY DEF DisksKept, TypeInv, TablesInSight, TableInSight, Carried, WritesToAnEsp

LEMMA LayTableKeeps ==
    ASSUME TypeInv, NEW n \in Nodes, LayTable(n)
    PROVE  DisksKept /\ disk'[bay[n][out[n].drive]].head # "zero"
<1> DEFINE d == bay[n][out[n].drive]
<1>1. d \in Disks /\ ~disk[d].esp.present
  BY DEF LayTable, MayFlowOver, TypeInv, Carried, OfferHasNoEsp
<1>2. disk[d] \in Drives /\ disk \in [Disks -> Drives]
  BY <1>1 DEF TypeInv, TypeOK
<1>3. /\ \A e \in Disks \ {d} : disk'[e] = disk[e]
      /\ disk'[d].head = "signature" /\ disk'[d].esp = NoEsp
  BY <1>1, <1>2, LayTableDoes
<1>4. \A m \in Nodes : pc[m] = "write" => task[m].disk \in Disks \ {d}
  BY <1>1 DEF TypeInv, Carried, WritesToAnEsp
<1> QED
  BY <1>1, <1>3, <1>4
     DEF DisksKept, TypeInv, TablesInSight, TableInSight, Carried, WritesToAnEsp, NoEsp

LEMMA LaySlabKeeps ==
    ASSUME TypeInv, NEW n \in Nodes, LaySlab(n)
    PROVE  DisksKept
<1> DEFINE d == target[n]
<1>1. d \in Disks /\ disk[d].head # "zero"
  BY DEF LaySlab, TypeInv, Carried, FlowsToADisk
<1>2. disk[d] \in Drives /\ disk \in [Disks -> Drives]
  BY <1>1 DEF TypeInv, TypeOK
<1>3. /\ \A e \in Disks \ {d} : disk'[e] = disk[e]
      /\ disk'[d].head = disk[d].head /\ disk'[d].esp = disk[d].esp
  BY <1>1, <1>2 DEF LaySlab, Drives
<1> QED
  BY <1>1, <1>3 DEF DisksKept, TypeInv, TablesInSight, TableInSight, Carried, WritesToAnEsp

\* Only the steps of these five lines write to a disk.
LEMMA StepKeepsDisks ==
    ASSUME TypeInv, Next
    PROVE  DisksKept
<1>1. PICK n \in Nodes : \/ Zeroboot(n) \/ Claiming(n) \/ Stormblock(n)
                        \/ Operator(n) \/ World(n)
  BY DEF Next
<1>2. CASE TruncateClaim(n)
  <2> DEFINE d == bay[n][task[n].slot]
  <2>1. task[n].slot \in Slots /\ d # NoDisk /\ disk[d].esp.present
    BY <1>2 DEF TruncateClaim, OpensEsp, TypeInv, Carried, ClaimsASlot
  <2>2. d \in Disks
    BY <2>1 DEF TypeInv, TypeOK, MaybeDisk
  <2> QED
    BY <1>2, <2>1, <2>2, SetClaimKeeps, ConstantTypes DEF TruncateClaim
<1>3. CASE WriteClaim(n)
  BY <1>3, SetClaimKeeps, ConstantTypes DEF WriteClaim, TypeInv, Carried, WritesToAnEsp
<1>4. CASE PowerOff(n)
  <2>1. CASE pc[n] = "write"
    <3>1. PICK name \in {task[n].held, NoNode, n} : SetClaim(task[n].disk, name)
      BY <1>4, <2>1 DEF PowerOff
    <3>2. name \in Names
      BY <3>1, ConstantTypes DEF TypeInv, TypeOK, Tasks
    <3> QED
      BY <2>1, <3>1, <3>2, SetClaimKeeps DEF TypeInv, Carried, WritesToAnEsp
  <2>2. CASE pc[n] # "write"
    BY <1>4, <2>2, UnchangedKeeps DEF PowerOff
  <2> QED
    BY <2>1, <2>2
<1>5. CASE LayTable(n)
  BY <1>5, LayTableKeeps
<1>6. CASE LaySlab(n)
  BY <1>6, LaySlabKeeps
<1>7. CASE UNCHANGED disk
  BY <1>7, UnchangedKeeps
<1>8. ASSUME Zeroboot(n) PROVE UNCHANGED disk
  BY <1>8 DEF Zeroboot, CannotList, ListDrives, LookAtNext, DecideBootLocal, DecideAsk
<1>9. ASSUME Claiming(n) PROVE TruncateClaim(n) \/ WriteClaim(n) \/ UNCHANGED disk
  BY <1>9 DEF Claiming, ClaimNotWritten, ClaimCutShort
<1>10. ASSUME Stormblock(n) PROVE LayTable(n) \/ LaySlab(n) \/ UNCHANGED disk
  BY <1>10 DEF Stormblock, BootLocal, BootFromAppliance, FlowDone
<1>11. ASSUME Operator(n) PROVE UNCHANGED disk
  BY <1>11 DEF Operator, Claim
<1>12. ASSUME World(n) PROVE PowerOff(n) \/ UNCHANGED disk
  BY <1>12 DEF World, PowerOn, MoveDisk
<1> QED
  BY <1>1, <1>2, <1>3, <1>4, <1>5, <1>6, <1>7, <1>8, <1>9, <1>10, <1>11, <1>12

\* A machine that takes no step keeps what it knew, and its bays if it is on.
LEMMA CarriedOver ==
    ASSUME TypeInv, DisksKept, NEW n \in Nodes,
           pc[n] # "off" => bay'[n] = bay[n],
           pc'[n] = pc[n], seen'[n] = seen[n], out'[n] = out[n],
           task'[n] = task[n], target'[n] = target[n]
    PROVE  Carried(n)'
<1>1. Quiet(n)' /\ SeenBySurvey(n)' /\ BootsASlot(n)' /\ ClaimsASlot(n)'
  BY DEF Quiet, SeenBySurvey, BootsASlot, ClaimsASlot, TypeInv, Carried
<1>2. \A d \in Disks : disk'[d].esp.present => disk[d].esp.present
  BY DEF DisksKept
<1>3. BlankHasNoEsp(n)'
  <2> SUFFICES ASSUME pc[n] = "look", NEW s \in Slots, seen[n][s].verdict.kind = "Blank"
               PROVE  bay'[n][s] \in Disks /\ ~disk'[bay'[n][s]].esp.present
    BY DEF BlankHasNoEsp
  <2>1. bay[n][s] \in Disks /\ ~disk[bay[n][s]].esp.present
    BY DEF BlankHasNoEsp, TypeInv, Carried
  <2>2. bay'[n] = bay[n]
    OBVIOUS
  <2> QED
    BY <1>2, <2>1, <2>2
<1>4. OfferHasNoEsp(n)'
  <2> DEFINE s == out[n].drive
  <2> SUFFICES ASSUME out[n].action = "ask-appliance", s # NoDevice
               PROVE  /\ s \in Slots /\ bay'[n][s] \in Disks
                      /\ ~disk'[bay'[n][s]].esp.present
    BY DEF OfferHasNoEsp
  <2>1. s \in Slots /\ bay[n][s] \in Disks /\ ~disk[bay[n][s]].esp.present
    BY DEF OfferHasNoEsp, TypeInv, Carried
  <2>2. pc[n] # "off"
    BY DEF Quiet, Silent, TypeInv, Carried
  <2> HIDE DEF s
  <2> QED
    BY <1>2, <2>1, <2>2
<1>5. WritesToAnEsp(n)'
  BY DEF WritesToAnEsp, DisksKept, TypeInv, Carried
<1>6. FlowsToADisk(n)'
  BY DEF FlowsToADisk, DisksKept, TypeInv, Carried
<1> QED
  BY <1>1, <1>3, <1>4, <1>5, <1>6 DEF Carried

-----------------------------------------------------------------------------
(***************************************************************************)
(* What a step of a machine leaves of the others, and how it carries its   *)
(* own part on.                                                            *)
(***************************************************************************)

\* A step of one machine is no step of another.
Still(n) == /\ pc[n] # "off" => bay'[n] = bay[n]
            /\ pc'[n] = pc[n] /\ seen'[n] = seen[n] /\ out'[n] = out[n]
            /\ task'[n] = task[n] /\ target'[n] = target[n] /\ root'[n] = root[n]
            /\ me'[n] = me[n] /\ missed'[n] = missed[n] /\ cursor'[n] = cursor[n]

LEMMA OthersStill ==
    ASSUME TypeOK, NEW n \in Nodes, NEW m \in Nodes \ {n},
           \/ Zeroboot(n) \/ Claiming(n) \/ Stormblock(n) \/ Operator(n) \/ World(n)
    PROVE  Still(m)
<1> USE DEF TypeOK, Still, Goto, Miss
<1>1. CASE Zeroboot(n)
  <2>1. CASE CannotList(n) \/ ListDrives(n)
    BY <2>1 DEF CannotList, ListDrives
  <2>2. CASE LookAtNext(n)
    BY <2>2 DEF LookAtNext
  <2>3. CASE DecideBootLocal(n)
    BY <2>3 DEF DecideBootLocal, Forget
  <2>4. CASE DecideAsk(n)
    BY <2>4 DEF DecideAsk, Forget
  <2> QED
    BY <1>1, <2>1, <2>2, <2>3, <2>4 DEF Zeroboot
<1>2. CASE Claiming(n)
  BY <1>2 DEF Claiming, ClaimNotWritten, TruncateClaim, WriteClaim, ClaimCutShort, Goon
<1>3. CASE Stormblock(n)
  BY <1>3 DEF Stormblock, BootLocal, BootFromAppliance, LayTable, LaySlab, FlowDone
<1>4. CASE Operator(n)
  BY <1>4 DEF Operator, Claim
<1>5. CASE World(n)
  <2>1. CASE PowerOn(n)
    BY <2>1 DEF PowerOn
  <2>2. CASE PowerOff(n)
    BY <2>2 DEF PowerOff, Forget
  <2>3. ASSUME NEW k \in Nodes, NEW s \in Slots, NEW t \in Slots, MoveDisk(n, s, k, t)
        PROVE  Still(m)
    BY <2>3 DEF MoveDisk
  <2> QED
    BY <1>5, <2>1, <2>2, <2>3 DEF World
<1> QED
  BY <1>1, <1>2, <1>3, <1>4, <1>5

LEMMA ZerobootCarries ==
    ASSUME TypeInv, NEW n \in Nodes, Zeroboot(n)
    PROVE  Carried(n)'
<1> USE DEF Goto
<1>1. TypeOK /\ Carried(n)
  BY DEF TypeInv
<1>2. ASSUME Forget(n) PROVE seen'[n] = [s \in Slots |-> NotSeen]
  BY <1>1, <1>2 DEF Forget, TypeOK
<1>3. CASE CannotList(n)
  <2>1. /\ pc'[n] = "init" /\ out'[n] = [action |-> "error", drive |-> NoDevice]
        /\ seen'[n] = [s \in Slots |-> NotSeen]
    BY <1>1, <1>3 DEF CannotList, TypeOK, Carried, SeenBySurvey
  <2> QED
    BY <2>1 DEF Carried, Quiet, SeenBySurvey, BlankHasNoEsp, OfferHasNoEsp,
                BootsASlot, ClaimsASlot, WritesToAnEsp, FlowsToADisk
<1>4. CASE ListDrives(n)
  <2>1. /\ pc'[n] = "look" /\ out'[n] = Silent
        /\ seen'[n] = [s \in Slots |-> NotSeen]
    BY <1>1, <1>4 DEF ListDrives, TypeOK, Carried, Quiet, SeenBySurvey
  <2>2. NotSeen.verdict.kind # "Blank" /\ Silent.action = "none"
    BY DEF NotSeen, Of, Silent
  <2> QED
    BY <2>1, <2>2 DEF Carried, Quiet, SeenBySurvey, BlankHasNoEsp, OfferHasNoEsp,
                BootsASlot, ClaimsASlot, WritesToAnEsp, FlowsToADisk
<1>5. CASE LookAtNext(n)
  <2>1. /\ pc[n] = "look" /\ pc'[n] = "look" /\ out'[n] = Silent
        /\ disk' = disk /\ bay' = bay
    BY <1>1, <1>5 DEF LookAtNext, Carried, Quiet
  <2>2. BlankHasNoEsp(n)'
    <3>1. CASE UNCHANGED seen
      BY <1>1, <2>1, <3>1 DEF Carried, BlankHasNoEsp
    <3>2. CASE bay[n][cursor[n]] # NoDisk
      <4> DEFINE d == bay[n][cursor[n]]
      <4>1. cursor[n] \in Slots
        BY <1>1, <1>5, SlotTypes DEF LookAtNext, Slots, TypeOK
      <4>2. d \in Disks /\ disk[d] \in Drives /\ TableInSight(disk[d])
        BY <1>1, <3>2, <4>1 DEF TypeInv, TablesInSight, TypeOK, MaybeDisk
      <4>3. PICK f : seen' = [seen EXCEPT ![n][cursor[n]] = LookAt(d, me[n], f)]
        BY <1>5, <3>2 DEF LookAtNext
      <4>4. LookAt(d, me[n], f).verdict.kind = "Blank" => ~disk[d].esp.present
        BY <4>2, JudgedBlank DEF LookAt
      <4>5. seen[n] \in [Slots -> Seen] /\ seen \in [Nodes -> [Slots -> Seen]]
        BY <1>1 DEF TypeOK
      <4>6. \A s \in Slots :
               seen'[n][s] = IF s = cursor[n] THEN LookAt(d, me[n], f) ELSE seen[n][s]
        BY <4>1, <4>3, <4>5
      <4> QED
        BY <1>1, <2>1, <4>2, <4>4, <4>6 DEF Carried, BlankHasNoEsp
    <3> QED
      BY <1>5, <3>1, <3>2 DEF LookAtNext
  <2>3. Silent.action = "none"
    BY DEF Silent
  <2> QED
    BY <2>1, <2>2, <2>3 DEF Carried, Quiet, SeenBySurvey, OfferHasNoEsp,
                BootsASlot, ClaimsASlot, WritesToAnEsp, FlowsToADisk
<1>6. CASE DecideBootLocal(n)
  <2>1. PICK i \in Intents(seen[n]) :
            /\ i.kind = "AlreadyMine"
            /\ out' = [out EXCEPT ![n] = [action |-> "boot-local", drive |-> i.drive]]
            /\ \/ /\ task' = [task EXCEPT ![n] = [@ EXCEPT !.slot = i.drive, !.then = "init"]]
                  /\ pc' = [pc EXCEPT ![n] = "claim"]
               \/ pc' = [pc EXCEPT ![n] = "init"]
    BY <1>6 DEF DecideBootLocal
  <2>2. i.drive \in Slots
    BY <1>1, <2>1, IntentDrives DEF TypeOK
  <2>3. out'[n] = [action |-> "boot-local", drive |-> i.drive]
    BY <1>1, <2>1 DEF TypeOK
  <2>4. pc'[n] = "init" \/ (pc'[n] = "claim" /\ task'[n].slot \in Slots)
    <3>1. CASE pc' = [pc EXCEPT ![n] = "init"]
      BY <1>1, <3>1 DEF TypeOK
    <3>2. CASE /\ task' = [task EXCEPT ![n] = [@ EXCEPT !.slot = i.drive, !.then = "init"]]
               /\ pc' = [pc EXCEPT ![n] = "claim"]
      <4>1. task[n] \in Tasks /\ task'[n] = [task[n] EXCEPT !.slot = i.drive, !.then = "init"]
        BY <1>1, <3>2 DEF TypeOK
      <4> QED
        BY <1>1, <2>2, <3>2, <4>1 DEF TypeOK, Tasks
    <3> QED
      BY <2>1, <3>1, <3>2
  <2>5. seen'[n] = [s \in Slots |-> NotSeen]
    BY <1>2, <1>6 DEF DecideBootLocal
  <2> QED
    BY <2>2, <2>3, <2>4, <2>5 DEF Carried, Quiet, SeenBySurvey, BlankHasNoEsp,
                OfferHasNoEsp, BootsASlot, ClaimsASlot, WritesToAnEsp, FlowsToADisk
<1>7. CASE DecideAsk(n)
  <2>1. PICK i \in Intents(seen[n]) :
            /\ i.kind # "AlreadyMine"
            /\ out' = [out EXCEPT ![n] = [action |-> "ask-appliance", drive |-> i.drive]]
    BY <1>7 DEF DecideAsk
  <2>2. /\ pc[n] = "look" /\ pc'[n] = "init" /\ disk' = disk /\ bay' = bay
        /\ out'[n] = [action |-> "ask-appliance", drive |-> i.drive]
    BY <1>1, <1>7, <2>1 DEF DecideAsk, Surveyed, TypeOK
  <2>3. \/ i.drive = NoDevice
        \/ i.drive \in Slots /\ seen[n][i.drive].verdict.kind = "Blank"
    BY <1>1, <2>1, IntentDrives DEF TypeOK
  <2>4. OfferHasNoEsp(n)'
    BY <1>1, <2>2, <2>3 DEF OfferHasNoEsp, Carried, BlankHasNoEsp
  <2>5. seen'[n] = [s \in Slots |-> NotSeen]
    BY <1>2, <1>7 DEF DecideAsk
  <2> QED
    BY <2>2, <2>4, <2>5 DEF Carried, Quiet, SeenBySurvey, BlankHasNoEsp,
                BootsASlot, ClaimsASlot, WritesToAnEsp, FlowsToADisk
<1> QED
  BY <1>3, <1>4, <1>5, <1>6, <1>7 DEF Zeroboot

LEMMA ClaimingCarries ==
    ASSUME TypeInv, DisksKept, NEW n \in Nodes, Claiming(n)
    PROVE  Carried(n)'
<1>1. TypeOK /\ Carried(n)
  BY DEF TypeInv
<1>2. /\ pc[n] \in {"claim", "write"} /\ bay' = bay /\ out' = out /\ seen' = seen
      /\ target' = target
  BY DEF Claiming, ClaimNotWritten, TruncateClaim, WriteClaim, ClaimCutShort
<1>3. SeenBySurvey(n)' /\ BootsASlot(n)' /\ OfferHasNoEsp(n)'
  BY <1>1, <1>2 DEF Carried, SeenBySurvey, BootsASlot, OfferHasNoEsp, DisksKept
<1>4. CASE Goon(n)
  <2>1. pc'[n] \in {"init", "up"}
    BY <1>1, <1>4 DEF Goon, Goto, TypeOK, Tasks
  <2> QED
    BY <1>3, <2>1 DEF Carried, Quiet, BlankHasNoEsp, ClaimsASlot,
                      WritesToAnEsp, FlowsToADisk
<1>5. CASE TruncateClaim(n)
  <2> DEFINE d == bay[n][task[n].slot]
  <2>1. d \in Disks /\ task[n] \in Tasks
    BY <1>1, <1>5 DEF TruncateClaim, Carried, ClaimsASlot, OpensEsp, TypeOK, MaybeDisk
  <2>2. pc'[n] = "write" /\ task'[n].disk = d
    BY <1>1, <1>5, <2>1 DEF TruncateClaim, Goto, TypeOK, Tasks
  <2>3. disk'[d].esp.present
    <3>1. disk[d].esp.present /\ SetClaim(d, NoNode)
      BY <1>5 DEF TruncateClaim, OpensEsp
    <3>2. disk'[d] = [disk[d] EXCEPT !.esp.claim = NoNode]
      BY <1>1, <2>1, <3>1, SetClaimDoes, ConstantTypes DEF TypeOK
    <3>3. disk[d] \in Drives /\ disk[d].esp \in Esps
      BY <1>1, <2>1, DriveTypes DEF TypeOK
    <3>4. disk'[d].esp = [disk[d].esp EXCEPT !.claim = NoNode]
      BY <3>2, <3>3 DEF Drives
    <3> QED
      BY <3>1, <3>3, <3>4 DEF Esps, NoEsp
  <2> QED
    BY <1>3, <2>1, <2>2, <2>3 DEF Carried, Quiet, BlankHasNoEsp, ClaimsASlot,
                                  WritesToAnEsp, FlowsToADisk
<1> QED
  BY <1>4, <1>5 DEF Claiming, ClaimNotWritten, WriteClaim, ClaimCutShort

LEMMA StormblockCarries ==
    ASSUME TypeInv, DisksKept, NEW n \in Nodes, Stormblock(n)
    PROVE  Carried(n)'
<1> USE DEF Goto
<1>1. TypeOK /\ Carried(n)
  BY DEF TypeInv
<1>2. /\ pc[n] \in {"init", "flow"} /\ seen' = seen
      /\ out'[n] = Silent \/ (out' = out /\ bay' = bay)
  BY <1>1 DEF Stormblock, BootLocal, BootFromAppliance, LayTable, LaySlab, FlowDone, TypeOK
<1>3. SeenBySurvey(n)'
  BY <1>1, <1>2 DEF Carried, SeenBySurvey
<1>4. OfferHasNoEsp(n)' /\ BootsASlot(n)'
  BY <1>1, <1>2 DEF Carried, OfferHasNoEsp, BootsASlot, Silent, DisksKept
<1>5. pc'[n] \in {"up", "flow"}
  BY <1>1 DEF Stormblock, BootLocal, BootFromAppliance, LayTable, LaySlab, FlowDone, TypeOK
<1>6. FlowsToADisk(n)'
  <2>1. CASE LayTable(n)
    <3>1. target'[n] = bay[n][out[n].drive] /\ disk'[bay[n][out[n].drive]].head # "zero"
      BY <1>1, <2>1, LayTableKeeps DEF LayTable, TypeOK
    <3> QED
      BY <1>1, <2>1, <3>1 DEF LayTable, MayFlowOver, Carried, OfferHasNoEsp, FlowsToADisk
  <2>2. CASE LaySlab(n)
    BY <1>1, <2>2 DEF LaySlab, Carried, FlowsToADisk, DisksKept
  <2>3. CASE BootLocal(n) \/ BootFromAppliance(n) \/ FlowDone(n)
    <3>1. pc'[n] = "up"
      BY <1>1, <2>3 DEF BootLocal, BootFromAppliance, FlowDone, TypeOK
    <3> QED
      BY <3>1 DEF FlowsToADisk
  <2> QED
    BY <2>1, <2>2, <2>3 DEF Stormblock
<1>7. Quiet(n)'
  <2>1. pc'[n] = "flow" => out'[n] = Silent
    BY <1>1 DEF Stormblock, BootLocal, BootFromAppliance, LayTable, LaySlab, FlowDone,
                Carried, Quiet, TypeOK
  <2> QED
    BY <1>5, <2>1 DEF Quiet
<1> QED
  BY <1>3, <1>4, <1>5, <1>6, <1>7 DEF Carried, BlankHasNoEsp, ClaimsASlot, WritesToAnEsp

LEMMA OperatorCarries ==
    ASSUME TypeInv, DisksKept, NEW n \in Nodes, Operator(n)
    PROVE  Carried(n)'
<1>1. TypeOK /\ Carried(n)
  BY DEF TypeInv
<1>2. PICK s \in Slots, force \in BOOLEAN : Claim(n, s, force)
  BY DEF Operator
<1>3. task'[n].slot = s
  <2>1. task[n] \in Tasks /\ task'[n] = [task[n] EXCEPT !.slot = s, !.force = force]
    BY <1>1, <1>2 DEF Claim, TypeOK
  <2> QED
    BY <2>1 DEF Tasks
<1>4. /\ pc[n] = "up" /\ pc'[n] = "claim" /\ bay' = bay /\ out' = out /\ seen' = seen
  BY <1>1, <1>2 DEF Claim, Goto, TypeOK
<1>5. SeenBySurvey(n)' /\ BootsASlot(n)' /\ OfferHasNoEsp(n)'
  BY <1>1, <1>4 DEF Carried, SeenBySurvey, BootsASlot, OfferHasNoEsp, DisksKept
<1> QED
  BY <1>3, <1>4, <1>5 DEF Carried, Quiet, BlankHasNoEsp, ClaimsASlot,
                          WritesToAnEsp, FlowsToADisk

LEMMA WorldCarries ==
    ASSUME TypeInv, DisksKept, NEW n \in Nodes, World(n)
    PROVE  Carried(n)'
<1>1. TypeOK /\ Carried(n)
  BY DEF TypeInv
<1>2. CASE PowerOn(n) \/ PowerOff(n)
  <2>1. pc'[n] \in {"list", "off"} /\ out'[n] = Silent
    BY <1>1, <1>2 DEF PowerOn, PowerOff, Goto, TypeOK, Carried, Quiet
  <2>2. seen'[n] = [s \in Slots |-> NotSeen]
    BY <1>1, <1>2 DEF PowerOn, PowerOff, Forget, TypeOK, Carried, SeenBySurvey
  <2>3. Silent.action = "none"
    BY DEF Silent
  <2> QED
    BY <2>1, <2>2, <2>3
       DEF Carried, Quiet, SeenBySurvey, BlankHasNoEsp,
           OfferHasNoEsp, BootsASlot, ClaimsASlot, WritesToAnEsp, FlowsToADisk
<1>3. ASSUME NEW m \in Nodes, NEW s \in Slots, NEW t \in Slots, MoveDisk(n, s, m, t)
      PROVE  Still(n)
  BY <1>3 DEF MoveDisk, Still
<1> QED
  BY <1>2, <1>3, CarriedOver DEF World, Still

-----------------------------------------------------------------------------
(***************************************************************************)
(* The type invariant.                                                     *)
(***************************************************************************)
LEMMA InitCarries == Init => TypeInv
<1> SUFFICES ASSUME Init PROVE TypeInv
  OBVIOUS
<1>1. TypeOK
  BY InitTypes
<1>2. TablesInSight
  BY BootAssumption DEF Init, TablesInSight
<1>3. ASSUME NEW n \in Nodes PROVE Carried(n)
  <2>1. /\ pc[n] = "off" /\ out[n] = Silent /\ seen[n] = [s \in Slots |-> NotSeen]
        /\ Silent.action = "none"
    BY DEF Init, Silent
  <2> QED
    BY <2>1
       DEF Carried, Quiet, SeenBySurvey, BlankHasNoEsp,
           OfferHasNoEsp, BootsASlot, ClaimsASlot, WritesToAnEsp, FlowsToADisk
<1> QED
  BY <1>1, <1>2, <1>3 DEF TypeInv

LEMMA StepCarries == TypeInv /\ [Next]_vars => TypeInv'
<1> SUFFICES ASSUME TypeInv, [Next]_vars PROVE TypeInv'
  OBVIOUS
<1>1. CASE Next
  <2>1. PICK n \in Nodes : \/ Zeroboot(n) \/ Claiming(n) \/ Stormblock(n)
                          \/ Operator(n) \/ World(n)
    BY <1>1 DEF Next
  <2>2. DisksKept
    BY <1>1, StepKeepsDisks
  <2>3. TypeOK /\ Carried(n)
    BY DEF TypeInv
  <2>4. TypeOK'
    BY <2>1, <2>3, ZerobootTypes, ClaimingTypes, StormblockTypes, OperatorTypes,
       WorldTypes DEF Carried
  <2>5. Carried(n)'
    BY <2>1, <2>2, ZerobootCarries, ClaimingCarries, StormblockCarries,
       OperatorCarries, WorldCarries
  <2>6. ASSUME NEW m \in Nodes \ {n} PROVE Carried(m)'
    BY <2>1, <2>2, <2>3, OthersStill, CarriedOver DEF Still
  <2>7. \A m \in Nodes : Carried(m)'
    BY <2>5, <2>6
  <2> QED
    BY <2>2, <2>4, <2>7 DEF TypeInv, DisksKept
<1>2. CASE UNCHANGED vars
  <2>1. TypeOK'
    BY <1>2 DEF vars, TypeInv, TypeOK
  <2>2. DisksKept
    BY <1>2, UnchangedKeeps DEF vars
  <2>3. ASSUME NEW n \in Nodes PROVE Carried(n)'
    BY <1>2, <2>2, CarriedOver DEF vars
  <2> QED
    BY <2>1, <2>2, <2>3 DEF TypeInv, DisksKept
<1> QED
  BY <1>1, <1>2

\* Whatever the machines, the disks and the faults: every device name holds a
\* disk or none, a claim is in an ESP that is there, and what is flowed over
\* onto is a disk.
THEOREM Typing == Spec => []TypeOK
<1>1. Spec => []TypeInv
  BY InitCarries, StepCarries, PTL DEF Spec
<1>2. TypeInv => TypeOK
  BY DEF TypeInv
<1> QED
  BY <1>1, <1>2, PTL

-----------------------------------------------------------------------------
(***************************************************************************)
(* What a survey concluded still holds when it is acted on.  A disk behind *)
(* a machine that is on, and not reached over a network, is behind no      *)
(* other (Apart), so no other writes to it; what is seen of it, told of it *)
(* and done to it follows one from the other.  The one read this rests on  *)
(* is that of the transport: without it a LUN that other machines reach    *)
(* passes for a disk of this chassis.                                      *)
(***************************************************************************)
\* A disk of this machine's chassis.
Here(n, d) == d \in Disks /\ Behind(n, d) /\ ~disk[d].remote

ClaimAllows(n, d) ==
    (EspReads \cup {Site("identity")}) \cap missed[n] = {} =>
        disk[d].esp.claim \in {NoNode, n}

\* Only a transport file or a removable flag that cannot be read makes a blank
\* of what is not.
BlankMeans(d) == Site("removable") \notin Faulty => Untouched(disk[d])

KnowsItself(n) == pc[n] = "look" => me[n] = n \/ Site("identity") \in missed[n]

SeenHolds(n) ==
    pc[n] = "look" => \A s \in Slots :
        /\ seen[n][s].verdict.kind = "Mine" =>
               Here(n, bay[n][s]) /\ ClaimAllows(n, bay[n][s])
        /\ seen[n][s].verdict.kind = "Blank" =>
               Here(n, bay[n][s]) /\ BlankMeans(bay[n][s])

ToldHolds(n) ==
    LET d == bay[n][out[n].drive]
    IN  /\ out[n].action = "boot-local" => Here(n, d) /\ ClaimAllows(n, d)
        /\ out[n].action = "ask-appliance" /\ out[n].drive # NoDevice =>
               Here(n, d) /\ BlankMeans(d)

RootHolds(n) ==
    root[n] # NoDisk =>
        pc[n] # "off" /\ Here(n, root[n]) /\ ClaimAllows(n, root[n])

TargetHolds(n) ==
    target[n] # NoDisk =>
        pc[n] = "flow" /\ Here(n, target[n]) /\ disk[target[n]].esp = NoEsp

WritesBehind(n) == pc[n] = "write" => Behind(n, task[n].disk)

Holds(n) == /\ KnowsItself(n) /\ SeenHolds(n) /\ ToldHolds(n)
            /\ RootHolds(n) /\ TargetHolds(n) /\ WritesBehind(n)

Inv == TypeInv /\ Apart(disk, bay) /\ \A n \in Nodes : Holds(n)

-----------------------------------------------------------------------------
(***************************************************************************)
(* Who writes to what.                                                     *)
(***************************************************************************)
Step(n) == Zeroboot(n) \/ Claiming(n) \/ Stormblock(n) \/ Operator(n) \/ World(n)

\* A step writes to one disk at most, one behind the machine that takes it.
WritesOnly(n, d) ==
    /\ Behind(n, d)
    /\ \A e \in Disks \ {d} : disk'[e] = disk[e]
    /\ disk'[d].remote = disk[d].remote

LEMMA ClaimOnlyWrites ==
    ASSUME TypeOK, NEW d \in Disks, disk[d].esp.present, NEW name \in Names,
           SetClaim(d, name), NEW n \in Nodes, Behind(n, d)
    PROVE  WritesOnly(n, d)
<1>1. /\ \A e \in Disks \ {d} : disk'[e] = disk[e]
      /\ disk'[d] = [disk[d] EXCEPT !.esp.claim = name]
  BY SetClaimDoes DEF TypeOK
<1>2. disk[d] \in Drives
  BY DEF TypeOK
<1> QED
  BY <1>1, <1>2 DEF WritesOnly, Drives

LEMMA OneDiskWritten ==
    ASSUME Inv, NEW n \in Nodes, Step(n)
    PROVE  UNCHANGED disk \/ \E d \in Disks : WritesOnly(n, d)
<1>1. TypeOK /\ Carried(n) /\ Holds(n)
  BY DEF Inv, TypeInv
<1>2. CASE TruncateClaim(n)
  <2> DEFINE d == bay[n][task[n].slot]
  <2>1. task[n].slot \in Slots /\ d # NoDisk /\ disk[d].esp.present
    BY <1>1, <1>2 DEF TruncateClaim, OpensEsp, Carried, ClaimsASlot
  <2>2. d \in Disks /\ Behind(n, d)
    BY <1>1, <2>1 DEF TypeOK, MaybeDisk, Behind
  <2>3. WritesOnly(n, d)
    BY <1>1, <1>2, <2>1, <2>2, ClaimOnlyWrites, ConstantTypes DEF TruncateClaim
  <2> QED
    BY <2>2, <2>3
<1>3. CASE WriteClaim(n) \/ (PowerOff(n) /\ pc[n] = "write")
  <2>1. pc[n] = "write" /\ \E name \in {task[n].held, NoNode, n} : SetClaim(task[n].disk, name)
    BY <1>3 DEF WriteClaim, PowerOff
  <2>2. {task[n].held, NoNode, n} \subseteq Names
    BY <1>1, ConstantTypes DEF TypeOK, Tasks
  <2>3. /\ task[n].disk \in Disks /\ disk[task[n].disk].esp.present
        /\ Behind(n, task[n].disk)
    BY <1>1, <2>1 DEF Carried, WritesToAnEsp, Holds, WritesBehind
  <2> QED
    BY <1>1, <2>1, <2>2, <2>3, ClaimOnlyWrites
<1>4. CASE LayTable(n)
  <2> DEFINE d == bay[n][out[n].drive]
  <2>1. d \in Disks /\ Behind(n, d)
    BY <1>1, <1>4 DEF LayTable, MayFlowOver, Carried, OfferHasNoEsp, Behind
  <2>2. disk[d] \in Drives
    BY <1>1, <2>1 DEF TypeOK
  <2>3. WritesOnly(n, d)
    BY <1>1, <1>4, <2>1, <2>2, LayTableDoes DEF WritesOnly, TypeOK
  <2> QED
    BY <2>1, <2>3
<1>5. CASE LaySlab(n)
  <2>1. target[n] \in Disks /\ Behind(n, target[n])
    BY <1>1, <1>5, BootAssumption
       DEF LaySlab, Carried, FlowsToADisk, Holds, TargetHolds, Here
  <2>2. disk[target[n]] \in Drives
    BY <1>1, <2>1 DEF TypeOK
  <2>3. WritesOnly(n, target[n])
    BY <1>1, <1>5, <2>1, <2>2 DEF LaySlab, WritesOnly, Drives, TypeOK
  <2> QED
    BY <2>1, <2>3
<1>6. ASSUME Zeroboot(n) PROVE UNCHANGED disk
  BY <1>6 DEF Zeroboot, CannotList, ListDrives, LookAtNext, DecideBootLocal, DecideAsk
<1>7. ASSUME Claiming(n) PROVE TruncateClaim(n) \/ WriteClaim(n) \/ UNCHANGED disk
  BY <1>7 DEF Claiming, ClaimNotWritten, ClaimCutShort
<1>8. ASSUME Stormblock(n) PROVE LayTable(n) \/ LaySlab(n) \/ UNCHANGED disk
  BY <1>8 DEF Stormblock, BootLocal, BootFromAppliance, FlowDone
<1>9. ASSUME Operator(n) PROVE UNCHANGED disk
  BY <1>9 DEF Operator, Claim
<1>10. ASSUME World(n) PROVE (PowerOff(n) /\ pc[n] = "write") \/ UNCHANGED disk
  BY <1>10 DEF World, PowerOn, PowerOff, MoveDisk
<1> QED
  BY <1>2, <1>3, <1>4, <1>5, <1>6, <1>7, <1>8, <1>9, <1>10 DEF Step

LEMMA RemotesKept ==
    ASSUME Inv, NEW n \in Nodes, Step(n)
    PROVE  \A d \in Disks : disk'[d].remote = disk[d].remote
  BY OneDiskWritten DEF WritesOnly

\* A disk of this chassis is behind no other machine.
LEMMA Alone ==
    ASSUME Apart(disk, bay), NEW n \in Nodes, NEW m \in Nodes, NEW d,
           Here(n, d), Behind(m, d)
    PROVE  n = m
<1>1. d # NoDisk
  BY BootAssumption DEF Here
<1>2. PICK s \in Slots, t \in Slots : bay[n][s] = d /\ bay[m][t] = d
  BY DEF Here, Behind
<1> QED
  BY <1>1, <1>2 DEF Apart, Here

\* It stays as it is, whatever the others do.
LEMMA HereKept ==
    ASSUME Inv, NEW n \in Nodes, NEW m \in Nodes \ {n}, Step(m), NEW d, Here(n, d),
           bay'[n] = bay[n]
    PROVE  disk'[d] = disk[d] /\ Here(n, d)'
<1>1. ~Behind(m, d)
  BY Alone DEF Inv
<1>2. disk'[d] = disk[d]
  BY <1>1, OneDiskWritten DEF WritesOnly, Here
<1> QED
  BY <1>2 DEF Here, Behind

-----------------------------------------------------------------------------
\* Disks stay apart: a machine's names are dealt out anew among its own disks,
\* and a disk leaves one chassis for the other.
LEMMA ApartKept ==
    ASSUME Inv, NEW n \in Nodes, Step(n)
    PROVE  Apart(disk, bay)'
<1>1. Apart(disk, bay) /\ bay \in [Nodes -> [Slots -> MaybeDisk]]
  BY DEF Inv, TypeInv, TypeOK
<1>2. \A d \in Disks : disk'[d].remote = disk[d].remote
  BY RemotesKept
<1>3. CASE UNCHANGED bay
  BY <1>1, <1>2, <1>3 DEF Apart, MaybeDisk
<1>4. CASE PowerOn(n)
  <2>1. PICK f \in Permutations : bay' = [bay EXCEPT ![n] = [s \in Slots |-> bay[n][f[s]]]]
    BY <1>4 DEF PowerOn
  <2>2. /\ \A s \in Slots : f[s] \in Slots /\ bay'[n][s] = bay[n][f[s]]
        /\ \A s, t \in Slots : f[s] = f[t] => s = t
        /\ \A m \in Nodes \ {n} : bay'[m] = bay[m]
    BY <1>1, <2>1 DEF Permutations
  <2> QED
    BY <1>1, <1>2, <2>2 DEF Apart, MaybeDisk
<1>5. ASSUME NEW m \in Nodes, NEW s \in Slots, NEW t \in Slots, MoveDisk(n, s, m, t)
      PROVE  Apart(disk, bay)'
  <2> DEFINE d == bay[n][s]
  <2>1. n # m /\ d \in Disks /\ ~disk[d].remote /\ disk' = disk
    BY <1>1, <1>5 DEF MoveDisk, MaybeDisk
  <2>2. \A k \in Nodes, i \in Slots :
           bay'[k][i] = IF k = n /\ i = s THEN NoDisk
                        ELSE IF k = m /\ i = t THEN d ELSE bay[k][i]
    BY <1>1, <1>5, <2>1 DEF MoveDisk
  <2>3. \A k \in Nodes, i \in Slots : bay[k][i] = d => k = n /\ i = s
    BY <1>1, <2>1, BootAssumption DEF Apart
  <2> HIDE DEF d
  <2> QED
    BY <1>1, <2>1, <2>2, <2>3 DEF Apart
<1>6. \/ UNCHANGED bay \/ PowerOn(n)
      \/ \E m \in Nodes, s \in Slots, t \in Slots : MoveDisk(n, s, m, t)
  BY DEF Step, Zeroboot, CannotList, ListDrives, LookAtNext, DecideBootLocal, DecideAsk,
         Claiming, ClaimNotWritten, TruncateClaim, WriteClaim, ClaimCutShort,
         Stormblock, BootLocal, BootFromAppliance, LayTable, LaySlab, FlowDone,
         Operator, Claim, World, PowerOff
<1> QED
  BY <1>3, <1>4, <1>5, <1>6

-----------------------------------------------------------------------------
(***************************************************************************)
(* What holds of a machine survives the steps of the others, and its own.  *)
(***************************************************************************)
LEMMA OffHolds ==
    ASSUME Inv, NEW n \in Nodes, pc[n] = "off", Still(n)
    PROVE  Holds(n)'
<1>1. Carried(n) /\ Holds(n)
  BY DEF Inv, TypeInv
<1>2. out[n] = Silent /\ root[n] = NoDisk /\ target[n] = NoDisk
  BY <1>1 DEF Carried, Quiet, Holds, RootHolds, TargetHolds
<1>3. Silent.action = "none"
  BY DEF Silent
<1> QED
  BY <1>2, <1>3 DEF Still, Holds, KnowsItself, SeenHolds, ToldHolds, RootHolds,
                    TargetHolds, WritesBehind

LEMMA OthersHold ==
    ASSUME Inv, NEW n \in Nodes, NEW m \in Nodes \ {n}, Step(m), Still(n)
    PROVE  Holds(n)'
<1>1. TypeOK /\ Carried(n) /\ Holds(n)
  BY DEF Inv, TypeInv
<1>2. KnowsItself(n)'
  BY <1>1 DEF Still, Holds, KnowsItself
<1>3. CASE pc[n] = "off"
  BY <1>3, OffHolds
<1>4. CASE pc[n] # "off"
  <2>1. bay'[n] = bay[n]
    BY <1>4 DEF Still
  <2>2. \A d : Here(n, d) => disk'[d] = disk[d] /\ Here(n, d)'
    BY <2>1, HereKept
  <2>3. \A d : Here(n, d) /\ ClaimAllows(n, d) => ClaimAllows(n, d)'
    BY <2>2 DEF ClaimAllows, Still
  <2>4. \A d : Here(n, d) /\ BlankMeans(d) => BlankMeans(d)'
    BY <2>2 DEF BlankMeans, Untouched
  <2>5. SeenHolds(n)'
    <3> SUFFICES ASSUME pc[n] = "look", NEW s \in Slots
                 PROVE  /\ seen[n][s].verdict.kind = "Mine" =>
                               Here(n, bay[n][s])' /\ ClaimAllows(n, bay[n][s])'
                        /\ seen[n][s].verdict.kind = "Blank" =>
                               Here(n, bay[n][s])' /\ BlankMeans(bay[n][s])'
      BY DEF SeenHolds, Still
    <3>1. bay'[n][s] = bay[n][s]
      BY <2>1
    <3> QED
      BY <1>1, <2>2, <2>3, <2>4, <3>1
         DEF Holds, SeenHolds, Here, Behind, ClaimAllows, BlankMeans
  <2>6. ToldHolds(n)'
    <3>1. bay'[n][out'[n].drive] = bay[n][out[n].drive]
      BY <2>1 DEF Still
    <3> QED
      BY <1>1, <2>2, <2>3, <2>4, <3>1
         DEF Holds, ToldHolds, Still, Here, Behind, ClaimAllows, BlankMeans
  <2>7. RootHolds(n)'
    BY <1>1, <2>2, <2>3 DEF Holds, RootHolds, Still, Here, Behind, ClaimAllows
  <2>8. TargetHolds(n)'
    BY <1>1, <2>2 DEF Holds, TargetHolds, Still, Here, Behind
  <2>9. WritesBehind(n)'
    BY <1>1, <2>1 DEF Holds, WritesBehind, Still, Behind
  <2> QED
    BY <1>2, <2>5, <2>6, <2>7, <2>8, <2>9 DEF Holds
<1> QED
  BY <1>3, <1>4

\* What a look concludes, of a disk whose transport is read.
LEMMA LookHolds ==
    ASSUME Site("transport") \notin Faulty, Inv, NEW n \in Nodes, KnowsItself(n),
           pc[n] = "look", NEW d \in Disks, Behind(n, d), NEW f \in Failing(Sites),
           Miss(n, f), UNCHANGED disk
    PROVE  LET kind == LookAt(d, me[n], f).verdict.kind
           IN  /\ kind = "Mine" => Here(n, d) /\ ClaimAllows(n, d)'
               /\ kind = "Blank" => Here(n, d) /\ BlankMeans(d)
<1>1. /\ disk[d] \in Drives /\ TableInSight(disk[d])
      /\ missed \in [Nodes -> SUBSET Faulty]
  BY DEF Inv, TypeInv, TypeOK, TablesInSight
<1>2. f \subseteq Faulty /\ Site("transport") \notin f /\ missed'[n] = missed[n] \cup f
  BY <1>1 DEF Failing, Miss
<1>3. LookAt(d, me[n], f).verdict = Judge(disk[d], me[n], f)
  BY DEF LookAt
<1>4. ASSUME Judge(disk[d], me[n], f).kind = "Mine"
      PROVE  Here(n, d) /\ ClaimAllows(n, d)'
  <2>1. ~RemoteRead(disk[d], f) /\ ~ClaimedByAnother(EspRead(disk[d], f), me[n])
    BY <1>1, <1>4, JudgedMine
  <2>2. Here(n, d)
    BY <1>2, <2>1 DEF RemoteRead, Here
  <2>3. ASSUME (EspReads \cup {Site("identity")}) \cap missed'[n] = {}
        PROVE  disk[d].esp.claim \in {NoNode, n}
    <3>1. me[n] = n /\ EspReads \cap f = {}
      BY <1>1, <1>2, <2>3 DEF KnowsItself
    <3>2. EspRead(disk[d], f).claim = disk[d].esp.claim
      BY <1>1, <3>1, ClaimReadAsItIs
    <3> QED
      BY <2>1, <3>1, <3>2, NoNodeAssumption DEF ClaimedByAnother
  <2> QED
    BY <2>2, <2>3 DEF ClaimAllows
<1>5. ASSUME Judge(disk[d], me[n], f).kind = "Blank"
      PROVE  Here(n, d) /\ BlankMeans(d)
  <2>1. ~RemoteRead(disk[d], f)
    BY <1>1, <1>5, JudgedBlank
  <2>2. Site("removable") \notin Faulty => Untouched(disk[d])
    BY <1>1, <1>2, <1>5, JudgedBlank
  <2> QED
    BY <1>2, <2>1, <2>2 DEF RemoteRead, Here, BlankMeans
<1> QED
  BY <1>3, <1>4, <1>5

LEMMA ZerobootHolds ==
    ASSUME Site("transport") \notin Faulty, Inv, NEW n \in Nodes, Zeroboot(n)
    PROVE  Holds(n)'
<1> USE DEF Goto
<1>1. TypeOK /\ Carried(n) /\ Holds(n)
  BY DEF Inv, TypeInv
<1>2. /\ UNCHANGED <<disk, bay, root, target>>
      /\ pc[n] \in {"list", "look"} /\ pc'[n] \in {"look", "claim", "init"}
  BY <1>1 DEF Zeroboot, CannotList, ListDrives, LookAtNext, DecideBootLocal, DecideAsk,
              Surveyed, TypeOK
<1>3. missed[n] \subseteq missed'[n]
  <2>1. \A f : Miss(n, f) => missed[n] \subseteq missed'[n]
    BY <1>1 DEF Miss, TypeOK
  <2>2. missed' = missed \/ \E f : Miss(n, f)
    BY DEF Zeroboot, CannotList, ListDrives, LookAtNext, DecideBootLocal, DecideAsk
  <2> QED
    BY <2>1, <2>2
<1>4. \A d : ClaimAllows(n, d) => ClaimAllows(n, d)'
  BY <1>2, <1>3 DEF ClaimAllows
<1>5. RootHolds(n)' /\ TargetHolds(n)' /\ WritesBehind(n)'
  BY <1>1, <1>2, <1>4 DEF Holds, RootHolds, TargetHolds, WritesBehind, Here, Behind, ClaimAllows
<1>6. CASE CannotList(n)
  <2>1. pc'[n] = "init" /\ out'[n].action = "error"
    BY <1>1, <1>6 DEF CannotList, TypeOK
  <2> QED
    BY <1>5, <2>1 DEF Holds, KnowsItself, SeenHolds, ToldHolds
<1>7. CASE ListDrives(n)
  <2>1. /\ out'[n].action = "none"
        /\ \A s \in Slots : seen'[n][s].verdict.kind = "Absent"
    BY <1>1, <1>7 DEF ListDrives, Carried, Quiet, SeenBySurvey, Silent, NotSeen, Of
  <2>2. KnowsItself(n)'
    BY <1>1, <1>7 DEF ListDrives, Identity, Miss, KnowsItself, TypeOK
  <2> QED
    BY <1>5, <2>1, <2>2 DEF Holds, SeenHolds, ToldHolds
<1>8. CASE LookAtNext(n)
  <2>1. pc[n] = "look" /\ out'[n].action = "none" /\ me' = me
    BY <1>1, <1>8 DEF LookAtNext, Carried, Quiet, Silent
  <2>2. KnowsItself(n)' /\ ToldHolds(n)'
    BY <1>1, <1>3, <2>1 DEF Holds, KnowsItself, ToldHolds
  <2>3. SeenHolds(n)'
    <3>1. CASE UNCHANGED seen
      BY <1>1, <1>2, <1>4, <2>1, <3>1
         DEF Holds, SeenHolds, Here, Behind, BlankMeans, ClaimAllows
    <3>2. CASE bay[n][cursor[n]] # NoDisk
      <4>1. cursor[n] \in Slots
        BY <1>1, <1>8, SlotTypes DEF LookAtNext, Slots, TypeOK
      <4>2. PICK d \in Disks : d = bay[n][cursor[n]] /\ Behind(n, d)
        BY <1>1, <3>2, <4>1 DEF TypeOK, MaybeDisk, Behind
      <4>3. PICK f \in Failing(Sites) :
                seen' = [seen EXCEPT ![n][cursor[n]] = LookAt(d, me[n], f)] /\ Miss(n, f)
        BY <1>8, <3>2, <4>2 DEF LookAtNext
      <4>4. \A s \in Slots :
               seen'[n][s] = IF s = cursor[n] THEN LookAt(d, me[n], f) ELSE seen[n][s]
        <5>1. seen[n] \in [Slots -> Seen] /\ seen \in [Nodes -> [Slots -> Seen]]
          BY <1>1 DEF TypeOK
        <5> QED
          BY <4>1, <4>3, <5>1
      <4>5. LET kind == LookAt(d, me[n], f).verdict.kind
            IN  /\ kind = "Mine" => Here(n, d) /\ ClaimAllows(n, d)'
                /\ kind = "Blank" => Here(n, d) /\ BlankMeans(d)
        BY <1>1, <1>2, <2>1, <4>2, <4>3, LookHolds DEF Holds
      <4>6. \A s \in Slots :
               /\ seen'[n][s].verdict.kind = "Mine" =>
                      Here(n, bay[n][s]) /\ ClaimAllows(n, bay[n][s])'
               /\ seen'[n][s].verdict.kind = "Blank" =>
                      Here(n, bay[n][s]) /\ BlankMeans(bay[n][s])
        <5> TAKE s \in Slots
        <5>1. CASE s = cursor[n]
          BY <1>2, <4>2, <4>4, <4>5, <5>1 DEF ClaimAllows
        <5>2. CASE s # cursor[n]
          BY <1>1, <1>2, <1>4, <2>1, <4>4, <5>2 DEF Holds, SeenHolds, ClaimAllows
        <5> QED
          BY <5>1, <5>2
      <4> QED
        BY <1>2, <4>6 DEF SeenHolds, Here, Behind, BlankMeans, ClaimAllows
    <3> QED
      BY <1>8, <3>1, <3>2 DEF LookAtNext
  <2> QED
    BY <1>5, <2>2, <2>3 DEF Holds
<1>9. CASE DecideBootLocal(n) \/ DecideAsk(n)
  <2>1. pc[n] = "look" /\ pc'[n] # "look"
    BY <1>1, <1>9 DEF DecideBootLocal, DecideAsk, Surveyed, TypeOK
  <2>2. PICK i \in Intents(seen[n]) :
            out'[n] = [drive |-> i.drive,
                       action |-> IF i.kind = "AlreadyMine" THEN "boot-local"
                                                            ELSE "ask-appliance"]
    BY <1>1, <1>9 DEF DecideBootLocal, DecideAsk, TypeOK
  <2>3. /\ i.kind = "AlreadyMine" =>
              i.drive \in Slots /\ seen[n][i.drive].verdict.kind = "Mine"
        /\ i.kind # "AlreadyMine" =>
              \/ i.drive = NoDevice
              \/ i.drive \in Slots /\ seen[n][i.drive].verdict.kind = "Blank"
    BY <1>1, <2>2, IntentDrives DEF TypeOK
  <2> DEFINE d == bay[n][i.drive]
  <2>4. /\ i.kind = "AlreadyMine" => Here(n, d) /\ ClaimAllows(n, d)'
        /\ i.kind # "AlreadyMine" /\ i.drive # NoDevice => Here(n, d) /\ BlankMeans(d)
    BY <1>1, <1>2, <1>4, <2>1, <2>3 DEF Holds, SeenHolds, ClaimAllows
  <2>5. ToldHolds(n)'
    BY <1>2, <2>2, <2>4 DEF ToldHolds, Here, Behind, BlankMeans, ClaimAllows
  <2> QED
    BY <1>5, <2>1, <2>5 DEF Holds, KnowsItself, SeenHolds
<1> QED
  BY <1>6, <1>7, <1>8, <1>9 DEF Zeroboot

\* What a machine does to the disks by claiming one: no disk without an ESP
\* changes, and the only claims that appear are its own.
OwnClaim(n) ==
    \A e \in Disks :
        /\ disk'[e].remote = disk[e].remote
        /\ disk'[e].esp.claim = disk[e].esp.claim \/ disk'[e].esp.claim \in {NoNode, n}
        /\ disk[e].esp.present \/ disk'[e] = disk[e]

LEMMA SetClaimIsOwn ==
    ASSUME TypeOK, NEW n \in Nodes, NEW d \in Disks, disk[d].esp.present,
           NEW name \in {NoNode, n}, SetClaim(d, name)
    PROVE  OwnClaim(n)
<1>1. name \in Names
  BY ConstantTypes
<1>2. /\ \A e \in Disks \ {d} : disk'[e] = disk[e]
      /\ disk'[d] = [disk[d] EXCEPT !.esp.claim = name]
  BY <1>1, SetClaimDoes DEF TypeOK
<1>3. disk[d] \in Drives /\ disk[d].esp \in Esps
  BY DriveTypes DEF TypeOK
<1>4. disk'[d].esp = [disk[d].esp EXCEPT !.claim = name] /\ disk'[d].remote = disk[d].remote
  BY <1>2, <1>3 DEF Drives
<1>5. disk'[d].esp.claim = name
  BY <1>3, <1>4 DEF Esps, NoEsp
<1> QED
  BY <1>2, <1>4, <1>5 DEF OwnClaim

LEMMA ClaimingHolds ==
    ASSUME Inv, NEW n \in Nodes, Claiming(n)
    PROVE  Holds(n)'
<1>1. TypeOK /\ Carried(n) /\ Holds(n)
  BY DEF Inv, TypeInv
<1>2. /\ UNCHANGED <<bay, out, seen, me, root, target>>
      /\ pc[n] \in {"claim", "write"} /\ pc'[n] \in {"write", "init", "up"}
  BY <1>1 DEF Claiming, ClaimNotWritten, TruncateClaim, WriteClaim, ClaimCutShort,
              Goon, Goto, TypeOK, Tasks
<1>3. missed[n] \subseteq missed'[n]
  <2>1. \A f : Miss(n, f) => missed[n] \subseteq missed'[n]
    BY <1>1 DEF Miss, TypeOK
  <2>2. missed' = missed \/ \E f : Miss(n, f)
    BY DEF Claiming, ClaimNotWritten, TruncateClaim, WriteClaim, ClaimCutShort
  <2> QED
    BY <2>1, <2>2
<1>4. OwnClaim(n)
  <2>1. CASE TruncateClaim(n)
    <3>1. PICK d \in Disks : disk[d].esp.present /\ SetClaim(d, NoNode)
      BY <1>1, <2>1 DEF TruncateClaim, OpensEsp, Carried, ClaimsASlot, TypeOK, MaybeDisk
    <3> QED
      BY <1>1, <3>1, SetClaimIsOwn
  <2>2. CASE WriteClaim(n)
    BY <1>1, <2>2, SetClaimIsOwn DEF WriteClaim, Carried, WritesToAnEsp
  <2>3. CASE UNCHANGED disk
    BY <2>3 DEF OwnClaim
  <2> QED
    BY <2>1, <2>2, <2>3 DEF Claiming, ClaimNotWritten, ClaimCutShort
<1>5. ASSUME NEW d, Here(n, d), ClaimAllows(n, d)
      PROVE  Here(n, d)' /\ ClaimAllows(n, d)'
  BY <1>2, <1>3, <1>4, <1>5 DEF Here, Behind, ClaimAllows, OwnClaim
<1>6. RootHolds(n)'
  BY <1>1, <1>2, <1>5 DEF Holds, RootHolds, Here, Behind, ClaimAllows
<1>7. ToldHolds(n)'
  <2> DEFINE d == bay[n][out[n].drive]
  <2>1. out[n].action = "boot-local" => Here(n, d)' /\ ClaimAllows(n, d)'
    BY <1>1, <1>2, <1>5 DEF Holds, ToldHolds, Here, Behind, ClaimAllows
  <2>2. ASSUME out[n].action = "ask-appliance", out[n].drive # NoDevice
        PROVE  Here(n, d)' /\ BlankMeans(d)'
    <3>1. d \in Disks /\ disk'[d] = disk[d]
      BY <1>1, <1>4, <2>2 DEF Carried, OfferHasNoEsp, OwnClaim
    <3> QED
      BY <1>1, <1>2, <2>2, <3>1 DEF Holds, ToldHolds, Here, Behind, BlankMeans
  <2> QED
    BY <1>2, <2>1, <2>2 DEF ToldHolds
<1>8. TargetHolds(n)'
  BY <1>1, <1>2 DEF Holds, TargetHolds
<1>9. WritesBehind(n)'
  <2>1. CASE TruncateClaim(n)
    <3>1. task[n].slot \in Slots /\ task[n] \in Tasks
      BY <1>1, <2>1 DEF TruncateClaim, Carried, ClaimsASlot, TypeOK
    <3>2. task'[n].disk = bay[n][task[n].slot]
      BY <1>1, <2>1, <3>1 DEF TruncateClaim, TypeOK, Tasks
    <3> QED
      BY <1>2, <3>1, <3>2 DEF WritesBehind, Behind
  <2>2. CASE Goon(n)
    <3>1. pc'[n] # "write"
      BY <1>1, <2>2 DEF Goon, Goto, TypeOK, Tasks
    <3> QED
      BY <3>1 DEF WritesBehind
  <2> QED
    BY <2>1, <2>2 DEF Claiming, ClaimNotWritten, WriteClaim, ClaimCutShort
<1> QED
  BY <1>2, <1>6, <1>7, <1>8, <1>9 DEF Holds, KnowsItself, SeenHolds

LEMMA StormblockHolds ==
    ASSUME Inv, NEW n \in Nodes, Stormblock(n)
    PROVE  Holds(n)'
<1> USE DEF Goto
<1>1. TypeOK /\ Carried(n) /\ Holds(n)
  BY DEF Inv, TypeInv
<1>2. /\ UNCHANGED <<bay, missed>>
      /\ pc[n] \in {"init", "flow"} /\ pc'[n] \in {"up", "flow"}
  BY <1>1 DEF Stormblock, BootLocal, BootFromAppliance, LayTable, LaySlab, FlowDone, TypeOK
<1>3. KnowsItself(n)' /\ SeenHolds(n)' /\ WritesBehind(n)'
  BY <1>2 DEF KnowsItself, SeenHolds, WritesBehind
<1>4. Silent.action = "none" /\ NoEsp.claim = NoNode
  BY DEF Silent, NoEsp
<1>5. CASE BootLocal(n)
  <2>1. /\ root'[n] = bay[n][out[n].drive] /\ out'[n] = Silent /\ pc'[n] = "up"
        /\ disk' = disk /\ target' = target
    BY <1>1, <1>5 DEF BootLocal, TypeOK
  <2>2. Here(n, root'[n]) /\ ClaimAllows(n, root'[n])
    BY <1>1, <1>5, <2>1 DEF BootLocal, Holds, ToldHolds, ClaimAllows
  <2>3. RootHolds(n)'
    BY <1>2, <2>1, <2>2 DEF RootHolds, Here, Behind, ClaimAllows
  <2>4. TargetHolds(n)'
    BY <1>1, <1>5, <2>1 DEF BootLocal, Holds, TargetHolds
  <2> QED
    BY <1>3, <1>4, <2>1, <2>3, <2>4 DEF Holds, ToldHolds
<1>6. CASE BootFromAppliance(n)
  <2>1. /\ out'[n] = Silent /\ pc'[n] = "up" /\ pc[n] = "init"
        /\ UNCHANGED <<disk, root, target>>
    BY <1>1, <1>6 DEF BootFromAppliance, TypeOK
  <2>2. RootHolds(n)' /\ TargetHolds(n)'
    BY <1>1, <1>2, <2>1 DEF Holds, RootHolds, TargetHolds, Here, Behind, ClaimAllows
  <2> QED
    BY <1>3, <1>4, <2>1, <2>2 DEF Holds, ToldHolds
<1>7. CASE LayTable(n)
  <2>1. PICK d \in Disks : d = bay[n][out[n].drive] /\ Here(n, d)
    BY <1>1, <1>7 DEF LayTable, MayFlowOver, Holds, ToldHolds, Here
  <2>2. disk[d] \in Drives
    BY <1>1, <2>1 DEF TypeOK
  <2>3. /\ \A e \in Disks \ {d} : disk'[e] = disk[e]
        /\ disk'[d].esp = NoEsp /\ disk'[d].remote = disk[d].remote
    BY <1>1, <1>7, <2>1, LayTableDoes DEF TypeOK
  <2>4. target'[n] = d /\ out'[n] = Silent /\ pc'[n] = "flow" /\ root' = root
    BY <1>1, <1>7, <2>1 DEF LayTable, TypeOK
  <2>5. TargetHolds(n)'
    BY <1>2, <2>1, <2>3, <2>4 DEF TargetHolds, Here, Behind
  <2>6. RootHolds(n)'
    BY <1>1, <1>2, <1>4, <2>3, <2>4 DEF Holds, RootHolds, Here, Behind, ClaimAllows
  <2> QED
    BY <1>3, <1>4, <2>4, <2>5, <2>6 DEF Holds, ToldHolds
<1>8. CASE LaySlab(n)
  <2>1. target[n] \in Disks /\ disk[target[n]] \in Drives
    BY <1>1, <1>8 DEF LaySlab, Carried, FlowsToADisk, TypeOK
  <2>2. /\ \A e \in Disks \ {target[n]} : disk'[e] = disk[e]
        /\ disk'[target[n]].esp = disk[target[n]].esp
        /\ disk'[target[n]].remote = disk[target[n]].remote
    BY <1>1, <1>8, <2>1 DEF LaySlab, TypeOK, Drives
  <2>3. UNCHANGED <<out, root, target>> /\ pc'[n] = "flow" /\ pc[n] = "flow"
    BY <1>8 DEF LaySlab
  <2>4. RootHolds(n)' /\ TargetHolds(n)'
    BY <1>1, <1>2, <2>2, <2>3
       DEF Holds, RootHolds, TargetHolds, Here, Behind, ClaimAllows
  <2>5. ToldHolds(n)'
    BY <1>1, <1>4, <2>3 DEF Carried, Quiet, ToldHolds
  <2> QED
    BY <1>3, <2>4, <2>5 DEF Holds
<1>9. CASE FlowDone(n)
  <2>1. /\ root'[n] = target[n] /\ target'[n] = NoDisk /\ pc'[n] = "up"
        /\ pc[n] = "flow" /\ UNCHANGED <<disk, out>>
    BY <1>1, <1>9 DEF FlowDone, TypeOK
  <2>2. Here(n, target[n]) /\ disk[target[n]].esp = NoEsp
    BY <1>1, <2>1, BootAssumption DEF Carried, FlowsToADisk, Holds, TargetHolds
  <2>3. RootHolds(n)' /\ TargetHolds(n)'
    BY <1>2, <1>4, <2>1, <2>2 DEF RootHolds, TargetHolds, Here, Behind, ClaimAllows
  <2>4. ToldHolds(n)'
    BY <1>1, <1>2, <2>1
       DEF Holds, ToldHolds, Here, Behind, ClaimAllows, BlankMeans, Untouched
  <2> QED
    BY <1>3, <2>3, <2>4 DEF Holds
<1> QED
  BY <1>5, <1>6, <1>7, <1>8, <1>9 DEF Stormblock

LEMMA OperatorHolds ==
    ASSUME Inv, NEW n \in Nodes, Operator(n)
    PROVE  Holds(n)'
<1>1. TypeOK /\ Holds(n)
  BY DEF Inv, TypeInv
<1>2. /\ UNCHANGED <<disk, bay, out, root, target>>
      /\ pc[n] = "up" /\ pc'[n] = "claim" /\ missed[n] \subseteq missed'[n]
  <2>1. PICK s \in Slots, force \in BOOLEAN : Claim(n, s, force)
    BY DEF Operator
  <2>2. missed[n] \subseteq missed'[n]
    BY <1>1, <2>1, ClaimReads DEF TypeOK
  <2> QED
    BY <1>1, <2>1, <2>2 DEF Claim, Goto, TypeOK
<1>3. RootHolds(n)' /\ TargetHolds(n)'
  BY <1>1, <1>2 DEF Holds, RootHolds, TargetHolds, Here, Behind, ClaimAllows
<1>4. ToldHolds(n)'
  BY <1>1, <1>2 DEF Holds, ToldHolds, Here, Behind, ClaimAllows, BlankMeans, Untouched
<1> QED
  BY <1>2, <1>3, <1>4 DEF Holds, KnowsItself, SeenHolds, WritesBehind

LEMMA WorldHolds ==
    ASSUME Inv, NEW n \in Nodes, World(n)
    PROVE  Holds(n)'
<1>1. TypeOK /\ Carried(n) /\ Holds(n)
  BY DEF Inv, TypeInv
<1>2. CASE PowerOn(n) \/ PowerOff(n)
  <2>1. /\ pc'[n] \in {"list", "off"} /\ out'[n] = Silent
        /\ root'[n] = NoDisk /\ target'[n] = NoDisk
    BY <1>1, <1>2 DEF PowerOn, PowerOff, Goto, TypeOK, Carried, Quiet,
                      Holds, RootHolds, TargetHolds
  <2>2. Silent.action = "none"
    BY DEF Silent
  <2> QED
    BY <2>1, <2>2 DEF Holds, KnowsItself, SeenHolds, ToldHolds, RootHolds, TargetHolds,
                      WritesBehind
<1>3. ASSUME NEW m \in Nodes, NEW s \in Slots, NEW t \in Slots, MoveDisk(n, s, m, t)
      PROVE  pc[n] = "off" /\ Still(n)
  BY <1>3 DEF MoveDisk, Still
<1> QED
  BY <1>2, <1>3, OffHolds DEF World

-----------------------------------------------------------------------------
(***************************************************************************)
(* The invariant, and what follows from it.                                *)
(***************************************************************************)
LEMMA InitHolds == Init => Inv
<1> SUFFICES ASSUME Init PROVE Inv
  OBVIOUS
<1>1. TypeInv
  BY InitCarries
<1>2. Apart(disk, bay)
  BY BootAssumption DEF Init
<1>3. ASSUME NEW n \in Nodes PROVE Holds(n)
  <2>1. /\ pc[n] = "off" /\ out[n] = Silent /\ root[n] = NoDisk /\ target[n] = NoDisk
        /\ Silent.action = "none"
    BY DEF Init, Silent
  <2> QED
    BY <2>1 DEF Holds, KnowsItself, SeenHolds, ToldHolds, RootHolds, TargetHolds,
                WritesBehind
<1> QED
  BY <1>1, <1>2, <1>3 DEF Inv

LEMMA StepHolds ==
    ASSUME Site("transport") \notin Faulty
    PROVE  Inv /\ [Next]_vars => Inv'
<1> SUFFICES ASSUME Inv, [Next]_vars PROVE Inv'
  OBVIOUS
<1>1. TypeInv'
  BY StepCarries DEF Inv
<1>2. CASE Next
  <2>1. PICK n \in Nodes : Step(n)
    BY <1>2 DEF Next, Step
  <2>2. Apart(disk, bay)'
    BY <2>1, ApartKept
  <2>3. Holds(n)'
    BY <2>1, ZerobootHolds, ClaimingHolds, StormblockHolds, OperatorHolds, WorldHolds DEF Step
  <2>4. ASSUME NEW m \in Nodes \ {n} PROVE Holds(m)'
    <3>1. Still(m)
      BY <2>1, OthersStill DEF Inv, TypeInv, Step
    <3> QED
      BY <2>1, <3>1, OthersHold
  <2> QED
    BY <1>1, <2>2, <2>3, <2>4 DEF Inv
<1>3. CASE UNCHANGED vars
  <2>1. Apart(disk, bay)'
    BY <1>3 DEF vars, Inv, Apart
  <2>2. ASSUME NEW n \in Nodes PROVE Holds(n)'
    <3>1. Holds(n)
      BY DEF Inv
    <3>2. KnowsItself(n)' /\ WritesBehind(n)' /\ RootHolds(n)' /\ TargetHolds(n)'
      BY <1>3, <3>1 DEF vars, Holds, KnowsItself, WritesBehind, RootHolds, TargetHolds,
                        Here, Behind, ClaimAllows
    <3>3. SeenHolds(n)' /\ ToldHolds(n)'
      BY <1>3, <3>1 DEF vars, Holds, SeenHolds, ToldHolds, Here, Behind, ClaimAllows,
                        BlankMeans, Untouched
    <3> QED
      BY <3>2, <3>3 DEF Holds
  <2> QED
    BY <1>1, <2>1, <2>2 DEF Inv
<1> QED
  BY <1>2, <1>3

\* What every machine saw, was told, runs from and flows over onto stays true of
\* the disks, as long as the kernel says how each drive is attached.
THEOREM Invariance ==
    ASSUME Site("transport") \notin Faulty
    PROVE  Spec => []Inv
  BY InitHolds, StepHolds, PTL DEF Spec

\* Two nodes never run from, or flow over onto, one disk, whatever else fails,
\* as long as the kernel says how each drive is attached.
THEOREM OneWriter ==
    ASSUME Site("transport") \notin Faulty
    PROVE  Spec => []OneWriterPerDisk
<1>1. Inv => OneWriterPerDisk
  <2> SUFFICES ASSUME Inv, NEW n \in Nodes, NEW m \in Nodes, n # m,
                      NEW d \in InUse(n), d \in InUse(m)
               PROVE  FALSE
    BY DEF OneWriterPerDisk
  <2>1. Here(n, d) /\ Here(m, d)
    BY DEF Inv, Holds, RootHolds, TargetHolds, InUse
  <2> QED
    BY <2>1, Alone DEF Inv, Here
<1> QED
  BY <1>1, Invariance, PTL

\* A node that could read its own name and the ESPs never runs from a disk that
\* another has claimed: not even one claimed after it was surveyed.
THEOREM NotAnothers ==
    ASSUME Site("transport") \notin Faulty
    PROVE  Spec => []RootIsNotAnothers
<1>1. Inv => RootIsNotAnothers
  BY DEF Inv, Holds, RootHolds, ClaimAllows, RootIsNotAnothers
<1> QED
  BY <1>1, Invariance, PTL

\* The survey's judgement still holds when the flow-over acts on it: what it
\* formats is untouched, if the kernel also said which drives are removable.
THEOREM OnlyUntouched ==
    ASSUME Site("transport") \notin Faulty, Site("removable") \notin Faulty
    PROVE  Spec => FormatsOnlyUntouched
<1>1. Inv /\ [Next]_vars =>
        [\A n \in Nodes :
            pc[n] = "init" /\ pc'[n] = "flow" =>
                Untouched(disk[bay[n][out[n].drive]])]_vars
  <2> SUFFICES ASSUME Inv, Next, NEW n \in Nodes, pc[n] = "init", pc'[n] = "flow"
               PROVE  Untouched(disk[bay[n][out[n].drive]])
    BY DEF vars
  <2>1. PICK m \in Nodes : Step(m)
    BY DEF Next, Step
  <2>2. m = n
    BY <2>1, OthersStill DEF Inv, TypeInv, Step, Still
  <2>3. MayFlowOver(n)
    BY <2>1, <2>2 DEF Inv, TypeInv, TypeOK, Goto, Step,
         Zeroboot, CannotList, ListDrives, LookAtNext, DecideBootLocal, DecideAsk, Surveyed,
         Claiming, ClaimNotWritten, TruncateClaim, WriteClaim, ClaimCutShort,
         Stormblock, BootLocal, BootFromAppliance, LayTable, LaySlab, FlowDone,
         Operator, Claim, World, PowerOn, PowerOff, MoveDisk
  <2> QED
    BY <2>3 DEF MayFlowOver, Inv, Holds, ToldHolds, BlankMeans
<1> QED
  BY <1>1, Invariance, PTL DEF Spec, FormatsOnlyUntouched

-----------------------------------------------------------------------------
(***************************************************************************)
(* What a survey remembers of a disk of this chassis is what a look would  *)
(* still find, with no more failing than was missed.                       *)
(***************************************************************************)
Fresh(n) ==
    /\ pc[n] # "look" => cursor[n] = 1
    /\ \A s \in Slots :
          Here(n, bay[n][s]) /\ s < cursor[n] =>
              \E f \in SUBSET missed[n] : seen[n][s] = LookAt(bay[n][s], me[n], f)

FreshInv == Inv /\ \A n \in Nodes : Fresh(n)

\* With the survey done, every disk of this chassis has been looked at.
LEMMA SeenAsItIs ==
    ASSUME FreshInv, NEW n \in Nodes, Surveyed(n), NEW s \in Slots,
           Here(n, bay[n][s])
    PROVE  \E f \in SUBSET missed[n] : seen[n][s] = LookAt(bay[n][s], me[n], f)
<1>1. cursor[n] \in Nat /\ s \in Nat /\ s <= NumSlots /\ cursor[n] > NumSlots
  BY SlotTypes DEF FreshInv, Inv, TypeInv, TypeOK, Surveyed, Slots
<1>2. s < cursor[n]
  BY <1>1, SlotTypes
<1> QED
  BY <1>2 DEF FreshInv, Fresh

\* No name has been looked at yet.
LEMMA NothingSeen ==
    ASSUME NEW n \in Nodes, cursor[n] = 1
    PROVE  Fresh(n)
<1>1. \A s \in Slots : ~(s < cursor[n])
  BY SlotTypes DEF Slots
<1> QED
  BY <1>1 DEF Fresh

LEMMA OthersStayFresh ==
    ASSUME FreshInv, NEW n \in Nodes, NEW m \in Nodes \ {n}, Step(m), Still(n)
    PROVE  Fresh(n)'
<1>1. Fresh(n) /\ Inv
  BY DEF FreshInv
<1>2. CASE pc[n] # "look"
  BY <1>1, <1>2, NothingSeen DEF Still, Fresh, Slots
<1>3. CASE pc[n] = "look"
  <2>1. bay'[n] = bay[n]
    BY <1>3 DEF Still
  <2>2. ASSUME NEW s \in Slots, NEW d, d = bay[n][s], Here(n, d)', s < cursor[n]
        PROVE  \E f \in SUBSET missed'[n] : seen'[n][s] = LookAt(d, me[n], f)'
    <3>1. Here(n, d)
      BY <1>1, <2>1, <2>2, RemotesKept DEF Here, Behind
    <3>2. disk'[d] = disk[d]
      BY <1>1, <2>1, <3>1, HereKept
    <3>3. PICK f \in SUBSET missed[n] : seen[n][s] = LookAt(d, me[n], f)
      BY <1>1, <2>2, <3>1 DEF Fresh
    <3> QED
      BY <3>2, <3>3 DEF Still, LookAt
  <2> QED
    BY <1>1, <1>3, <2>1, <2>2 DEF Fresh, Still
<1> QED
  BY <1>2, <1>3

LEMMA LookStaysFresh ==
    ASSUME FreshInv, NEW n \in Nodes, LookAtNext(n)
    PROVE  Fresh(n)'
<1>1. TypeOK /\ Fresh(n)
  BY DEF FreshInv, Inv, TypeInv
<1> DEFINE c == cursor[n]
<1>2. /\ pc[n] = "look" /\ c \in Slots /\ cursor'[n] = c + 1
      /\ UNCHANGED <<disk, bay, pc, me>>
  BY <1>1, SlotTypes DEF LookAtNext, Slots, TypeOK
<1>3. missed[n] \subseteq missed'[n]
  <2>1. \A f : Miss(n, f) => missed[n] \subseteq missed'[n]
    BY <1>1 DEF Miss, TypeOK
  <2> QED
    BY <2>1 DEF LookAtNext
<1>4. ASSUME NEW s \in Slots, Here(n, bay[n][s]), s < c + 1
      PROVE  \E f \in SUBSET missed'[n] : seen'[n][s] = LookAt(bay[n][s], me[n], f)
  <2>1. bay[n][s] # NoDisk
    BY <1>4, BootAssumption DEF Here
  <2>2. CASE s = c
    <3>1. PICK f \in Failing(Sites) :
              /\ seen' = [seen EXCEPT ![n][c] = LookAt(bay[n][c], me[n], f)]
              /\ Miss(n, f)
      BY <2>1, <2>2 DEF LookAtNext
    <3>2. seen'[n][c] = LookAt(bay[n][c], me[n], f)
      BY <1>1, <1>2, <3>1 DEF TypeOK
    <3>3. f \subseteq missed'[n]
      BY <1>1, <3>1 DEF Miss, TypeOK
    <3> QED
      BY <2>2, <3>2, <3>3
  <2>3. CASE s # c
    <3>1. seen'[n][s] = seen[n][s]
      BY <1>1, <1>2, <2>3 DEF LookAtNext, TypeOK
    <3>2. s < c
      <4>1. s \in Nat /\ c \in Nat /\ s < c + 1 /\ s # c
        BY <1>2, <1>4, <2>3, SlotTypes
      <4> HIDE DEF c
      <4> QED
        BY <4>1
    <3> QED
      BY <1>1, <1>3, <1>4, <3>1, <3>2 DEF Fresh
  <2> QED
    BY <2>2, <2>3
<1> QED
  BY <1>2, <1>4 DEF Fresh, Here, Behind, LookAt

LEMMA OwnStaysFresh ==
    ASSUME FreshInv, NEW n \in Nodes, Step(n)
    PROVE  Fresh(n)'
<1>1. TypeOK /\ Fresh(n)
  BY DEF FreshInv, Inv, TypeInv
<1>2. ASSUME Forget(n) PROVE cursor'[n] = 1
  BY <1>1, <1>2 DEF Forget, TypeOK
<1>3. ASSUME Zeroboot(n) PROVE LookAtNext(n) \/ cursor'[n] = 1
  BY <1>1, <1>2, <1>3
     DEF Zeroboot, CannotList, ListDrives, DecideBootLocal, DecideAsk, Fresh
<1>4. ASSUME Claiming(n) \/ Stormblock(n) \/ Operator(n) PROVE cursor'[n] = 1
  BY <1>1, <1>4
     DEF Claiming, ClaimNotWritten, TruncateClaim, WriteClaim, ClaimCutShort,
         Stormblock, BootLocal, BootFromAppliance, LayTable, LaySlab, FlowDone,
         Operator, Claim, Fresh
<1>5. ASSUME World(n) PROVE cursor'[n] = 1
  BY <1>1, <1>2, <1>5 DEF World, PowerOn, PowerOff, MoveDisk, Fresh
<1>6. ASSUME cursor'[n] = 1 PROVE Fresh(n)'
  <2>1. \A s \in Slots : ~(s < cursor'[n])
    BY <1>6, SlotTypes DEF Slots
  <2> QED
    BY <1>6, <2>1 DEF Fresh
<1> QED
  BY <1>3, <1>4, <1>5, <1>6, LookStaysFresh DEF Step

LEMMA SameStaysFresh ==
    ASSUME FreshInv, UNCHANGED vars, NEW n \in Nodes
    PROVE  Fresh(n)'
  BY DEF FreshInv, vars, Fresh, Here, Behind, LookAt

\* Any step, by whoever takes it.
LEMMA StepStaysFresh ==
    ASSUME Site("transport") \notin Faulty
    PROVE  FreshInv /\ [Next]_vars => FreshInv'
<1> SUFFICES ASSUME FreshInv, [Next]_vars PROVE FreshInv'
  OBVIOUS
<1>1. Inv'
  BY StepHolds DEF FreshInv
<1>2. ASSUME NEW n \in Nodes PROVE Fresh(n)'
  <2>1. ASSUME NEW m \in Nodes \ {n}, Step(m) PROVE Fresh(n)'
    <3>1. Still(n)
      BY <2>1, OthersStill DEF FreshInv, Inv, TypeInv, Step
    <3> QED
      BY <2>1, <3>1, OthersStayFresh
  <2> QED
    BY <2>1, OwnStaysFresh, SameStaysFresh DEF Next, Step
<1> QED
  BY <1>1, <1>2 DEF FreshInv

LEMMA InitFresh == Init => FreshInv
<1> SUFFICES ASSUME Init PROVE FreshInv
  OBVIOUS
<1>1. \A n \in Nodes : cursor[n] = 1
  BY DEF Init
<1> QED
  BY <1>1, InitHolds, NothingSeen DEF FreshInv

-----------------------------------------------------------------------------
(***************************************************************************)
(* The claims are a ledger.  Without a LUN nobody else comes between the   *)
(* check of a claim and its write: what claim_on_boot saw unclaimed is     *)
(* unclaimed still, and so is what `zeroboot claim` found so.              *)
(***************************************************************************)
NoLuns == \A d \in Disks : ~disk[d].remote

Unclaimed(d) == d # NoDisk => disk[d].esp.claim = NoNode

Unforced(n) ==
    /\ pc[n] = "claim" /\ ~task[n].force => Unclaimed(bay[n][task[n].slot])
    /\ pc[n] = "write" => Unclaimed(task[n].disk)

LedgerInv == FreshInv /\ NoLuns /\ \A n \in Nodes : Unforced(n)

LEMMA OthersStayUnforced ==
    ASSUME LedgerInv, NEW n \in Nodes, NEW m \in Nodes \ {n}, Step(m), Still(n)
    PROVE  Unforced(n)'
<1>1. TypeOK /\ Carried(n) /\ Holds(n) /\ Inv /\ Unforced(n)
  BY DEF LedgerInv, FreshInv, Inv, TypeInv
<1>2. CASE pc[n] \in {"claim", "write"}
  <2>1. bay'[n] = bay[n] /\ pc'[n] = pc[n] /\ task'[n] = task[n]
    BY <1>2 DEF Still
  <2>2. ASSUME NEW d \in Disks, Behind(n, d) PROVE disk'[d] = disk[d]
    BY <1>1, <2>1, <2>2, HereKept DEF LedgerInv, NoLuns, Here
  <2>3. pc[n] = "claim" => LET d == bay[n][task[n].slot]
                           IN  d # NoDisk => d \in Disks /\ Behind(n, d)
    BY <1>1 DEF Carried, ClaimsASlot, TypeOK, MaybeDisk, Behind
  <2>4. pc[n] = "write" => task[n].disk \in Disks /\ Behind(n, task[n].disk)
    BY <1>1 DEF Carried, WritesToAnEsp, Holds, WritesBehind
  <2> QED
    BY <1>1, <2>1, <2>2, <2>3, <2>4 DEF Unforced, Unclaimed
<1>3. CASE pc[n] \notin {"claim", "write"}
  BY <1>3 DEF Still, Unforced
<1> QED
  BY <1>2, <1>3

\* claim_on_boot claims what the survey, and so the drive, shows unclaimed.
LEMMA BootClaimsUnclaimed ==
    ASSUME LedgerInv, EspReads \cap Faulty = {}, NEW n \in Nodes, DecideBootLocal(n)
    PROVE  Unforced(n)'
<1>1. TypeOK /\ Holds(n)
  BY DEF LedgerInv, FreshInv, Inv, TypeInv
<1>2. PICK i \in Intents(seen[n]) :
          /\ i.kind = "AlreadyMine"
          /\ \/ /\ seen[n][i.drive].esp.claim = NoNode
                /\ task' = [task EXCEPT ![n] = [@ EXCEPT !.slot = i.drive, !.then = "init"]]
                /\ pc' = [pc EXCEPT ![n] = "claim"]
             \/ pc' = [pc EXCEPT ![n] = "init"]
  BY DEF DecideBootLocal, WillClaim, Goto
<1> DEFINE d == bay[n][i.drive]
<1>3. i.drive \in Slots /\ Here(n, d) /\ UNCHANGED <<disk, bay>>
  <2>1. i.drive \in Slots /\ seen[n][i.drive].verdict.kind = "Mine"
    BY <1>1, <1>2, IntentDrives DEF TypeOK
  <2>2. pc[n] = "look" /\ UNCHANGED <<disk, bay>>
    BY DEF DecideBootLocal, Surveyed
  <2> QED
    BY <1>1, <2>1, <2>2 DEF Holds, SeenHolds
<1>4. PICK f \in SUBSET missed[n] : seen[n][i.drive] = LookAt(d, me[n], f)
  BY <1>3, SeenAsItIs DEF LedgerInv, DecideBootLocal
<1>5. seen[n][i.drive].esp.claim = disk[d].esp.claim
  <2>1. f \cap EspReads = {}
    BY <1>1, <1>4 DEF TypeOK
  <2>2. disk[d] \in Drives
    BY <1>1, <1>3 DEF TypeOK, Here
  <2>3. EspRead(disk[d], f).claim = disk[d].esp.claim
    BY <2>1, <2>2, ClaimReadAsItIs
  <2> HIDE DEF d
  <2> QED
    BY <1>4, <2>3 DEF LookAt
<1>6. CASE pc'[n] = "claim"
  <2>1. seen[n][i.drive].esp.claim = NoNode /\ task'[n].slot = i.drive
    <3>1. /\ seen[n][i.drive].esp.claim = NoNode
          /\ task' = [task EXCEPT ![n] = [@ EXCEPT !.slot = i.drive, !.then = "init"]]
      BY <1>1, <1>2, <1>6 DEF TypeOK
    <3>2. task[n] \in Tasks /\ task'[n] = [task[n] EXCEPT !.slot = i.drive, !.then = "init"]
      BY <1>1, <3>1 DEF TypeOK
    <3>3. task'[n].slot = i.drive
      BY <3>2 DEF Tasks
    <3> QED
      BY <3>1, <3>3
  <2> QED
    BY <1>3, <1>5, <1>6, <2>1 DEF Unforced, Unclaimed
<1>7. CASE pc'[n] = "init"
  BY <1>7 DEF Unforced
<1> QED
  BY <1>1, <1>2, <1>6, <1>7 DEF TypeOK

LEMMA OwnStaysUnforced ==
    ASSUME LedgerInv, EspReads \cap Faulty = {}, NEW n \in Nodes, Step(n)
    PROVE  Unforced(n)'
<1> USE DEF Goto
<1>1. TypeOK /\ Carried(n) /\ Holds(n)
  BY DEF LedgerInv, FreshInv, Inv, TypeInv
<1>2. CASE DecideBootLocal(n)
  BY <1>2, BootClaimsUnclaimed
<1>3. CASE TruncateClaim(n)
  <2> DEFINE d == bay[n][task[n].slot]
  <2>1. d \in Disks /\ disk[d].esp.present /\ SetClaim(d, NoNode) /\ task[n] \in Tasks
    BY <1>1, <1>3 DEF TruncateClaim, Carried, ClaimsASlot, OpensEsp, TypeOK, MaybeDisk
  <2>2. task'[n].disk = d /\ pc'[n] = "write"
    BY <1>1, <1>3, <2>1 DEF TruncateClaim, TypeOK, Tasks
  <2>3. disk'[d].esp.claim = NoNode
    <3>1. disk'[d] = [disk[d] EXCEPT !.esp.claim = NoNode]
      BY <1>1, <2>1, SetClaimDoes, ConstantTypes DEF TypeOK
    <3>2. disk[d] \in Drives /\ disk[d].esp \in Esps
      BY <1>1, <2>1, DriveTypes DEF TypeOK
    <3>3. disk'[d].esp = [disk[d].esp EXCEPT !.claim = NoNode]
      BY <3>1, <3>2 DEF Drives
    <3> QED
      BY <3>2, <3>3 DEF Esps, NoEsp
  <2> QED
    BY <2>2, <2>3 DEF Unforced, Unclaimed
<1>4. CASE Operator(n)
  <2>1. PICK s \in Slots, force \in BOOLEAN : Claim(n, s, force)
    BY <1>4 DEF Operator
  <2>2. task[n] \in Tasks /\ task'[n] = [task[n] EXCEPT !.slot = s, !.force = force]
    BY <1>1, <2>1 DEF Claim, TypeOK
  <2>3. task'[n].slot = s /\ task'[n].force = force
    BY <2>2 DEF Tasks
  <2>4. disk[bay[n][s]].esp.claim = NoNode \/ force
    <3>1. PICK f \in SUBSET (Faulty \cap {Site("record")}) :
              f = {} => disk[bay[n][s]].esp.claim = NoNode \/ force
      BY <1>1, <2>1, ClaimReads
    <3>2. f = {}
      BY <3>1 DEF EspReads
    <3> QED
      BY <3>1, <3>2
  <2> QED
    BY <1>1, <2>1, <2>3, <2>4 DEF Claim, TypeOK, Unforced, Unclaimed
<1>5. ASSUME Goon(n) PROVE Unforced(n)'
  <2>1. pc'[n] \in {"init", "up"}
    BY <1>1, <1>5 DEF Goon, TypeOK, Tasks
  <2> QED
    BY <2>1 DEF Unforced
<1>6. ASSUME Claiming(n) PROVE TruncateClaim(n) \/ Goon(n)
  BY <1>6 DEF Claiming, ClaimNotWritten, WriteClaim, ClaimCutShort
<1>7. ASSUME pc'[n] \notin {"claim", "write"} PROVE Unforced(n)'
  BY <1>7 DEF Unforced
<1>8. ASSUME Zeroboot(n) PROVE DecideBootLocal(n) \/ pc'[n] \notin {"claim", "write"}
  BY <1>1, <1>8 DEF Zeroboot, CannotList, ListDrives, LookAtNext, DecideAsk, TypeOK
<1>9. ASSUME Stormblock(n) \/ World(n) PROVE pc'[n] \notin {"claim", "write"}
  BY <1>1, <1>9 DEF Stormblock, BootLocal, BootFromAppliance, LayTable, LaySlab, FlowDone,
         World, PowerOn, PowerOff, MoveDisk, TypeOK
<1> QED
  BY <1>2, <1>3, <1>4, <1>5, <1>6, <1>7, <1>8, <1>9 DEF Step

LEMMA StepKeepsLedger ==
    ASSUME Site("transport") \notin Faulty, EspReads \cap Faulty = {}
    PROVE  LedgerInv /\ [Next]_vars => LedgerInv'
<1> SUFFICES ASSUME LedgerInv, [Next]_vars PROVE LedgerInv'
  OBVIOUS
<1>1. FreshInv'
  BY StepStaysFresh DEF LedgerInv
<1>2. NoLuns'
  BY RemotesKept DEF LedgerInv, FreshInv, NoLuns, Next, Step, vars
<1>3. ASSUME NEW n \in Nodes PROVE Unforced(n)'
  <2>1. ASSUME NEW m \in Nodes \ {n}, Step(m) PROVE Unforced(n)'
    <3>1. Still(n)
      BY <2>1, OthersStill DEF LedgerInv, FreshInv, Inv, TypeInv, Step
    <3> QED
      BY <2>1, <3>1, OthersStayUnforced
  <2>2. CASE UNCHANGED vars
    BY <2>2 DEF vars, LedgerInv, Unforced, Unclaimed
  <2> QED
    BY <2>1, <2>2, OwnStaysUnforced DEF Next, Step
<1> QED
  BY <1>1, <1>2, <1>3 DEF LedgerInv

\* The state of module Ownership.
Owner == [d \in Disks |-> disk[d].esp.claim]

Forced == {d \in Disks : \E n \in Nodes :
              task[n].force /\ \/ pc[n] = "write" /\ task[n].disk = d
                               \/ pc[n] = "claim" /\ bay[n][task[n].slot] = d}

LEMMA LedgerStarts == Init => Ledger!Init
<1> SUFFICES ASSUME Init PROVE Ledger!Init
  OBVIOUS
<1>1. \A d \in Disks : disk[d].esp.claim \in Nodes \cup {NoNode}
  BY InitTypes, ClaimType DEF TypeOK, Names
<1>2. \A n \in Nodes : pc[n] \notin {"claim", "write"}
  BY DEF Init
<1> QED
  BY <1>1, <1>2 DEF Ledger!Init

\* A claim that is struck or set is the ledger's only entry to change.
LEMMA ClaimIsEntry ==
    ASSUME TypeOK, NEW d \in Disks, disk[d].esp.present, NEW name \in Names,
           SetClaim(d, name)
    PROVE  Owner' = [Owner EXCEPT ![d] = name]
<1>1. /\ \A e \in Disks \ {d} : disk'[e] = disk[e]
      /\ disk'[d] = [disk[d] EXCEPT !.esp.claim = name]
  BY SetClaimDoes DEF TypeOK
<1>2. disk[d] \in Drives /\ disk[d].esp \in Esps
  BY DriveTypes DEF TypeOK
<1>3. disk'[d].esp = [disk[d].esp EXCEPT !.claim = name]
  BY <1>1, <1>2 DEF Drives
<1>4. disk'[d].esp.claim = name
  BY <1>2, <1>3 DEF Esps, NoEsp
<1> QED
  BY <1>1, <1>4 DEF Owner

LEMMA LedgerSteps ==
    ASSUME LedgerInv, Next
    PROVE  Ledger!Next
<1>1. TypeOK /\ TypeInv /\ \A n \in Nodes : Carried(n) /\ Unforced(n)
  BY DEF LedgerInv, FreshInv, Inv, TypeInv
<1>2. Forced' \in SUBSET Disks
  BY DEF Forced
<1>3. ASSUME UNCHANGED Owner PROVE Ledger!Next
  BY <1>2, <1>3 DEF Ledger!Next, Ledger!Force, Owner, Forced
<1>4. ASSUME NEW d \in Disks, disk[d].esp.claim = NoNode, disk[d].esp.present,
             NEW n \in Nodes, NEW name \in {NoNode, n}, SetClaim(d, name)
      PROVE  Ledger!Next
  <2>1. Owner' = [Owner EXCEPT ![d] = name]
    BY <1>1, <1>4, ClaimIsEntry, ConstantTypes
  <2>2. CASE name = NoNode
    BY <1>3, <1>4, <2>1, <2>2 DEF Owner
  <2>3. CASE name = n
    <3>1. Ledger!Record(d)
      BY <1>2, <1>4, <2>1, <2>3 DEF Ledger!Record, Owner, Forced
    <3> QED
      BY <3>1 DEF Ledger!Next
  <2> QED
    BY <2>2, <2>3
<1>5. ASSUME NEW n \in Nodes, TruncateClaim(n) PROVE Ledger!Next
  <2>1. PICK d \in Disks : /\ d = bay[n][task[n].slot] /\ disk[d].esp.present
                           /\ SetClaim(d, NoNode) /\ pc[n] = "claim"
    BY <1>1, <1>5 DEF TruncateClaim, Carried, ClaimsASlot, OpensEsp, TypeOK, MaybeDisk
  <2>2. CASE disk[d].esp.claim = NoNode
    BY <1>4, <2>1, <2>2
  <2>3. CASE disk[d].esp.claim # NoNode
    <3>1. task[n].force
      BY <1>1, <2>1, <2>3, BootAssumption DEF Unforced, Unclaimed, TypeOK, Tasks
    <3>2. d \in Forced
      BY <2>1, <3>1 DEF Forced
    <3>3. Owner' = [Owner EXCEPT ![d] = NoNode]
      BY <1>1, <2>1, ClaimIsEntry, ConstantTypes
    <3>4. Ledger!Strike(d)
      BY <1>2, <3>2, <3>3 DEF Ledger!Strike, Owner, Forced
    <3> QED
      BY <3>4 DEF Ledger!Next
  <2> QED
    BY <2>2, <2>3
<1>6. ASSUME NEW n \in Nodes, WriteClaim(n) \/ (PowerOff(n) /\ pc[n] = "write")
      PROVE  Ledger!Next
  <2>1. PICK name \in {task[n].held, NoNode, n} : SetClaim(task[n].disk, name)
    BY <1>6 DEF WriteClaim, PowerOff
  <2>2. PICK d \in Disks : /\ d = task[n].disk /\ disk[d].esp.present
                           /\ disk[d].esp.claim = NoNode
    BY <1>1, <1>6, BootAssumption
       DEF WriteClaim, Carried, WritesToAnEsp, Unforced, Unclaimed
  <2>3. CASE name \in {NoNode, n}
    BY <1>4, <2>1, <2>2, <2>3
  <2>4. CASE name \in Nodes
    <3>1. Owner' = [Owner EXCEPT ![d] = name]
      BY <1>1, <2>1, <2>2, <2>4, ClaimIsEntry, ConstantTypes
    <3>2. Ledger!Record(d)
      BY <1>2, <2>2, <2>4, <3>1 DEF Ledger!Record, Owner, Forced
    <3> QED
      BY <3>2 DEF Ledger!Next
  <2> QED
    BY <1>1, <2>1, <2>3, <2>4 DEF TypeOK, Tasks, Names
<1>7. ASSUME NEW n \in Nodes, LayTable(n) PROVE UNCHANGED Owner
  <2> DEFINE d == bay[n][out[n].drive]
  <2>1. d \in Disks /\ ~disk[d].esp.present
    BY <1>1, <1>7 DEF LayTable, MayFlowOver, Carried, OfferHasNoEsp
  <2>2. disk[d] \in Drives /\ disk[d].esp = NoEsp
    BY <1>1, <2>1, DriveTypes DEF TypeOK, Esps
  <2>3. \A e \in Disks : disk'[e].esp = disk[e].esp
    BY <1>1, <1>7, <2>1, <2>2, LayTableDoes DEF TypeOK
  <2> QED
    BY <2>3 DEF Owner
<1>8. ASSUME NEW n \in Nodes, LaySlab(n) PROVE UNCHANGED Owner
  <2>1. target[n] \in Disks /\ disk[target[n]] \in Drives
    BY <1>1, <1>8 DEF LaySlab, Carried, FlowsToADisk, TypeOK
  <2>2. \A e \in Disks : disk'[e].esp = disk[e].esp
    BY <1>1, <1>8, <2>1 DEF LaySlab, TypeOK, Drives
  <2> QED
    BY <2>2 DEF Owner
<1>9. PICK n \in Nodes : Step(n)
  BY DEF Next, Step
<1>10. \/ TruncateClaim(n) \/ WriteClaim(n) \/ (PowerOff(n) /\ pc[n] = "write")
       \/ LayTable(n) \/ LaySlab(n) \/ UNCHANGED disk
  BY <1>9 DEF Step, Zeroboot, CannotList, ListDrives, LookAtNext, DecideBootLocal, DecideAsk,
        Claiming, ClaimNotWritten, ClaimCutShort,
        Stormblock, BootLocal, BootFromAppliance, FlowDone,
        Operator, Claim, World, PowerOn, PowerOff, MoveDisk
<1>11. UNCHANGED disk => UNCHANGED Owner
  BY DEF Owner
<1> QED
  BY <1>3, <1>5, <1>6, <1>7, <1>8, <1>10, <1>11

\* With every ESP readable and no disk reached by two machines, the claims on
\* the disks are the ledger of module Ownership, through boots, moves, power
\* cuts and operators' claims: an owner on record goes only by force.
THEOREM LedgerKept ==
    ASSUME Site("transport") \notin Faulty, EspReads \cap Faulty = {},
           \A w \in Worlds, d \in Disks : ~w.disk[d].remote
    PROVE  Spec => ClaimsAreALedger
<1>1. Init => LedgerInv
  <2> SUFFICES ASSUME Init PROVE LedgerInv
    OBVIOUS
  <2>1. NoLuns
    BY DEF Init, NoLuns
  <2>2. \A n \in Nodes : Unforced(n)
    BY DEF Init, Unforced
  <2> QED
    BY <2>1, <2>2, InitFresh DEF LedgerInv
<1>2. LedgerInv /\ [Next]_vars => LedgerInv'
  BY StepKeepsLedger
<1>3. LedgerInv /\ [Next]_vars => [Ledger!Next]_<<Owner, Forced>>
  <2> SUFFICES ASSUME LedgerInv, [Next]_vars PROVE [Ledger!Next]_<<Owner, Forced>>
    OBVIOUS
  <2>1. CASE UNCHANGED vars
    BY <2>1 DEF vars, Owner, Forced
  <2> QED
    BY <2>1, LedgerSteps
<1>4. ClaimsAreALedger <=> Ledger!Init /\ [][Ledger!Next]_<<Owner, Forced>>
  BY DEF ClaimsAreALedger, Ledger!Spec, Owner, Forced
<1> QED
  BY <1>1, <1>2, <1>3, <1>4, LedgerStarts, PTL DEF Spec

-----------------------------------------------------------------------------
(***************************************************************************)
(* What a machine runs from is on record as its own: written by the boot   *)
(* that decided on it, or found there.                                     *)
(***************************************************************************)
Recorded(n) == (EspReads \cup {Site("claim"), Site("identity")}) \cap missed[n] = {}

OnRecord(n, d) == d # NoDisk /\ disk[d].esp.present => disk[d].esp.claim = n

\* The disk that a claim under way is for.
ClaimTarget(n) == IF pc[n] = "claim" THEN bay[n][task[n].slot] ELSE task[n].disk

AtClaim(n) == pc[n] \in {"claim", "write"}

\* A claim in a boot is for the drive that boots; one by hand is for another
\* than the machine runs from, as that one is its own already.
Recording(n) ==
    /\ ~AtClaim(n) => task[n].then = "up"
    /\ root[n] # NoDisk => pc[n] = "up" \/ AtClaim(n)
    /\ AtClaim(n) /\ task[n].then = "init" =>
          /\ root[n] = NoDisk /\ out[n].action = "boot-local"
          /\ ClaimTarget(n) = bay[n][out[n].drive]
    /\ Recorded(n) =>
          /\ OnRecord(n, root[n])
          /\ pc[n] = "init" /\ out[n].action = "boot-local" =>
                OnRecord(n, bay[n][out[n].drive])
          /\ AtClaim(n) /\ task[n].then = "up" /\ root[n] # NoDisk =>
                ClaimTarget(n) # root[n]

RecordInv == FreshInv /\ \A n \in Nodes : Recording(n)

LEMMA OthersStayRecorded ==
    ASSUME RecordInv, NEW n \in Nodes, NEW m \in Nodes \ {n}, Step(m), Still(n)
    PROVE  Recording(n)'
<1>1. TypeOK /\ Carried(n) /\ Holds(n) /\ Inv /\ Recording(n)
  BY DEF RecordInv, FreshInv, Inv, TypeInv
<1>2. CASE pc[n] = "off"
  BY <1>1, <1>2 DEF Still, Recording, Carried, Quiet, Silent, AtClaim, OnRecord
<1>3. CASE pc[n] # "off"
  <2>1. bay'[n] = bay[n]
    BY <1>3 DEF Still
  <2>2. ASSUME NEW d, Here(n, d) PROVE disk'[d] = disk[d]
    BY <1>1, <2>1, <2>2, HereKept
  <2>3. root[n] # NoDisk => Here(n, root[n])
    BY <1>1 DEF Holds, RootHolds
  <2>4. out[n].action = "boot-local" => Here(n, bay[n][out[n].drive])
    BY <1>1 DEF Holds, ToldHolds
  <2>5. OnRecord(n, root[n]) => OnRecord(n, root[n])'
    BY <2>2, <2>3 DEF OnRecord, Still
  <2>6. out[n].action = "boot-local" /\ OnRecord(n, bay[n][out[n].drive]) =>
            OnRecord(n, bay[n][out[n].drive])'
    BY <2>1, <2>2, <2>4 DEF OnRecord, Still
  <2>7. ClaimTarget(n)' = ClaimTarget(n)
    BY <2>1 DEF ClaimTarget, Still
  <2> QED
    BY <1>1, <2>1, <2>5, <2>6, <2>7 DEF Recording, Recorded, AtClaim, Still
<1> QED
  BY <1>2, <1>3

\* The boot that finds a drive of its own unclaimed goes on to claim it.
LEMMA DecisionIsRecorded ==
    ASSUME RecordInv, NEW n \in Nodes, DecideBootLocal(n)
    PROVE  Recording(n)'
<1>1. TypeOK /\ Holds(n) /\ Recording(n)
  BY DEF RecordInv, FreshInv, Inv, TypeInv
<1>2. PICK i \in Intents(seen[n]), f \in Failing({Site("identity")}) :
          /\ i.kind = "AlreadyMine"
          /\ out' = [out EXCEPT ![n] = [action |-> "boot-local", drive |-> i.drive]]
          /\ Miss(n, f)
          /\ IF WillClaim(n, i.drive, f)
             THEN task' = [task EXCEPT ![n] = [@ EXCEPT !.slot = i.drive, !.then = "init"]]
                  /\ pc' = [pc EXCEPT ![n] = "claim"]
             ELSE UNCHANGED task /\ pc' = [pc EXCEPT ![n] = "init"]
  BY DEF DecideBootLocal, Goto
<1>3. /\ i.drive \in Slots /\ seen[n][i.drive].verdict.kind = "Mine"
      /\ pc[n] = "look" /\ UNCHANGED <<disk, bay, root>>
  BY <1>1, <1>2, IntentDrives DEF DecideBootLocal, Surveyed, TypeOK
<1>4. PICK d \in Disks : d = bay[n][i.drive] /\ Here(n, d) /\ ClaimAllows(n, d)
  BY <1>1, <1>3 DEF Holds, SeenHolds, Here
<1>5. root[n] = NoDisk /\ out'[n] = [action |-> "boot-local", drive |-> i.drive]
  BY <1>1, <1>2, <1>3 DEF Recording, AtClaim, TypeOK
<1>6. CASE WillClaim(n, i.drive, f)
  <2>1. task[n] \in Tasks /\ task'[n] = [task[n] EXCEPT !.slot = i.drive, !.then = "init"]
    BY <1>1, <1>2, <1>6 DEF TypeOK
  <2>2. task'[n].slot = i.drive /\ task'[n].then = "init" /\ pc'[n] = "claim"
    BY <1>1, <1>2, <1>6, <2>1 DEF Tasks, TypeOK
  <2> QED
    BY <1>3, <1>5, <2>2 DEF Recording, AtClaim, ClaimTarget, OnRecord
<1>7. CASE ~WillClaim(n, i.drive, f)
  <2>1. pc'[n] = "init" /\ task' = task
    BY <1>1, <1>2, <1>7 DEF TypeOK
  <2>2. ASSUME Recorded(n)' PROVE OnRecord(n, d)
    <3>1. /\ missed'[n] = missed[n] \cup f
          /\ (EspReads \cup {Site("identity")}) \cap missed[n] = {}
          /\ Site("identity") \notin f
      BY <1>1, <1>2, <2>2 DEF Miss, Recorded, TypeOK
    <3>2. PICK g \in SUBSET missed[n] : seen[n][i.drive] = LookAt(d, me[n], g)
      BY <1>3, <1>4, SeenAsItIs DEF RecordInv, DecideBootLocal
    <3>3. EspRead(disk[d], g).claim = disk[d].esp.claim
      <4>1. EspReads \cap g = {}
        BY <3>1, <3>2
      <4> QED
        BY <1>1, <1>4, <4>1, ClaimReadAsItIs DEF TypeOK
    <3>4. disk[d].esp.claim # NoNode
      <4>1. seen[n][i.drive].esp.claim = disk[d].esp.claim
        BY <3>2, <3>3 DEF LookAt
      <4>2. Identity(n, f) # NoNode
        BY <3>1, NoNodeAssumption DEF Identity
      <4> QED
        BY <1>7, <4>1, <4>2 DEF WillClaim
    <3> QED
      BY <1>4, <3>1, <3>4 DEF ClaimAllows, OnRecord
  <2> QED
    BY <1>1, <1>3, <1>4, <1>5, <2>1, <2>2 DEF Recording, AtClaim, OnRecord
<1> QED
  BY <1>6, <1>7

\* What setting a claim changes of a disk's ESP.
LEMMA ClaimSet ==
    ASSUME TypeOK, NEW d \in Disks, disk[d].esp.present, NEW name \in Names,
           SetClaim(d, name)
    PROVE  /\ \A e \in Disks \ {d} : disk'[e] = disk[e]
           /\ disk'[d].esp.present /\ disk'[d].esp.claim = name
<1>1. /\ \A e \in Disks \ {d} : disk'[e] = disk[e]
      /\ disk'[d] = [disk[d] EXCEPT !.esp.claim = name]
  BY SetClaimDoes DEF TypeOK
<1>2. disk[d] \in Drives /\ disk[d].esp \in Esps
  BY DriveTypes DEF TypeOK
<1>3. disk'[d].esp = [disk[d].esp EXCEPT !.claim = name]
  BY <1>1, <1>2 DEF Drives
<1> QED
  BY <1>1, <1>2, <1>3 DEF Esps, NoEsp

\* A claim is truncated: the target is the same, and no machine runs from it.
LEMMA TruncateStaysRecorded ==
    ASSUME RecordInv, NEW n \in Nodes, TruncateClaim(n)
    PROVE  Recording(n)'
<1>1. TypeOK /\ Carried(n) /\ Holds(n) /\ Recording(n)
  BY DEF RecordInv, FreshInv, Inv, TypeInv
<1>2. PICK d \in Disks : /\ d = bay[n][task[n].slot] /\ disk[d].esp.present
                         /\ SetClaim(d, NoNode)
  BY <1>1 DEF TruncateClaim, Carried, ClaimsASlot, OpensEsp, TypeOK, MaybeDisk
<1>3. /\ pc[n] = "claim" /\ pc'[n] = "write"
      /\ UNCHANGED <<bay, out, root, missed>>
  BY <1>1 DEF TruncateClaim, Goto, TypeOK
<1>4. task'[n].disk = d /\ task'[n].then = task[n].then
  <2>1. /\ task[n] \in Tasks
        /\ task'[n] = [task[n] EXCEPT !.disk = d, !.held = disk[d].esp.claim]
    BY <1>1, <1>2 DEF TruncateClaim, TypeOK
  <2> QED
    BY <2>1 DEF Tasks
<1>5. \A e \in Disks \ {d} : disk'[e] = disk[e]
  BY <1>1, <1>2, ClaimSet, ConstantTypes
<1>6. ClaimTarget(n) = d /\ ClaimTarget(n)' = d
  BY <1>2, <1>3, <1>4 DEF ClaimTarget
<1>7. task[n].then \in {"init", "up"}
  BY <1>1 DEF TypeOK, Tasks
<1>8. CASE root[n] = NoDisk
  BY <1>1, <1>3, <1>4, <1>6, <1>8 DEF Recording, AtClaim, OnRecord
<1>9. CASE root[n] # NoDisk
  <2>1. task[n].then = "up" /\ root[n] \in Disks
    BY <1>1, <1>3, <1>7, <1>9 DEF Recording, AtClaim, TypeOK, MaybeDisk
  <2>2. Recorded(n) => OnRecord(n, root[n])' /\ d # root[n]
    BY <1>1, <1>3, <1>5, <1>6, <1>9, <2>1 DEF Recording, AtClaim, OnRecord
  <2> QED
    BY <1>1, <1>3, <1>4, <1>6, <2>1, <2>2 DEF Recording, Recorded, AtClaim
<1> QED
  BY <1>8, <1>9

\* It is written, or it is not and that is missed.
LEMMA GoonStaysRecorded ==
    ASSUME RecordInv, NEW n \in Nodes,
           ClaimNotWritten(n) \/ WriteClaim(n) \/ ClaimCutShort(n)
    PROVE  Recording(n)'
<1>1. TypeOK /\ Carried(n) /\ Holds(n) /\ Recording(n)
  BY DEF RecordInv, FreshInv, Inv, TypeInv
<1>2. /\ AtClaim(n) /\ pc'[n] = task[n].then /\ task[n].then \in {"init", "up"}
      /\ task'[n].then = "up" /\ UNCHANGED <<bay, out, root>>
  BY <1>1 DEF NoTask, ClaimNotWritten, WriteClaim, ClaimCutShort, Goon, Goto, AtClaim, TypeOK, Tasks
<1>3. Recorded(n)' => Recorded(n)
  <2>1. \A f : Miss(n, f) => missed[n] \subseteq missed'[n]
    BY <1>1 DEF Miss, TypeOK
  <2>2. missed' = missed \/ \E f : Miss(n, f)
    BY DEF ClaimNotWritten, WriteClaim, ClaimCutShort
  <2> QED
    BY <2>1, <2>2 DEF Recorded
<1>4. PICK d : d = ClaimTarget(n)
  OBVIOUS
<1>5. ASSUME Recorded(n)'
      PROVE  OnRecord(n, d)' /\ \A e \in Disks \ {d} : disk'[e] = disk[e]
  <2>1. CASE ClaimNotWritten(n)
    <3>1. PICK f \in Failing({Site("claim")}) : /\ OpensEsp(bay[n][task[n].slot]) => f # {}
                                                /\ missed'[n] = missed[n] \cup f
      BY <1>1, <2>1 DEF ClaimNotWritten, Miss, TypeOK
    <3>2. f = {}
      BY <1>5, <3>1 DEF Failing, Recorded
    <3>3. d = bay[n][task[n].slot] /\ disk' = disk
      BY <1>4, <2>1 DEF ClaimNotWritten, ClaimTarget
    <3> QED
      BY <3>1, <3>2, <3>3 DEF OpensEsp, OnRecord
  <2>2. CASE WriteClaim(n)
    <3>1. d = task[n].disk /\ d \in Disks /\ disk[d].esp.present /\ SetClaim(d, n)
      BY <1>1, <1>4, <2>2 DEF WriteClaim, ClaimTarget, Carried, WritesToAnEsp
    <3> QED
      BY <1>1, <3>1, ClaimSet, ConstantTypes DEF OnRecord
  <2>3. CASE ClaimCutShort(n)
    <3>1. Site("claim") \in missed'[n]
      BY <1>1, <2>3 DEF ClaimCutShort, Miss, TypeOK
    <3> QED
      BY <1>5, <3>1 DEF Recorded
  <2> QED
    BY <2>1, <2>2, <2>3
<1>6. CASE task[n].then = "init"
  <2>1. root[n] = NoDisk /\ d = bay[n][out[n].drive] /\ pc'[n] = "init"
    BY <1>1, <1>2, <1>4, <1>6 DEF Recording
  <2> QED
    BY <1>2, <1>5, <2>1 DEF Recording, AtClaim, OnRecord
<1>7. CASE task[n].then = "up"
  <2>1. pc'[n] = "up" /\ (root[n] = NoDisk \/ root[n] \in Disks)
    BY <1>1, <1>2, <1>7 DEF TypeOK, MaybeDisk
  <2>2. Recorded(n)' => OnRecord(n, root[n])'
    BY <1>1, <1>2, <1>3, <1>4, <1>5, <1>7, <2>1 DEF Recording, OnRecord
  <2> QED
    BY <1>2, <2>1, <2>2 DEF Recording, AtClaim
<1> QED
  BY <1>2, <1>6, <1>7

\* A claim by hand: not of the disk the machine runs from, which is its own, unless
\* its record could not be read.
LEMMA OperatorStaysRecorded ==
    ASSUME RecordInv, NEW n \in Nodes, Operator(n)
    PROVE  Recording(n)'
<1>1. TypeOK /\ Carried(n) /\ Holds(n) /\ Recording(n)
  BY DEF RecordInv, FreshInv, Inv, TypeInv
<1>2. PICK s \in Slots, force \in BOOLEAN : Claim(n, s, force)
  BY DEF Operator
<1>3. /\ pc[n] = "up" /\ pc'[n] = "claim" /\ OpensEsp(bay[n][s])
      /\ Recorded(n)' => Recorded(n) /\ disk[bay[n][s]].esp.claim # n
      /\ UNCHANGED <<disk, bay, out, root>>
  <2>1. Recorded(n)' => Recorded(n) /\ disk[bay[n][s]].esp.claim # n
    <3>1. PICK f \in SUBSET (Faulty \cap {Site("record")}) :
              /\ missed' = [missed EXCEPT ![n] = @ \cup f]
              /\ f = {} => disk[bay[n][s]].esp.claim # n
      BY <1>1, <1>2, ClaimReads
    <3>2. missed'[n] = missed[n] \cup f
      BY <1>1, <3>1 DEF TypeOK
    <3>3. f # {} => Site("record") \in missed'[n]
      BY <3>1, <3>2
    <3> QED
      BY <3>1, <3>2, <3>3 DEF Recorded, EspReads
  <2> QED
    BY <1>1, <1>2, <2>1 DEF Claim, Goto, TypeOK
<1>4. task'[n].slot = s /\ task'[n].then = "up"
  <2>1. task[n] \in Tasks /\ task'[n] = [task[n] EXCEPT !.slot = s, !.force = force]
    BY <1>1, <1>2 DEF Claim, TypeOK
  <2>2. task[n].then = "up"
    BY <1>1, <1>3 DEF Recording, AtClaim
  <2> QED
    BY <2>1, <2>2 DEF Tasks
<1>5. Recorded(n)' => bay[n][s] # root[n]
  BY <1>1, <1>3 DEF Recording, OnRecord, OpensEsp
<1> QED
  BY <1>1, <1>3, <1>4, <1>5 DEF Recording, Recorded, AtClaim, ClaimTarget, OnRecord

\* Init runs from what was told; a flow-over ends on a disk with no ESP.
LEMMA StormblockStaysRecorded ==
    ASSUME RecordInv, NEW n \in Nodes, Stormblock(n)
    PROVE  Recording(n)'
<1> USE DEF Goto
<1>1. TypeOK /\ Carried(n) /\ Holds(n) /\ Recording(n)
  BY DEF RecordInv, FreshInv, Inv, TypeInv
<1>2. /\ UNCHANGED <<bay, missed, task>>
      /\ pc[n] \in {"init", "flow"} /\ pc'[n] \in {"up", "flow"} /\ ~AtClaim(n)
      /\ root[n] = NoDisk /\ task[n].then = "up"
  BY <1>1 DEF Stormblock, BootLocal, BootFromAppliance, LayTable, LaySlab, FlowDone, TypeOK,
              Recording, AtClaim
<1>3. ASSUME root'[n] = NoDisk PROVE Recording(n)'
  BY <1>2, <1>3 DEF Recording, AtClaim, OnRecord
<1>4. CASE BootLocal(n)
  <2>1. /\ root'[n] = bay[n][out[n].drive] /\ pc'[n] = "up" /\ disk' = disk
        /\ pc[n] = "init" /\ out[n].action = "boot-local"
    BY <1>1, <1>4 DEF BootLocal, TypeOK
  <2>2. Recorded(n) => OnRecord(n, root'[n])
    BY <1>1, <2>1 DEF Recording, OnRecord
  <2> QED
    BY <1>2, <2>1, <2>2 DEF Recording, Recorded, AtClaim, OnRecord
<1>5. CASE FlowDone(n)
  <2>1. /\ root'[n] = target[n] /\ pc'[n] = "up" /\ disk' = disk /\ pc[n] = "flow"
    BY <1>1, <1>5 DEF FlowDone, TypeOK
  <2>2. target[n] # NoDisk => ~disk[target[n]].esp.present
    BY <1>1 DEF Holds, TargetHolds, NoEsp
  <2> QED
    BY <1>2, <2>1, <2>2 DEF Recording, Recorded, AtClaim, OnRecord
<1>6. ASSUME BootFromAppliance(n) \/ LayTable(n) \/ LaySlab(n) PROVE root'[n] = NoDisk
  BY <1>2, <1>6 DEF BootFromAppliance, LayTable, LaySlab
<1> QED
  BY <1>3, <1>4, <1>5, <1>6 DEF Stormblock

\* A machine that is not up runs from nothing.
LEMMA OffAndOnStaysRecorded ==
    ASSUME RecordInv, NEW n \in Nodes,
           \/ CannotList(n) \/ ListDrives(n) \/ LookAtNext(n) \/ DecideAsk(n)
           \/ World(n)
    PROVE  Recording(n)'
<1> USE DEF Goto
<1>1. TypeOK /\ Carried(n) /\ Holds(n) /\ Recording(n)
  BY DEF RecordInv, FreshInv, Inv, TypeInv
<1>2. ASSUME root'[n] = NoDisk, pc'[n] \notin {"claim", "write"}, task'[n].then = "up",
             out'[n].action # "boot-local"
      PROVE  Recording(n)'
  BY <1>2 DEF Recording, AtClaim, OnRecord
<1>3. ASSUME CannotList(n) \/ ListDrives(n) \/ LookAtNext(n) \/ DecideAsk(n)
      PROVE  Recording(n)'
  <2>1. /\ pc[n] \in {"list", "look"} /\ pc'[n] \in {"look", "init"}
        /\ UNCHANGED <<root, task>>
    BY <1>1, <1>3 DEF CannotList, ListDrives, LookAtNext, DecideAsk, Surveyed, TypeOK
  <2>2. out'[n].action # "boot-local"
    BY <1>1, <1>3, <2>1 DEF CannotList, ListDrives, LookAtNext, DecideAsk, Carried, Quiet,
                       Silent, TypeOK
  <2> QED
    BY <1>1, <1>2, <2>1, <2>2 DEF Recording, AtClaim
<1>4. CASE PowerOff(n)
  BY <1>1, <1>2, <1>4 DEF PowerOff, Silent, NoTask, TypeOK
<1>5. CASE PowerOn(n)
  <2>1. /\ pc[n] = "off" /\ pc'[n] = "list" /\ UNCHANGED <<root, task, out>>
    BY <1>1, <1>5 DEF PowerOn, TypeOK
  <2> QED
    BY <1>1, <1>2, <2>1 DEF Recording, AtClaim, Carried, Quiet, Silent
<1>6. ASSUME NEW m \in Nodes, NEW s \in Slots, NEW t \in Slots, MoveDisk(n, s, m, t)
      PROVE  Recording(n)'
  <2>1. /\ pc[n] = "off" /\ UNCHANGED <<pc, root, task, out>>
    BY <1>6 DEF MoveDisk
  <2> QED
    BY <1>1, <1>2, <2>1 DEF Recording, AtClaim, Carried, Quiet, Silent
<1> QED
  BY <1>3, <1>4, <1>5, <1>6 DEF World

LEMMA StepStaysRecorded ==
    ASSUME Site("transport") \notin Faulty
    PROVE  RecordInv /\ [Next]_vars => RecordInv'
<1> SUFFICES ASSUME RecordInv, [Next]_vars PROVE RecordInv'
  OBVIOUS
<1>1. FreshInv'
  BY StepStaysFresh DEF RecordInv
<1>2. ASSUME NEW n \in Nodes PROVE Recording(n)'
  <2>1. ASSUME NEW m \in Nodes \ {n}, Step(m) PROVE Recording(n)'
    <3>1. Still(n)
      BY <2>1, OthersStill DEF RecordInv, FreshInv, Inv, TypeInv, Step
    <3> QED
      BY <2>1, <3>1, OthersStayRecorded
  <2>2. CASE UNCHANGED vars
    BY <2>2 DEF vars, RecordInv, Recording, Recorded, OnRecord, AtClaim, ClaimTarget
  <2>3. ASSUME Step(n) PROVE Recording(n)'
    BY <2>3, OffAndOnStaysRecorded, DecisionIsRecorded, TruncateStaysRecorded,
       GoonStaysRecorded, StormblockStaysRecorded, OperatorStaysRecorded
       DEF Step, Zeroboot, Claiming
  <2> QED
    BY <2>1, <2>2, <2>3 DEF Next, Step
<1> QED
  BY <1>1, <1>2 DEF RecordInv

\* A machine that is up on a local disk with an ESP is on record there, unless
\* its name, the ESP or the write of the claim failed in this boot.
THEOREM BootsOnRecord ==
    ASSUME Site("transport") \notin Faulty
    PROVE  Spec => []BootedIsClaimed
<1>1. Init => RecordInv
  <2> SUFFICES ASSUME Init PROVE RecordInv
    OBVIOUS
  <2>1. \A n \in Nodes : Recording(n)
    BY DEF Init, Recording, AtClaim, OnRecord, NoTask, Silent
  <2> QED
    BY <2>1, InitFresh DEF RecordInv
<1>2. RecordInv => BootedIsClaimed
  BY DEF RecordInv, Recording, Recorded, OnRecord, BootedIsClaimed
<1> QED
  BY <1>1, <1>2, StepStaysRecorded, PTL DEF Spec

-----------------------------------------------------------------------------
(***************************************************************************)
(* What a node has flowed over onto stays as the flow-over left it, until  *)
(* another flow-over: nobody can claim a disk with no ESP.                 *)
(***************************************************************************)
LaidOutSoundly(d) ==
    author[d] # NoNode =>
        /\ disk[d].size > 0 /\ ~disk[d].removable /\ ~disk[d].remote
        /\ disk[d].head = "signature" /\ disk[d].esp = NoEsp

AuthorInv == FreshInv /\ \A d \in Disks : LaidOutSoundly(d)

LEMMA StepStaysSound ==
    ASSUME Site("transport") \notin Faulty, Site("removable") \notin Faulty
    PROVE  AuthorInv /\ [Next]_vars => AuthorInv'
<1> SUFFICES ASSUME AuthorInv, [Next]_vars PROVE AuthorInv'
  OBVIOUS
<1>1. FreshInv'
  BY StepStaysFresh DEF AuthorInv
<1>2. TypeOK /\ \A n \in Nodes : Carried(n) /\ Holds(n)
  BY DEF AuthorInv, FreshInv, Inv, TypeInv
<1>3. ASSUME UNCHANGED <<disk, author>>, NEW d \in Disks PROVE LaidOutSoundly(d)'
  BY <1>3 DEF AuthorInv, LaidOutSoundly
<1>4. ASSUME NEW e \in Disks, disk[e].esp.present, NEW name \in Names, SetClaim(e, name),
             UNCHANGED author, NEW d \in Disks
      PROVE  LaidOutSoundly(d)'
  <2>1. disk'[d] = disk[d] \/ (d = e /\ author[d] = NoNode)
    BY <1>2, <1>4, ClaimSet DEF AuthorInv, LaidOutSoundly, NoEsp
  <2> QED
    BY <1>4, <2>1 DEF AuthorInv, LaidOutSoundly
<1>5. ASSUME NEW n \in Nodes, LayTable(n), NEW d \in Disks PROVE LaidOutSoundly(d)'
  <2>1. PICK e \in Disks : e = bay[n][out[n].drive] /\ Untouched(disk[e])
    BY <1>2, <1>5
       DEF LayTable, MayFlowOver, Holds, ToldHolds, Here, BlankMeans
  <2>2. disk[e] \in Drives
    BY <1>2 DEF TypeOK
  <2>3. /\ \A x \in Disks \ {e} : disk'[x] = disk[x] /\ author'[x] = author[x]
        /\ disk'[e].size = disk[e].size /\ disk'[e].removable = disk[e].removable
        /\ disk'[e].remote = disk[e].remote /\ disk'[e].head = "signature"
        /\ disk'[e].esp = NoEsp
    <3>1. \A x \in Disks \ {e} : author'[x] = author[x]
      BY <1>2, <1>5, <2>1 DEF LayTable, TypeOK
    <3> QED
      BY <1>2, <1>5, <2>1, <3>1, LayTableDoes DEF TypeOK
  <2> QED
    BY <2>1, <2>3 DEF AuthorInv, LaidOutSoundly, Untouched
<1>6. ASSUME NEW n \in Nodes, LaySlab(n), NEW d \in Disks PROVE LaidOutSoundly(d)'
  <2>1. PICK e \in Disks : e = target[n] /\ disk[e] \in Drives
    BY <1>2, <1>6 DEF LaySlab, Carried, FlowsToADisk, TypeOK
  <2>2. /\ \A x \in Disks \ {e} : disk'[x] = disk[x]
        /\ disk'[e].size = disk[e].size /\ disk'[e].removable = disk[e].removable
        /\ disk'[e].remote = disk[e].remote /\ disk'[e].head = disk[e].head
        /\ disk'[e].esp = disk[e].esp /\ author' = author
    BY <1>2, <1>6, <2>1 DEF LaySlab, TypeOK, Drives
  <2> QED
    BY <2>1, <2>2 DEF AuthorInv, LaidOutSoundly
<1>7. ASSUME NEW n \in Nodes, Step(n), NEW d \in Disks PROVE LaidOutSoundly(d)'
  <2>1. CASE TruncateClaim(n)
    <3>1. PICK e \in Disks : e = bay[n][task[n].slot] /\ disk[e].esp.present
                             /\ SetClaim(e, NoNode)
      BY <1>2, <2>1 DEF TruncateClaim, Carried, ClaimsASlot, OpensEsp, TypeOK, MaybeDisk
    <3> QED
      BY <1>4, <2>1, <3>1, ConstantTypes DEF TruncateClaim
  <2>2. CASE WriteClaim(n) \/ (PowerOff(n) /\ pc[n] = "write")
    <3>1. PICK name \in {task[n].held, NoNode, n} : SetClaim(task[n].disk, name)
      BY <2>2 DEF WriteClaim, PowerOff
    <3>2. name \in Names /\ author' = author /\ pc[n] = "write"
      BY <1>2, <2>2, ConstantTypes DEF WriteClaim, PowerOff, TypeOK, Tasks
    <3> QED
      BY <1>2, <1>4, <3>1, <3>2 DEF Carried, WritesToAnEsp
  <2>3. \/ TruncateClaim(n) \/ WriteClaim(n) \/ (PowerOff(n) /\ pc[n] = "write")
        \/ LayTable(n) \/ LaySlab(n) \/ UNCHANGED <<disk, author>>
    BY <1>7 DEF Step, Zeroboot, CannotList, ListDrives, LookAtNext, DecideBootLocal,
        DecideAsk, Claiming, ClaimNotWritten, ClaimCutShort,
        Stormblock, BootLocal, BootFromAppliance, FlowDone,
        Operator, Claim, World, PowerOn, PowerOff, MoveDisk
  <2> QED
    BY <1>3, <1>5, <1>6, <2>1, <2>2, <2>3
<1> QED
  BY <1>1, <1>3, <1>7 DEF AuthorInv, Next, Step, vars

\* A look at a disk with a slab on it, from which nothing that was read failed.
LEMMA SlabSeen ==
    ASSUME NEW d \in Drives, d.size > 0, ~d.removable, ~d.remote, NEW who \in Names,
           ~ClaimedByAnother(d.esp, who), SlabProbes(d, {}) # {}
    PROVE  Judge(d, who, {}) = MineVerdict(d, FirstSlab(d, {}))
<1>1. ~ClaimedByAnother(EspRead(d, {}), who)
  BY ClaimReadAsItIs DEF ClaimedByAnother
<1>2. d.size # 0
  BY DriveTypes
<1> QED
  BY <1>1, <1>2 DEF Judge, JudgeSlab, SizeRead, RemovableRead, RemoteRead

\* A survey that missed nothing, and what it was of.
LEMMA SurveyOf ==
    ASSUME FreshInv, NEW n \in Nodes, Surveyed(n), missed[n] = {},
           NEW d \in Disks, Here(n, d)
    PROVE  \E s \in Slots : bay[n][s] = d /\ seen[n][s] = LookAt(d, n, {})
<1>1. PICK s \in Slots : bay[n][s] = d
  BY DEF Here, Behind
<1>2. PICK f \in SUBSET missed[n] : seen[n][s] = LookAt(d, me[n], f)
  BY <1>1, SeenAsItIs
<1>3. f = {} /\ me[n] = n
  BY <1>2 DEF FreshInv, Inv, Holds, KnowsItself, Surveyed
<1> QED
  BY <1>1, <1>2, <1>3

-----------------------------------------------------------------------------
(***************************************************************************)
(* Who is sent to the appliance had no reason to stay.                     *)
(***************************************************************************)
Fixed(d) == disk[d].size > 0 /\ ~disk[d].removable

AsksWithReason(n) ==
    out[n].action = "ask-appliance" =>
        /\ pc[n] = "init"
        /\ missed[n] = {} =>
              /\ out[n].drive # NoDevice => \A d \in Owned(n) : ~Fixed(d)
              /\ \A d \in Assimilated(n) : disk[d].parts[1] # "system"

AskInv == AuthorInv /\ \A n \in Nodes : AsksWithReason(n)

\* A survey that missed nothing calls what its machine owns its own.
LEMMA OwnedIsMine ==
    ASSUME AuthorInv, NEW n \in Nodes, Surveyed(n), missed[n] = {},
           NEW d \in Owned(n), Fixed(d)
    PROVE  Mine(seen[n]) # {}
<1>1. TypeOK /\ d \in Disks /\ disk[d] \in Drives /\ Here(n, d) /\ LaidOutSoundly(d) /\ HasSlab(d)
  BY DEF AuthorInv, FreshInv, Inv, TypeInv, TypeOK, Owned, Here
<1>2. PICK s \in Slots : seen[n][s] = LookAt(d, n, {})
  BY <1>1, SurveyOf DEF AuthorInv
<1>3. ~ClaimedByAnother(disk[d].esp, n)
  BY <1>1, NoNodeAssumption DEF Owned, LaidOutSoundly, ClaimedByAnother, NoEsp
<1>4. SlabProbes(disk[d], {}) # {}
  BY <1>1 DEF HasSlab, SlabProbes, PartsRead
<1>5. Judge(disk[d], n, {}) = MineVerdict(disk[d], FirstSlab(disk[d], {}))
  BY <1>1, <1>3, <1>4, SlabSeen DEF Fixed, Owned, Names
<1>6. seen[n][s].verdict.kind = "Mine" /\ DOMAIN seen[n] = Slots
  BY <1>1, <1>2, <1>5 DEF LookAt, MineVerdict, TypeOK
<1> QED
  BY <1>6 DEF Mine

\* What a flow-over leaves: a disk that has no ESP, and begins with a slab.
LEMMA FlowedOver ==
    ASSUME AuthorInv, NEW n \in Nodes, NEW d \in Assimilated(n)
    PROVE  /\ d \in Disks /\ disk[d] \in Drives /\ Here(n, d) /\ Fixed(d)
           /\ author[d] = n /\ disk[d].esp = NoEsp /\ disk[d].head = "signature"
           /\ Len(disk[d].parts) \in Nat \ {0} /\ disk[d].parts[1] \in Roles
<1>1. d \in Disks /\ Behind(n, d) /\ author[d] = n /\ disk[d].parts \in Layouts
  BY DEF Assimilated, FlowedOverTo
<1>2. disk[d].parts \in Seq(Roles) /\ Len(disk[d].parts) \in Nat \ {0}
  BY <1>1, LayoutParts, BootAssumption
<1> QED
  BY <1>1, <1>2, NoNodeAssumption
     DEF AuthorInv, FreshInv, Inv, TypeInv, TypeOK, LaidOutSoundly, Here, Fixed

\* It is one of the slabs the node owns.
LEMMA AssimilatedIsOwned ==
    ASSUME AuthorInv, NEW n \in Nodes, NEW d \in Assimilated(n)
    PROVE  d \in Owned(n) /\ Fixed(d)
<1>1. /\ d \in Disks /\ Here(n, d) /\ author[d] = n /\ Fixed(d)
      /\ Len(disk[d].parts) \in Nat \ {0} /\ disk[d].parts[1] \in Roles
  BY FlowedOver
<1>2. HasSlab(d)
  BY <1>1 DEF HasSlab, ContentAt
<1> QED
  BY <1>1, <1>2 DEF Owned, Here

\* And it boots, if the first of its slabs is the system.
LEMMA AssimilatedBoots ==
    ASSUME AuthorInv, NEW n \in Nodes, Surveyed(n), missed[n] = {},
           NEW d \in Assimilated(n), disk[d].parts[1] = "system"
    PROVE  Bootable(seen[n]) # {}
<1>1. /\ TypeOK /\ d \in Disks /\ disk[d] \in Drives /\ Here(n, d) /\ Fixed(d)
      /\ disk[d].head = "signature" /\ disk[d].esp = NoEsp
      /\ Len(disk[d].parts) \in Nat \ {0}
  BY FlowedOver DEF AuthorInv, FreshInv, Inv, TypeInv
<1>2. PICK s \in Slots : seen[n][s] = LookAt(d, n, {})
  BY <1>1, SurveyOf DEF AuthorInv
<1>3. 1 \in SlabProbes(disk[d], {}) /\ 0 \notin SlabProbes(disk[d], {})
  BY <1>1 DEF SlabProbes, PartsRead, ContentAt, Roles
<1>4. FirstSlab(disk[d], {}) = 1
  <2>1. \A i \in SlabProbes(disk[d], {}) : i \in Nat /\ i >= 1
    BY <1>1, <1>3 DEF SlabProbes, PartsRead
  <2> QED
    BY <1>3, <2>1 DEF FirstSlab
<1>5. ~ClaimedByAnother(disk[d].esp, n)
  BY <1>1 DEF ClaimedByAnother, NoEsp
<1>6. Judge(disk[d], n, {}) = MineVerdict(disk[d], 1)
  BY <1>1, <1>3, <1>4, <1>5, SlabSeen DEF Names, Fixed, Here
<1>7. ContentAt(disk[d], 1) = "system"
  BY DEF ContentAt
<1>8. /\ seen[n][s].verdict.kind = "Mine" /\ seen[n][s].verdict.role = "system"
      /\ ~seen[n][s].esp.present /\ DOMAIN seen[n] = Slots
  BY <1>1, <1>2, <1>6, <1>7 DEF LookAt, MineVerdict, EspRead, NoEsp, TypeOK
<1> QED
  BY <1>8 DEF Bootable, Mine, Boots

\* Only for want of a slab that boots is the appliance asked, and only for want
\* of any is a drive offered.
LEMMA AskIntents ==
    ASSUME NEW ds, NEW i \in Intents(ds), i.kind # "AlreadyMine"
    PROVE  Bootable(ds) = {} /\ (i.drive # NoDevice => Mine(ds) = {})
  BY DEF Intents, Intent

LEMMA DecideAsksWithReason ==
    ASSUME AskInv, NEW n \in Nodes, DecideAsk(n)
    PROVE  AsksWithReason(n)'
<1>1. TypeOK /\ AuthorInv /\ Surveyed(n)
  BY DEF AskInv, AuthorInv, FreshInv, Inv, TypeInv, DecideAsk
<1>2. PICK i \in Intents(seen[n]) :
          /\ i.kind # "AlreadyMine"
          /\ out' = [out EXCEPT ![n] = [action |-> "ask-appliance", drive |-> i.drive]]
  BY DEF DecideAsk
<1>3. /\ pc'[n] = "init" /\ out'[n].drive = i.drive
      /\ UNCHANGED <<disk, bay, author, missed>>
  BY <1>1, <1>2 DEF DecideAsk, Goto, TypeOK
<1>4. ASSUME missed[n] = {}, i.drive # NoDevice, NEW d \in Owned(n) PROVE ~Fixed(d)
  BY <1>1, <1>2, <1>4, AskIntents, OwnedIsMine
<1>5. ASSUME missed[n] = {}, NEW d \in Assimilated(n) PROVE disk[d].parts[1] # "system"
  BY <1>1, <1>2, <1>5, AskIntents, AssimilatedBoots
<1>6. Owned(n)' = Owned(n) /\ Assimilated(n)' = Assimilated(n)
  BY <1>3 DEF Owned, Assimilated, Behind, HasSlab, FlowedOverTo
<1>7. \A d : Fixed(d)' = Fixed(d)
  BY <1>3 DEF Fixed
<1> QED
  BY <1>3, <1>4, <1>5, <1>6, <1>7 DEF AsksWithReason

LEMMA OthersAskWithReason ==
    ASSUME AskInv, NEW n \in Nodes, NEW m \in Nodes \ {n}, Step(m), Still(n)
    PROVE  AsksWithReason(n)'
<1>1. TypeOK /\ Inv /\ AuthorInv /\ AsksWithReason(n)
  BY DEF AskInv, AuthorInv, FreshInv, Inv, TypeInv
<1> SUFFICES ASSUME out[n].action = "ask-appliance" PROVE AsksWithReason(n)'
  BY DEF Still, AsksWithReason
<1>2. pc[n] = "init" /\ bay'[n] = bay[n]
  BY <1>1 DEF AsksWithReason, Still
<1>3. ASSUME NEW d \in Disks, Here(n, d) PROVE disk'[d] = disk[d]
  BY <1>1, <1>2, <1>3, HereKept
<1>4. \A d \in Disks : disk'[d].remote = disk[d].remote
  BY <1>1, RemotesKept
<1>5. ASSUME NEW d \in Disks, author'[d] = n PROVE author[d] = n
  <2>1. author' = author \/ LayTable(m)
    BY DEF Step, Zeroboot, CannotList, ListDrives, LookAtNext, DecideBootLocal,
           DecideAsk, Claiming, ClaimNotWritten, TruncateClaim, WriteClaim,
           ClaimCutShort, Stormblock, BootLocal, BootFromAppliance, LaySlab, FlowDone,
           Operator, Claim, World, PowerOn, PowerOff, MoveDisk
  <2> QED
    BY <1>1, <1>5, <2>1 DEF LayTable, TypeOK
<1>6. ASSUME NEW d \in Disks, d \in Owned(n)' PROVE d \in Owned(n) /\ disk'[d] = disk[d]
  <2>1. Here(n, d)
    BY <1>2, <1>4, <1>6 DEF Owned, Here, Behind
  <2>2. disk'[d] = disk[d]
    BY <1>3, <2>1
  <2> QED
    BY <1>2, <1>5, <1>6, <2>2 DEF Owned, Behind, HasSlab
<1>7. ASSUME NEW d \in Disks, d \in Assimilated(n)'
      PROVE  d \in Assimilated(n) /\ disk'[d] = disk[d]
  <2>1. author[d] = n /\ Behind(n, d)
    BY <1>2, <1>5, <1>7 DEF Assimilated, Behind
  <2>2. Here(n, d)
    BY <1>1, <2>1, NoNodeAssumption DEF AuthorInv, LaidOutSoundly, Here
  <2> QED
    BY <1>3, <1>7, <2>1, <2>2 DEF Assimilated, FlowedOverTo
<1>8. Owned(n)' \subseteq Disks /\ Assimilated(n)' \subseteq Disks
  BY DEF Owned, Assimilated
<1>9. \A d \in Owned(n)' : d \in Owned(n) /\ (Fixed(d)' => Fixed(d))
  BY <1>6, <1>8 DEF Fixed
<1> QED
  BY <1>1, <1>7, <1>8, <1>9 DEF AsksWithReason, Still

\* No other step of a machine's own asks, or leaves it asking.
LEMMA OwnAsksWithReason ==
    ASSUME AskInv, NEW n \in Nodes, Step(n)
    PROVE  AsksWithReason(n)'
<1>1. TypeOK /\ Carried(n) /\ AsksWithReason(n)
  BY DEF AskInv, AuthorInv, FreshInv, Inv, TypeInv
<1>2. Silent.action # "ask-appliance"
  BY DEF Silent
<1>3. ASSUME out'[n].action # "ask-appliance" PROVE AsksWithReason(n)'
  BY <1>3 DEF AsksWithReason
<1>4. CASE Zeroboot(n)
  <2>1. DecideAsk(n) \/ out'[n].action # "ask-appliance"
    <3>1. CASE CannotList(n)
      BY <1>1, <3>1 DEF CannotList, TypeOK
    <3>2. CASE DecideBootLocal(n)
      <4>1. PICK i : out' = [out EXCEPT ![n] = [action |-> "boot-local", drive |-> i]]
        BY <3>2 DEF DecideBootLocal
      <4> QED
        BY <1>1, <4>1 DEF TypeOK
    <3>3. CASE ListDrives(n) \/ LookAtNext(n)
      BY <1>1, <1>2, <3>3 DEF ListDrives, LookAtNext, Carried, Quiet
    <3> QED
      BY <1>4, <3>1, <3>2, <3>3 DEF Zeroboot
  <2> QED
    BY <1>3, <2>1, DecideAsksWithReason
<1>5. CASE Claiming(n) \/ Operator(n)
  <2>1. pc[n] # "init" /\ out' = out
    BY <1>5 DEF Claiming, ClaimNotWritten, TruncateClaim, WriteClaim, ClaimCutShort,
                Operator, Claim
  <2> QED
    BY <1>1, <1>3, <2>1 DEF AsksWithReason
<1>6. CASE Stormblock(n)
  <2>1. out'[n] = Silent
    BY <1>1, <1>6 DEF Stormblock, BootLocal, BootFromAppliance, LayTable, LaySlab,
                      FlowDone, TypeOK, Carried, Quiet
  <2> QED
    BY <1>2, <1>3, <2>1
<1>7. CASE World(n)
  <2>1. out'[n] = Silent
    BY <1>1, <1>7 DEF World, PowerOn, PowerOff, MoveDisk, TypeOK, Carried, Quiet
  <2> QED
    BY <1>2, <1>3, <2>1
<1> QED
  BY <1>4, <1>5, <1>6, <1>7 DEF Step

LEMMA StepAsksWithReason ==
    ASSUME Site("transport") \notin Faulty, Site("removable") \notin Faulty
    PROVE  AskInv /\ [Next]_vars => AskInv'
<1> SUFFICES ASSUME AskInv, [Next]_vars PROVE AskInv'
  OBVIOUS
<1>1. AuthorInv'
  BY StepStaysSound DEF AskInv
<1>2. ASSUME NEW n \in Nodes PROVE AsksWithReason(n)'
  <2>1. ASSUME NEW m \in Nodes \ {n}, Step(m) PROVE AsksWithReason(n)'
    <3>1. Still(n)
      BY <2>1, OthersStill DEF AskInv, AuthorInv, FreshInv, Inv, TypeInv, Step
    <3> QED
      BY <2>1, <3>1, OthersAskWithReason
  <2>2. ASSUME UNCHANGED vars PROVE AsksWithReason(n)'
    BY <2>2 DEF AskInv, vars, AsksWithReason, Owned, Assimilated, Behind, HasSlab,
                FlowedOverTo, Fixed
  <2> QED
    BY <2>1, <2>2, OwnAsksWithReason DEF Next, Step
<1> QED
  BY <1>1, <1>2 DEF AskInv

LEMMA InitAsks == Init => AskInv
<1> SUFFICES ASSUME Init PROVE AskInv
  OBVIOUS
<1>1. \A d \in Disks : author[d] = NoNode
  BY DEF Init
<1>2. \A n \in Nodes : out[n].action # "ask-appliance"
  BY DEF Init, Silent
<1> QED
  BY <1>1, <1>2, InitFresh DEF AskInv, AuthorInv, LaidOutSoundly, AsksWithReason

LEMMA AsksInvariance ==
    ASSUME Site("transport") \notin Faulty, Site("removable") \notin Faulty
    PROVE  Spec => []AskInv
  BY InitAsks, StepAsksWithReason, PTL DEF Spec

\* A node that has flowed over onto a disk in its chassis, and asks the appliance on a
\* later boot in which no read failed, does so for want of a disk with its system slab
\* first, and is not offered another: whatever the order a flow-over lays its slabs
\* in, if the kernel says of every drive how it is attached and whether it is
\* removable.
THEOREM SentBackOnlyForWantOfASystem ==
    ASSUME Site("transport") \notin Faulty, Site("removable") \notin Faulty
    PROVE  Spec => []SentBackForWantOfASystem
<1>1. ASSUME AskInv, NEW n \in Nodes, AsksUnhindered(n), NEW d \in Assimilated(n)
      PROVE  disk[d].parts[1] # "system" /\ out[n].drive = NoDevice
  <2>1. d \in Owned(n) /\ Fixed(d)
    BY <1>1, AssimilatedIsOwned DEF AskInv
  <2> QED
    BY <1>1, <2>1 DEF AskInv, AsksWithReason, AsksUnhindered
<1>2. AskInv => SentBackForWantOfASystem
  BY <1>1 DEF SentBackForWantOfASystem
<1> QED
  BY <1>2, AsksInvariance, PTL

-----------------------------------------------------------------------------
\* No step makes a fixed disk removable, or empties it.
LEMMA StaysFixed ==
    ASSUME AskInv, [Next]_vars, NEW d \in Disks, Fixed(d)
    PROVE  Fixed(d)'
<1>1. TypeOK /\ \A n \in Nodes : Carried(n) /\ Holds(n)
  BY DEF AskInv, AuthorInv, FreshInv, Inv, TypeInv
<1>2. CASE UNCHANGED disk
  BY <1>2 DEF Fixed
<1>3. ASSUME NEW e \in Disks, disk[e].esp.present, NEW name \in Names, SetClaim(e, name)
      PROVE  Fixed(d)'
  <2>1. /\ \A x \in Disks \ {e} : disk'[x] = disk[x]
        /\ disk'[e] = [disk[e] EXCEPT !.esp.claim = name]
    BY <1>1, <1>3, SetClaimDoes DEF TypeOK
  <2>2. disk[e] \in Drives
    BY <1>1 DEF TypeOK
  <2>3. disk'[e].size = disk[e].size /\ disk'[e].removable = disk[e].removable
    BY <2>1, <2>2 DEF Drives
  <2> QED
    BY <2>1, <2>3 DEF Fixed
<1>4. ASSUME NEW n \in Nodes, LayTable(n) PROVE Fixed(d)'
  <2>1. PICK e \in Disks : e = bay[n][out[n].drive] /\ disk[e] \in Drives
    BY <1>1, <1>4 DEF LayTable, MayFlowOver, Holds, ToldHolds, Here, TypeOK
  <2>2. /\ \A x \in Disks \ {e} : disk'[x] = disk[x]
        /\ disk'[e].size = disk[e].size /\ disk'[e].removable = disk[e].removable
    BY <1>1, <1>4, <2>1, LayTableDoes DEF TypeOK
  <2> QED
    BY <2>1, <2>2 DEF Fixed
<1>5. ASSUME NEW n \in Nodes, LaySlab(n) PROVE Fixed(d)'
  <2>1. PICK e \in Disks : e = target[n] /\ disk[e] \in Drives
    BY <1>1, <1>5 DEF LaySlab, Carried, FlowsToADisk, TypeOK
  <2>2. /\ \A x \in Disks \ {e} : disk'[x] = disk[x]
        /\ disk'[e].size = disk[e].size /\ disk'[e].removable = disk[e].removable
    BY <1>1, <1>5, <2>1 DEF LaySlab, TypeOK, Drives
  <2> QED
    BY <2>1, <2>2 DEF Fixed
<1>6. ASSUME NEW n \in Nodes, Step(n) PROVE Fixed(d)'
  <2>1. CASE TruncateClaim(n)
    <3>1. PICK e \in Disks : e = bay[n][task[n].slot] /\ disk[e].esp.present
                             /\ SetClaim(e, NoNode)
      BY <1>1, <2>1 DEF TruncateClaim, Carried, ClaimsASlot, OpensEsp, TypeOK, MaybeDisk
    <3> QED
      BY <1>3, <3>1, ConstantTypes
  <2>2. CASE WriteClaim(n) \/ (PowerOff(n) /\ pc[n] = "write")
    <3>1. PICK name \in {task[n].held, NoNode, n} : SetClaim(task[n].disk, name)
      BY <2>2 DEF WriteClaim, PowerOff
    <3>2. name \in Names /\ pc[n] = "write"
      BY <1>1, <2>2, ConstantTypes DEF WriteClaim, PowerOff, TypeOK, Tasks
    <3> QED
      BY <1>1, <1>3, <3>1, <3>2 DEF Carried, WritesToAnEsp
  <2>3. \/ TruncateClaim(n) \/ WriteClaim(n) \/ (PowerOff(n) /\ pc[n] = "write")
        \/ LayTable(n) \/ LaySlab(n) \/ UNCHANGED disk
    BY <1>6 DEF Step, Zeroboot, CannotList, ListDrives, LookAtNext, DecideBootLocal,
        DecideAsk, Claiming, ClaimNotWritten, ClaimCutShort,
        Stormblock, BootLocal, BootFromAppliance, FlowDone,
        Operator, Claim, World, PowerOn, PowerOff, MoveDisk
  <2> QED
    BY <1>2, <1>4, <1>5, <2>1, <2>2, <2>3
<1> QED
  BY <1>2, <1>6 DEF Next, Step, vars

FixedInv == AskInv /\ \A d \in Disks : Fixed(d)

\* Nothing is offered for the flow-over by a node that owns a slab, as long as
\* every drive of its survey answered, if the kernel says of every drive how it
\* is attached and whether it is removable, and no disk is removable or empty.
THEOREM OwnsNothingWhenOffering ==
    ASSUME Site("transport") \notin Faulty, Site("removable") \notin Faulty,
           \A w \in Worlds, d \in Disks : w.disk[d].size > 0 /\ ~w.disk[d].removable
    PROVE  Spec => []NothingOfferedWhileOwning
<1>1. Init => FixedInv
  BY InitAsks DEF Init, FixedInv, Fixed
<1>2. FixedInv /\ [Next]_vars => FixedInv'
  BY StepAsksWithReason, StaysFixed DEF FixedInv
<1>3. FixedInv => NothingOfferedWhileOwning
  <2> SUFFICES ASSUME FixedInv, NEW n \in Nodes, Offering(n), missed[n] = {}
               PROVE  Owned(n) = {}
    BY DEF NothingOfferedWhileOwning
  <2>1. \A d \in Owned(n) : d \in Disks /\ Fixed(d)
    BY DEF FixedInv, Owned
  <2> QED
    BY <2>1 DEF FixedInv, AskInv, AsksWithReason, Offering
<1> QED
  BY <1>1, <1>2, <1>3, PTL DEF Spec
-----------------------------------------------------------------------------
(***************************************************************************)
(* Every survey has an answer, and every step brings the end nearer.       *)
(***************************************************************************)

\* Whatever a machine has looked at so far, and however many of the reads
\* failed, the survey has exactly one answer: the decision is never stuck, and
\* never a matter of choice.
THEOREM AlwaysConcludes ==
    Spec => [](\A n \in Nodes : \E i : Intents(seen[n]) = {i})
<1>1. ASSUME TypeOK, NEW n \in Nodes
      PROVE  \E i : Intents(seen[n]) = {i}
  <2>1. Machine(seen[n])
    BY <1>1, SlotTypes DEF TypeOK, Machine, Seen, Slots
  <2> QED
    BY <2>1, OneIntent
<1>2. TypeOK => \A n \in Nodes : \E i : Intents(seen[n]) = {i}
  BY <1>1
<1> QED
  BY <1>2, Typing, PTL

\* The steps zeroboot has left to take, on a boot or called by the operator:
\* the names it has not looked at, the decision, and a claim.
StepsLeft(n) ==
    CASE pc[n] = "list" -> NumSlots + 4
      [] pc[n] = "look" -> NumSlots + 4 - cursor[n]
      [] pc[n] = "claim" -> 2
      [] pc[n] = "write" -> 1
      [] pc[n] \in {"off", "init", "flow", "up"} -> 0

At(n) == <<pc[n], cursor[n], task[n], missed[n]>>

\* Neither a boot nor a claim goes back to what it has done.  What fails is
\* left behind and not tried again, and nothing that happens to the disks or on
\* another machine adds a step.
BootAdvances ==
    [][\A n \in Nodes :
          pc[n] \in {"list", "look", "claim", "write"} =>
              /\ StepsLeft(n)' <= StepsLeft(n)
              /\ At(n)' # At(n) => StepsLeft(n)' < StepsLeft(n)]_vars

\* StepsLeft, one case at a time.
Counts(n) ==
    /\ pc[n] = "list" => StepsLeft(n) = NumSlots + 4
    /\ pc[n] = "look" => StepsLeft(n) = NumSlots + 4 - cursor[n]
    /\ pc[n] = "claim" => StepsLeft(n) = 2
    /\ pc[n] = "write" => StepsLeft(n) = 1
    /\ pc[n] \in {"off", "init", "flow", "up"} => StepsLeft(n) = 0
    /\ pc[n] \in Pcs /\ cursor[n] \in 1..(NumSlots + 1)

LEMMA StepsLeftIs == TypeOK => \A n \in Nodes : Counts(n)
<1> SUFFICES ASSUME TypeOK, NEW n \in Nodes PROVE Counts(n)
  OBVIOUS
<1>1. pc[n] \in Pcs /\ cursor[n] \in 1..(NumSlots + 1)
  BY DEF TypeOK
<1>2. /\ pc[n] = "list" => StepsLeft(n) = NumSlots + 4
      /\ pc[n] = "look" => StepsLeft(n) = NumSlots + 4 - cursor[n]
      /\ pc[n] = "claim" => StepsLeft(n) = 2
      /\ pc[n] = "write" => StepsLeft(n) = 1
      /\ pc[n] \in {"off", "init", "flow", "up"} => StepsLeft(n) = 0
  BY DEF StepsLeft
<1> QED
  BY <1>1, <1>2 DEF Counts

\* A step of zeroboot, of what it calls, or of the power is one step less.
LEMMA OwnStepAdvances ==
    ASSUME TypeOK, NEW n \in Nodes, Counts(n), Counts(n)',
           pc[n] \in {"list", "look", "claim", "write"}, Step(n)
    PROVE  StepsLeft(n)' < StepsLeft(n)
<1>1. NumSlots \in Nat /\ cursor[n] \in Nat /\ 1 <= cursor[n] /\ cursor[n] <= NumSlots + 1
  BY SlotTypes DEF Counts
<1>2. \A next : Goto(n, next) => pc'[n] = next
  BY DEF Goto, TypeOK
<1>3. ASSUME pc'[n] \in {"off", "init", "up"} PROVE StepsLeft(n)' < StepsLeft(n)
  <2>1. StepsLeft(n)' = 0
    BY <1>3 DEF Counts
  <2> QED
    BY <1>1, <2>1 DEF Counts
<1>4. CASE CannotList(n)
  BY <1>2, <1>3, <1>4 DEF CannotList
<1>5. CASE ListDrives(n)
  <2>1. pc[n] = "list" /\ pc'[n] = "look" /\ cursor' = cursor
    BY <1>2, <1>5 DEF ListDrives
  <2> QED
    BY <1>1, <2>1 DEF Counts
<1>6. CASE LookAtNext(n)
  <2>1. pc[n] = "look" /\ pc' = pc /\ cursor'[n] = cursor[n] + 1
    BY <1>6 DEF LookAtNext, TypeOK
  <2> QED
    BY <1>1, <2>1 DEF Counts
<1>7. CASE DecideBootLocal(n)
  <2>1. pc[n] = "look" /\ pc'[n] \in {"claim", "init"}
    BY <1>2, <1>7 DEF DecideBootLocal, Surveyed
  <2> QED
    BY <1>1, <1>3, <2>1 DEF Counts
<1>8. CASE DecideAsk(n)
  BY <1>2, <1>3, <1>8 DEF DecideAsk
<1>9. ASSUME Goon(n) PROVE StepsLeft(n)' < StepsLeft(n)
  <2>1. task[n].then \in {"init", "up"}
    BY DEF TypeOK, Tasks
  <2> QED
    BY <1>2, <1>3, <1>9, <2>1 DEF Goon
<1>10. CASE Claiming(n)
  <2>1. CASE TruncateClaim(n)
    <3>1. pc[n] = "claim" /\ pc'[n] = "write"
      BY <1>2, <2>1 DEF TruncateClaim
    <3> QED
      BY <3>1 DEF Counts
  <2> QED
    BY <1>9, <1>10, <2>1 DEF Claiming, ClaimNotWritten, WriteClaim, ClaimCutShort
<1>11. CASE World(n)
  <2>1. PowerOff(n)
    BY <1>11 DEF World, PowerOn, MoveDisk
  <2> QED
    BY <1>2, <1>3, <2>1 DEF PowerOff
<1> QED
  BY <1>4, <1>5, <1>6, <1>7, <1>8, <1>10, <1>11 DEF Step, Zeroboot, Stormblock,
      BootLocal, BootFromAppliance, LayTable, LaySlab, FlowDone, Operator, Claim

\* A boot, and a claim an operator calls for, never goes back: no failure is
\* tried again, and no step of another machine, of an operator there, or of
\* whoever carries the disks gives it more to do.
THEOREM BootKeepsAdvancing == Spec => BootAdvances
<1>1. ASSUME TypeOK, \A n \in Nodes : Counts(n) /\ Counts(n)', [Next]_vars,
             NEW n \in Nodes, pc[n] \in {"list", "look", "claim", "write"}
      PROVE  /\ StepsLeft(n)' <= StepsLeft(n)
             /\ At(n)' # At(n) => StepsLeft(n)' < StepsLeft(n)
  <2>1. StepsLeft(n) \in Int /\ StepsLeft(n)' \in Int
    BY <1>1, SlotTypes DEF Counts, Pcs
  <2>2. CASE Step(n)
    BY <1>1, <2>1, <2>2, OwnStepAdvances
  <2>3. CASE \E m \in Nodes \ {n} : Step(m)
    <3>1. Still(n)
      BY <1>1, <2>3, OthersStill DEF Step
    <3>2. At(n)' = At(n) /\ StepsLeft(n)' = StepsLeft(n)
      BY <3>1 DEF Still, At, StepsLeft
    <3> QED
      BY <2>1, <3>2
  <2>4. CASE UNCHANGED vars
    <3>1. At(n)' = At(n) /\ StepsLeft(n)' = StepsLeft(n)
      BY <2>4 DEF vars, At, StepsLeft
    <3> QED
      BY <2>1, <3>1
  <2> QED
    BY <1>1, <2>2, <2>3, <2>4 DEF Next, Step
<1>2. ASSUME TypeOK, \A n \in Nodes : Counts(n), (\A n \in Nodes : Counts(n))', [Next]_vars
      PROVE  [\A n \in Nodes :
                 pc[n] \in {"list", "look", "claim", "write"} =>
                     /\ StepsLeft(n)' <= StepsLeft(n)
                     /\ At(n)' # At(n) => StepsLeft(n)' < StepsLeft(n)]_vars
  BY <1>1, <1>2
<1> QED
  BY <1>2, StepsLeftIs, Typing, PTL DEF Spec, BootAdvances
=============================================================================
