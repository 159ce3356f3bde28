-------------------------------- MODULE Boot --------------------------------
(***************************************************************************)
(* Machines that boot, look at their drives, and act on what they saw      *)
(* (main.rs, boot and what it calls): zeroboot on every node, the drives   *)
(* in their bays, and the world around them - init and stormblock, which   *)
(* act on what zeroboot prints, an operator who runs `zeroboot claim`,     *)
(* power that fails at any step, and disks carried between chassis.        *)
(*                                                                         *)
(* A node knows a drive by a device name only.  Names are numbered in the  *)
(* order they sort in, and dealt out anew at every power-on.               *)
(***************************************************************************)
EXTENDS Judgement, Survey

CONSTANTS Disks, NoDisk,
          NumSlots,      \* the device names of a machine are 1..NumSlots
          Faulty,        \* what may fail: a subset of Faults
          Layouts,       \* the roles of the slabs a flow-over may lay, in name order
          Worlds         \* the disks and chassis to start from

Slots == 1..NumSlots

Names == Nodes \cup {NoNode}

MaybeDisk == Disks \cup {NoDisk}

\* A read of a look, the read of this machine's serial, or the write of a claim.
Faults == Sites \cup {Site("identity"), Site("claim")}

\* A disk that is not reached over a network is in one chassis, under one name.
Apart(content, place) ==
    \A n, m \in Nodes, s, t \in Slots :
        (/\ place[n][s] = place[m][t]
         /\ place[n][s] # NoDisk
         /\ ~content[place[n][s]].remote) => n = m /\ s = t

ASSUME BootAssumption ==
    /\ NoDisk \notin Disks
    /\ NumSlots \in Nat \ {0}
    /\ Faulty \subseteq Faults
    /\ Layouts \subseteq Seq(Roles) \ {<< >>}
    /\ Worlds \subseteq [disk : [Disks -> Drives],
                         bay : [Nodes -> [Slots -> MaybeDisk]]]
    /\ \A w \in Worlds : /\ Apart(w.disk, w.bay)
                         /\ \A d \in Disks : TableInSight(w.disk[d])

VARIABLES disk,    \* what is on each disk
          bay,     \* the disk behind each device name of each node
          pc,      \* what each node is at
          me,      \* who its survey took it for
          cursor,  \* the name its survey looks at next
          seen,    \* the drives it has judged in this boot
          out,     \* what it tells init: ZB_ACTION, ZB_DRIVE or ZB_TAKEABLE
          task,    \* the claim it is writing
          root,    \* the disk it runs from, when that is local
          target,  \* the disk it flows over onto
          author,  \* the node that laid out each disk by a flow-over
          missed   \* what failed since this boot began

vars == <<disk, bay, pc, me, cursor, seen, out, task, root, target, author, missed>>

-----------------------------------------------------------------------------
Pcs == {"off", "list", "look", "claim", "write", "init", "flow", "up"}

Seen == [size : Nat, rotational : BOOLEAN, esp : Esps,
         verdict : Verdicts \cup {Of("Absent")}]

NotSeen == [size |-> 0, rotational |-> FALSE, esp |-> NoEsp,
            verdict |-> Of("Absent")]

Outs == [action : {"none", "error", "boot-local", "ask-appliance"},
         drive : Slots \cup {NoDevice}]

Silent == [action |-> "none", drive |-> NoDevice]

\* The claim being written: on which device, or on which disk once it is open;
\* who held it; whether --force was given; and where the writer goes on.
Tasks == [slot : Slots \cup {NoDevice}, disk : MaybeDisk, held : Names,
          force : BOOLEAN, then : {"init", "up"}]

NoTask == [slot |-> NoDevice, disk |-> NoDisk, held |-> NoNode,
           force |-> FALSE, then |-> "up"]

TypeOK == /\ disk \in [Disks -> Drives]
          /\ bay \in [Nodes -> [Slots -> MaybeDisk]]
          /\ pc \in [Nodes -> Pcs]
          /\ me \in [Nodes -> Names]
          /\ cursor \in [Nodes -> 1..(NumSlots + 1)]
          /\ seen \in [Nodes -> [Slots -> Seen]]
          /\ out \in [Nodes -> Outs]
          /\ task \in [Nodes -> Tasks]
          /\ root \in [Nodes -> MaybeDisk]
          /\ target \in [Nodes -> MaybeDisk]
          /\ author \in [Disks -> Names]
          /\ missed \in [Nodes -> SUBSET Faulty]

Init == /\ \E w \in Worlds : disk = w.disk /\ bay = w.bay
        /\ pc = [n \in Nodes |-> "off"]
        /\ me = [n \in Nodes |-> NoNode]
        /\ cursor = [n \in Nodes |-> 1]
        /\ seen = [n \in Nodes |-> [s \in Slots |-> NotSeen]]
        /\ out = [n \in Nodes |-> Silent]
        /\ task = [n \in Nodes |-> NoTask]
        /\ root = [n \in Nodes |-> NoDisk]
        /\ target = [n \in Nodes |-> NoDisk]
        /\ author = [d \in Disks |-> NoNode]
        /\ missed = [n \in Nodes |-> {}]

Goto(n, next) == pc' = [pc EXCEPT ![n] = next]

Miss(n, what) == missed' = [missed EXCEPT ![n] = @ \cup what]

\* What may fail, of the things about to be done.
Failing(what) == SUBSET {f \in Faulty : f \in what}

\* A plausible slip: what firmware prints for no serial, taken for a name.
PlaceholderIsAName(n, failed) ==
    IF Site("identity") \in failed THEN "Not Specified" ELSE n

\* machine_identity: a serial that cannot be read, or a placeholder, is none.
Identity(n, failed) == IF Site("identity") \in failed THEN NoNode ELSE n

-----------------------------------------------------------------------------
(***************************************************************************)
(* zeroboot boot: the survey, and the decision over it.                    *)
(***************************************************************************)

\* /sys/block cannot be listed: an action and a reason, like everything else.
CannotList(n) ==
    /\ pc[n] = "list"
    /\ out' = [out EXCEPT ![n] = [action |-> "error", drive |-> NoDevice]]
    /\ Goto(n, "init")
    /\ UNCHANGED <<disk, bay, me, cursor, seen, task, root, target, author, missed>>

ListDrives(n) ==
    /\ pc[n] = "list"
    /\ \E failed \in Failing({Site("identity")}) :
          /\ me' = [me EXCEPT ![n] = Identity(n, failed)]
          /\ Miss(n, failed)
    /\ Goto(n, "look")
    /\ UNCHANGED <<disk, bay, cursor, seen, out, task, root, target, author>>

LookAt(d, self, failed) ==
    [size |-> SizeRead(disk[d], failed),
     rotational |-> RotationalRead(disk[d], failed),
     esp |-> EspRead(disk[d], failed), verdict |-> Judge(disk[d], self, failed)]

\* A plausible slip: the last name is never looked at.
LookAtAllButLast(n) ==
    LET s == cursor[n]
    IN  /\ pc[n] = "look" /\ s < NumSlots
        /\ cursor' = [cursor EXCEPT ![n] = s + 1]
        /\ \/ bay[n][s] = NoDisk /\ UNCHANGED <<seen, missed>>
           \/ /\ bay[n][s] # NoDisk
              /\ \E failed \in Failing(Sites) :
                    /\ seen' = [seen EXCEPT ![n][s] = LookAt(bay[n][s], me[n], failed)]
                    /\ Miss(n, failed)
        /\ UNCHANGED <<disk, bay, pc, me, out, task, root, target, author>>

LookAtNext(n) ==
    LET s == cursor[n]
    IN  /\ pc[n] = "look" /\ s <= NumSlots
        /\ cursor' = [cursor EXCEPT ![n] = s + 1]
        /\ \/ bay[n][s] = NoDisk /\ UNCHANGED <<seen, missed>>
           \/ /\ bay[n][s] # NoDisk
              /\ \E failed \in Failing(Sites) :
                    /\ seen' = [seen EXCEPT ![n][s] = LookAt(bay[n][s], me[n], failed)]
                    /\ Miss(n, failed)
        /\ UNCHANGED <<disk, bay, pc, me, out, task, root, target, author>>

\* Nothing after the decision reads the survey again.
Forget(n) == /\ me' = [me EXCEPT ![n] = NoNode]
             /\ cursor' = [cursor EXCEPT ![n] = 1]
             /\ seen' = [seen EXCEPT ![n] = [s \in Slots |-> NotSeen]]

Surveyed(n) == pc[n] = "look" /\ cursor[n] > NumSlots

\* A plausible slip: the claim is left to the build.
NeverClaims(n, s, failed) == FALSE

\* claim_on_boot: nobody had claimed the drive when it was surveyed, and the
\* machine, asked again, says who it is.
WillClaim(n, s, failed) ==
    seen[n][s].esp.claim = NoNode /\ Identity(n, failed) # NoNode

DecideBootLocal(n) ==
    /\ Surveyed(n)
    /\ \E i \in Intents(seen[n]) :
          /\ i.kind = "AlreadyMine"
          /\ out' = [out EXCEPT ![n] = [action |-> "boot-local", drive |-> i.drive]]
          /\ \E failed \in Failing({Site("identity")}) :
                /\ Miss(n, failed)
                /\ IF WillClaim(n, i.drive, failed)
                   THEN task' = [task EXCEPT ![n] = [@ EXCEPT !.slot = i.drive, !.then = "init"]]
                        /\ Goto(n, "claim")
                   ELSE UNCHANGED task /\ Goto(n, "init")
    /\ Forget(n)
    /\ UNCHANGED <<disk, bay, root, target, author>>

\* TakeOver names a drive; MineButNoneBoots and NothingToTake name none.
DecideAsk(n) ==
    /\ Surveyed(n)
    /\ \E i \in Intents(seen[n]) :
          /\ i.kind # "AlreadyMine"
          /\ out' = [out EXCEPT ![n] = [action |-> "ask-appliance", drive |-> i.drive]]
    /\ Goto(n, "init")
    /\ Forget(n)
    /\ UNCHANGED <<disk, bay, task, root, target, author, missed>>

-----------------------------------------------------------------------------
(***************************************************************************)
(* esp::write_claim: open the ESP by device name, truncate, write.         *)
(***************************************************************************)
Goon(n) == /\ Goto(n, task[n].then)
           /\ task' = [task EXCEPT ![n] = NoTask]

SetClaim(d, name) == disk' = [disk EXCEPT ![d].esp.claim = name]

OpensEsp(d) == d # NoDisk /\ disk[d].esp.present

\* No ESP to claim in, or one that will not open: said, and otherwise ignored.
ClaimNotWritten(n) ==
    /\ pc[n] = "claim"
    /\ \E failed \in Failing({Site("claim")}) :
          /\ OpensEsp(bay[n][task[n].slot]) => failed # {}
          /\ Miss(n, failed)
    /\ Goon(n)
    /\ UNCHANGED <<disk, bay, me, cursor, seen, out, root, target, author>>

TruncateClaim(n) ==
    LET d == bay[n][task[n].slot]
    IN  /\ pc[n] = "claim"
        /\ OpensEsp(d)
        /\ SetClaim(d, NoNode)
        /\ task' = [task EXCEPT ![n] = [@ EXCEPT !.disk = d, !.held = disk[d].esp.claim]]
        /\ Goto(n, "write")
        /\ UNCHANGED <<bay, me, cursor, seen, out, root, target, author, missed>>

WriteClaim(n) ==
    /\ pc[n] = "write"
    /\ SetClaim(task[n].disk, n)
    /\ Goon(n)
    /\ UNCHANGED <<bay, me, cursor, seen, out, root, target, author, missed>>

\* The write fails after the truncate: the old claim is gone, and no new one.
ClaimCutShort(n) ==
    /\ pc[n] = "write" /\ Site("claim") \in Faulty
    /\ Miss(n, {Site("claim")})
    /\ Goon(n)
    /\ UNCHANGED <<disk, bay, me, cursor, seen, out, root, target, author>>

\* A plausible slip: a claim is written over whatever claim is there.
ClaimUnguarded(n, s, force) ==
    LET d == bay[n][s]
    IN  /\ pc[n] = "up"
        /\ OpensEsp(d)
        /\ \E failed \in Failing({Site("record")}) :
              /\ EspRead(disk[d], failed).claim # n
              /\ Miss(n, failed)
        /\ task' = [task EXCEPT ![n] = [@ EXCEPT !.slot = s, !.force = force]]
        /\ Goto(n, "claim")
        /\ UNCHANGED <<disk, bay, me, cursor, seen, out, root, target, author>>

\* `zeroboot claim`, by hand on a machine that is up.  It reads the ESP (an error
\* there ends it), bails out on a claim of another node unless forced, and leaves
\* its own alone.  A record it cannot read is no claim to it.
Claim(n, s, force) ==
    LET d == bay[n][s]
    IN  /\ pc[n] = "up"
        /\ OpensEsp(d)
        /\ \E failed \in Failing({Site("record")}) :
              /\ EspRead(disk[d], failed).claim # n
              /\ EspRead(disk[d], failed).claim = NoNode \/ force
              /\ Miss(n, failed)
        /\ task' = [task EXCEPT ![n] = [@ EXCEPT !.slot = s, !.force = force]]
        /\ Goto(n, "claim")
        /\ UNCHANGED <<disk, bay, me, cursor, seen, out, root, target, author>>

-----------------------------------------------------------------------------
(***************************************************************************)
(* External: init, and the stormblock it starts.                           *)
(***************************************************************************)
BootLocal(n) ==
    /\ pc[n] = "init" /\ out[n].action = "boot-local"
    /\ root' = [root EXCEPT ![n] = bay[n][out[n].drive]]
    /\ out' = [out EXCEPT ![n] = Silent]
    /\ Goto(n, "up")
    /\ UNCHANGED <<disk, bay, me, cursor, seen, task, target, author, missed>>

HasDataSlab(d) == \E i \in 0..Len(disk[d].parts) : ContentAt(disk[d], i) = "data"

\* ZB_TAKEABLE as stormblock finds it, past its own guard.
MayFlowOver(n) ==
    /\ out[n].action = "ask-appliance" /\ out[n].drive # NoDevice
    /\ bay[n][out[n].drive] # NoDisk
    /\ ~HasDataSlab(bay[n][out[n].drive])

BootFromAppliance(n) ==
    /\ pc[n] = "init" /\ out[n].action # "boot-local" /\ ~MayFlowOver(n)
    /\ out' = [out EXCEPT ![n] = Silent]
    /\ Goto(n, "up")
    /\ UNCHANGED <<disk, bay, me, cursor, seen, task, root, target, author, missed>>

\* The flow-over starts with a table of its own over whatever was there.  In what
\* order it lays its slabs is stormblock's to say, and nothing here says it.
LayTable(n) ==
    LET d == bay[n][out[n].drive]
    IN  /\ pc[n] = "init" /\ MayFlowOver(n)
        /\ \E roles \in Layouts :
              disk' = [disk EXCEPT ![d].head = "signature", ![d].tail = "signature",
                                   ![d].parts = [i \in 1..Len(roles) |-> "other"],
                                   ![d].esp = NoEsp]
        /\ author' = [author EXCEPT ![d] = n]
        /\ target' = [target EXCEPT ![n] = d]
        /\ out' = [out EXCEPT ![n] = Silent]
        /\ Goto(n, "flow")
        /\ UNCHANGED <<bay, me, cursor, seen, task, root, missed>>

\* Some of the slabs of a layout, and none of another.
InPart(parts, roles) ==
    /\ Len(parts) = Len(roles)
    /\ \A i \in 1..Len(parts) : parts[i] \in {"other", roles[i]}

LaySlab(n) ==
    /\ pc[n] = "flow"
    /\ \E roles \in Layouts, i \in 1..Len(disk[target[n]].parts) :
          /\ InPart(disk[target[n]].parts, roles)
          /\ disk[target[n]].parts[i] = "other"
          /\ disk' = [disk EXCEPT ![target[n]].parts[i] = roles[i]]
    /\ UNCHANGED <<bay, pc, me, cursor, seen, out, task, root, target, author, missed>>

FlowedOverTo(d) == disk[d].parts \in Layouts

FlowDone(n) ==
    /\ pc[n] = "flow" /\ FlowedOverTo(target[n])
    /\ root' = [root EXCEPT ![n] = target[n]]
    /\ target' = [target EXCEPT ![n] = NoDisk]
    /\ Goto(n, "up")
    /\ UNCHANGED <<disk, bay, me, cursor, seen, out, task, author, missed>>

-----------------------------------------------------------------------------
(***************************************************************************)
(* The world.                                                              *)
(***************************************************************************)
Permutations == {f \in [Slots -> Slots] : \A s, t \in Slots : f[s] = f[t] => s = t}

PowerOn(n) ==
    /\ pc[n] = "off"
    /\ \E f \in Permutations :
          bay' = [bay EXCEPT ![n] = [s \in Slots |-> bay[n][f[s]]]]
    /\ Goto(n, "list")
    /\ UNCHANGED <<disk, me, cursor, seen, out, task, root, target, author, missed>>

\* A claim cut short by the power is the old one, none, or the new one.
PowerOff(n) ==
    /\ pc[n] # "off"
    /\ IF pc[n] = "write"
       THEN \E name \in {task[n].held, NoNode, n} : SetClaim(task[n].disk, name)
       ELSE UNCHANGED disk
    /\ Goto(n, "off")
    /\ Forget(n)
    /\ out' = [out EXCEPT ![n] = Silent]
    /\ task' = [task EXCEPT ![n] = NoTask]
    /\ root' = [root EXCEPT ![n] = NoDisk]
    /\ target' = [target EXCEPT ![n] = NoDisk]
    /\ missed' = [missed EXCEPT ![n] = {}]
    /\ UNCHANGED <<bay, author>>

\* A disk is carried between machines that are off; a LUN has no tray to pull.
MoveDisk(n, s, m, t) ==
    LET d == bay[n][s]
    IN  /\ n # m
        /\ d # NoDisk /\ bay[m][t] = NoDisk
        /\ ~disk[d].remote
        /\ pc[n] = "off" /\ pc[m] = "off"
        /\ bay' = [bay EXCEPT ![n][s] = NoDisk, ![m][t] = d]
        /\ UNCHANGED <<disk, pc, me, cursor, seen, out, task, root, target, author, missed>>

-----------------------------------------------------------------------------
Zeroboot(n) == CannotList(n) \/ ListDrives(n) \/ LookAtNext(n)
                   \/ DecideBootLocal(n) \/ DecideAsk(n)

Claiming(n) == ClaimNotWritten(n) \/ TruncateClaim(n) \/ WriteClaim(n)
                   \/ ClaimCutShort(n)

Stormblock(n) == BootLocal(n) \/ BootFromAppliance(n)
                     \/ LayTable(n) \/ LaySlab(n) \/ FlowDone(n)

Operator(n) == \E s \in Slots, force \in BOOLEAN : Claim(n, s, force)

World(n) == PowerOn(n) \/ PowerOff(n)
              \/ \E m \in Nodes, s \in Slots, t \in Slots : MoveDisk(n, s, m, t)

Next == \E n \in Nodes : \/ Zeroboot(n) \/ Claiming(n) \/ Stormblock(n)
                         \/ Operator(n) \/ World(n)

Spec == Init /\ [][Next]_vars

\* A program that runs takes its next step: zeroboot, and what it calls.
FairSpec == Spec /\ \A n \in Nodes : WF_vars(Zeroboot(n) \/ Claiming(n))

-----------------------------------------------------------------------------
(***************************************************************************)
(* Properties.                                                             *)
(***************************************************************************)
HasSlab(d) == \E i \in 0..Len(disk[d].parts) : ContentAt(disk[d], i) \in Roles

Behind(n, d) == \E s \in Slots : bay[n][s] = d

InUse(n) == {root[n], target[n]} \ {NoDisk}

\* A node never runs from a disk claimed by another node, through any moves,
\* crashes and forced claims, as long as its survey could read its own name and
\* the ESPs: booting one is booting as somebody else.
RootIsNotAnothers ==
    \A n \in Nodes :
        (/\ root[n] # NoDisk
         /\ (EspReads \cup {Site("identity")}) \cap missed[n] = {})
        => disk[root[n]].esp.claim \in {NoNode, n}

\* Two nodes never write one disk: neither runs from, or flows over onto, a
\* disk the other does, though both see the LUN they share.
OneWriterPerDisk ==
    \A n, m \in Nodes : n # m => InUse(n) \cap InUse(m) = {}

\* What the flow-over lays its table over was untouched: between the survey
\* that called it blank and the format nothing has changed that.
FormatsOnlyUntouched ==
    [][\A n \in Nodes :
          pc[n] = "init" /\ pc'[n] = "flow" =>
              Untouched(disk[bay[n][out[n].drive]])]_vars

\* The slabs a node has in its own chassis and put there, or claimed.
Owned(n) == {d \in Disks : /\ Behind(n, d) /\ HasSlab(d) /\ ~disk[d].remote
                           /\ author[d] = n \/ disk[d].esp.claim = n}

Offering(n) == pc[n] = "init" /\ out[n].action = "ask-appliance"
                   /\ out[n].drive # NoDevice

\* Nothing is offered while the node owns a slab, finished or not, as long as
\* every drive answered.
NothingOfferedWhileOwning ==
    \A n \in Nodes : Offering(n) /\ missed[n] = {} => Owned(n) = {}

\* A boot claims the drive it decides to boot, when it has an ESP to claim in
\* and neither the name nor the claim fails: what runs from a disk is on it.
BootedIsClaimed ==
    \A n \in Nodes :
        (/\ pc[n] = "up" /\ root[n] # NoDisk
         /\ (EspReads \cup {Site("claim"), Site("identity")}) \cap missed[n] = {})
        => (disk[root[n]].esp.present => disk[root[n]].esp.claim = n)

\* The disks of its chassis a node has flowed over onto.
Assimilated(n) == {d \in Disks : Behind(n, d) /\ author[d] = n /\ FlowedOverTo(d)}

AsksUnhindered(n) ==
    pc[n] = "init" /\ missed[n] = {} /\ out[n].action = "ask-appliance"

\* What survey.rs says of a drive a flow-over assimilated: it boots anyway, and the
\* node is not sent back to the appliance on every boot after it.
AssimilatedBootsLocal ==
    \A n \in Nodes : AsksUnhindered(n) => Assimilated(n) = {}

\* What holds whatever the order of the slabs: a node that has flowed over onto a
\* disk is sent back to the appliance only if none of its disks has the system slab
\* first, and is then offered no drive to flow over onto once more.
SentBackForWantOfASystem ==
    \A n \in Nodes :
        AsksUnhindered(n) =>
            \A d \in Assimilated(n) : /\ disk[d].parts[1] # "system"
                                      /\ out[n].drive = NoDevice

\* A boot ends in an action, whatever it meets: unless the power goes.
BootEnds ==
    \A n \in Nodes : pc[n] = "list" ~> pc[n] \in {"init", "off"}

\* The claims are a ledger: a disk's owner is recorded once, and changes only
\* when an operator forces it (module Ownership).
Ledger == INSTANCE Ownership WITH
    owner <- [d \in Disks |-> disk[d].esp.claim],
    forced <- {d \in Disks : \E n \in Nodes :
                   task[n].force /\ \/ pc[n] = "write" /\ task[n].disk = d
                                    \/ pc[n] = "claim" /\ bay[n][task[n].slot] = d}

ClaimsAreALedger == Ledger!Spec
=============================================================================
