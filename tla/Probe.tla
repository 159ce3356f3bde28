------------------------------- MODULE Probe --------------------------------
(***************************************************************************)
(* One look at one drive, one read at a time (probe.rs, look_at and judge).*)
(* Every read may fail where Faulty says so, and, unless the look is quiet,*)
(* somebody may lay a drive out between two reads: `survey` is also run by *)
(* hand, on a machine where stormblock is migrating onto its drives.       *)
(***************************************************************************)
EXTENDS Judgement

CONSTANTS Contents,  \* the drives a look may start on, and a writer may leave
          Self,      \* who this machine is, or NoNode
          Faulty     \* the reads that may fail: a subset of Sites

ASSUME ProbeAssumption ==
    /\ Contents \subseteq Drives
    /\ \A d \in Contents : TableInSight(d)
    /\ Self \in Nodes \cup {NoNode}
    /\ Faulty \subseteq Sites

VARIABLES drive,    \* what is on the drive now
          quiet,    \* whether nobody else writes to it during this look
          late,     \* whether somebody laid it out behind the scan
          pc,       \* the read that comes next
          failed,   \* the reads that failed so far
          size, removable, esp, remote, parts,  \* what was read, by name
          probe,    \* the device the slab loop is at
          verdict

vars == <<drive, quiet, late, pc, failed, size, removable, esp, remote, parts, probe, verdict>>

answers == <<size, removable, esp, remote, parts>>

history == <<quiet, late>>

Pcs == {"sysfs", "esp", "gate", "parts", "probe", "unprobed",
        "front", "grain", "tail", "done"}

\* The scan has read the front of the drive, and not yet the end of it.
Scanning == {"grain", "tail"}

TypeOK == /\ drive \in Drives
          /\ quiet \in BOOLEAN /\ late \in BOOLEAN
          /\ pc \in Pcs
          /\ failed \subseteq Faulty
          /\ size \in Nat /\ removable \in BOOLEAN /\ esp \in Esps
          /\ remote \in BOOLEAN /\ parts \subseteq Nat /\ probe \in Nat
          /\ verdict \in Verdicts

Init == /\ drive \in Contents
        /\ quiet \in BOOLEAN /\ late = FALSE
        /\ pc = "sysfs"
        /\ failed = {}
        /\ size = 0 /\ removable = FALSE /\ esp = NoEsp
        /\ remote = FALSE /\ parts = {} /\ probe = 0
        /\ verdict = Of("Unreadable")

-----------------------------------------------------------------------------
(***************************************************************************)
(* A read takes effect on `failed`; what it answers is read off the drive  *)
(* as it is at that moment.                                                *)
(***************************************************************************)
Reading(sites) == \E f \in SUBSET (Faulty \cap sites) : failed' = failed \cup f

Conclude(v) == /\ pc' = "done"
               /\ verdict' = v

Go(next) == /\ pc' = next
            /\ UNCHANGED verdict

ReadSysfs ==
    /\ pc = "sysfs"
    /\ Reading({Site("size"), Site("removable")})
    /\ size' = SizeRead(drive, failed')
    /\ removable' = RemovableRead(drive, failed')
    /\ Go("esp")
    /\ UNCHANGED <<drive, history, esp, remote, parts, probe>>

ReadEsp ==
    /\ pc = "esp"
    /\ Reading(EspReads \cup {Site("loader")})
    /\ esp' = EspRead(drive, failed')
    /\ Go("gate")
    /\ UNCHANGED <<drive, history, size, removable, remote, parts, probe>>

\* A plausible slip: a verdict of its own that nothing downstream knows.
NoMediumByName ==
    /\ pc = "gate" /\ size = 0
    /\ Conclude(Of("NoMedium"))
    /\ UNCHANGED <<drive, history, failed, answers, probe>>

NoMedium ==
    /\ pc = "gate" /\ size = 0
    /\ Conclude(Of("Unreadable"))
    /\ UNCHANGED <<drive, history, failed, answers, probe>>

Removable ==
    /\ pc = "gate" /\ size # 0 /\ removable
    /\ Conclude(Of("Foreign"))
    /\ UNCHANGED <<drive, history, failed, answers, probe>>

ReadTransport ==
    /\ pc = "gate" /\ size # 0 /\ ~removable
    /\ Reading({Site("transport")})
    /\ remote' = RemoteRead(drive, failed')
    /\ Go("parts")
    /\ UNCHANGED <<drive, history, size, removable, esp, parts, probe>>

ListPartitions ==
    /\ pc = "parts"
    /\ Reading({Site("parts")} \cup ({"entry"} \X Nat))
    /\ parts' = PartsRead(drive, failed')
    /\ probe' = 0
    /\ Go("probe")
    /\ UNCHANGED <<drive, history, size, removable, esp, remote>>

-----------------------------------------------------------------------------
(***************************************************************************)
(* The loop over the drive and its partitions.                             *)
(***************************************************************************)
SlabHere == ContentAt(drive, probe) \in Roles

\* The partitions that were listed, behind the one the loop is at.
Ahead == {i \in parts : i > probe}

\* A plausible slip: the partitions are looked at again and again.
SameProbe == \/ parts = {} /\ Go("unprobed") /\ UNCHANGED probe
             \/ \E i \in parts : probe' = i /\ Go("probe")

NextProbe ==
    \/ Ahead = {} /\ Go("unprobed") /\ UNCHANGED probe
    \/ \E i \in Ahead : (\A j \in Ahead : i <= j) /\ probe' = i /\ Go("probe")

\* A plausible slip: a partition that will not open is a verdict too.
AnySniffFails ==
    /\ pc = "probe"
    /\ <<"sniff", probe>> \in Faulty
    /\ failed' = failed \cup {<<"sniff", probe>>}
    /\ Conclude(Of("Unreadable"))
    /\ UNCHANGED <<drive, history, answers, probe>>

SniffFails ==
    /\ pc = "probe"
    /\ <<"sniff", probe>> \in Faulty
    /\ failed' = failed \cup {<<"sniff", probe>>}
    /\ IF probe = 0 THEN Conclude(Of("Unreadable")) /\ UNCHANGED probe
                    ELSE NextProbe
    /\ UNCHANGED <<drive, history, answers>>

NoSlabHere ==
    /\ pc = "probe" /\ ~SlabHere
    /\ NextProbe
    /\ UNCHANGED <<drive, history, failed, answers>>

\* No stormblock binary, or one that would not name the slab.
CannotIdentify ==
    /\ pc = "probe" /\ SlabHere
    /\ <<"identify", probe>> \in Faulty
    /\ failed' = failed \cup {<<"identify", probe>>}
    /\ Conclude(Of("Foreign"))
    /\ UNCHANGED <<drive, history, answers, probe>>

\* A plausible slip: whose a slab is, decided from its claim alone.
IdentifyByClaim ==
    /\ pc = "probe" /\ SlabHere
    /\ Conclude(IF ClaimedByAnother(esp, Self)
                THEN Of("AnotherNode") ELSE MineVerdict(drive, probe))
    /\ UNCHANGED <<drive, history, failed, answers, probe>>

IdentifySlab ==
    /\ pc = "probe" /\ SlabHere
    /\ Conclude(IF remote \/ ClaimedByAnother(esp, Self)
                THEN Of("AnotherNode") ELSE MineVerdict(drive, probe))
    /\ UNCHANGED <<drive, history, failed, answers, probe>>

-----------------------------------------------------------------------------
NotOurs ==
    /\ pc = "unprobed" /\ remote
    /\ Conclude(Of("Foreign"))
    /\ UNCHANGED <<drive, history, failed, answers, probe>>

\* The whole drive is sniffed again, and its signature looked for at last.
Resniff ==
    /\ pc = "unprobed" /\ ~remote
    /\ Reading({Site("resniff")})
    /\ IF Site("resniff") \in failed' THEN Conclude(Of("Unreadable"))
       ELSE IF parts # {} \/ Signature(drive) THEN Conclude(Of("Foreign"))
       ELSE Go("front")
    /\ UNCHANGED <<drive, history, answers, probe>>

-----------------------------------------------------------------------------
(***************************************************************************)
(* first_nonzero: the front, the grain, the tail.  On a large drive this   *)
(* takes tens of seconds, so somebody may write behind it.  Which bytes of *)
(* the drive each of the three reads is the subject of module BlankScan.   *)
(***************************************************************************)
\* A plausible slip: an error while scanning taken for the end of the drive.
ScanGoesOn(found, next) ==
    /\ Reading({Site("deep")})
    /\ IF found /\ Site("deep") \notin failed' THEN Conclude(Of("Foreign"))
       ELSE next
    /\ UNCHANGED <<drive, history, answers, probe>>

Scan(found, next) ==
    /\ Reading({Site("deep")})
    /\ IF Site("deep") \in failed' THEN Conclude(Of("Unreadable"))
       ELSE IF found THEN Conclude(Of("Foreign"))
       ELSE next
    /\ UNCHANGED <<drive, history, answers, probe>>

ScanFront == pc = "front" /\ Scan(drive.head # "zero", Go("grain"))

ScanGrain == pc = "grain" /\ Scan(drive.rest = "sampled", Go("tail"))

ScanTail == pc = "tail" /\ Scan(drive.tail # "zero", Conclude(Of("Blank")))

-----------------------------------------------------------------------------
Look == \/ ReadSysfs \/ ReadEsp
        \/ NoMedium \/ Removable \/ ReadTransport \/ ListPartitions
        \/ SniffFails \/ NoSlabHere \/ CannotIdentify \/ IdentifySlab
        \/ NotOurs \/ Resniff \/ ScanFront \/ ScanGrain \/ ScanTail

\* Somebody lays out a drive that was empty.
Write ==
    /\ ~quiet /\ pc # "done"
    /\ Untouched(drive)
    /\ \E d \in Contents :
          /\ d.size = drive.size /\ ~d.removable /\ ~d.remote
          /\ d.esp.claim = NoNode
          /\ drive' = d
    /\ late' = (pc \in Scanning)
    /\ UNCHANGED <<quiet, pc, failed, answers, probe, verdict>>

Done == pc = "done" /\ UNCHANGED vars

Next == Look \/ Write \/ Done

Spec == Init /\ [][Next]_vars

\* Reads return: the kernel answers or reports an error.
FairSpec == Spec /\ WF_vars(Look)

-----------------------------------------------------------------------------
(***************************************************************************)
(* Properties.                                                             *)
(***************************************************************************)

\* The reads whose failure is taken for an answer: fixed, and attached here.
Assumed == {Site("removable"), Site("transport")}

\* The one verdict that leads to a format is reached only while the drive is
\* attached here, fixed, and holds nothing where anything was read: whichever
\* other reads fail on the way, and whoever lays it out between two of them,
\* unless that is behind a scan that has passed there.
BlankIsUntouched ==
    [][verdict' # verdict /\ verdict'.kind = "Blank" =>
          \/ failed \cap Assumed # {}
          \/ late
          \/ Untouched(drive)]_vars

\* A claim naming another node is decisive: no such drive is ever this node's,
\* however local it is, when this machine knows its own name and reads the ESP.
ClaimIsDecisive ==
    pc = "done" /\ verdict.kind = "Mine" =>
        \/ Self = NoNode
        \/ EspReads \cap failed # {}
        \/ drive.esp.claim \in {NoNode, Self}

\* A drive is this node's only for a slab that is really on the device the
\* verdict names, with the role it names, on a fixed drive attached here; and
\* no device that was probed before it and answered carries another slab.
MineIsALocalSlab ==
    pc = "done" /\ verdict.kind = "Mine" =>
        /\ drive.size > 0
        /\ failed \cap Assumed = {} => ~drive.removable /\ ~drive.remote
        /\ verdict.slab <= Len(drive.parts)
        /\ ContentAt(drive, verdict.slab) = verdict.role
        /\ \A i \in 0..(verdict.slab - 1) :
              ContentAt(drive, i) \in Roles =>
                  {<<"sniff", i>>, <<"entry", i>>} \cap failed # {}

\* When nobody writes, the reads in their order come to what Judge says of the
\* drive and of the reads that failed.
AgreesWithJudge ==
    pc = "done" /\ quiet => verdict = Judge(drive, Self, failed)

\* A drive that answers nothing does not stop the survey: every look ends.
LookEnds == <>(pc = "done")
=============================================================================
