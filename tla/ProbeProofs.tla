---------------------------- MODULE ProbeProofs -----------------------------
(***************************************************************************)
(* What one look at one drive can never conclude, for any set of nodes and *)
(* drives, any machine, and any reads that may fail.                       *)
(***************************************************************************)
EXTENDS Probe, JudgementProofs

-----------------------------------------------------------------------------
(***************************************************************************)
(* Types.                                                                  *)
(***************************************************************************)

\* Every read leaves the failures among those that may happen.
LEMMA ReadingType ==
    ASSUME failed \subseteq Faulty, NEW S, Reading(S)
    PROVE  failed' \subseteq Faulty /\ failed \subseteq failed'
  BY DEF Reading

LEMMA InitTypes == Init => TypeOK
<1> SUFFICES ASSUME Init PROVE TypeOK
  OBVIOUS
<1>1. drive \in Drives /\ quiet \in BOOLEAN /\ late \in BOOLEAN /\ pc \in Pcs /\ failed \subseteq Faulty
  BY ProbeAssumption DEF Init, Pcs
<1>2. esp \in Esps /\ verdict \in Verdicts
  BY RecordTypes DEF Init
<1> QED
  BY <1>1, <1>2 DEF Init, TypeOK

\* Every variable keeps its type through every look.
THEOREM Typing == Spec => []TypeOK
<1> USE ProbeAssumption
<1>1. Init => TypeOK
  BY InitTypes
<1>2. TypeOK /\ [Next]_vars => TypeOK'
  <2> SUFFICES ASSUME TypeOK, [Next]_vars PROVE TypeOK'
    OBVIOUS
  <2> USE DEF TypeOK, Pcs, answers, history, Go, Conclude
  <2>1. CASE ReadSysfs
    BY <2>1, ReadTypes, ReadingType DEF ReadSysfs
  <2>2. CASE ReadEsp
    BY <2>2, ReadTypes, ReadingType DEF ReadEsp
  <2>3. CASE NoMedium \/ Removable \/ NotOurs
    BY <2>3, RecordTypes DEF NoMedium, Removable, NotOurs
  <2>4. CASE ReadTransport
    BY <2>4, ReadTypes, ReadingType DEF ReadTransport
  <2>5. CASE ListPartitions
    BY <2>5, ReadTypes, ReadingType, DriveTypes DEF ListPartitions
  <2>6. CASE SniffFails
    BY <2>6, RecordTypes DEF SniffFails, NextProbe, Ahead
  <2>7. CASE NoSlabHere
    BY <2>7 DEF NoSlabHere, NextProbe, Ahead
  <2>8. CASE CannotIdentify
    BY <2>8, RecordTypes DEF CannotIdentify
  <2>9. CASE IdentifySlab
    BY <2>9, RecordTypes DEF IdentifySlab, SlabHere
  <2>10. CASE Resniff
    BY <2>10, RecordTypes, ReadingType DEF Resniff
  <2>11. CASE ScanFront \/ ScanGrain \/ ScanTail
    BY <2>11, RecordTypes, ReadingType DEF ScanFront, ScanGrain, ScanTail, Scan
  <2>12. CASE Write
    BY <2>12 DEF Write, Scanning
  <2>13. CASE Done \/ UNCHANGED vars
    BY <2>13 DEF Done, vars
  <2> QED
    BY <2>1, <2>2, <2>3, <2>4, <2>5, <2>6, <2>7, <2>8, <2>9, <2>10, <2>11,
       <2>12, <2>13 DEF Next, Look
<1> QED
  BY <1>1, <1>2, PTL DEF Spec

-----------------------------------------------------------------------------
(***************************************************************************)
(* What the look knows of the drive it is looking at, at each read.  None  *)
(* of the properties is inductive by itself: each rests on the answers     *)
(* kept from earlier reads still being true of a drive that somebody may   *)
(* have laid out since.                                                    *)
(***************************************************************************)
Scans == {"front", "grain", "tail"}

Loop == {"probe", "unprobed"} \cup Scans

\* What sysfs said still holds: a writer changes neither.
SysfsHolds ==
    /\ size # 0 => drive.size = size
    /\ pc # "sysfs" => Site("removable") \in failed \/ removable = drive.removable
    /\ pc \in Loop \cup {"parts"} => size # 0 /\ ~removable

\* So does the transport, and nothing remote is ever scanned.
TransportHolds ==
    /\ pc \in Loop \cup {"parts"} => Site("transport") \in failed \/ remote = drive.remote
    /\ pc \in Scans => ~remote

\* Only partitions that are there are probed, one that is not was not read, and
\* those passed over carried no slab that answered.
ProbedSoFar ==
    /\ pc \in Loop =>
         /\ parts \subseteq 1..Len(drive.parts)
         /\ parts # {} =>
              \A i \in 1..Len(drive.parts) : i \notin parts => <<"entry", i>> \in failed
    /\ pc = "probe" =>
         /\ probe \in {0} \cup parts
         /\ \A i \in {0} \cup parts :
               i < probe /\ ContentAt(drive, i) \in Roles => <<"sniff", i>> \in failed

\* A claim of another node was read, if the ESP was.
ClaimHolds ==
    pc \notin {"sysfs", "esp"} /\ ClaimedByAnother(drive.esp, Self) =>
        EspReads \cap failed # {} \/ ClaimedByAnother(esp, Self)

NoVerdictYet == pc # "done" => verdict.kind = "Unreadable"

\* What the scan has passed is still zero, unless somebody wrote behind it.
ScannedSoFar ==
    /\ pc \in Scanning => late \/ drive.head = "zero"
    /\ pc = "tail" => late \/ drive.rest # "sampled"

Inv == /\ TypeOK
       /\ TableInSight(drive)
       /\ SysfsHolds /\ TransportHolds /\ ProbedSoFar /\ ClaimHolds
       /\ NoVerdictYet /\ ScannedSoFar
       /\ ClaimIsDecisive /\ MineIsALocalSlab

\* Somebody lays out a drive: what was read of it stays true, since only a
\* drive that was empty is laid out, and with no claim on it.
LEMMA WriteKeepsInv ==
    ASSUME Inv, Write, TypeOK'
    PROVE  Inv'
<1> USE ProbeAssumption DEF Inv
<1>1. PICK d \in Contents : /\ d.size = drive.size /\ ~d.removable /\ ~d.remote
                            /\ d.esp.claim = NoNode
                            /\ drive' = d
  BY DEF Write
<1>2. /\ pc # "done" /\ Untouched(drive)
      /\ UNCHANGED <<quiet, pc, failed, size, removable, esp, remote, parts, probe, verdict>>
      /\ late' = (pc \in Scanning)
  BY DEF Write, answers
<1>3. TableInSight(drive')
  BY <1>1
<1>4. SysfsHolds' /\ TransportHolds'
  BY <1>1, <1>2, DriveTypes DEF SysfsHolds, TransportHolds, Untouched, TypeOK, Loop, Scans
<1>5. ProbedSoFar'
  <2>1. Len(drive.parts) = 0
    BY <1>2 DEF Untouched
  <2>2. pc \in Loop => parts = {}
    BY <2>1 DEF ProbedSoFar
  <2>3. pc = "probe" => probe = 0
    BY <2>2 DEF ProbedSoFar, Loop, Scans
  <2> QED
    BY <1>2, <2>2, <2>3 DEF ProbedSoFar, Loop, Scans
<1>6. ClaimHolds'
  BY <1>1, <1>2 DEF ClaimHolds, ClaimedByAnother
<1>7. NoVerdictYet' /\ ScannedSoFar' /\ ClaimIsDecisive' /\ MineIsALocalSlab'
  BY <1>2 DEF NoVerdictYet, ScannedSoFar, Scanning, ClaimIsDecisive, MineIsALocalSlab
<1> QED
  BY <1>3, <1>4, <1>5, <1>6, <1>7

\* The reads before the loop each add one answer.
LEMMA AnswersKeepInv ==
    ASSUME Inv, TypeOK', ReadSysfs \/ ReadEsp \/ ReadTransport \/ ListPartitions
    PROVE  Inv'
<1> USE DEF Inv, Go
<1>1. /\ drive' = drive /\ verdict' = verdict /\ failed \subseteq failed'
      /\ pc # "done" /\ pc' # "done"
  BY DEF ReadSysfs, ReadEsp, ReadTransport, ListPartitions, Reading
<1>1a. pc' \notin Scanning
  BY DEF ReadSysfs, ReadEsp, ReadTransport, ListPartitions, Scanning
<1>2. TableInSight(drive)' /\ NoVerdictYet' /\ ScannedSoFar' /\ ClaimIsDecisive' /\ MineIsALocalSlab'
  BY <1>1, <1>1a DEF NoVerdictYet, ScannedSoFar, Scanning, ClaimIsDecisive, MineIsALocalSlab
<1>3. SysfsHolds' /\ TransportHolds' /\ ClaimHolds'
  <2>1. SysfsHolds'
    <3>1. CASE ReadSysfs
      BY <1>1, <3>1, DriveTypes
         DEF SysfsHolds, ReadSysfs, SizeRead, RemovableRead, Loop, Scans, TypeOK
    <3>2. CASE ReadEsp \/ ReadTransport \/ ListPartitions
      BY <1>1, <3>2 DEF SysfsHolds, ReadEsp, ReadTransport, ListPartitions, Loop, Scans
    <3> QED
      BY <3>1, <3>2
  <2>2. TransportHolds'
    <3>1. CASE ReadTransport
      BY <1>1, <3>1, DriveTypes
         DEF TransportHolds, ReadTransport, RemoteRead, Loop, Scans, TypeOK
    <3>2. CASE ReadSysfs \/ ReadEsp \/ ListPartitions
      BY <1>1, <3>2 DEF TransportHolds, ReadSysfs, ReadEsp, ListPartitions, Loop, Scans
    <3> QED
      BY <3>1, <3>2
  <2>3. ClaimHolds'
    <3>1. CASE ReadEsp
      <4>1. drive.esp \in Esps /\ esp' = EspRead(drive, failed')
        BY <3>1, DriveTypes DEF ReadEsp, TypeOK
      <4>2. ASSUME ClaimedByAnother(drive.esp, Self), EspReads \cap failed' = {}
            PROVE  esp'.claim = drive.esp.claim
        <5>1. drive.esp # NoEsp
          BY <4>2 DEF ClaimedByAnother, NoEsp
        <5>2. drive.esp \in [present : {TRUE}, claim : Nodes \cup {NoNode}, boot : BOOLEAN]
          BY <4>1, <5>1 DEF Esps
        <5>3. Site("esp") \notin failed' /\ Site("record") \notin failed'
          BY <4>2 DEF EspReads
        <5> QED
          BY <4>1, <5>2, <5>3 DEF EspRead
      <4> QED
        BY <1>1, <4>2 DEF ClaimHolds, ClaimedByAnother
    <3>2. CASE ReadSysfs
      BY <3>2 DEF ClaimHolds, ReadSysfs
    <3>3. CASE ReadTransport \/ ListPartitions
      BY <1>1, <3>3 DEF ClaimHolds, ReadTransport, ListPartitions
    <3> QED
      BY <3>1, <3>2, <3>3
  <2> QED
    BY <2>1, <2>2, <2>3
<1>4. ProbedSoFar'
  <2>1. CASE ListPartitions
    <3>1. /\ drive \in Drives /\ parts' = PartsRead(drive, failed')
          /\ probe' = 0 /\ pc' = "probe"
      BY <2>1 DEF ListPartitions, TypeOK
    <3>2. /\ parts' \subseteq 1..Len(drive.parts)
          /\ parts' # {} =>
               \A i \in 1..Len(drive.parts) : i \notin parts' => <<"entry", i>> \in failed'
      BY <3>1 DEF PartsRead
    <3>3. \A i \in {0} \cup parts' : ~(i < probe')
      BY <3>1, <3>2
    <3> QED
      BY <1>1, <3>1, <3>2, <3>3 DEF ProbedSoFar
  <2>2. CASE ReadSysfs \/ ReadEsp \/ ReadTransport
    BY <2>2 DEF ReadSysfs, ReadEsp, ReadTransport, ProbedSoFar, Loop, Scans
  <2> QED
    BY <2>1, <2>2
<1> QED
  BY <1>2, <1>3, <1>4

\* Passing a device over: it carries no slab, or it did not answer.
LEMMA LoopKeepsInv ==
    ASSUME Inv, TypeOK', NoSlabHere \/ (SniffFails /\ probe # 0)
    PROVE  Inv'
<1> USE DEF Inv
<1>1. /\ drive' = drive /\ failed \subseteq failed' /\ pc = "probe"
      /\ NextProbe /\ UNCHANGED <<size, removable, esp, remote, parts>>
      /\ SlabHere => <<"sniff", probe>> \in failed'
  BY DEF NoSlabHere, SniffFails, answers
<1>2. /\ pc' \in {"probe", "unprobed"} /\ verdict' = verdict
      /\ pc' = "probe" =>
           /\ probe' \in parts /\ probe' > probe
           /\ \A i \in parts : i > probe => probe' <= i
  BY <1>1 DEF NextProbe, Ahead, Go
<1>3. TableInSight(drive)' /\ NoVerdictYet' /\ ScannedSoFar' /\ ClaimIsDecisive' /\ MineIsALocalSlab'
  BY <1>1, <1>2 DEF NoVerdictYet, ScannedSoFar, Scanning, ClaimIsDecisive, MineIsALocalSlab
<1>4. SysfsHolds' /\ TransportHolds' /\ ClaimHolds'
  BY <1>1, <1>2 DEF SysfsHolds, TransportHolds, ClaimHolds, Loop, Scans
<1>5. ProbedSoFar'
  <2>1. /\ parts' \subseteq 1..Len(drive'.parts)
        /\ parts' # {} =>
             \A i \in 1..Len(drive'.parts) : i \notin parts' => <<"entry", i>> \in failed'
    BY <1>1 DEF ProbedSoFar, Loop, Scans
  <2>2. ASSUME pc' = "probe" PROVE probe' \in {0} \cup parts'
    BY <1>1, <1>2, <2>2
  <2>3. ASSUME pc' = "probe", NEW i \in {0} \cup parts, i < probe', ContentAt(drive, i) \in Roles
        PROVE  <<"sniff", i>> \in failed'
    <3>1. i \in Nat /\ probe \in Nat /\ probe' \in Nat
      BY DEF TypeOK
    <3>2. i = probe \/ i < probe
      BY <1>2, <2>3, <3>1
    <3> QED
      BY <1>1, <2>3, <3>2 DEF ProbedSoFar, SlabHere
  <2> QED
    BY <1>1, <2>1, <2>2, <2>3 DEF ProbedSoFar
<1> QED
  BY <1>3, <1>4, <1>5

\* Whatever ends the look without an owner keeps the invariant: the properties
\* speak of no verdict but Mine.
LEMMA OtherVerdictsKeepInv ==
    ASSUME Inv, TypeOK', pc # "done", pc' = "done", verdict'.kind # "Mine",
           drive' = drive, failed \subseteq failed',
           UNCHANGED <<size, removable, esp, remote, parts>>, pc # "sysfs", pc # "esp"
    PROVE  Inv'
<1> USE DEF Inv
<1>1. TableInSight(drive)' /\ NoVerdictYet' /\ ScannedSoFar' /\ ClaimIsDecisive' /\ MineIsALocalSlab'
  BY DEF NoVerdictYet, ScannedSoFar, Scanning, ClaimIsDecisive, MineIsALocalSlab
<1>2. SysfsHolds' /\ TransportHolds' /\ ClaimHolds' /\ ProbedSoFar'
  BY DEF SysfsHolds, TransportHolds, ClaimHolds, ProbedSoFar, Loop, Scans
<1> QED
  BY <1>1, <1>2

\* A slab that was identified is this node's only when it is one.
LEMMA IdentifyKeepsInv ==
    ASSUME Inv, TypeOK', IdentifySlab
    PROVE  Inv'
<1> USE DEF Inv
<1>1. /\ pc = "probe" /\ SlabHere /\ pc' = "done"
      /\ UNCHANGED <<drive, quiet, failed, size, removable, esp, remote, parts, probe>>
      /\ verdict' = IF remote \/ ClaimedByAnother(esp, Self)
                    THEN Of("AnotherNode") ELSE MineVerdict(drive, probe)
  BY DEF IdentifySlab, Conclude, answers, history
<1>2. CASE remote \/ ClaimedByAnother(esp, Self)
  <2>1. verdict'.kind # "Mine"
    BY <1>1, <1>2 DEF Of
  <2> QED
    BY <1>1, <2>1, OtherVerdictsKeepInv
<1>3. CASE ~remote /\ ~ClaimedByAnother(esp, Self)
  <2>1. verdict' = MineVerdict(drive, probe)
    BY <1>1, <1>3
  <2>2. verdict'.role = ContentAt(drive, probe) /\ verdict'.slab = probe
    BY <2>1 DEF MineVerdict
  <2>3. SysfsHolds' /\ TransportHolds' /\ ClaimHolds' /\ ProbedSoFar' /\ NoVerdictYet'
        /\ ScannedSoFar'
    BY <1>1 DEF SysfsHolds, TransportHolds, ClaimHolds, ProbedSoFar, NoVerdictYet, ScannedSoFar, Scanning, Loop, Scans
  <2>4. ClaimIsDecisive'
    BY <1>1, <1>3 DEF ClaimIsDecisive, ClaimHolds, ClaimedByAnother
  <2>5. drive.size > 0
    BY <1>1, DriveTypes DEF SysfsHolds, TypeOK, Loop, Scans
  <2>6. failed \cap Assumed = {} => ~drive.removable /\ ~drive.remote
    BY <1>1, <1>3 DEF SysfsHolds, TransportHolds, Loop, Scans, Assumed
  <2>7. /\ probe \in {0} \cup parts /\ parts \subseteq 1..Len(drive.parts)
        /\ Len(drive.parts) \in Nat /\ probe <= Len(drive.parts)
    BY <1>1, DriveTypes DEF ProbedSoFar, TypeOK, Loop, Scans
  <2>9. ASSUME NEW i \in 0..(probe - 1), ContentAt(drive, i) \in Roles
        PROVE  {<<"sniff", i>>, <<"entry", i>>} \cap failed # {}
    <3>1. probe \in parts /\ i < probe /\ i \in 0..Len(drive.parts)
      BY <2>7, <2>9
    <3>2. CASE i \in {0} \cup parts
      BY <1>1, <2>9, <3>1, <3>2 DEF ProbedSoFar
    <3>3. CASE i \notin {0} \cup parts
      <4>1. i \in 1..Len(drive.parts) /\ i \notin parts
        BY <3>1, <3>3
      <4> QED
        BY <1>1, <3>1, <4>1 DEF ProbedSoFar, Loop
    <3> QED
      BY <3>2, <3>3
  <2>8. MineIsALocalSlab'
    BY <1>1, <2>2, <2>5, <2>6, <2>7, <2>9 DEF MineIsALocalSlab
  <2> QED
    BY <1>1, <2>3, <2>4, <2>8
<1> QED
  BY <1>2, <1>3

\* The drive was passed over whole; what is left to read of it.
LEMMA ResniffKeepsInv ==
    ASSUME Inv, TypeOK', Resniff
    PROVE  Inv'
<1> USE DEF Inv
<1>1. /\ drive' = drive /\ failed \subseteq failed' /\ pc = "unprobed" /\ ~remote
      /\ UNCHANGED <<size, removable, esp, remote, parts>>
  BY DEF Resniff, Reading, answers
<1>2. \/ pc' = "front" /\ verdict' = verdict
      \/ pc' = "done" /\ verdict'.kind # "Mine"
  BY DEF Resniff, Conclude, Go, Of
<1>3. CASE pc' = "done"
  BY <1>1, <1>2, <1>3, OtherVerdictsKeepInv
<1>4. CASE pc' = "front"
  <2>1. TableInSight(drive)' /\ NoVerdictYet' /\ ScannedSoFar' /\ ClaimIsDecisive' /\ MineIsALocalSlab'
    BY <1>1, <1>2, <1>4 DEF NoVerdictYet, ScannedSoFar, Scanning, ClaimIsDecisive, MineIsALocalSlab
  <2>2. SysfsHolds' /\ TransportHolds' /\ ClaimHolds' /\ ProbedSoFar'
    BY <1>1, <1>4 DEF SysfsHolds, TransportHolds, ClaimHolds, ProbedSoFar, Loop, Scans
  <2> QED
    BY <2>1, <2>2
<1> QED
  BY <1>2, <1>3, <1>4

\* One part of the drive was scanned, and nothing found in it.
LEMMA ScanKeepsInv ==
    ASSUME Inv, TypeOK', ScanFront \/ ScanGrain \/ ScanTail
    PROVE  Inv'
<1> USE DEF Inv
<1>1. /\ drive' = drive /\ late' = late /\ failed \subseteq failed' /\ pc \in Scans
      /\ UNCHANGED <<size, removable, esp, remote, parts>>
  BY DEF ScanFront, ScanGrain, ScanTail, Scan, Scans, Reading, answers, history
<1>2. \/ pc' = "done" /\ verdict'.kind # "Mine"
      \/ pc = "front" /\ pc' = "grain" /\ drive.head = "zero" /\ verdict' = verdict
      \/ pc = "grain" /\ pc' = "tail" /\ drive.rest # "sampled" /\ verdict' = verdict
  BY DEF ScanFront, ScanGrain, ScanTail, Scan, Conclude, Go, Of
<1>3. CASE pc' = "done"
  BY <1>1, <1>2, <1>3, OtherVerdictsKeepInv DEF Scans
<1>4. CASE pc' # "done"
  <2>1. TableInSight(drive)' /\ NoVerdictYet' /\ ClaimIsDecisive' /\ MineIsALocalSlab'
    BY <1>1, <1>2, <1>4 DEF NoVerdictYet, ClaimIsDecisive, MineIsALocalSlab, Scans
  <2>2. ScannedSoFar'
    BY <1>1, <1>2, <1>4 DEF ScannedSoFar, Scanning
  <2>3. SysfsHolds' /\ TransportHolds' /\ ClaimHolds' /\ ProbedSoFar'
    BY <1>1, <1>2, <1>4 DEF SysfsHolds, TransportHolds, ClaimHolds, ProbedSoFar, Loop, Scans
  <2> QED
    BY <2>1, <2>2, <2>3
<1> QED
  BY <1>3, <1>4

\* At every read of a look, what was answered so far holds of the drive, and the
\* three properties of the verdict follow.
THEOREM Invariance == Spec => []Inv
<1>1. Init => Inv
  <2> SUFFICES ASSUME Init PROVE Inv
    OBVIOUS
  <2>1. pc = "sysfs" /\ size = 0 /\ verdict.kind = "Unreadable" /\ TableInSight(drive)
    BY ProbeAssumption DEF Init, Of
  <2>2. TypeOK
    BY InitTypes
  <2> QED
    BY <2>1, <2>2 DEF Inv, SysfsHolds, TransportHolds, ProbedSoFar, ClaimHolds,
                      NoVerdictYet, ScannedSoFar, Scanning, ClaimIsDecisive, MineIsALocalSlab, Loop, Scans
<1>2. Inv /\ TypeOK' /\ [Next]_vars => Inv'
  <2> SUFFICES ASSUME Inv, TypeOK', [Next]_vars PROVE Inv'
    OBVIOUS
  <2>1. CASE Write
    BY <2>1, WriteKeepsInv
  <2>2. CASE ReadSysfs \/ ReadEsp \/ ReadTransport \/ ListPartitions
    BY <2>2, AnswersKeepInv
  <2>3. CASE NoSlabHere \/ (SniffFails /\ probe # 0)
    BY <2>3, LoopKeepsInv
  <2>4. CASE IdentifySlab
    BY <2>4, IdentifyKeepsInv
  <2>5. CASE Resniff
    BY <2>5, ResniffKeepsInv
  <2>6. CASE \/ NoMedium \/ Removable \/ NotOurs \/ CannotIdentify
             \/ (SniffFails /\ probe = 0)
    <3>1. /\ pc # "done" /\ pc' = "done" /\ verdict'.kind # "Mine"
          /\ drive' = drive /\ failed \subseteq failed'
          /\ UNCHANGED <<size, removable, esp, remote, parts>>
          /\ pc # "sysfs" /\ pc # "esp"
      BY <2>6 DEF NoMedium, Removable, NotOurs, CannotIdentify,
                  SniffFails, Conclude, Of, Reading, answers
    <3> QED
      BY <3>1, OtherVerdictsKeepInv
  <2>8. CASE ScanFront \/ ScanGrain \/ ScanTail
    BY <2>8, ScanKeepsInv
  <2>7. CASE Done \/ UNCHANGED vars
    <3>1. UNCHANGED vars
      BY <2>7 DEF Done
    <3> QED
      BY <3>1 DEF vars, Inv, SysfsHolds, TransportHolds, ProbedSoFar, ClaimHolds,
                  NoVerdictYet, ScannedSoFar, ClaimIsDecisive, MineIsALocalSlab, TypeOK
  <2> QED
    BY <2>1, <2>2, <2>3, <2>4, <2>5, <2>6, <2>7, <2>8 DEF Next, Look
<1> QED
  BY <1>1, <1>2, Typing, PTL DEF Spec

\* A claim naming another node is decisive, however local the drive.
THEOREM ClaimDecides == Spec => []ClaimIsDecisive
<1>1. Inv => ClaimIsDecisive
  BY DEF Inv
<1> QED
  BY <1>1, Invariance, PTL

\* What is taken for this node's is a slab, on a fixed drive attached here.
THEOREM MineIsMine == Spec => []MineIsALocalSlab
<1>1. Inv => MineIsALocalSlab
  BY DEF Inv
<1> QED
  BY <1>1, Invariance, PTL

\* No step calls blank a drive that holds anything where it was read, whichever
\* reads failed on the way and whoever wrote to it between them, unless behind
\* the scan.
THEOREM BlankIsBlank == Spec => BlankIsUntouched
<1>1. ASSUME Inv, [Next]_vars, verdict' # verdict, verdict'.kind = "Blank",
             failed \cap Assumed = {}, ~late
      PROVE  Untouched(drive)
  <2>1. ScanTail
    BY <1>1 DEF Next, Look, vars, answers, Go, Conclude, Of, MineVerdict, ReadSysfs,
         ReadEsp, NoMedium, Removable, ReadTransport, ListPartitions, SniffFails,
         NextProbe, NoSlabHere, CannotIdentify, IdentifySlab, NotOurs, Resniff,
         ScanFront, ScanGrain, Scan, Write, Done
  <2>2. pc = "tail" /\ drive.tail = "zero"
    BY <1>1, <2>1 DEF ScanTail, Scan, Conclude, Of, TypeOK, Inv, Drives
  <2>3. drive.head = "zero" /\ drive.rest # "sampled"
    BY <1>1, <2>2 DEF Inv, ScannedSoFar, Scanning
  <2>4. drive.size > 0 /\ ~drive.removable /\ ~drive.remote
    BY <1>1, <2>2, DriveTypes
       DEF Inv, TypeOK, SysfsHolds, TransportHolds, Loop, Scans, Assumed
  <2>5. drive.parts = << >> /\ ~drive.esp.present
    BY <1>1, <2>2, <2>3 DEF Inv, TableInSight
  <2> QED
    BY <2>2, <2>3, <2>4, <2>5 DEF Untouched
<1>2. Inv /\ [Next]_vars =>
        [verdict' # verdict /\ verdict'.kind = "Blank" =>
            \/ failed \cap Assumed # {}
            \/ late
            \/ Untouched(drive)]_vars
  BY <1>1
<1> QED
  BY <1>2, Invariance, PTL DEF Spec, BlankIsUntouched

-----------------------------------------------------------------------------
(***************************************************************************)
(* A look that nobody writes into comes to what Judge computes.  The       *)
(* invariant says which reads may have failed by then, that every answer   *)
(* is the one Judge takes for these failures, and what was passed over.    *)
(***************************************************************************)
Sysfs == {Site("size"), Site("removable")}

EspSites == EspReads \cup {Site("loader")}

Listing == {Site("parts")} \cup ({"entry"} \X Nat)

Named == Sysfs \cup EspSites \cup {Site("transport")} \cup Listing

Bare == {"unprobed"} \cup Scans

FailedSoFar ==
    /\ pc = "sysfs" => failed = {}
    /\ pc = "esp" => failed \subseteq Sysfs
    /\ pc = "gate" => failed \subseteq Sysfs \cup EspSites
    /\ pc = "parts" => failed \subseteq Named \ Listing
    /\ pc = "probe" => failed \subseteq Named \cup ({"sniff"} \X (1..(probe - 1)))
    /\ pc \in Bare => failed \subseteq Named \cup ({"sniff"} \X (Nat \ {0}))

AnswersHold ==
    /\ pc \notin {"sysfs", "done"} =>
          size = SizeRead(drive, failed) /\ removable = RemovableRead(drive, failed)
    /\ pc \notin {"sysfs", "esp", "done"} => esp = EspRead(drive, failed)
    /\ pc \in Loop \cup {"parts"} => remote = RemoteRead(drive, failed)
    /\ pc \in Loop => parts = PartsRead(drive, failed)

PassedOver ==
    /\ pc \in Bare => SlabProbes(drive, failed) = {}
    /\ pc \in Scans => ~remote /\ parts = {} /\ ~Signature(drive)
    /\ pc \in Scanning => drive.head = "zero"
    /\ pc = "tail" => drive.rest # "sampled"

Agreeing == quiet => FailedSoFar /\ AnswersHold /\ PassedOver /\ AgreesWithJudge

\* An answer changes only with the failure of its own read.
LEMMA SameAnswers ==
    ASSUME NEW d, NEW f, NEW g, f \subseteq g, (g \ f) \cap Named = {}
    PROVE  /\ SizeRead(d, g) = SizeRead(d, f) /\ RemovableRead(d, g) = RemovableRead(d, f)
           /\ EspRead(d, g) = EspRead(d, f) /\ RemoteRead(d, g) = RemoteRead(d, f)
           /\ PartsRead(d, g) = PartsRead(d, f)
<1>1. \A x \in Named : x \in g <=> x \in f
  OBVIOUS
<1>2. /\ Site("size") \in Named /\ Site("removable") \in Named /\ Site("esp") \in Named
      /\ Site("record") \in Named /\ Site("loader") \in Named
      /\ Site("transport") \in Named /\ Site("parts") \in Named
      /\ \A i \in 1..Len(d.parts) : <<"entry", i>> \in Named
  BY DEF Named, Sysfs, EspSites, EspReads, Listing
<1>3. PartsRead(d, g) = PartsRead(d, f)
  <2>1. \A i \in 1..Len(d.parts) : <<"entry", i>> \in g <=> <<"entry", i>> \in f
    BY <1>1, <1>2
  <2> QED
    BY <1>1, <1>2, <2>1 DEF PartsRead
<1> QED
  BY <1>1, <1>2, <1>3 DEF SizeRead, RemovableRead, EspRead, RemoteRead

\* The names of the reads are all different.
LEMMA Distinct ==
    /\ Site("size") \notin EspSites /\ Site("removable") \notin EspSites
    /\ Site("transport") \notin Sysfs \cup EspSites \cup Listing
    /\ (Sysfs \cup EspSites) \cap Listing = {}
    /\ \A i : <<"sniff", i>> \notin Named /\ <<"identify", i>> \notin Named
    /\ Site("resniff") \notin Named /\ Site("deep") \notin Named
    /\ \A T, i : <<"identify", i>> \notin {"sniff"} \X T
    /\ \A T : Site("resniff") \notin {"sniff"} \X T /\ Site("deep") \notin {"sniff"} \X T
  BY DEF Site, EspReads, EspSites, Sysfs, Listing, Named

\* The reads before the loop.
LEMMA AnswersAgree ==
    ASSUME Inv, FailedSoFar, AnswersHold,
           ReadSysfs \/ ReadEsp \/ ReadTransport \/ ListPartitions
    PROVE  (FailedSoFar /\ AnswersHold /\ PassedOver /\ AgreesWithJudge)'
<1>1. CASE ReadSysfs
  <2>1. /\ pc = "sysfs" /\ pc' = "esp" /\ drive' = drive /\ failed' \subseteq Sysfs
        /\ size' = SizeRead(drive, failed') /\ removable' = RemovableRead(drive, failed')
    BY <1>1 DEF ReadSysfs, Go, Reading, FailedSoFar, Sysfs
  <2> QED
    BY <2>1 DEF FailedSoFar, AnswersHold, PassedOver, AgreesWithJudge, Bare, Scans, Scanning, Loop
<1>2. CASE ReadEsp
  <2>1. /\ pc = "esp" /\ pc' = "gate" /\ drive' = drive
        /\ failed' \subseteq Sysfs \cup EspSites
        /\ esp' = EspRead(drive, failed') /\ UNCHANGED <<size, removable>>
        /\ failed \subseteq failed' /\ failed' \ failed \subseteq EspSites
    BY <1>2 DEF ReadEsp, Go, Reading, FailedSoFar, EspSites
  <2>2. /\ SizeRead(drive, failed') = SizeRead(drive, failed)
        /\ RemovableRead(drive, failed') = RemovableRead(drive, failed)
    BY <2>1, Distinct DEF SizeRead, RemovableRead
  <2> QED
    BY <2>1, <2>2
       DEF FailedSoFar, AnswersHold, PassedOver, AgreesWithJudge, Bare, Scans, Scanning, Loop
<1>3. CASE ReadTransport
  <2>1. /\ pc = "gate" /\ pc' = "parts" /\ drive' = drive
        /\ failed' \subseteq Named \ Listing
        /\ remote' = RemoteRead(drive, failed') /\ UNCHANGED <<size, removable, esp>>
        /\ failed \subseteq failed' /\ failed' \ failed \subseteq {Site("transport")}
    BY <1>3, Distinct DEF ReadTransport, Go, Reading, FailedSoFar, Named
  <2>2. /\ SizeRead(drive, failed') = SizeRead(drive, failed)
        /\ RemovableRead(drive, failed') = RemovableRead(drive, failed)
        /\ EspRead(drive, failed') = EspRead(drive, failed)
    BY <2>1, Distinct DEF SizeRead, RemovableRead, EspRead, Sysfs, EspSites, EspReads
  <2> QED
    BY <2>1, <2>2
       DEF FailedSoFar, AnswersHold, PassedOver, AgreesWithJudge, Bare, Scans, Scanning, Loop
<1>4. CASE ListPartitions
  <2>1. /\ pc = "parts" /\ pc' = "probe" /\ drive' = drive
        /\ failed' \subseteq Named
        /\ parts' = PartsRead(drive, failed') /\ UNCHANGED <<size, removable, esp, remote>>
        /\ failed \subseteq failed' /\ failed' \ failed \subseteq Listing
    BY <1>4, Distinct DEF ListPartitions, Go, Reading, FailedSoFar, Named, Listing
  <2>2. /\ SizeRead(drive, failed') = SizeRead(drive, failed)
        /\ RemovableRead(drive, failed') = RemovableRead(drive, failed)
        /\ EspRead(drive, failed') = EspRead(drive, failed)
        /\ RemoteRead(drive, failed') = RemoteRead(drive, failed)
    BY <2>1, Distinct DEF SizeRead, RemovableRead, EspRead, RemoteRead, Sysfs, EspSites, EspReads
  <2> QED
    BY <2>1, <2>2
       DEF FailedSoFar, AnswersHold, PassedOver, AgreesWithJudge, Bare, Scans, Scanning, Loop
<1> QED
  BY <1>1, <1>2, <1>3, <1>4

\* A device is passed over.
LEMMA LoopAgrees ==
    ASSUME Inv, Inv', FailedSoFar, AnswersHold, NoSlabHere \/ (SniffFails /\ probe # 0)
    PROVE  (FailedSoFar /\ AnswersHold /\ PassedOver /\ AgreesWithJudge)'
<1>1. /\ drive' = drive /\ pc = "probe" /\ NextProbe
      /\ UNCHANGED <<size, removable, esp, remote, parts>>
      /\ \/ failed' = failed /\ ~SlabHere
         \/ failed' = failed \cup {<<"sniff", probe>>} /\ probe # 0
  BY DEF NoSlabHere, SniffFails, answers
<1>2. probe \in Nat /\ parts \subseteq Nat /\ probe' \in Nat
  BY DEF Inv, TypeOK
<1>3. /\ \/ pc' = "probe" /\ probe' > probe
         \/ pc' = "unprobed" /\ probe' = probe /\ \A i \in parts : ~(i > probe)
      /\ pc' # "done"
  BY <1>1, <1>2 DEF NextProbe, Ahead, Go
<1>4. failed \subseteq failed' /\ (failed' \ failed) \cap Named = {}
  BY <1>1, Distinct
<1>5. AnswersHold'
  <2>1. /\ SizeRead(drive, failed') = SizeRead(drive, failed)
        /\ RemovableRead(drive, failed') = RemovableRead(drive, failed)
        /\ EspRead(drive, failed') = EspRead(drive, failed)
        /\ RemoteRead(drive, failed') = RemoteRead(drive, failed)
        /\ PartsRead(drive, failed') = PartsRead(drive, failed)
    BY <1>4, SameAnswers
  <2> QED
    BY <1>1, <1>3, <2>1 DEF AnswersHold, Loop, Scans
<1>6. failed' \subseteq Named \cup ({"sniff"} \X (1..probe))
  <2>1. failed \subseteq Named \cup ({"sniff"} \X (1..(probe - 1)))
    BY <1>1 DEF FailedSoFar
  <2>2. 1..(probe - 1) \subseteq 1..probe /\ (probe # 0 => probe \in 1..probe)
    BY <1>2
  <2>3. ({"sniff"} \X (1..(probe - 1))) \subseteq ({"sniff"} \X (1..probe))
    BY <2>2
  <2>4. failed \subseteq Named \cup ({"sniff"} \X (1..probe))
    BY <2>1, <2>3
  <2>5. probe # 0 => <<"sniff", probe>> \in ({"sniff"} \X (1..probe))
    BY <2>2
  <2> QED
    BY <1>1, <2>4, <2>5
<1>7. FailedSoFar'
  <2>1. CASE pc' = "probe"
    <3>1. 1..probe \subseteq 1..(probe' - 1)
      <4>1. PICK p \in Nat : p = probe'
        BY <1>2
      <4>2. p > probe /\ probe \in Nat
        BY <1>2, <1>3, <2>1, <4>1
      <4>3. 1..probe \subseteq 1..(p - 1)
        BY <4>2
      <4> QED
        BY <4>1, <4>3
    <3>2. ({"sniff"} \X (1..probe)) \subseteq ({"sniff"} \X (1..(probe' - 1)))
      BY <3>1
    <3>3. failed' \subseteq Named \cup ({"sniff"} \X (1..(probe' - 1)))
      BY <1>6, <3>2
    <3> QED
      BY <2>1, <3>3 DEF FailedSoFar, Bare, Scans
  <2>2. CASE pc' = "unprobed"
    <3>1. 1..probe \subseteq Nat \ {0}
      BY <1>2
    <3>2. ({"sniff"} \X (1..probe)) \subseteq ({"sniff"} \X (Nat \ {0}))
      BY <3>1
    <3>3. failed' \subseteq Named \cup ({"sniff"} \X (Nat \ {0}))
      BY <1>6, <3>2
    <3> QED
      BY <2>2, <3>3 DEF FailedSoFar, Bare, Scans
  <2> QED
    BY <1>3, <2>1, <2>2
<1>8. ASSUME pc' = "unprobed" PROVE SlabProbes(drive, failed') = {}
  <2>1. parts = PartsRead(drive, failed')
    BY <1>1, <1>5, <1>8 DEF AnswersHold, Loop
  <2>2. ASSUME NEW i \in {0} \cup parts, ContentAt(drive, i) \in Roles
        PROVE  <<"sniff", i>> \in failed'
    <3>1. i < probe \/ i = probe
      BY <1>2, <1>3, <1>8, <2>2
    <3> QED
      BY <1>1, <1>4, <2>2, <3>1 DEF Inv, ProbedSoFar, SlabHere
  <2> QED
    BY <2>1, <2>2 DEF SlabProbes
<1>9. PassedOver'
  BY <1>1, <1>3, <1>8 DEF PassedOver, Bare, Scans, Scanning
<1> QED
  BY <1>3, <1>5, <1>7, <1>9 DEF AgreesWithJudge

\* A look that gets to its loop has a medium, is fixed, and answers as a whole;
\* further failures of reads without a name change no answer.
LEMMA InLoop ==
    ASSUME Inv, FailedSoFar, AnswersHold, pc \in Loop, NEW g,
           failed \subseteq g, (g \ failed) \cap Named = {}
    PROVE  /\ SizeRead(drive, g) # 0 /\ ~RemovableRead(drive, g)
           /\ EspRead(drive, g) = esp
           /\ RemoteRead(drive, g) = remote /\ PartsRead(drive, g) = parts
           /\ <<"sniff", 0>> \notin failed
<1>1. /\ SizeRead(drive, g) = SizeRead(drive, failed)
      /\ RemovableRead(drive, g) = RemovableRead(drive, failed)
      /\ EspRead(drive, g) = EspRead(drive, failed)
      /\ RemoteRead(drive, g) = RemoteRead(drive, failed)
      /\ PartsRead(drive, g) = PartsRead(drive, failed)
  BY SameAnswers
<1>2. size # 0 /\ ~removable
  BY DEF Inv, SysfsHolds
<1>3. <<"sniff", 0>> \notin failed
  <2>1. probe \in Nat
    BY DEF Inv, TypeOK
  <2>2. 0 \notin 1..(probe - 1)
    BY <2>1
  <2>3. pc = "probe" \/ pc \in Bare
    BY DEF Loop, Bare
  <2>4. <<"sniff", 0>> \notin Named
    BY Distinct
  <2> QED
    BY <2>2, <2>3, <2>4 DEF FailedSoFar
<1> QED
  BY <1>1, <1>2, <1>3 DEF AnswersHold, Loop, Scans

\* What is judged before the loop.
LEMMA GateAgrees ==
    ASSUME AnswersHold, NoMedium \/ Removable
    PROVE  AgreesWithJudge'
  BY DEF AnswersHold, NoMedium, Removable, answers, history, Conclude, AgreesWithJudge, Judge

\* The slab that is found is the first that answers.
LEMMA FirstIsProbe ==
    ASSUME Inv, FailedSoFar, AnswersHold, pc = "probe", SlabHere, NEW g,
           g = failed \/ g = failed \cup {<<"identify", probe>>}
    PROVE  SlabProbes(drive, g) # {} /\ FirstSlab(drive, g) = probe
<1>1. /\ probe \in Nat /\ parts \subseteq Nat /\ probe \in {0} \cup parts
      /\ drive \in Drives
  BY DEF Inv, TypeOK, ProbedSoFar
<1>2. failed \subseteq g /\ (g \ failed) \cap Named = {} /\ PartsRead(drive, g) = parts
  <2>1. failed \subseteq g /\ (g \ failed) \cap Named = {}
    BY Distinct
  <2> QED
    BY <2>1, InLoop DEF Loop
<1>3. \A i : <<"sniff", i>> \in g <=> <<"sniff", i>> \in failed
  OBVIOUS
<1>4. <<"sniff", probe>> \notin failed
  <2>1. probe \notin 1..(probe - 1)
    BY <1>1
  <2> QED
    BY <2>1, Distinct DEF FailedSoFar
<1>5. probe \in SlabProbes(drive, g)
  BY <1>1, <1>2, <1>3, <1>4 DEF SlabProbes, SlabHere
<1>6. ASSUME NEW i \in SlabProbes(drive, g) PROVE ~(i < probe)
  <2>1. /\ i \in {0} \cup parts /\ ContentAt(drive, i) \in Roles
        /\ <<"sniff", i>> \notin failed
    BY <1>2, <1>3 DEF SlabProbes
  <2> QED
    BY <2>1 DEF Inv, ProbedSoFar
<1>7. /\ FirstSlab(drive, g) \in SlabProbes(drive, g)
      /\ FirstSlab(drive, g) <= probe
  BY <1>1, <1>5, FirstSlabIsFirst
<1>8. FirstSlab(drive, g) \in Nat
  <2>1. ASSUME NEW i \in SlabProbes(drive, g) PROVE i \in Nat
    <3>1. i \in {0} \cup PartsRead(drive, g)
      BY DEF SlabProbes
    <3> QED
      BY <1>1, <1>2, <3>1
  <2> QED
    BY <1>7, <2>1
<1>9. ~ (FirstSlab(drive, g) < probe)
  BY <1>1, <1>6, <1>7, <1>8
<1> QED
  BY <1>1, <1>5, <1>7, <1>8, <1>9

\* What is judged in the loop.
LEMMA SlabAgrees ==
    ASSUME Inv, FailedSoFar, AnswersHold,
           (SniffFails /\ probe = 0) \/ CannotIdentify \/ IdentifySlab
    PROVE  AgreesWithJudge'
<1>1. drive' = drive /\ pc = "probe" /\ failed \subseteq failed'
      /\ (failed' \ failed) \cap Named = {}
  BY Distinct DEF SniffFails, CannotIdentify, IdentifySlab, answers, history
<1>2. /\ SizeRead(drive, failed') # 0 /\ ~RemovableRead(drive, failed')
      /\ EspRead(drive, failed') = esp
      /\ RemoteRead(drive, failed') = remote
      /\ <<"sniff", 0>> \notin failed
  BY <1>1, InLoop DEF Loop
<1>3. CASE SniffFails /\ probe = 0
  <2>1. <<"sniff", 0>> \in failed' /\ verdict' = Of("Unreadable")
    BY <1>3 DEF SniffFails, Conclude
  <2> QED
    BY <1>1, <1>2, <2>1 DEF AgreesWithJudge, Judge
<1>4. CASE CannotIdentify \/ IdentifySlab
  <2>1. /\ SlabHere
        /\ failed' = failed \/ failed' = failed \cup {<<"identify", probe>>}
    BY <1>4 DEF CannotIdentify, IdentifySlab
  <2>2. SlabProbes(drive, failed') # {} /\ FirstSlab(drive, failed') = probe
    BY <1>1, <2>1, FirstIsProbe
  <2>3. <<"sniff", 0>> \notin failed'
    BY <1>2, <2>1
  <2>4. Judge(drive, Self, failed') = JudgeSlab(drive, Self, failed', probe)
    BY <1>2, <2>2, <2>3 DEF Judge
  <2>5. verdict' = JudgeSlab(drive, Self, failed', probe)
    <3>1. CASE CannotIdentify
      <4>1. <<"identify", probe>> \in failed' /\ verdict' = Of("Foreign")
        BY <3>1 DEF CannotIdentify, Conclude
      <4> QED
        BY <4>1 DEF JudgeSlab
    <3>2. CASE IdentifySlab
      <4>1. /\ failed' = failed
            /\ verdict' = IF remote \/ ClaimedByAnother(esp, Self)
                          THEN Of("AnotherNode") ELSE MineVerdict(drive, probe)
        BY <3>2 DEF IdentifySlab, Conclude
      <4>2. <<"identify", probe>> \notin failed
        BY <1>1, Distinct DEF FailedSoFar
      <4> QED
        BY <1>2, <4>1, <4>2 DEF JudgeSlab
    <3> QED
      BY <1>4, <3>1, <3>2
  <2> QED
    BY <1>1, <2>4, <2>5 DEF AgreesWithJudge
<1> QED
  BY <1>3, <1>4

\* What is judged of a drive with no slab on it.
LEMMA BareAgrees ==
    ASSUME Inv, FailedSoFar, AnswersHold, PassedOver,
           NotOurs \/ Resniff \/ ScanFront \/ ScanGrain \/ ScanTail
    PROVE  (FailedSoFar /\ AnswersHold /\ PassedOver /\ AgreesWithJudge)'
<1>1. /\ drive' = drive /\ pc \in Bare
      /\ UNCHANGED <<size, removable, esp, remote, parts>>
      /\ failed' = failed \/ failed' = failed \cup {Site("resniff")}
                          \/ failed' = failed \cup {Site("deep")}
  BY DEF NotOurs, Resniff, ScanFront, ScanGrain, ScanTail, Scan, Reading, Bare, Scans,
         answers, history
<1>2. /\ failed \subseteq failed' /\ (failed' \ failed) \cap Named = {}
      /\ \A i : <<"sniff", i>> \in failed' <=> <<"sniff", i>> \in failed
      /\ Site("resniff") \notin failed /\ Site("deep") \notin failed
  <2>1. failed \subseteq Named \cup ({"sniff"} \X (Nat \ {0}))
    BY <1>1 DEF FailedSoFar
  <2>2. \A i : <<"sniff", i>> # Site("resniff") /\ <<"sniff", i>> # Site("deep")
    BY DEF Site
  <2> QED
    BY <1>1, <2>1, <2>2, Distinct
<1>3. /\ SizeRead(drive, failed') # 0 /\ ~RemovableRead(drive, failed')
      /\ RemoteRead(drive, failed') = remote /\ PartsRead(drive, failed') = parts
      /\ <<"sniff", 0>> \notin failed'
  BY <1>1, <1>2, InLoop DEF Loop, Bare
<1>4. SlabProbes(drive, failed') = {}
  <2>1. SlabProbes(drive, failed) = {} /\ PartsRead(drive, failed) = parts
    BY <1>1 DEF PassedOver, AnswersHold, Loop, Bare
  <2> QED
    BY <1>2, <1>3, <2>1 DEF SlabProbes
<1>5. Judge(drive, Self, failed') = JudgeBare(drive, failed')
  BY <1>3, <1>4 DEF Judge
<1>6. CASE pc' = "done"
  <2>1. verdict' = JudgeBare(drive, failed')
    <3>1. CASE NotOurs
      BY <1>3, <3>1 DEF NotOurs, Conclude, JudgeBare
    <3>2. CASE Resniff
      <4>1. ~remote /\ (Site("resniff") \in failed' \/ parts # {} \/ Signature(drive))
            /\ verdict' = IF Site("resniff") \in failed' THEN Of("Unreadable")
                          ELSE Of("Foreign")
        BY <1>6, <3>2 DEF Resniff, Conclude, Go
      <4> QED
        BY <1>3, <4>1 DEF JudgeBare
    <3>3. CASE ScanFront \/ ScanGrain \/ ScanTail
      <4>1. /\ pc \in Scans /\ Site("resniff") \notin failed'
            /\ ~remote /\ parts = {} /\ ~Signature(drive)
        <5>1. pc \in Scans
          BY <3>3 DEF ScanFront, ScanGrain, ScanTail, Scans
        <5>2. failed' = failed \/ failed' = failed \cup {Site("deep")}
          BY <3>3 DEF ScanFront, ScanGrain, ScanTail, Scan, Reading
        <5>3. Site("resniff") # Site("deep")
          BY DEF Site
        <5> QED
          BY <1>2, <5>1, <5>2, <5>3 DEF PassedOver
      <4>2. drive.head \in {"zero", "noise"} /\ drive.tail \in {"zero", "noise"}
        BY <4>1 DEF Signature, Inv, TypeOK, Drives
      <4>3. CASE Site("deep") \in failed'
        <5>1. verdict' = Of("Unreadable")
          BY <3>3, <4>3 DEF ScanFront, ScanGrain, ScanTail, Scan, Conclude
        <5> QED
          BY <1>3, <4>1, <4>3, <5>1 DEF JudgeBare
      <4>4. CASE Site("deep") \notin failed'
        <5>1. JudgeBare(drive, failed') =
                 IF drive.head = "noise" \/ drive.rest = "sampled" \/ drive.tail = "noise"
                 THEN Of("Foreign") ELSE Of("Blank")
          BY <1>3, <4>1, <4>4 DEF JudgeBare
        <5>2. CASE ScanFront
          BY <1>6, <4>2, <4>4, <5>1, <5>2 DEF ScanFront, Scan, Conclude, Go
        <5>3. CASE ScanGrain
          BY <1>6, <4>2, <4>4, <5>1, <5>3 DEF ScanGrain, Scan, Conclude, Go
        <5>4. CASE ScanTail
          BY <1>6, <4>2, <4>4, <5>1, <5>4 DEF ScanTail, Scan, Conclude, PassedOver, Scanning
        <5> QED
          BY <3>3, <5>2, <5>3, <5>4
      <4> QED
        BY <4>3, <4>4
    <3> QED
      BY <3>1, <3>2, <3>3
  <2>2. AgreesWithJudge'
    BY <1>1, <1>5, <2>1 DEF AgreesWithJudge
  <2> QED
    BY <1>6, <2>2 DEF FailedSoFar, AnswersHold, PassedOver, Bare, Scans, Scanning, Loop
<1>7. CASE pc' # "done"
  <2>1. /\ pc' \in Scans /\ failed' = failed
        /\ ~remote /\ parts = {} /\ ~Signature(drive)
        /\ pc' \in Scanning => drive.head = "zero"
        /\ pc' = "tail" => drive.rest # "sampled"
    <3>1. CASE Resniff
      <4>1. ~remote /\ Site("resniff") \notin failed' /\ ~(parts # {} \/ Signature(drive))
            /\ pc' = "front"
        BY <1>7, <3>1 DEF Resniff, Conclude, Go
      <4>2. failed' = failed
        BY <3>1, <4>1 DEF Resniff, Reading
      <4> QED
        BY <4>1, <4>2 DEF Scans, Scanning
    <3>2. CASE ScanFront
      BY <1>7, <3>2 DEF ScanFront, Scan, Reading, Conclude, Go, PassedOver, Scans, Scanning
    <3>3. CASE ScanGrain
      BY <1>7, <3>3 DEF ScanGrain, Scan, Reading, Conclude, Go, PassedOver, Scans, Scanning
    <3> QED
      BY <1>7, <3>1, <3>2, <3>3 DEF NotOurs, ScanTail, Scan, Conclude
  <2> QED
    BY <1>1, <1>4, <1>7, <2>1
       DEF FailedSoFar, AnswersHold, PassedOver, AgreesWithJudge, Bare, Scans, Scanning, Loop
<1> QED
  BY <1>6, <1>7

\* When nobody writes, the reads in their order come to what Judge says.
THEOREM ReadsAgree == Spec => []AgreesWithJudge
<1>1. Init => Agreeing
  BY DEF Init, Agreeing, FailedSoFar, AnswersHold, PassedOver, AgreesWithJudge,
         Bare, Scans, Scanning, Loop
<1>2. Inv /\ Inv' /\ Agreeing /\ [Next]_vars => Agreeing'
  <2> SUFFICES ASSUME Inv, Inv', Agreeing, [Next]_vars, quiet'
               PROVE  (FailedSoFar /\ AnswersHold /\ PassedOver /\ AgreesWithJudge)'
    BY DEF Agreeing
  <2>1. quiet /\ FailedSoFar /\ AnswersHold /\ PassedOver /\ AgreesWithJudge
    <3>1. quiet
      BY DEF Next, Look, history, vars, ReadSysfs, ReadEsp, NoMedium, Removable,
             ReadTransport, ListPartitions, SniffFails, NoSlabHere, CannotIdentify,
             IdentifySlab, NotOurs, Resniff, ScanFront, ScanGrain, ScanTail, Scan,
             Write, Done
    <3> QED
      BY <3>1 DEF Agreeing
  <2>2. CASE ReadSysfs \/ ReadEsp \/ ReadTransport \/ ListPartitions
    BY <2>1, <2>2, AnswersAgree
  <2>3. CASE NoSlabHere \/ (SniffFails /\ probe # 0)
    BY <2>1, <2>3, LoopAgrees
  <2>4. CASE NoMedium \/ Removable
    <3>1. AgreesWithJudge' /\ pc' = "done"
      BY <2>1, <2>4, GateAgrees DEF NoMedium, Removable, Conclude
    <3> QED
      BY <3>1 DEF FailedSoFar, AnswersHold, PassedOver, Bare, Scans, Scanning, Loop
  <2>5. CASE (SniffFails /\ probe = 0) \/ CannotIdentify \/ IdentifySlab
    <3>1. AgreesWithJudge' /\ pc' = "done"
      BY <2>1, <2>5, SlabAgrees DEF SniffFails, CannotIdentify, IdentifySlab, Conclude
    <3> QED
      BY <3>1 DEF FailedSoFar, AnswersHold, PassedOver, Bare, Scans, Scanning, Loop
  <2>6. CASE NotOurs \/ Resniff \/ ScanFront \/ ScanGrain \/ ScanTail
    BY <2>1, <2>6, BareAgrees
  <2>7. CASE Done \/ UNCHANGED vars
    <3>1. UNCHANGED vars
      BY <2>7 DEF Done
    <3> QED
      BY <2>1, <3>1 DEF vars, FailedSoFar, AnswersHold, PassedOver, AgreesWithJudge
  <2>8. ~Write
    BY <2>1 DEF Write
  <2> QED
    BY <2>2, <2>3, <2>4, <2>5, <2>6, <2>7, <2>8 DEF Next, Look
<1>3. Inv /\ Agreeing => AgreesWithJudge
  BY DEF Agreeing, AgreesWithJudge
<1> QED
  BY <1>1, <1>2, <1>3, Invariance, PTL DEF Spec

-----------------------------------------------------------------------------
(***************************************************************************)
(* A look goes through its reads in one direction.                         *)
(***************************************************************************)

\* The order of a look.
Order(read) ==
    CASE read = "sysfs" -> 0 [] read = "esp" -> 1 [] read = "gate" -> 2
      [] read = "parts" -> 3 [] read = "probe" -> 4 [] read = "unprobed" -> 5
      [] read = "front" -> 6 [] read = "grain" -> 7 [] read = "tail" -> 8
      [] read = "done" -> 9

\* A look goes on to the next read, or the next of the devices it knew of when
\* the loop began, whatever fails and whoever writes: it never comes back.
LookAdvances ==
    [][\/ Order(pc') > Order(pc)
       \/ UNCHANGED <<pc, parts>> /\ probe' \in Ahead
       \/ UNCHANGED <<pc, failed, answers, probe, verdict>>]_vars

\* No look comes back to a read it has made, nor to a device it has tried, on a
\* drive of any number of partitions and whoever writes to it.
THEOREM LookKeepsAdvancing == Spec => LookAdvances
<1> DEFINE On == \/ Order(pc') > Order(pc)
                 \/ UNCHANGED <<pc, parts>> /\ probe' \in Ahead
                 \/ UNCHANGED <<pc, failed, answers, probe, verdict>>
<1>1. ASSUME TypeOK, Next PROVE On
  <2>2. ASSUME NextProbe, pc = "probe", parts' = parts PROVE On
    BY <2>2 DEF NextProbe, Go, Order
  <2>3. CASE SniffFails
    <3>1. pc = "probe" /\ parts' = parts
          /\ (NextProbe \/ pc' = "done")
      BY <2>3 DEF SniffFails, answers, Conclude
    <3>2. CASE pc' = "done"
      BY <3>1, <3>2 DEF Order
    <3> QED
      BY <2>2, <3>1, <3>2
  <2>4. CASE NoSlabHere
    BY <2>2, <2>4 DEF NoSlabHere, answers
  <2>5. CASE Write \/ Done
    BY <2>5 DEF Write, Done, vars, answers
  <2>6. CASE ReadSysfs \/ ReadEsp \/ NoMedium \/ Removable \/ ReadTransport
             \/ ListPartitions \/ CannotIdentify \/ IdentifySlab \/ NotOurs
    BY <2>6 DEF ReadSysfs, ReadEsp, NoMedium, Removable, ReadTransport, ListPartitions,
                CannotIdentify, IdentifySlab, NotOurs, Go, Conclude, Order
  <2>7. CASE Resniff \/ ScanFront \/ ScanGrain \/ ScanTail
    BY <2>7 DEF Resniff, ScanFront, ScanGrain, ScanTail, Scan, Go, Conclude, Order
  <2> QED
    BY <1>1, <2>3, <2>4, <2>5, <2>6, <2>7 DEF Next, Look
<1>2. ASSUME TypeOK, [Next]_vars PROVE [On]_vars
  BY <1>1, <1>2
<1> QED
  BY <1>2, Typing, PTL DEF Spec, LookAdvances
=============================================================================
