--------------------------- MODULE ManifestProofs ---------------------------
(***************************************************************************)
(* Theorems about ApplyManifests, for any objects, any manifests and any   *)
(* number of runs, disturbances and requests that arrive late.             *)
(***************************************************************************)
EXTENDS ApplyManifests, TLAPS

USE ManifestAssumption

\* What an accepted request does to the apiserver.
LEMMA StoreEffect ==
    ASSUME TypeOK, NEW o \in Objects, NEW r \in 0..MaxRuns, Store(o, r)
    PROVE  /\ rev' = rev + 1 /\ rev' \in Nat
           /\ live' \in [Objects -> Nat] /\ by' \in [Objects -> 0..MaxRuns]
           /\ newest' \in [Objects -> 0..MaxRuns]
           /\ live'[o] = rev + 1 /\ by'[o] = r
           /\ newest'[o] = IF r > newest[o] \/ live[o] = 0 THEN r ELSE newest[o]
           /\ \A x \in Objects \ {o} : /\ live'[x] = live[x] /\ by'[x] = by[x]
                                       /\ newest'[x] = newest[x]
           /\ ready' = ready /\ served' = served
  BY DEF TypeOK, Store

\* A request that is late names an object and a run.
LEMMA LateType ==
    ASSUME TypeOK, NEW m \in late
    PROVE  m.obj \in Objects /\ m.run \in 1..MaxRuns /\ m.op \in {"POST", "PUT"}
           /\ (m.op = "PUT" => m.rev \in Nat)
  BY DEF TypeOK, Posts, Puts

LEMMA CurrentType ==
    ASSUME TypeOK, pc \in {"post", "get", "put"}
    PROVE  Current \in Objects /\ run \in 1..MaxRuns /\ i \in 1..Len(manifests)
<1>1. Len(manifests) \in Nat /\ run \in 1..MaxRuns /\ i \in 1..Len(manifests)
  BY DEF TypeOK, Ended
<1> QED
  BY <1>1 DEF TypeOK, Current

LEMMA AnsweredType ==
    ASSUME TypeOK, pc \in {"post", "get", "put"}, NEW ok \in BOOLEAN, Answered(ok)
    PROVE  /\ i' \in 1..(Len(manifests) + 1) /\ failures' \in Nat /\ pc' = "next"
           /\ accepted' \subseteq Objects
<1>1. Current \in Objects /\ i \in 1..Len(manifests) /\ Len(manifests) \in Nat
  BY CurrentType DEF TypeOK
<1> QED
  BY <1>1 DEF TypeOK, Answered

LEMMA SentType ==
    ASSUME TypeOK, pc \in {"post", "get", "put"}
    PROVE  Sent \subseteq Posts \cup Puts
<1>1. Current \in Objects /\ run \in 1..MaxRuns /\ seen \in Nat
  BY CurrentType DEF TypeOK
<1> QED
  BY <1>1 DEF Sent, Posts, Puts

LEMMA TroubleType ==
    ASSUME TypeOK, Trouble \/ UNCHANGED <<excuse, troubles>>
    PROVE  excuse' \in BOOLEAN /\ troubles' \in 0..Troubles
<1>1. excuse' = TRUE \/ excuse' = excuse
  BY DEF Trouble
<1>2. troubles' \in 0..Troubles
  BY DEF Trouble, TypeOK
<1> QED
  BY <1>1, <1>2 DEF TypeOK

\* Every variable keeps its type.
THEOREM ManifestTyping == Spec => []TypeOK
<1>1. Init => TypeOK
  BY DEF Init, TypeOK, Ended
<1>2. TypeOK /\ [Next]_vars => TypeOK'
  <2> SUFFICES ASSUME TypeOK, [Next]_vars PROVE TypeOK'
    OBVIOUS
  <2>1. CASE Start
    <3>1. PICK m \in Inputs : manifests' = m
      BY <2>1 DEF Start
    <3>2. manifests' \in Seq(Objects) /\ Len(manifests') \in Nat
      BY <3>1
    <3>3. excuse' \in BOOLEAN
      BY <2>1 DEF Start
    <3> QED
      BY <2>1, <3>2, <3>3 DEF Start, TypeOK, server, Ended
  <2>2. CASE TakenUnanswered \/ Serves \/ AskAgain \/ GiveUp \/ NextManifest
    <3>1. i \in 1..(Len(manifests) + 1) /\ Len(manifests) \in Nat
      BY DEF TypeOK
    <3>2. /\ pc' = "post" => i <= Len(manifests)
          /\ pc' \in {"wait", "asked", "next", "post", "applied", "failed"}
          /\ pc \notin Ended /\ run > 0
      BY <2>2, <3>1 DEF TakenUnanswered, Serves, AskAgain, GiveUp, Asking, NextManifest,
                        TypeOK, Ended
    <3>4. tries' \in 1..Tries
      BY <2>2 DEF TakenUnanswered, Serves, AskAgain, GiveUp, NextManifest, TypeOK, script
    <3>5. excuse' \in BOOLEAN
      <4>1. excuse' = excuse \/ excuse' = (excuse \/ ~ready)
        BY <2>2 DEF TakenUnanswered, Serves, AskAgain, GiveUp, NextManifest
      <4> QED
        BY <4>1, Zenon DEF TypeOK
    <3>3. UNCHANGED <<server, late, run, manifests, i, failures, seen, accepted, troubles>>
      BY <2>2 DEF TakenUnanswered, Serves, AskAgain, GiveUp, NextManifest, script
    <3> QED
      BY <3>2, <3>3, <3>4, <3>5 DEF TypeOK, server, Ended
  <2>3. CASE Post \/ Put \/ Get \/ Refused
    <3>1. pc \in {"post", "get", "put"} /\ Current \in Objects /\ run \in 1..MaxRuns
      BY <2>3, CurrentType DEF Post, Put, Get, Refused
    <3>2. /\ i' \in 1..(Len(manifests) + 1) /\ failures' \in Nat
          /\ accepted' \subseteq Objects
          /\ pc' = "next" \/ (pc' \in {"get", "put"} /\ i' = i)
      BY <2>3, <3>1, AnsweredType DEF Post, Put, Get, Refused, TypeOK
    <3>3. /\ ready' \in BOOLEAN /\ served' \subseteq Objects /\ rev' \in Nat
          /\ live' \in [Objects -> Nat] /\ by' \in [Objects -> 0..MaxRuns]
          /\ newest' \in [Objects -> 0..MaxRuns]
      <4>1. CASE Store(Current, run)
        BY <3>1, <4>1, StoreEffect DEF TypeOK
      <4>2. CASE UNCHANGED server
        BY <4>2 DEF TypeOK, server
      <4> QED
        BY <2>3, <4>1, <4>2 DEF Post, Put, Get, Refused
    <3>4. UNCHANGED <<late, script>> /\ seen' \in Nat
      BY <2>3, <3>1 DEF Post, Put, Get, Refused, TypeOK
    <3>6. excuse' \in BOOLEAN /\ troubles' \in 0..Troubles
      BY <2>3, TroubleType DEF Post, Put, Get, Refused
    <3>5. i <= Len(manifests)
      BY <3>1, CurrentType DEF TypeOK
    <3> QED
      BY <3>1, <3>2, <3>3, <3>4, <3>5, <3>6 DEF TypeOK, script, Ended
  <2>4. CASE Unanswered \/ Unreachable
    <3>1. Dies /\ excuse' \in BOOLEAN /\ troubles' \in 0..Troubles
      BY <2>4, TroubleType DEF Unanswered, Unreachable
    <3>2. late' \subseteq Posts \cup Puts
      BY <3>1, SentType DEF Dies, TypeOK
    <3> QED
      BY <3>1, <3>2 DEF Dies, TypeOK, server, script, Ended
  <2>5. CASE LateArrives
    <3>1. PICK m \in late : late' = late \ {m} /\ Store(m.obj, m.run)
      BY <2>5 DEF LateArrives
    <3>2. /\ ready' \in BOOLEAN /\ served' \subseteq Objects /\ rev' \in Nat
          /\ live' \in [Objects -> Nat] /\ by' \in [Objects -> 0..MaxRuns]
          /\ newest' \in [Objects -> 0..MaxRuns]
      <4>1. m.obj \in Objects /\ m.run \in 0..MaxRuns
        BY LateType
      <4>2. ready' = ready /\ served' = served /\ rev' = rev + 1
        BY <3>1 DEF Store
      <4> QED
        BY <3>1, <4>1, <4>2, StoreEffect DEF TypeOK
    <3> QED
      BY <2>5, <3>1, <3>2 DEF LateArrives, TypeOK, script, Ended
  <2>6. CASE OthersWrite
    <3>1. /\ ready' \in BOOLEAN /\ served' \subseteq Objects /\ rev' \in Nat
          /\ live' \in [Objects -> Nat] /\ by' \in [Objects -> 0..MaxRuns]
          /\ newest' \in [Objects -> 0..MaxRuns]
      <4>1. PICK o \in Objects :
               \/ Store(o, 0)
               \/ LET gone == {o} \cup {x \in Objects : o \in Needs[x]} IN
                  /\ live' = [x \in Objects |-> IF x \in gone THEN 0 ELSE live[x]]
                  /\ served' = served \ {o}
                  /\ UNCHANGED <<ready, rev, by, newest>>
        BY <2>6 DEF OthersWrite
      <4>2. 0 \in 0..MaxRuns
        OBVIOUS
      <4>3. CASE Store(o, 0)
        BY <4>2, <4>3, StoreEffect DEF TypeOK, Store
      <4>4. CASE ~Store(o, 0)
        <5>1. /\ ready \in BOOLEAN /\ served \subseteq Objects /\ rev \in Nat
              /\ live \in [Objects -> Nat] /\ by \in [Objects -> 0..MaxRuns]
              /\ newest \in [Objects -> 0..MaxRuns]
          BY DEF TypeOK
        <5>2. UNCHANGED <<ready, rev, by, newest>> /\ served' = served \ {o}
          BY <4>1, <4>4, Zenon
        <5>3. live' \in [Objects -> Nat]
          <6>1. \E gone : live' = [x \in Objects |-> IF x \in gone THEN 0 ELSE live[x]]
            BY <4>1, <4>4, Zenon
          <6> QED
            BY <5>1, <6>1
        <5> QED
          BY <5>1, <5>2, <5>3
      <4> QED
        BY <4>3, <4>4
    <3>2. excuse' \in BOOLEAN /\ troubles' \in 0..Troubles
      BY <2>6, TroubleType DEF OthersWrite
    <3> QED
      BY <2>6, <3>1, <3>2 DEF OthersWrite, TypeOK, script, Ended
  <2>7. CASE Establish \/ ServerUp \/ ServerDown
    <3>1. excuse' \in BOOLEAN /\ troubles' \in 0..Troubles
      BY <2>7, TroubleType DEF Establish, ServerUp, ServerDown
    <3> QED
      BY <2>7, <3>1 DEF Establish, ServerUp, ServerDown, TypeOK, script, Ended
  <2>8. CASE Finished \/ UNCHANGED vars
    <3>1. UNCHANGED vars
      BY <2>8 DEF Finished
    <3> QED
      BY <3>1 DEF vars, TypeOK, server, script, Ended
  <2> QED
    BY <2>1, <2>2, <2>3, <2>4, <2>5, <2>6, <2>7, <2>8 DEF Next, Script
<1> QED
  BY <1>1, <1>2, PTL DEF Spec

-----------------------------------------------------------------------------
(***************************************************************************)
(* Revisions only grow, so a request that carries the revision an object   *)
(* still has was sent after everything that was written to it: by a run    *)
(* that is not older than any whose manifest the apiserver took.           *)
(***************************************************************************)
Revisions ==
    /\ seen <= rev
    /\ \A o \in Objects : live[o] <= rev /\ newest[o] <= run
    /\ \A m \in late : m.run <= run
    /\ \A m \in late : m.op = "PUT" => m.rev <= rev

NotOutrun ==
    \A m \in late : m.op = "PUT" /\ live[m.obj] # 0 /\ live[m.obj] = m.rev
                        => newest[m.obj] <= m.run

Ages == Revisions /\ NotOutrun /\ OldRunsStayOld

\* A write of an object by a run as old as any that wrote it, or by others.
LEMMA StoreAges ==
    ASSUME TypeOK, Ages, NEW o \in Objects, NEW r \in 0..MaxRuns, Store(o, r),
           r <= run, r = 0 \/ live[o] = 0 \/ newest[o] <= r,
           late' \subseteq late, run' = run, seen' \in {seen, rev}
    PROVE  Ages'
<1>0. /\ rev' = rev + 1 /\ rev \in Nat /\ seen \in Nat /\ run \in Nat
      /\ live'[o] = rev + 1 /\ by'[o] = r
      /\ newest'[o] = IF r > newest[o] \/ live[o] = 0 THEN r ELSE newest[o]
      /\ \A x \in Objects \ {o} : /\ live'[x] = live[x] /\ by'[x] = by[x]
                                  /\ newest'[x] = newest[x]
  <2>1. rev \in Nat /\ seen \in Nat /\ run \in Nat
    BY DEF TypeOK
  <2> QED
    BY <2>1, StoreEffect
<1>1. /\ \A x \in Objects : live[x] \in Nat /\ newest[x] \in Nat
      /\ \A x \in Objects : live[x] <= rev /\ newest[x] <= run
  BY DEF TypeOK, Ages, Revisions
<1>2. newest'[o] \in Nat /\ newest'[o] <= run
  BY <1>0, <1>1
<1>3. Revisions'
  <2>1. \A x \in Objects : live'[x] <= rev' /\ newest'[x] <= run'
    <3>1. ASSUME NEW x \in Objects \ {o} PROVE live'[x] <= rev' /\ newest'[x] <= run'
      BY <1>0, <1>1, <3>1
    <3> QED
      BY <1>0, <1>2, <3>1
  <2>2. \A m \in late' : m.run <= run'
    BY DEF Ages, Revisions
  <2>3. ASSUME NEW m \in late', m.op = "PUT" PROVE m.rev <= rev'
    <3>1. m.rev \in Nat /\ m.rev <= rev
      BY <2>3, LateType DEF Ages, Revisions
    <3> QED
      BY <1>0, <3>1
  <2>4. seen' <= rev'
    <3>1. seen <= rev
      BY DEF Ages, Revisions
    <3>2. CASE seen' = seen
      BY <1>0, <3>1, <3>2
    <3>3. CASE seen' = rev
      BY <1>0, <3>3
    <3> QED
      BY <3>2, <3>3
  <2> QED
    BY <2>1, <2>2, <2>3, <2>4 DEF Revisions
<1>4. NotOutrun'
  <2> SUFFICES ASSUME NEW m \in late, m.op = "PUT", live'[m.obj] # 0,
                      live'[m.obj] = m.rev
               PROVE  newest'[m.obj] <= m.run
    BY DEF NotOutrun
  <2>1. m.obj \in Objects /\ m.rev \in Nat /\ m.rev <= rev
    BY LateType DEF Ages, Revisions
  <2>2. m.obj # o
    BY <1>0, <2>1
  <2>3. live[m.obj] = live'[m.obj] /\ newest'[m.obj] = newest[m.obj]
    BY <1>0, <2>1, <2>2
  <2> QED
    BY <2>3 DEF Ages, NotOutrun
<1>5. OldRunsStayOld'
  <2>1. by'[o] # 0 => by'[o] = newest'[o]
    BY <1>0, <1>1
  <2>2. ASSUME NEW x \in Objects \ {o}, live'[x] # 0, by'[x] # 0
        PROVE  by'[x] = newest'[x]
    BY <1>0, <2>2 DEF Ages, OldRunsStayOld
  <2> QED
    BY <2>1, <2>2 DEF OldRunsStayOld
<1> QED
  BY <1>3, <1>4, <1>5 DEF Ages

\* Nothing is written, and what becomes late carries what was read in this run.
LEMMA QuietAges ==
    ASSUME TypeOK, Ages, UNCHANGED <<rev, live, by, newest>>,
           run <= run', run' \in Nat,
           late' = late \/ (late' = late \cup Sent /\ pc \in {"post", "get", "put"}),
           seen' = seen \/ seen' = 0 \/ \E o \in Objects : seen' = live[o]
    PROVE  Ages'
<1>1. /\ run \in Nat /\ rev \in Nat
      /\ \A x \in Objects : newest[x] \in Nat /\ newest[x] <= run /\ live[x] <= rev
  BY DEF TypeOK, Ages, Revisions
<1>2. seen \in Nat /\ seen <= rev /\ seen' <= rev'
  BY <1>1 DEF TypeOK, Ages, Revisions
<1>3. ASSUME NEW m \in late'
      PROVE  /\ m.run <= run'
             /\ m.op = "PUT" => m.rev <= rev'
             /\ m.op = "PUT" /\ live[m.obj] # 0 /\ live[m.obj] = m.rev
                   => newest[m.obj] <= m.run
  <2>1. CASE m \in late
    <3>1. m.run \in Nat /\ m.run <= run
      BY <2>1, LateType DEF Ages, Revisions
    <3> QED
      BY <1>1, <2>1, <3>1 DEF Ages, Revisions, NotOutrun
  <2>2. CASE m \in Sent /\ pc \in {"post", "get", "put"}
    <3>1. m.run = run /\ m.obj = Current /\ (m.op = "PUT" => m.rev = seen)
      BY <2>2 DEF Sent
    <3>2. Current \in Objects
      BY <2>2, CurrentType
    <3> QED
      BY <1>1, <1>2, <3>1, <3>2
  <2> QED
    BY <1>3, <2>1, <2>2
<1>4. Revisions'
  <2>1. \A x \in Objects : live'[x] <= rev' /\ newest'[x] <= run'
    BY <1>1
  <2> QED
    BY <1>2, <1>3, <2>1 DEF Revisions
<1> QED
  BY <1>3, <1>4 DEF Ages, NotOutrun, OldRunsStayOld

\* Somebody else takes objects away.
LEMMA GoneAges ==
    ASSUME TypeOK, Ages, NEW gone \in SUBSET Objects,
           live' = [x \in Objects |-> IF x \in gone THEN 0 ELSE live[x]],
           UNCHANGED <<rev, by, newest, late, run, seen>>
    PROVE  Ages'
<1>1. \A x \in Objects : live'[x] = 0 \/ live'[x] = live[x]
  OBVIOUS
<1>2. rev \in Nat /\ \A m \in late : m.obj \in Objects
  BY LateType DEF TypeOK
<1>3. Revisions'
  BY <1>1, <1>2 DEF Ages, Revisions
<1>4. NotOutrun' /\ OldRunsStayOld'
  BY <1>1, <1>2 DEF Ages, NotOutrun, OldRunsStayOld
<1> QED
  BY <1>3, <1>4 DEF Ages

\* No request of a run that was given up on puts its manifest over a later one.
THEOREM OldStaysOld == Spec => []OldRunsStayOld
<1>1. Init => Ages
  BY DEF Init, Ages, Revisions, NotOutrun, OldRunsStayOld
<1>2. TypeOK /\ TypeOK' /\ Ages /\ [Next]_vars => Ages'
  <2> SUFFICES ASSUME TypeOK, TypeOK', Ages, [Next]_vars PROVE Ages'
    OBVIOUS
  <2>0. run \in Nat /\ run' \in Nat /\ run <= run
    BY DEF TypeOK
  <2>1. CASE Start
    <3>1. run <= run'
      BY <2>0, <2>1 DEF Start
    <3> QED
      BY <2>0, <2>1, <3>1, QuietAges DEF Start, server
  <2>2. CASE TakenUnanswered \/ Serves \/ AskAgain \/ GiveUp \/ NextManifest
             \/ Establish \/ ServerUp \/ ServerDown
    BY <2>0, <2>2, QuietAges DEF TakenUnanswered, Serves, AskAgain, GiveUp, NextManifest,
       Establish, ServerUp, ServerDown, server, script
  <2>3. CASE Post \/ Put
    <3>1. Current \in Objects /\ run \in 0..MaxRuns
      <4>1. pc \in {"post", "get", "put"}
        BY <2>3 DEF Post, Put
      <4>2. Current \in Objects /\ run \in 1..MaxRuns
        BY <4>1, CurrentType
      <4> QED
        BY <4>2
    <3>2. newest[Current] <= run
      BY <3>1 DEF Ages, Revisions
    <3>3. /\ Store(Current, run) \/ UNCHANGED server
          /\ UNCHANGED <<late, run, seen>>
      BY <2>3 DEF Post, Put, script
    <3>4. CASE Store(Current, run)
      BY <2>0, <3>1, <3>2, <3>3, <3>4, StoreAges
    <3>5. CASE UNCHANGED server
      BY <2>0, <3>3, <3>5, QuietAges DEF server
    <3> QED
      BY <3>3, <3>4, <3>5
  <2>4. CASE Get
    <3>1. Current \in Objects
      BY <2>4, CurrentType DEF Get
    <3>2. /\ UNCHANGED <<rev, live, by, newest, late, run>>
          /\ seen' = seen \/ seen' = live[Current]
      BY <2>4 DEF Get, server, script
    <3> QED
      BY <2>0, <3>1, <3>2, QuietAges
  <2>5. CASE Refused
    BY <2>0, <2>5, QuietAges DEF Refused, server, script
  <2>6. CASE Unanswered \/ Unreachable
    BY <2>0, <2>6, QuietAges DEF Unanswered, Unreachable, Dies, server, script
  <2>7. CASE LateArrives
    <3>1. PICK m \in late :
             /\ late' = late \ {m} /\ Store(m.obj, m.run)
             /\ IF m.op = "POST" THEN CanCreate(m.obj) ELSE CanReplace(m.obj, m.rev)
      BY <2>7 DEF LateArrives
    <3>2. m.obj \in Objects /\ m.run \in 0..MaxRuns /\ m.run <= run
          /\ m.op \in {"POST", "PUT"}
      BY LateType DEF Ages, Revisions
    <3>3. live[m.obj] = 0 \/ newest[m.obj] <= m.run
      BY <3>1, <3>2 DEF CanCreate, CanReplace, Ages, NotOutrun
    <3> QED
      BY <2>7, <3>1, <3>2, <3>3, StoreAges DEF LateArrives, script
  <2>8. CASE OthersWrite
    <3>1. UNCHANGED <<late, run, seen>>
      BY <2>8 DEF OthersWrite, script
    <3>2. PICK o \in Objects :
             \/ Store(o, 0)
             \/ LET gone == {o} \cup {x \in Objects : o \in Needs[x]} IN
                /\ live' = [x \in Objects |-> IF x \in gone THEN 0 ELSE live[x]]
                /\ UNCHANGED <<rev, by, newest>>
      BY <2>8 DEF OthersWrite
    <3>3. CASE Store(o, 0)
      <4>1. 0 \in 0..MaxRuns /\ 0 <= run
        BY <2>0
      <4> QED
        BY <3>1, <3>3, <4>1, StoreAges
    <3>4. CASE ~Store(o, 0)
      BY <3>1, <3>2, <3>4, GoneAges, ZenonT(40)
    <3> QED
      BY <3>3, <3>4
  <2>9. CASE Finished \/ UNCHANGED vars
    <3>1. UNCHANGED vars
      BY <2>9 DEF Finished
    <3> QED
      BY <2>0, <3>1, QuietAges DEF vars, server, script
  <2> QED
    BY <2>1, <2>2, <2>3, <2>4, <2>5, <2>6, <2>7, <2>8, <2>9 DEF Next, Script
<1>3. Ages => OldRunsStayOld
  BY DEF Ages
<1> QED
  BY <1>1, <1>2, <1>3, ManifestTyping, PTL DEF Spec

-----------------------------------------------------------------------------
(***************************************************************************)
(* Every manifest that the script is past was taken or counted.            *)
(***************************************************************************)
Counted ==
    /\ failures = 0 => \A j \in 1..(i - 1) : manifests[j] \in accepted
    /\ pc = "applied" => failures = 0 /\ i > Len(manifests)

\* When the script says that all manifests are applied, the apiserver has
\* taken each of them in this run.
THEOREM AppliedIsAccepted == Spec => []AppliedMeansAccepted
<1>1. Init => Counted
  BY DEF Init, Counted
<1>2. TypeOK /\ Counted /\ [Next]_vars => Counted'
  <2> SUFFICES ASSUME TypeOK, Counted, [Next]_vars PROVE Counted'
    OBVIOUS
  <2>1. CASE Start
    BY <2>1 DEF Start, Counted
  <2>2. CASE NextManifest
    BY <2>2 DEF NextManifest, Counted, script, TypeOK
  <2>3. ASSUME NEW ok \in BOOLEAN, Answered(ok), pc \in {"post", "get", "put"},
               UNCHANGED script
        PROVE  Counted'
    <3>1. /\ i \in Nat /\ failures \in Nat /\ manifests' = manifests /\ pc' = "next"
          /\ i' = i + 1
      BY <2>3 DEF TypeOK, Answered, script
    <3>2. ASSUME failures' = 0, NEW j \in 1..(i' - 1)
          PROVE  manifests'[j] \in accepted'
      <4>1. ok /\ failures = 0 /\ accepted' = accepted \cup {manifests[i]}
        BY <2>3, <3>1, <3>2 DEF Answered, Current
      <4>2. CASE j = i
        BY <3>1, <4>1, <4>2
      <4>3. CASE j # i
        <5>1. j \in 1..(i - 1)
          BY <3>1, <4>3
        <5> QED
          BY <3>1, <4>1, <5>1 DEF Counted
      <4> QED
        BY <4>2, <4>3
    <3> QED
      BY <3>1, <3>2 DEF Counted
  <2>4. CASE Post \/ Get \/ Put \/ Refused
    <3>1. pc \in {"post", "get", "put"} /\ UNCHANGED script
      BY <2>4 DEF Post, Get, Put, Refused
    <3>2. \/ Answered(TRUE) \/ Answered(FALSE)
          \/ pc' \in {"get", "put"} /\ UNCHANGED <<i, failures, accepted>>
      BY <2>4 DEF Post, Get, Put, Refused
    <3>3. CASE pc' \in {"get", "put"} /\ UNCHANGED <<i, failures, accepted>>
      BY <3>1, <3>3 DEF Counted, script
    <3> QED
      BY <2>3, <3>1, <3>2, <3>3
  <2>5. CASE TakenUnanswered \/ Serves \/ AskAgain \/ GiveUp \/ Unanswered \/ Unreachable
    <3>1. /\ UNCHANGED <<manifests, i, failures, accepted>>
          /\ pc' \in {"wait", "asked", "next", "failed"}
      BY <2>5 DEF TakenUnanswered, Serves, AskAgain, GiveUp, Unanswered, Unreachable, Dies,
                  script
    <3> QED
      BY <3>1 DEF Counted
  <2>6. CASE LateArrives \/ OthersWrite \/ Establish \/ ServerUp \/ ServerDown
    <3>1. UNCHANGED <<manifests, pc, i, failures, accepted>>
      BY <2>6 DEF LateArrives, OthersWrite, Establish, ServerUp, ServerDown, script
    <3> QED
      BY <3>1 DEF Counted
  <2>7. CASE Finished \/ UNCHANGED vars
    BY <2>7 DEF Finished, vars, script, Counted
  <2> QED
    BY <2>1, <2>2, <2>4, <2>5, <2>6, <2>7 DEF Next, Script
<1>3. TypeOK /\ Counted => AppliedMeansAccepted
  BY DEF TypeOK, Counted, AppliedMeansAccepted
<1> QED
  BY <1>1, <1>2, <1>3, ManifestTyping, PTL DEF Spec

-----------------------------------------------------------------------------
(***************************************************************************)
(* While nothing has happened that the run cannot help, the apiserver is   *)
(* there, what it needs is served, and nothing has moved since the script  *)
(* looked.                                                                 *)
(***************************************************************************)
Calm ==
    ~excuse =>
        /\ failures = 0 /\ pc # "failed"
        /\ pc \notin {"wait", "asked"} => ready
        /\ \A j \in 1..Len(manifests) :
              manifests[j] \notin Unhandled /\ Needs[manifests[j]] \subseteq served
        /\ pc \in {"get", "put"} => live[Current] # 0
        /\ pc = "put" => live[Current] = seen

\* What earlier runs left behind does not stop a run: nobody disturbed, it
\* does not fail.
THEOREM UndisturbedApplies == Spec => []UndisturbedRunApplies
<1>1. Init => Calm
  BY DEF Init, Calm
<1>2. TypeOK /\ Calm /\ [Next]_vars => Calm'
  <2> SUFFICES ASSUME TypeOK, Calm, [Next]_vars, ~excuse' PROVE Calm'
    BY DEF Calm
  <2>1. CASE Start
    <3>1. \A j \in 1..Len(manifests') :
             manifests'[j] \notin Unhandled /\ Needs[manifests'[j]] \subseteq served'
      BY <2>1 DEF Start, server
    <3> QED
      BY <2>1, <3>1 DEF Start, Calm
  <2>2. CASE TakenUnanswered \/ Serves \/ AskAgain \/ GiveUp
    BY <2>2 DEF TakenUnanswered, Serves, AskAgain, GiveUp, Asking, Calm, server, script, Current
  <2>3. CASE NextManifest
    <3>1. UNCHANGED <<ready, served, live, manifests, i, failures, seen, excuse>>
          /\ pc = "next"
      BY <2>3 DEF NextManifest, server, script
    <3>2. pc' \in {"applied", "post"}
      <4>1. i > Len(manifests) \/ (i \in 1..Len(manifests) /\ Current \notin Unhandled)
        BY <3>1 DEF TypeOK, Calm, Current
      <4> QED
        BY <2>3, <3>1, <4>1 DEF NextManifest, Calm, TypeOK
    <3> QED
      BY <3>1, <3>2 DEF Calm
  <2>4. CASE Post
    <3>1. ~excuse /\ pc = "post" /\ UNCHANGED <<script, seen>>
      BY <2>4 DEF Post
    <3>2. Current \in Objects /\ i \in 1..Len(manifests)
      BY <3>1, CurrentType
    <3>3. Needs[Current] \subseteq served
      BY <3>1, <3>2 DEF Calm, Current
    <3>4. CASE Store(Current, run) /\ Answered(TRUE)
      <4>1. ready' = ready /\ served' = served /\ pc' = "next" /\ failures' = failures
        BY <3>4 DEF Store, Answered
      <4> QED
        BY <3>1, <4>1 DEF Calm, script
    <3>5. CASE live[Current] # 0 /\ pc' = "get" /\ UNCHANGED <<server, i, failures>>
      BY <3>1, <3>5 DEF Calm, script, server, Current
    <3> QED
      BY <2>4, <3>3, <3>4, <3>5 DEF Post, CanCreate
  <2>5. CASE Get
    <3>1. ~excuse /\ pc = "get" /\ UNCHANGED <<script, server>>
      BY <2>5 DEF Get
    <3>2. /\ live[Current] # 0 /\ seen' = live[Current] /\ pc' = "put"
          /\ UNCHANGED <<i, failures>>
      BY <2>5, <3>1 DEF Get, Calm
    <3> QED
      BY <3>1, <3>2 DEF Calm, script, server, Current
  <2>6. CASE Put
    <3>1. ~excuse /\ pc = "put" /\ UNCHANGED <<script, seen>>
      BY <2>6 DEF Put
    <3>2. CanReplace(Current, seen)
      BY <3>1 DEF Calm, CanReplace
    <3>3. Store(Current, run) /\ Answered(TRUE)
      BY <2>6, <3>2 DEF Put
    <3>4. ready' = ready /\ served' = served /\ pc' = "next" /\ failures' = failures
      BY <3>3 DEF Store, Answered
    <3> QED
      BY <3>1, <3>4 DEF Calm, script
  <2>7. CASE Refused \/ Unanswered \/ LateArrives \/ OthersWrite \/ ServerDown
    BY <2>7 DEF Refused, Unanswered, LateArrives, OthersWrite, ServerDown, Trouble
  <2>8. CASE Unreachable
    BY <2>8 DEF Unreachable, Dies, Calm
  <2>9. CASE Establish \/ ServerUp
    BY <2>9 DEF Establish, ServerUp, Calm, script, Current
  <2>10. CASE Finished \/ UNCHANGED vars
    <3>1. UNCHANGED vars
      BY <2>10 DEF Finished
    <3> QED
      BY <3>1 DEF vars, server, script, Calm, Current
  <2> QED
    BY <2>1, <2>2, <2>3, <2>4, <2>5, <2>6, <2>7, <2>8, <2>9, <2>10 DEF Next, Script
<1>3. Calm => UndisturbedRunApplies
  BY DEF Calm, UndisturbedRunApplies
<1> QED
  BY <1>1, <1>2, <1>3, ManifestTyping, PTL DEF Spec

-----------------------------------------------------------------------------
(***************************************************************************)
(* A run takes no more steps than its manifests call for.                  *)
(***************************************************************************)

\* The steps that a run may still take, at most.
StepsLeft ==
    LET after == 4 * (Len(manifests) + 1 - i)   \* with every manifest from here on
    IN  CASE pc = "wait" -> after + 3 + 2 * (Tries - tries)
          [] pc = "asked" -> after + 2 + 2 * (Tries - tries)
          [] pc = "next" -> after + 1
          [] pc = "post" -> after
          [] pc = "get" -> after - 1
          [] pc = "put" -> after - 2
          [] pc \in Ended -> 0

\* Nothing is asked for ever, whoever writes to the server meanwhile: the steps that
\* are left get fewer with each that is taken, and nothing else makes them more.
RunAdvances ==
    [][run' = run =>
          /\ StepsLeft' <= StepsLeft
          /\ pc' # pc \/ tries' # tries => StepsLeft' < StepsLeft]_vars

\* What is left, by what the run is at.
Counts ==
    /\ Len(manifests) \in Nat /\ i \in 1..(Len(manifests) + 1)
    /\ pc \in {"post", "get", "put"} => i <= Len(manifests)
    /\ tries \in 1..Tries /\ Tries \in Nat
    /\ pc \in {"wait", "asked", "next", "post", "get", "put"} \cup Ended
    /\ pc = "wait" => StepsLeft = 4 * (Len(manifests) + 1 - i) + 3 + 2 * (Tries - tries)
    /\ pc = "asked" => StepsLeft = 4 * (Len(manifests) + 1 - i) + 2 + 2 * (Tries - tries)
    /\ pc = "next" => StepsLeft = 4 * (Len(manifests) + 1 - i) + 1
    /\ pc = "post" => StepsLeft = 4 * (Len(manifests) + 1 - i)
    /\ pc = "get" => StepsLeft = 4 * (Len(manifests) + 1 - i) - 1
    /\ pc = "put" => StepsLeft = 4 * (Len(manifests) + 1 - i) - 2
    /\ pc \in Ended => StepsLeft = 0

LEMMA StepsLeftIs == TypeOK => Counts
<1> SUFFICES ASSUME TypeOK PROVE Counts
  OBVIOUS
<1>1. /\ Len(manifests) \in Nat /\ i \in 1..(Len(manifests) + 1)
      /\ pc \in {"post", "get", "put"} => i <= Len(manifests)
      /\ tries \in 1..Tries /\ Tries \in Nat
      /\ pc \in {"wait", "asked", "next", "post", "get", "put"} \cup Ended
  BY DEF TypeOK
<1>2. /\ pc = "wait" => StepsLeft = 4 * (Len(manifests) + 1 - i) + 3 + 2 * (Tries - tries)
      /\ pc = "asked" => StepsLeft = 4 * (Len(manifests) + 1 - i) + 2 + 2 * (Tries - tries)
      /\ pc = "next" => StepsLeft = 4 * (Len(manifests) + 1 - i) + 1
      /\ pc = "post" => StepsLeft = 4 * (Len(manifests) + 1 - i)
      /\ pc = "get" => StepsLeft = 4 * (Len(manifests) + 1 - i) - 1
      /\ pc = "put" => StepsLeft = 4 * (Len(manifests) + 1 - i) - 2
      /\ pc \in Ended => StepsLeft = 0
  BY DEF StepsLeft, Ended
<1> QED
  BY <1>1, <1>2 DEF Counts

\* No run goes on for ever, whatever the server answers and whoever else writes
\* to it: it takes at most two steps for every try, four for every manifest, and one more.
THEOREM RunKeepsAdvancing == Spec => RunAdvances
<1>1. ASSUME TypeOK, Counts, Counts', Next, run' = run
      PROVE  /\ StepsLeft' <= StepsLeft
             /\ pc' # pc \/ tries' # tries => StepsLeft' < StepsLeft
  <2>1. run \in Nat
    BY <1>1 DEF TypeOK
  <2>2. StepsLeft \in Nat /\ (pc \notin Ended => StepsLeft > 0)
    <3> DEFINE after == Len(manifests) + 1 - i
    <3>1. after \in Nat /\ Tries - tries \in Nat
      BY <1>1 DEF Counts
    <3>2. pc \in {"post", "get", "put"} => after >= 1
      BY <1>1 DEF Counts
    <3>3. CASE pc \in Ended
      BY <1>1, <3>3 DEF Counts
    <3>4. CASE pc \in {"wait", "asked"}
      <4>1. \/ StepsLeft = 4 * after + 3 + 2 * (Tries - tries)
            \/ StepsLeft = 4 * after + 2 + 2 * (Tries - tries)
        BY <1>1, <3>4 DEF Counts
      <4> HIDE DEF after
      <4> QED
        BY <3>1, <4>1
    <3>5. CASE pc = "next"
      <4>1. StepsLeft = 4 * after + 1
        BY <1>1, <3>5 DEF Counts
      <4> HIDE DEF after
      <4> QED
        BY <3>1, <4>1
    <3>6. CASE pc \in {"post", "get", "put"}
      <4>1. \/ StepsLeft = 4 * after
            \/ StepsLeft = 4 * after - 1
            \/ StepsLeft = 4 * after - 2
        BY <1>1, <3>6 DEF Counts
      <4> HIDE DEF after
      <4> QED
        BY <3>1, <3>2, <3>6, <4>1
    <3> QED
      BY <1>1, <3>3, <3>4, <3>5, <3>6 DEF Counts
  <2>3. ASSUME pc' \in Ended PROVE StepsLeft' = 0
    BY <1>1, <2>3 DEF Counts
  <2>4. ~Start
    <3> SUFFICES ASSUME Start PROVE FALSE
      OBVIOUS
    <3>1. run' = run + 1
      BY DEF Start
    <3> QED
      BY <1>1, <2>1, <3>1
  <2>5. ASSUME pc \in {"post", "get", "put"}, pc' = "next", i' = i + 1, manifests' = manifests
        PROVE  StepsLeft' <= StepsLeft /\ StepsLeft' < StepsLeft
    BY <1>1, <2>5 DEF Counts
  <2>6. CASE TakenUnanswered \/ Serves \/ NextManifest
    <3>1. UNCHANGED <<i, manifests, tries>>
      BY <2>6 DEF TakenUnanswered, Serves, NextManifest, script
    <3>2. \/ pc' \in Ended /\ pc \notin Ended
          \/ pc = "wait" /\ pc' = "asked"
          \/ pc \in {"wait", "asked"} /\ pc' = "next"
          \/ pc = "next" /\ pc' = "post"
      BY <2>6 DEF TakenUnanswered, Serves, Asking, NextManifest, Ended
    <3>3. CASE pc' \in Ended /\ pc \notin Ended
      BY <2>2, <2>3, <3>3
    <3>4. CASE pc \in {"wait", "asked"} /\ pc' = "next"
      BY <1>1, <3>1, <3>4 DEF Counts
    <3>5. CASE pc = "next" /\ pc' = "post"
      BY <1>1, <3>1, <3>5 DEF Counts
    <3>6. CASE pc = "wait" /\ pc' = "asked"
      BY <1>1, <3>1, <3>6 DEF Counts
    <3> QED
      BY <3>2, <3>3, <3>4, <3>5, <3>6, <2>2
  <2>7. CASE AskAgain
    <3>1. /\ pc \in {"wait", "asked"} /\ pc' = "wait" /\ tries' = tries + 1
          /\ UNCHANGED <<i, manifests>>
      BY <2>7 DEF AskAgain, Asking
    <3> QED
      BY <1>1, <3>1 DEF Counts
  <2>8. CASE GiveUp \/ Unreachable \/ Unanswered
    <3>1. pc' \in Ended /\ pc \notin Ended
      BY <2>8 DEF GiveUp, Asking, Unreachable, Unanswered, Dies, Ended
    <3> QED
      BY <2>2, <2>3, <3>1
  <2>9. CASE Post \/ Get \/ Put \/ Refused
    <3>1. manifests' = manifests /\ pc \in {"post", "get", "put"}
      BY <2>9 DEF Post, Get, Put, Refused, script
    <3>2. \/ pc' = "next" /\ i' = i + 1
          \/ pc = "post" /\ pc' = "get" /\ i' = i
          \/ pc = "get" /\ pc' = "put" /\ i' = i
      BY <2>9 DEF Post, Get, Put, Refused, Answered
    <3>3. CASE pc' = "next" /\ i' = i + 1
      BY <2>2, <2>5, <3>1, <3>3
    <3>4. CASE pc = "post" /\ pc' = "get" /\ i' = i
      BY <1>1, <3>1, <3>4 DEF Counts
    <3>5. CASE pc = "get" /\ pc' = "put" /\ i' = i
      BY <1>1, <3>1, <3>5 DEF Counts
    <3> QED
      BY <3>2, <3>3, <3>4, <3>5
  <2>10. CASE Finished \/ LateArrives \/ OthersWrite \/ Establish \/ ServerUp \/ ServerDown
    <3>1. UNCHANGED <<pc, tries, i, manifests>>
      BY <2>10 DEF Finished, LateArrives, OthersWrite, Establish, ServerUp, ServerDown,
                   script, vars
    <3>2. StepsLeft' = StepsLeft
      BY <3>1 DEF StepsLeft
    <3> QED
      BY <2>2, <3>1, <3>2
  <2> QED
    BY <1>1, <2>4, <2>6, <2>7, <2>8, <2>9, <2>10 DEF Next, Script
<1>2. ASSUME TypeOK, Counts, Counts', [Next]_vars
      PROVE  [run' = run =>
                 /\ StepsLeft' <= StepsLeft
                 /\ pc' # pc \/ tries' # tries => StepsLeft' < StepsLeft]_vars
  BY <1>1, <1>2
<1> QED
  BY <1>2, StepsLeftIs, ManifestTyping, PTL DEF Spec, RunAdvances
=============================================================================
