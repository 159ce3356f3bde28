--------------------------- MODULE ApplyManifests ---------------------------
(***************************************************************************)
(* The last phase of scripts/bootstrap-cluster.sh: wait for the apiserver, *)
(* then scripts/apply-manifests.py puts every manifest there, creating it  *)
(* or replacing what is there.  The apiserver is external: it keeps a      *)
(* revision with each object, it answers a custom resource only once it    *)
(* serves the definition, and other clients write to it too.  A request    *)
(* whose answer never came may still arrive, during a later run even.      *)
(***************************************************************************)
EXTENDS Integers, Sequences

CONSTANTS Objects,   \* what manifests may name
          Needs,     \* the definitions that must be served before an object is
          Unhandled, \* the objects whose kind is not in PLURALS
          Inputs,    \* the manifests of a run, in the order docs() yields them
          Tries,     \* how often the script asks whether the apiserver serves
          MaxRuns,   \* bound: how often the script is started
          Troubles   \* bound: how much goes wrong that is not its doing

ASSUME ManifestAssumption ==
    /\ Needs \in [Objects -> SUBSET Objects]
    /\ Unhandled \subseteq Objects
    /\ Inputs \subseteq Seq(Objects)
    /\ Tries \in Nat \ {0} /\ MaxRuns \in Nat /\ Troubles \in Nat

VARIABLES
    ready, served, \* is the apiserver up, and the definitions it serves
    rev,           \* the last revision it gave
    live,          \* the revision of each object, 0 where there is none
    by, newest,    \* the run that wrote it last (0: others), the newest that did
    late,          \* requests of runs that died waiting for the answer
    run, manifests, pc, tries, i, failures, \* the script
    seen,          \* the revision it carries into its manifest
    accepted,      \* what the apiserver took of this run
    excuse,        \* something happened in this run that it cannot help
    troubles

server == <<ready, served, rev, live, by, newest>>
script == <<run, manifests, tries>>
vars == <<server, late, script, pc, i, failures, seen, accepted, excuse, troubles>>

Posts == [op : {"POST"}, run : 1..MaxRuns, obj : Objects]
Puts == [op : {"PUT"}, run : 1..MaxRuns, obj : Objects, rev : Nat]
Ended == {"applied", "failed"}

TypeOK ==
    /\ ready \in BOOLEAN /\ served \subseteq Objects
    /\ rev \in Nat /\ live \in [Objects -> Nat]
    /\ by \in [Objects -> 0..MaxRuns] /\ newest \in [Objects -> 0..MaxRuns]
    /\ late \subseteq Posts \cup Puts
    /\ run \in 0..MaxRuns /\ manifests \in Seq(Objects)
    /\ pc \in {"wait", "asked", "next", "post", "get", "put"} \cup Ended
    /\ tries \in 1..Tries
    /\ i \in 1..(Len(manifests) + 1) /\ failures \in Nat
    /\ pc \notin Ended => run > 0
    /\ pc \in {"post", "get", "put"} => i <= Len(manifests)
    /\ seen \in Nat /\ accepted \subseteq Objects
    /\ excuse \in BOOLEAN /\ troubles \in 0..Troubles

Init ==
    /\ ready \in BOOLEAN /\ served = {}
    /\ rev = 0 /\ live = [o \in Objects |-> 0]
    /\ by = [o \in Objects |-> 0] /\ newest = [o \in Objects |-> 0]
    /\ late = {}
    /\ run = 0 /\ manifests = <<>> /\ pc = "failed" /\ tries = 1 /\ i = 1
    /\ failures = 0 /\ seen = 0 /\ accepted = {}
    /\ excuse = TRUE /\ troubles = 0

-----------------------------------------------------------------------------
(***************************************************************************)
(* The apiserver.                                                          *)
(***************************************************************************)
Store(o, r) ==
    /\ rev' = rev + 1
    /\ live' = [live EXCEPT ![o] = rev + 1]
    /\ by' = [by EXCEPT ![o] = r]
    /\ newest' = [newest EXCEPT ![o] = IF r > @ \/ live[o] = 0 THEN r ELSE @]
    /\ UNCHANGED <<ready, served>>

CanCreate(o) == live[o] = 0 /\ Needs[o] \subseteq served

\* A plausible slip: the manifest goes out without the revision that was read.
CanReplaceAny(o, v) == live[o] # 0

CanReplace(o, v) == live[o] # 0 /\ live[o] = v

Trouble == /\ troubles < Troubles
           /\ troubles' = troubles + 1
           /\ excuse' = TRUE

\* The request of a run that is gone arrives.
LateArrives ==
    /\ ready
    /\ \E m \in late :
          /\ late' = late \ {m}
          /\ IF m.op = "POST" THEN CanCreate(m.obj) ELSE CanReplace(m.obj, m.rev)
          /\ Store(m.obj, m.run)
    /\ excuse' = TRUE
    /\ UNCHANGED <<script, pc, i, failures, seen, accepted, troubles>>

\* Somebody else writes an object, or takes one away and what it defines.
OthersWrite ==
    /\ Trouble
    /\ \E o \in Objects :
          \/ (live[o] # 0 \/ CanCreate(o)) /\ Store(o, 0)
          \/ LET gone == {o} \cup {x \in Objects : o \in Needs[x]} IN
             /\ live[o] # 0
             /\ live' = [x \in Objects |-> IF x \in gone THEN 0 ELSE live[x]]
             /\ served' = served \ {o}
             /\ UNCHANGED <<ready, rev, by, newest>>
    /\ UNCHANGED <<late, script, pc, i, failures, seen, accepted>>

\* A definition that was created is served a while later.
Establish ==
    /\ ready
    /\ \E o \in Objects : live[o] # 0 /\ o \notin served /\ served' = served \cup {o}
    /\ UNCHANGED <<ready, rev, live, by, newest, late, script, pc, i, failures,
                   seen, accepted, excuse, troubles>>

ServerUp ==
    /\ ~ready /\ ready' = TRUE
    /\ UNCHANGED <<served, rev, live, by, newest, late, script, pc, i, failures,
                   seen, accepted, excuse, troubles>>

ServerDown ==
    /\ ready /\ ready' = FALSE
    /\ Trouble
    /\ UNCHANGED <<served, rev, live, by, newest, late, script, pc, i, failures,
                   seen, accepted>>

-----------------------------------------------------------------------------
(***************************************************************************)
(* The script.                                                             *)
(***************************************************************************)
Current == manifests[i]

Start ==
    /\ pc \in Ended /\ run < MaxRuns
    /\ \E m \in Inputs :
          /\ manifests' = m
          /\ excuse' = \E j \in 1..Len(m) :
                          m[j] \in Unhandled \/ ~(Needs[m[j]] \subseteq served)
    /\ run' = run + 1
    /\ pc' = "wait" /\ tries' = 1 /\ i' = 1 /\ failures' = 0 /\ seen' = 0
    /\ accepted' = {}
    /\ UNCHANGED <<server, late, troubles>>

\* A try of the wait is made, or still under way: the request was taken, and no
\* answer came yet.
Asking == pc \in {"wait", "asked"}

TakenUnanswered ==
    /\ pc = "wait" /\ pc' = "asked"
    /\ UNCHANGED <<server, late, script, i, failures, seen, accepted, excuse, troubles>>

Serves ==
    /\ Asking /\ ready
    /\ pc' = "next"
    /\ UNCHANGED <<server, late, script, i, failures, seen, accepted, excuse, troubles>>

\* A plausible slip: the tries are not counted.
AskForEver ==
    /\ pc = "wait" /\ ~ready /\ tries < Tries
    /\ UNCHANGED vars

\* A plausible slip: one try too many.
AskOnceMore ==
    /\ Asking /\ ~ready /\ tries <= Tries
    /\ pc' = "wait" /\ tries' = tries + 1
    /\ UNCHANGED <<server, late, run, manifests, i, failures, seen, accepted, excuse,
                   troubles>>

AskAgain ==
    /\ Asking /\ ~ready /\ tries < Tries
    /\ pc' = "wait" /\ tries' = tries + 1
    /\ UNCHANGED <<server, late, run, manifests, i, failures, seen, accepted, excuse,
                   troubles>>

\* A plausible slip: the last try counts as a miss before it is made.
GiveUpEarly ==
    /\ Asking /\ tries = Tries
    /\ pc' = "failed" /\ excuse' = (excuse \/ ~ready)
    /\ UNCHANGED <<server, late, script, i, failures, seen, accepted, troubles>>

GiveUp ==
    /\ Asking /\ ~ready /\ tries = Tries
    /\ pc' = "failed" /\ excuse' = (excuse \/ ~ready)
    /\ UNCHANGED <<server, late, script, i, failures, seen, accepted, troubles>>

\* main(): the next manifest, or the verdict.  A kind that is not in PLURALS
\* ends the script where it stands.
NextManifest ==
    /\ pc = "next"
    /\ pc' = IF i > Len(manifests)
             THEN IF failures = 0 THEN "applied" ELSE "failed"
             ELSE IF Current \in Unhandled THEN "failed" ELSE "post"
    /\ UNCHANGED <<server, late, script, i, failures, seen, accepted, excuse, troubles>>

\* A plausible slip: apply_one's answer is not looked at.
AnsweredAnyway(ok) ==
    /\ pc' = "next" /\ i' = i + 1
    /\ failures' = failures
    /\ accepted' = IF ok THEN accepted \cup {Current} ELSE accepted

\* apply_one has answered; main() counts and goes on.
Answered(ok) ==
    /\ pc' = "next" /\ i' = i + 1
    /\ failures' = IF ok THEN failures ELSE failures + 1
    /\ accepted' = IF ok THEN accepted \cup {Current} ELSE accepted

\* A plausible slip: a conflict is a failure like any other.
PostOnly ==
    /\ pc = "post" /\ ready
    /\ \/ CanCreate(Current) /\ Store(Current, run) /\ Answered(TRUE)
       \/ ~CanCreate(Current) /\ Answered(FALSE) /\ UNCHANGED server
    /\ UNCHANGED <<late, script, seen, excuse, troubles>>

Post ==
    /\ pc = "post" /\ ready
    /\ \/ CanCreate(Current) /\ Store(Current, run) /\ Answered(TRUE)
       \/ /\ live[Current] # 0 /\ pc' = "get"
          /\ UNCHANGED <<server, i, failures, accepted>>
       \/ live[Current] = 0 /\ ~CanCreate(Current) /\ Answered(FALSE) /\ UNCHANGED server
    /\ UNCHANGED <<late, script, seen, excuse, troubles>>

Get ==
    /\ pc = "get" /\ ready
    /\ \/ /\ live[Current] # 0
          /\ seen' = live[Current] /\ pc' = "put"
          /\ UNCHANGED <<i, failures, accepted>>
       \/ live[Current] = 0 /\ Answered(FALSE) /\ UNCHANGED seen
    /\ UNCHANGED <<server, late, script, excuse, troubles>>

Put ==
    /\ pc = "put" /\ ready
    /\ \/ CanReplace(Current, seen) /\ Store(Current, run) /\ Answered(TRUE)
       \/ ~CanReplace(Current, seen) /\ Answered(FALSE) /\ UNCHANGED server
    /\ UNCHANGED <<late, script, seen, excuse, troubles>>

\* The apiserver answers with some other error: one more failure.
Refused ==
    /\ pc \in {"post", "get", "put"} /\ ready
    /\ Answered(FALSE)
    /\ Trouble
    /\ UNCHANGED <<server, late, script, seen>>

\* No answer: URLError and a timeout are not HTTPErrors, so they end the
\* script.  What it had sent may arrive yet.
Sent == IF pc = "post" THEN {[op |-> "POST", run |-> run, obj |-> Current]}
        ELSE IF pc = "put"
        THEN {[op |-> "PUT", run |-> run, obj |-> Current, rev |-> seen]}
        ELSE {}

Dies ==
    /\ pc \in {"post", "get", "put"}
    /\ pc' = "failed"
    /\ late' = late \cup Sent
    /\ UNCHANGED <<server, script, i, failures, seen, accepted>>

Unanswered == ready /\ Dies /\ Trouble

Unreachable == ~ready /\ Dies /\ UNCHANGED <<excuse, troubles>>

Script == Serves \/ AskAgain \/ GiveUp \/ NextManifest \/ Post \/ Get \/ Put \/ Unreachable

Finished == pc \in Ended /\ run = MaxRuns /\ UNCHANGED vars

Next == \/ Start \/ Script \/ TakenUnanswered \/ Refused \/ Unanswered \/ Finished
        \/ LateArrives \/ OthersWrite \/ Establish \/ ServerUp \/ ServerDown

Spec == Init /\ [][Next]_vars

\* Over a connection to the node that holds, the requests that carry manifests are
\* answered or run into their timeout of 30 seconds.  The wait's curl has no time
\* limit: nothing says that a try which the apiserver took ever ends.
FairSpec == Spec /\ WF_vars(Script /\ pc # "asked")

-----------------------------------------------------------------------------
(***************************************************************************)
(* Properties.                                                             *)
(***************************************************************************)
\* "all manifests applied": the apiserver took every one of them in this run,
\* whatever came in between.
AppliedMeansAccepted ==
    pc = "applied" => \A j \in 1..Len(manifests) : manifests[j] \in accepted

\* "keeps the script re-runnable": whatever earlier runs left behind, a run
\* that nobody disturbs, on a server that serves what it needs, applies.
UndisturbedRunApplies == pc = "failed" => excuse

\* "carry its resourceVersion into ours": a request that an earlier run sent
\* and gave up on never puts its manifest over that of a later run.
OldRunsStayOld ==
    \A o \in Objects : live[o] # 0 /\ by[o] # 0 => by[o] = newest[o]

\* Every run ends, whatever it meets and whoever else writes; the one way for it
\* not to is a try of the wait that the apiserver takes and never answers, which
\* none of the thirty tries bounds.
RunEnds == (pc \notin Ended ~> pc \in Ended) \/ <>[](pc = "asked")
=============================================================================
