----------------------------- MODULE Ownership ------------------------------
(***************************************************************************)
(* What a claim promises (README, "Whose drive is it?"): a disk has at     *)
(* most one owner; anybody may record one where there is none; and an      *)
(* owner on record goes only from a disk somebody is forcing.              *)
(***************************************************************************)
CONSTANTS Nodes, NoNode, Disks

VARIABLES owner,   \* the node on record for each disk
          forced   \* the disks an operator is taking with --force

Init == /\ owner \in [Disks -> Nodes \cup {NoNode}]
        /\ forced = {}

\* The first claim on a disk, and the last word of a forced one.
Record(d) == /\ owner[d] = NoNode
             /\ \E n \in Nodes : owner' = [owner EXCEPT ![d] = n]
             /\ forced' \in SUBSET Disks

\* A forced claim removes the old owner before it writes the new one.
Strike(d) == /\ d \in forced
             /\ owner' = [owner EXCEPT ![d] = NoNode]
             /\ forced' \in SUBSET Disks

\* Operators come and go.
Force == forced' \in SUBSET Disks /\ UNCHANGED owner

Next == Force \/ \E d \in Disks : Record(d) \/ Strike(d)

Spec == Init /\ [][Next]_<<owner, forced>>
=============================================================================
