------------------------------- MODULE MCBoot -------------------------------
(***************************************************************************)
(* Two chassis with a free bay, one of whose machines may be anonymous.    *)
(***************************************************************************)
EXTENDS Boot, DriveShapes

CONSTANTS n1, n2, d1, d2

Both == {n1, n2}

BothDisks == {d1, d2}

Local(shape) == Attached(shape, 1, FALSE, FALSE)

Lun(shape) == Attached(shape, 1, FALSE, TRUE)

Empty == Local(EmptyShape)
Unclaimed == Local(LaidOut(NoNode, TRUE))
Theirs == Local(LaidOut(n2, TRUE))

Start(one, two, bays) ==
    [disk |-> [d \in Disks |-> IF d = d1 THEN one ELSE two],
     bay |-> [n \in Nodes |-> bays[IF n = n1 THEN 1 ELSE 2]]]

\* Both disks in the first chassis, and an empty one they may be carried to.
Crowded ==
    {Start(w[1], w[2], <<<<d1, d2>>, <<NoDisk, NoDisk>>>>) :
        w \in {<<Empty, Empty>>, <<Empty, Unclaimed>>, <<Empty, Theirs>>,
               <<Unclaimed, Theirs>>}}

\* A LUN that both machines reach: an empty one, beside a disk of the first machine,
\* or a laid-out one that is all there is.
Shared ==
    {Start(Unclaimed, Lun(EmptyShape), <<<<d1, d2>>, <<d2, NoDisk>>>>),
     Start(Unclaimed, Lun(LaidOut(NoNode, TRUE)), <<<<NoDisk, d2>>, <<d2, NoDisk>>>>)}

DataFirst == {<<"data", "system">>}
EitherOrder == DataFirst \cup {<<"system", "data">>}

DriveOrNameFails == {<<"sniff", 0>>, Site("identity")}

DriveNameOrClaimFails == DriveOrNameFails \cup {Site("claim")}

EspFails == EspReads

NoFault == {}
=============================================================================
