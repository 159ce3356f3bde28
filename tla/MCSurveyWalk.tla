---------------------------- MODULE MCSurveyWalk ----------------------------
(***************************************************************************)
(* Every machine of up to three drives out of one of each kind: owned with *)
(* either role, with no ESP, one that boots or one that does not; blank,   *)
(* of two sizes and both media; and not this node's.                       *)
(***************************************************************************)
EXTENDS SurveyWalk

Judged(bytes, spins, kind, role, espThere, boots) ==
    [size |-> bytes, rotational |-> spins,
     esp |-> [present |-> espThere, boot |-> boots],
     verdict |-> [kind |-> kind, role |-> role,
                  slab |-> IF kind = "Mine" THEN 1 ELSE 0]]

MCCandidates ==
    {Judged(1, FALSE, "Mine", r, e[1], e[2]) :
        r \in {"system", "data"},
        e \in {<<FALSE, FALSE>>, <<TRUE, FALSE>>, <<TRUE, TRUE>>}}
    \cup {Judged(s, m, "Blank", "none", FALSE, FALSE) : s \in 1..2, m \in BOOLEAN}
    \cup {Judged(1, FALSE, "Foreign", "none", FALSE, FALSE)}
=============================================================================
