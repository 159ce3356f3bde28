------------------------------ MODULE MCProbe -------------------------------
(***************************************************************************)
(* One look checked on every shape of drive, each attached here, over the  *)
(* network, or removable.                                                  *)
(***************************************************************************)
EXTENDS Probe, DriveShapes

CONSTANTS n1, n2

Both == {n1, n2}

Shapes ==
    {Bare(h, t, r) : h \in {"zero", "signature", "noise", "system", "data"},
                     t \in {"zero", "signature", "noise"},
                     r \in {"zero", "sampled", "unsampled"}}
    \cup {FlowedOver(p) : p \in {<<"other">>, <<"data">>, <<"unknown">>, <<"data", "system">>,
                                 <<"system", "data">>}}
    \cup {LaidOut(c, b) : c \in {n1, n2, NoNode}, b \in BOOLEAN}

MCContents ==
    {Attached(s, 1, r, FALSE) : s \in Shapes, r \in BOOLEAN}
        \cup {Attached(s, 1, FALSE, TRUE) : s \in Shapes}
        \cup {Attached(EmptyShape, 0, r, FALSE) : r \in BOOLEAN}

AnyFails == Once \cup ({"sniff", "identify"} \X (0..2)) \cup ({"entry"} \X (1..2))
=============================================================================
