---------------------------- MODULE MCBlankScan -----------------------------
(***************************************************************************)
(* The scan checked on small drives of every length around the edges of    *)
(* its loops, empty or with one stretch of bytes anywhere on them.         *)
(***************************************************************************)
EXTENDS BlankScan

CONSTANT Longest

Stretches(n) == {a..b : a, b \in 0..(n - 1)}

MCBlanks ==
    UNION {{[len |-> n, used |-> s] : s \in {{}} \cup Stretches(n)} : n \in 0..Longest}

\* A table at the front, and a byte in a sample.
MCWrites == {{0}, {Deep + Stride}}
=============================================================================
