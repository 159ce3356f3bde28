---------------------------- MODULE MCClaimClock ----------------------------
\* The days where the calendar turns, the first and the last of a year and of
\* February, in years of every kind, and the clock that was never set.
EXTENDS ClaimClock

Years == {1972, 2000, 2100, 2101}

Turns(n) == {DaysToYear(n) + k : k \in {0, 58, 59, 60, 364, 365}}

MCClock == {[day |-> -1, rem |-> 86399]}
               \cup [day : UNION {Turns(n) : n \in Years}, rem : {59, 61, 86399}]
=============================================================================
