----------------------------- MODULE ClaimClock -----------------------------
(***************************************************************************)
(* The date in a claim: now_rfc3339 (crates/zeroboot/src/main.rs) counts   *)
(* years, then months, off the days since 1970 until what is left is a day *)
(* of the month.  A process that fails here ends a boot: the month indexes *)
(* an array of twelve, and both loops rely on what the one before left.    *)
(* One claim is dated after another, by whatever the clock shows then.     *)
(***************************************************************************)
EXTENDS Integers

CONSTANT Clock    \* what the clock may show: the day since 1970, and the second of it

ASSUME ClockAssumption == /\ Clock \subseteq [day : Int, rem : Nat]
                          /\ \A c \in Clock : c.rem < 86400

VARIABLES pc,        \* the loop it is in
          now,       \* what the clock said
          y, d, m,   \* the loops' variables
          stamp,     \* the date in the last claim, or NoStamp
          stampedAt  \* and when it was made

vars == <<pc, now, y, d, m, stamp, stampedAt>>

NoStamp == [y |-> 0, mo |-> 0, d |-> 0, h |-> 0, mi |-> 0, s |-> 0]
Epoch == [day |-> 0, rem |-> 0]
Times == [day : Nat, rem : Nat]
Stamps == [y : Nat, mo : 1..12, d : 1..31, h : 0..23, mi : 0..59, s : 0..59]

TypeOK == /\ pc \in {"idle", "year", "month", "panicked"}
          /\ now \in Times /\ now.rem < 86400 /\ y \in Nat /\ d \in Nat /\ m \in 0..12
          /\ stamp = NoStamp \/ stamp \in Stamps
          /\ stampedAt \in Times

Init == /\ pc = "idle"
        /\ now = Epoch /\ y = 1970 /\ d = 0 /\ m = 0
        /\ stamp = NoStamp /\ stampedAt = Epoch

-----------------------------------------------------------------------------
Leap(n) == (n % 4 = 0 /\ n % 100 # 0) \/ n % 400 = 0

\* A plausible slip: every fourth year.
JulianYear(n) == IF n % 4 = 0 THEN 366 ELSE 365

YearLength(n) == IF Leap(n) THEN 366 ELSE 365

MonthLength(n, k) ==
    IF k = 1 THEN IF Leap(n) THEN 29 ELSE 28
    ELSE IF k \in {3, 5, 8, 10} THEN 30 ELSE 31

\* One process after the other.  A clock before 1970 counts as 1970.
Begin ==
    /\ pc \in {"idle", "panicked"}
    /\ \E c \in Clock : now' = IF c.day < 0 THEN Epoch ELSE c
    /\ pc' = "year" /\ y' = 1970 /\ d' = now'.day /\ m' = 0
    /\ UNCHANGED <<stamp, stampedAt>>

NextYear ==
    /\ pc = "year" /\ d >= YearLength(y)
    /\ d' = d - YearLength(y) /\ y' = y + 1
    /\ UNCHANGED <<pc, now, m, stamp, stampedAt>>

\* A plausible slip: the first day of a year counts as one more of the year before.
YearFoundLate ==
    /\ pc = "year" /\ d <= YearLength(y)
    /\ pc' = "month" /\ m' = 0
    /\ UNCHANGED <<now, y, d, stamp, stampedAt>>

YearFound ==
    /\ pc = "year" /\ d < YearLength(y)
    /\ pc' = "month" /\ m' = 0
    /\ UNCHANGED <<now, y, d, stamp, stampedAt>>

\* months[12] would be an index out of bounds: the process ends.
NextMonth ==
    /\ pc = "month" /\ (m < 12 => d >= MonthLength(y, m))
    /\ IF m < 12 THEN pc' = pc /\ d' = d - MonthLength(y, m) /\ m' = m + 1
                 ELSE pc' = "panicked" /\ UNCHANGED <<d, m>>
    /\ UNCHANGED <<now, y, stamp, stampedAt>>

\* A plausible slip: minutes and seconds change places.
TimeSwapped(rem) == [h |-> rem \div 3600, mi |-> rem % 60, s |-> (rem % 3600) \div 60]

TimeOfDay(rem) == [h |-> rem \div 3600, mi |-> (rem % 3600) \div 60, s |-> rem % 60]

\* A plausible slip: the day is printed as it was counted, from zero.
WriteFromZero ==
    /\ pc = "month" /\ m < 12 /\ d < MonthLength(y, m)
    /\ LET t == TimeOfDay(now.rem) IN
       stamp' = [y |-> y, mo |-> m + 1, d |-> d, h |-> t.h, mi |-> t.mi, s |-> t.s]
    /\ stampedAt' = now /\ pc' = "idle"
    /\ UNCHANGED <<now, y, d, m>>

Write ==
    /\ pc = "month" /\ m < 12 /\ d < MonthLength(y, m)
    /\ LET t == TimeOfDay(now.rem) IN
       stamp' = [y |-> y, mo |-> m + 1, d |-> d + 1, h |-> t.h, mi |-> t.mi, s |-> t.s]
    /\ stampedAt' = now /\ pc' = "idle"
    /\ UNCHANGED <<now, y, d, m>>

Count == NextYear \/ YearFound \/ NextMonth \/ Write

Next == Begin \/ Count

Spec == Init /\ [][Next]_vars

\* The loops run.
FairSpec == Spec /\ WF_vars(Count)

-----------------------------------------------------------------------------
(***************************************************************************)
(* The calendar, without a loop.                                           *)
(***************************************************************************)
LeapYearsTo(n) == n \div 4 - n \div 100 + n \div 400

IsLeap(n) == LeapYearsTo(n) # LeapYearsTo(n - 1)

\* The days from 1 January 1970 to 1 January of year n.
DaysToYear(n) == 365 * (n - 1970) + LeapYearsTo(n - 1) - LeapYearsTo(1969)

\* The days from 1 January to the first of the month: what each month is short
\* of, or over, 30.6 days adds up to this.
DaysToMonth(n, mo) ==
    (367 * mo - 362) \div 12 - IF mo <= 2 THEN 0 ELSE IF IsLeap(n) THEN 1 ELSE 2

DayNumber(st) == DaysToYear(st.y) + DaysToMonth(st.y, st.mo) + st.d - 1

\* The date in a claim is the date of the second it was made in.
DateIsRight ==
    stamp # NoStamp =>
        /\ DayNumber(stamp) = stampedAt.day
        /\ 3600 * stamp.h + 60 * stamp.mi + stamp.s = stampedAt.rem

\* How two dates are read: the first field that differs decides.  The year is
\* printed in four digits, so as text they compare like this up to 9999.
ReadsBefore(a, b) ==
    \/ a.y < b.y
    \/ a.y = b.y /\ a.mo < b.mo
    \/ a.y = b.y /\ a.mo = b.mo /\ a.d < b.d
    \/ /\ a.y = b.y /\ a.mo = b.mo /\ a.d = b.d
       /\ 3600 * a.h + 60 * a.mi + a.s < 3600 * b.h + 60 * b.mi + b.s

Later(t, u) == t.day < u.day \/ (t.day = u.day /\ t.rem < u.rem)

\* "When, so a disk with two histories can be read in order": of two claims the
\* one that was made later reads later.
ClaimsReadInOrder ==
    [][stamp # NoStamp /\ Later(stampedAt, stampedAt') => ReadsBefore(stamp, stamp')]_vars

\* Every claim gets its date: no day of any year runs over the twelve months.
DateIsFound == pc = "year" ~> pc = "idle"
=============================================================================
