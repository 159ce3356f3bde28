---------------------------- MODULE ClockProofs -----------------------------
(***************************************************************************)
(* The date in a claim is right for every second a clock can show, in      *)
(* every year: the two loops of ClaimClock compute what the closed form of *)
(* the calendar says, and neither runs over.                               *)
(***************************************************************************)
EXTENDS ClaimClock, TLAPS

\* What the remainders of a number by 4, 100 and 400 are to its quotients.
LEMMA Quotients ==
    ASSUME NEW n \in Nat, NEW k \in {4, 100, 400}
    PROVE  /\ n \div k \in Nat /\ (n + 1) \div k \in Nat
           /\ (n + 1) \div k = IF (n + 1) % k = 0 THEN n \div k + 1 ELSE n \div k
  OBVIOUS

LEMMA LeapMeans ==
    ASSUME NEW n \in Nat
    PROVE  LeapYearsTo(n + 1) = LeapYearsTo(n) + (IF Leap(n + 1) THEN 1 ELSE 0)
<1>1. /\ n \div 4 \in Nat /\ n \div 100 \in Nat /\ n \div 400 \in Nat
      /\ (n + 1) \div 4 = IF (n + 1) % 4 = 0 THEN n \div 4 + 1 ELSE n \div 4
      /\ (n + 1) \div 100 = IF (n + 1) % 100 = 0 THEN n \div 100 + 1 ELSE n \div 100
      /\ (n + 1) \div 400 = IF (n + 1) % 400 = 0 THEN n \div 400 + 1 ELSE n \div 400
  BY Quotients
<1>2. /\ (n + 1) % 400 = 0 => (n + 1) % 100 = 0
      /\ (n + 1) % 100 = 0 => (n + 1) % 4 = 0
  OBVIOUS
<1> QED
  BY <1>1, <1>2 DEF LeapYearsTo, Leap

LEMMA SameLeap ==
    ASSUME NEW n \in Nat, n >= 1
    PROVE  IsLeap(n) <=> Leap(n)
<1>1. LeapYearsTo(n) = LeapYearsTo(n - 1) + (IF Leap(n) THEN 1 ELSE 0)
  <2>1. n - 1 \in Nat /\ (n - 1) + 1 = n
    OBVIOUS
  <2> QED
    BY <2>1, LeapMeans
<1>2. LeapYearsTo(n - 1) \in Int
  BY DEF LeapYearsTo
<1> QED
  BY <1>1, <1>2 DEF IsLeap

LEMMA YearStep ==
    ASSUME NEW n \in Nat, n >= 1
    PROVE  /\ DaysToYear(n) \in Int
           /\ DaysToYear(n + 1) = DaysToYear(n) + YearLength(n)
<1>1. LeapYearsTo(n - 1) \in Int /\ LeapYearsTo(1969) \in Int
  BY DEF LeapYearsTo
<1>2. LeapYearsTo(n) = LeapYearsTo(n - 1) + (IF Leap(n) THEN 1 ELSE 0)
  <2>1. n - 1 \in Nat /\ (n - 1) + 1 = n
    OBVIOUS
  <2> QED
    BY <2>1, LeapMeans
<1>3. (n + 1) - 1 = n
  OBVIOUS
<1> QED
  BY <1>1, <1>2, <1>3 DEF DaysToYear, YearLength

\* The months of a year, by the closed form, have the lengths of the array, and
\* the thirteenth begins where the year ends.
LEMMA MonthStep ==
    ASSUME NEW n \in Nat, n >= 1, NEW k \in 0..11
    PROVE  /\ DaysToMonth(n, k + 1) \in Nat /\ MonthLength(n, k) \in 28..31
           /\ DaysToMonth(n, k + 2) = DaysToMonth(n, k + 1) + MonthLength(n, k)
<1>1. IsLeap(n) <=> Leap(n)
  BY SameLeap
<1>2. /\ (367 * 1 - 362) \div 12 = 0 /\ (367 * 2 - 362) \div 12 = 31
      /\ (367 * 3 - 362) \div 12 = 61 /\ (367 * 4 - 362) \div 12 = 92
      /\ (367 * 5 - 362) \div 12 = 122 /\ (367 * 6 - 362) \div 12 = 153
      /\ (367 * 7 - 362) \div 12 = 183 /\ (367 * 8 - 362) \div 12 = 214
      /\ (367 * 9 - 362) \div 12 = 245 /\ (367 * 10 - 362) \div 12 = 275
      /\ (367 * 11 - 362) \div 12 = 306 /\ (367 * 12 - 362) \div 12 = 336
      /\ (367 * 13 - 362) \div 12 = 367
  OBVIOUS
<1>3. k \in {0, 1, 2, 3, 4, 5} \/ k \in {6, 7, 8, 9, 10, 11}
  OBVIOUS
<1>4. CASE k \in {0, 1, 2, 3, 4, 5}
  BY <1>1, <1>2, <1>4 DEF DaysToMonth, MonthLength
<1>5. CASE k \in {6, 7, 8, 9, 10, 11}
  BY <1>1, <1>2, <1>5 DEF DaysToMonth, MonthLength
<1> QED
  BY <1>3, <1>4, <1>5

LEMMA YearEnds ==
    ASSUME NEW n \in Nat, n >= 1
    PROVE  DaysToMonth(n, 1) = 0 /\ DaysToMonth(n, 13) = YearLength(n)
<1>1. IsLeap(n) <=> Leap(n)
  BY SameLeap
<1>2. (367 * 1 - 362) \div 12 = 0 /\ (367 * 13 - 362) \div 12 = 367
  OBVIOUS
<1> QED
  BY <1>1, <1>2 DEF DaysToMonth, YearLength

\* What a division by 3600, and one by 60, leave.
LEMMA Hours ==
    ASSUME NEW r \in Nat
    PROVE  /\ r \div 3600 \in Nat /\ r % 3600 \in Nat /\ r % 3600 < 3600
           /\ r = 3600 * (r \div 3600) + (r % 3600)
<1> DEFINE h == r \div 3600
           x == r - 3600 * h
<1>1. 3600 * h <= r /\ r < 3600 * h + 3600 /\ h \in Nat
  BY SMT
<1> HIDE DEF h
<1>2. x \in Nat /\ x < 3600 /\ r = 3600 * h + x
  BY <1>1, SMT
<1> HIDE DEF x
<1>3. x = r % 3600
  BY <1>1, <1>2, SMT
<1> QED
  BY <1>1, <1>2, <1>3 DEF h

LEMMA Minutes ==
    ASSUME NEW r \in Nat
    PROVE  /\ r \div 60 \in Nat /\ r % 60 \in Nat /\ r % 60 < 60
           /\ r = 60 * (r \div 60) + (r % 60)
<1> DEFINE h == r \div 60
           x == r - 60 * h
<1>1. 60 * h <= r /\ r < 60 * h + 60 /\ h \in Nat
  BY SMT
<1> HIDE DEF h
<1>2. x \in Nat /\ x < 60 /\ r = 60 * h + x
  BY <1>1, SMT
<1> HIDE DEF x
<1>3. x = r % 60
  BY <1>1, <1>2, SMT
<1> QED
  BY <1>1, <1>2, <1>3 DEF h

\* The same fields, as numbers of their own.
LEMMA Fields ==
    ASSUME NEW r \in Nat, r < 86400,
           NEW h \in Nat, NEW u \in Nat, u < 3600, r = 3600 * h + u,
           NEW q \in Nat, NEW x \in Nat, x < 60, u = 60 * q + x,
           NEW p \in Nat, NEW z \in Nat, z < 60, r = 60 * p + z
    PROVE  /\ h < 24 /\ q < 60 /\ z = x
           /\ 3600 * h + 60 * q + z = r
<1>1. h < 24 /\ q < 60
  BY SMT
<1>2. 60 * (p - 60 * h - q) = x - z
  BY SMT
<1>3. z = x
  BY <1>2, SMT
<1> QED
  BY <1>1, <1>3, SMT

LEMMA TimeSplits ==
    ASSUME NEW r \in Nat, r < 86400
    PROVE  LET t == TimeOfDay(r) IN
           /\ t.h \in 0..23 /\ t.mi \in 0..59 /\ t.s \in 0..59
           /\ 3600 * t.h + 60 * t.mi + t.s = r
<1> DEFINE h == r \div 3600
           u == r % 3600
           q == u \div 60
           x == u % 60
           p == r \div 60
           z == r % 60
<1>1. h \in Nat /\ u \in Nat /\ u < 3600 /\ r = 3600 * h + u
  BY Hours
<1>2. q \in Nat /\ x \in Nat /\ x < 60 /\ u = 60 * q + x
  BY <1>1, Minutes
<1>3. p \in Nat /\ z \in Nat /\ z < 60 /\ r = 60 * p + z
  BY Minutes
<1>4. TimeOfDay(r).h = h /\ TimeOfDay(r).mi = q /\ TimeOfDay(r).s = z
  BY DEF TimeOfDay
<1> HIDE DEF h, u, q, x, p, z
<1>5. h < 24 /\ q < 60 /\ z = x /\ 3600 * h + 60 * q + z = r
  BY <1>1, <1>2, <1>3, Fields
<1>6. h \in 0..23 /\ q \in 0..59 /\ z \in 0..59
  BY <1>1, <1>2, <1>3, <1>5, SMT
<1> QED
  BY <1>4, <1>5, <1>6

-----------------------------------------------------------------------------
(***************************************************************************)
(* The loop invariant: the days that were counted off and those that are   *)
(* left are the days since 1970, and what is left to the second loop fits  *)
(* in the year.                                                            *)
(***************************************************************************)
Running ==
    /\ pc # "panicked"
    /\ pc \in {"year", "month"} => y >= 1970
    /\ pc = "year" => DaysToYear(y) + d = now.day
    /\ pc = "month" =>
          /\ DaysToYear(y) + DaysToMonth(y, m + 1) + d = now.day
          /\ DaysToMonth(y, m + 1) + d < YearLength(y)

\* The date in the claim is a day of the calendar, and the right one.
Dated ==
    stamp # NoStamp =>
        /\ stamp.y >= 1970
        /\ stamp.d <= MonthLength(stamp.y, stamp.mo - 1)

ClockInv == TypeOK /\ Running /\ Dated /\ DateIsRight

LEMMA InitClock == Init => ClockInv
  BY DEF Init, ClockInv, TypeOK, Running, Dated, DateIsRight, NoStamp, Epoch, Times

LEMMA BeginKeeps ==
    ASSUME ClockInv, Begin
    PROVE  ClockInv'
<1> USE DEF ClockInv
<1>1. PICK c \in Clock : now' = IF c.day < 0 THEN Epoch ELSE c
  BY DEF Begin
<1>2. c \in [day : Int, rem : Nat] /\ c.rem < 86400
  BY ClockAssumption
<1>3. now' \in Times /\ now'.day \in Nat /\ now'.rem < 86400
  BY <1>1, <1>2 DEF Times, Epoch
<1>4. pc' = "year" /\ y' = 1970 /\ d' = now'.day /\ m' = 0
      /\ UNCHANGED <<stamp, stampedAt>>
  BY DEF Begin
<1>5. DaysToYear(1970) = 0
  BY DEF DaysToYear, LeapYearsTo
<1>6. TypeOK'
  BY <1>3, <1>4 DEF TypeOK
<1>7. Running'
  BY <1>3, <1>4, <1>5 DEF Running
<1> QED
  BY <1>4, <1>6, <1>7 DEF Dated, DateIsRight

LEMMA CountKeeps ==
    ASSUME ClockInv, Count
    PROVE  ClockInv'
<1> USE DEF ClockInv
<1>1. y \in Nat /\ d \in Nat /\ m \in 0..12 /\ now \in Times
      /\ now.day \in Nat /\ now.rem \in Nat /\ now.rem < 86400
  BY DEF TypeOK, Times
<1>2. YearLength(y) \in {365, 366}
  BY DEF YearLength
<1>3. CASE NextYear
  <2>1. /\ pc = "year" /\ pc' = "year" /\ d >= YearLength(y)
        /\ d' = d - YearLength(y) /\ y' = y + 1 /\ UNCHANGED <<now, m, stamp, stampedAt>>
    BY <1>3 DEF NextYear
  <2>2. d' \in Nat /\ y' \in Nat
    BY <1>1, <1>2, <2>1
  <2>3. y >= 1970 /\ DaysToYear(y) + d = now.day
    BY <2>1 DEF Running
  <2>4. DaysToYear(y + 1) + d' = now.day
    BY <1>1, <1>2, <2>1, <2>3, YearStep
  <2>5. Running'
    BY <1>1, <2>1, <2>3, <2>4 DEF Running
  <2> QED
    BY <2>1, <2>2, <2>5 DEF TypeOK, Dated, DateIsRight
<1>4. CASE YearFound
  <2>1. /\ pc = "year" /\ pc' = "month" /\ d < YearLength(y) /\ m' = 0
        /\ UNCHANGED <<now, y, d, stamp, stampedAt>>
    BY <1>4 DEF YearFound
  <2>2. y >= 1970 /\ DaysToYear(y) + d = now.day
    BY <2>1 DEF Running
  <2>3. DaysToMonth(y, 1) = 0 /\ DaysToYear(y) \in Int
    BY <1>1, <2>2, YearEnds, YearStep
  <2>4. Running'
    <3>1. /\ DaysToYear(y) + DaysToMonth(y, 1) + d = now.day
          /\ DaysToMonth(y, 1) + d < YearLength(y)
      BY <1>1, <2>1, <2>2, <2>3
    <3> QED
      BY <2>1, <2>2, <3>1 DEF Running, YearLength
  <2> QED
    BY <1>1, <2>1, <2>4 DEF TypeOK, Dated, DateIsRight
<1>5. CASE NextMonth
  <2>1. /\ pc = "month" /\ y >= 1970
        /\ DaysToYear(y) + DaysToMonth(y, m + 1) + d = now.day
        /\ DaysToMonth(y, m + 1) + d < YearLength(y)
    BY <1>5 DEF NextMonth, Running
  <2>2. m < 12
    <3> SUFFICES ASSUME m = 12 PROVE FALSE
      BY <1>1
    <3>1. DaysToMonth(y, 13) = YearLength(y)
      BY <1>1, <2>1, YearEnds
    <3> QED
      BY <1>1, <1>2, <2>1, <3>1
  <2>3. /\ pc' = "month" /\ d >= MonthLength(y, m) /\ d' = d - MonthLength(y, m)
        /\ m' = m + 1 /\ UNCHANGED <<now, y, stamp, stampedAt>>
    BY <1>5, <2>1, <2>2 DEF NextMonth
  <2>4. /\ m \in 0..11 /\ DaysToMonth(y, m + 1) \in Nat /\ MonthLength(y, m) \in 28..31
        /\ DaysToMonth(y, m + 2) = DaysToMonth(y, m + 1) + MonthLength(y, m)
        /\ DaysToYear(y) \in Int
    BY <1>1, <2>1, <2>2, MonthStep, YearStep
  <2>5. d' \in Nat /\ m' \in 0..12 /\ m' + 1 = m + 2
    BY <1>1, <2>2, <2>3, <2>4
  <2>6. /\ DaysToYear(y) + DaysToMonth(y, m + 2) + d' = now.day
        /\ DaysToMonth(y, m + 2) + d' < YearLength(y)
    BY <1>1, <1>2, <2>1, <2>3, <2>4
  <2>7. Running'
    BY <2>1, <2>3, <2>5, <2>6 DEF Running, YearLength
  <2> QED
    BY <1>1, <2>3, <2>5, <2>7 DEF TypeOK, Dated, DateIsRight
<1>6. CASE Write
  <2> DEFINE t == TimeOfDay(now.rem)
  <2>1. /\ pc = "month" /\ pc' = "idle" /\ m < 12 /\ d < MonthLength(y, m)
        /\ stamp' = [y |-> y, mo |-> m + 1, d |-> d + 1, h |-> t.h, mi |-> t.mi, s |-> t.s]
        /\ stampedAt' = now /\ UNCHANGED <<now, y, d, m>>
    BY <1>6 DEF Write
  <2>2. /\ t.h \in 0..23 /\ t.mi \in 0..59 /\ t.s \in 0..59
        /\ 3600 * t.h + 60 * t.mi + t.s = now.rem
    BY <1>1, TimeSplits
  <2>3. /\ y >= 1970 /\ m \in 0..11 /\ MonthLength(y, m) \in 28..31
        /\ DaysToYear(y) \in Int /\ DaysToMonth(y, m + 1) \in Nat
        /\ DaysToYear(y) + DaysToMonth(y, m + 1) + d = now.day
    BY <1>1, <2>1, MonthStep, YearStep DEF Running
  <2> HIDE DEF t
  <2>4. m + 1 \in 1..12 /\ d + 1 \in 1..31 /\ (m + 1) - 1 = m
    BY <1>1, <2>1, <2>3
  <2>5. stamp' \in Stamps
    BY <1>1, <2>1, <2>2, <2>4 DEF Stamps
  <2>6. TypeOK'
    BY <1>1, <2>1, <2>5 DEF TypeOK
  <2>7. Dated'
    <3>1. d + 1 <= MonthLength(y, m)
      BY <1>1, <2>1, <2>3
    <3> QED
      BY <2>1, <2>3, <2>4, <3>1 DEF Dated, MonthLength
  <2>8. DateIsRight'
    <3>1. DaysToYear(y) + DaysToMonth(y, m + 1) + (d + 1) - 1 = now.day
      BY <1>1, <2>3
    <3>2. DayNumber(stamp') = now.day
      BY <2>1, <3>1 DEF DayNumber
    <3>3. 3600 * stamp'.h + 60 * stamp'.mi + stamp'.s = now.rem
      BY <2>1, <2>2
    <3> QED
      BY <2>1, <3>2, <3>3 DEF DateIsRight, DayNumber, DaysToYear, DaysToMonth
  <2>9. Running'
    BY <2>1 DEF Running
  <2> QED
    BY <2>6, <2>7, <2>8, <2>9
<1> QED
  BY <1>3, <1>4, <1>5, <1>6 DEF Count

LEMMA Clockwork == Spec => []ClockInv
<1>1. ClockInv /\ [Next]_vars => ClockInv'
  <2>1. ASSUME ClockInv, UNCHANGED vars PROVE ClockInv'
    BY <2>1 DEF vars, ClockInv, TypeOK, Running, Dated, DateIsRight
  <2> QED
    BY <2>1, BeginKeeps, CountKeeps DEF Next
<1> QED
  BY <1>1, InitClock, PTL DEF Spec

\* Every variable keeps its type: the month never runs past December.
THEOREM ClockTyping == Spec => []TypeOK
<1>1. ClockInv => TypeOK
  BY DEF ClockInv
<1> QED
  BY <1>1, Clockwork, PTL

\* The date in a claim is the date of the second it was made in, in every year.
THEOREM DatesAreRight == Spec => []DateIsRight
<1>1. ClockInv => DateIsRight
  BY DEF ClockInv
<1> QED
  BY <1>1, Clockwork, PTL

-----------------------------------------------------------------------------
(***************************************************************************)
(* The days of the calendar in order: a date that reads earlier is the     *)
(* number of an earlier day.                                               *)
(***************************************************************************)

\* What a quotient is, without the division.
LEMMA QuotientBounds ==
    ASSUME NEW n \in Nat, NEW k \in {4, 12, 100, 400}
    PROVE  n \div k \in Nat /\ k * (n \div k) <= n /\ n < k * (n \div k) + k
  OBVIOUS

\* A year adds a leap day or none, so no stretch of years takes one away.
LEMMA LeapsGrow ==
    ASSUME NEW a \in Nat, NEW b \in Nat, a <= b
    PROVE  /\ LeapYearsTo(a) \in Int /\ LeapYearsTo(b) \in Int
           /\ LeapYearsTo(a) <= LeapYearsTo(b)
<1> DEFINE a4 == a \div 4  a100 == a \div 100  a400 == a \div 400
           b4 == b \div 4  b100 == b \div 100  b400 == b \div 400
<1>1. /\ a4 \in Nat /\ 4 * a4 <= a /\ a < 4 * a4 + 4
      /\ a100 \in Nat /\ 100 * a100 <= a /\ a < 100 * a100 + 100
      /\ a400 \in Nat /\ 400 * a400 <= a /\ a < 400 * a400 + 400
  BY QuotientBounds
<1>2. /\ b4 \in Nat /\ 4 * b4 <= b /\ b < 4 * b4 + 4
      /\ b100 \in Nat /\ 100 * b100 <= b /\ b < 100 * b100 + 100
      /\ b400 \in Nat /\ 400 * b400 <= b /\ b < 400 * b400 + 400
  BY QuotientBounds
<1>3. LeapYearsTo(a) = a4 - a100 + a400 /\ LeapYearsTo(b) = b4 - b100 + b400
  BY DEF LeapYearsTo
<1> HIDE DEF a4, a100, a400, b4, b100, b400
<1>4. a400 <= b400
  BY <1>1, <1>2, SMT
<1>5. a4 - a100 <= b4 - b100
  BY <1>1, <1>2, SMT
<1> QED
  BY <1>1, <1>2, <1>3, <1>4, <1>5, SMT

\* A year begins after every day of the years before it.
LEMMA YearsInOrder ==
    ASSUME NEW a \in Nat, NEW b \in Nat, 1 <= a, a < b
    PROVE  /\ DaysToYear(a) \in Int /\ DaysToYear(b) \in Int
           /\ DaysToYear(a) + YearLength(a) <= DaysToYear(b)
<1>1. a \in Nat /\ b - 1 \in Nat /\ a <= b - 1 /\ (a + 1) - 1 = a /\ a + 1 \in Nat
  OBVIOUS
<1>2. /\ LeapYearsTo(a) \in Int /\ LeapYearsTo(b - 1) \in Int
      /\ LeapYearsTo(a) <= LeapYearsTo(b - 1)
  BY <1>1, LeapsGrow
<1>3. LeapYearsTo(1969) \in Int
  BY LeapsGrow
<1>4. /\ DaysToYear(a + 1) = 365 * ((a + 1) - 1970) + LeapYearsTo(a) - LeapYearsTo(1969)
      /\ DaysToYear(b) = 365 * (b - 1970) + LeapYearsTo(b - 1) - LeapYearsTo(1969)
  BY <1>1 DEF DaysToYear
<1>5. DaysToYear(a + 1) <= DaysToYear(b)
  BY <1>1, <1>2, <1>3, <1>4, SMT
<1>6. /\ DaysToYear(a) \in Int /\ DaysToYear(b) \in Int
      /\ DaysToYear(a + 1) = DaysToYear(a) + YearLength(a)
  BY YearStep
<1> QED
  BY <1>5, <1>6

\* The months of a year begin one after the other, none before the one before it.
LEMMA MonthsInOrder ==
    ASSUME NEW n \in Nat, NEW j \in 1..13, NEW k \in 1..13, j <= k
    PROVE  DaysToMonth(n, j) <= DaysToMonth(n, k)
<1> DEFINE J == (367 * j - 362) \div 12
           K == (367 * k - 362) \div 12
<1>1. 367 * j - 362 \in Nat /\ 367 * k - 362 \in Nat
  OBVIOUS
<1>2. /\ J \in Nat /\ 12 * J <= 367 * j - 362
      /\ K \in Nat /\ 367 * k - 362 < 12 * K + 12
  BY <1>1, QuotientBounds
<1>3. /\ DaysToMonth(n, j) = J - (IF j <= 2 THEN 0 ELSE IF IsLeap(n) THEN 1 ELSE 2)
      /\ DaysToMonth(n, k) = K - (IF k <= 2 THEN 0 ELSE IF IsLeap(n) THEN 1 ELSE 2)
  BY DEF DaysToMonth
<1> HIDE DEF J, K
<1>4. CASE j = k
  BY <1>2, <1>3, <1>4
<1>5. CASE j < k
  <2>1. J + 2 <= K
    BY <1>2, <1>5, SMT
  <2> QED
    BY <1>2, <1>3, <2>1
<1> QED
  BY <1>4, <1>5

\* A date of the calendar: a year the loops reach, and a day that month has.
InCalendar(st) == /\ st \in Stamps /\ st.y >= 1970
                  /\ st.d <= MonthLength(st.y, st.mo - 1)

\* A date's day lies in its month, and its month in its year.
LEMMA DayWithin ==
    ASSUME NEW a, InCalendar(a)
    PROVE  /\ a.y \in Nat /\ a.y >= 1970 /\ a.mo \in 1..12 /\ a.d \in 1..31
           /\ DaysToYear(a.y) \in Int /\ DaysToMonth(a.y, a.mo) \in Nat
           /\ DaysToMonth(a.y, a.mo) + a.d <= DaysToMonth(a.y, a.mo + 1)
           /\ DaysToMonth(a.y, a.mo + 1) \in Int
           /\ DaysToMonth(a.y, a.mo + 1) <= YearLength(a.y)
           /\ DayNumber(a) = DaysToYear(a.y) + DaysToMonth(a.y, a.mo) + a.d - 1
<1>1. /\ a.y \in Nat /\ a.y >= 1970 /\ a.mo \in 1..12 /\ a.d \in 1..31
      /\ a.d <= MonthLength(a.y, a.mo - 1)
  BY DEF InCalendar, Stamps
<1>2. a.y >= 1 /\ a.mo - 1 \in 0..11 /\ (a.mo - 1) + 1 = a.mo /\ (a.mo - 1) + 2 = a.mo + 1
      /\ a.mo + 1 \in 1..13 /\ 13 \in 1..13 /\ a.mo + 1 <= 13
  BY <1>1
<1>3. /\ DaysToMonth(a.y, a.mo) \in Nat /\ MonthLength(a.y, a.mo - 1) \in 28..31
      /\ DaysToMonth(a.y, a.mo + 1) = DaysToMonth(a.y, a.mo) + MonthLength(a.y, a.mo - 1)
  <2>1. PICK k \in 0..11 : k = a.mo - 1
    BY <1>2
  <2>2. k + 1 = a.mo /\ k + 2 = a.mo + 1
    BY <1>2, <2>1
  <2>3. /\ DaysToMonth(a.y, k + 1) \in Nat /\ MonthLength(a.y, k) \in 28..31
        /\ DaysToMonth(a.y, k + 2) = DaysToMonth(a.y, k + 1) + MonthLength(a.y, k)
    BY <1>1, <1>2, MonthStep
  <2> QED
    BY <2>1, <2>2, <2>3
<1>4. DaysToMonth(a.y, a.mo + 1) <= DaysToMonth(a.y, 13)
  BY <1>1, <1>2, MonthsInOrder
<1>5. DaysToMonth(a.y, 13) = YearLength(a.y) /\ DaysToYear(a.y) \in Int
  BY <1>1, <1>2, YearEnds, YearStep
<1> QED
  BY <1>1, <1>3, <1>4, <1>5 DEF DayNumber

LEMMA DatesInOrder ==
    ASSUME NEW a, NEW b, InCalendar(a), InCalendar(b),
           a.y < b.y \/ (a.y = b.y /\ a.mo < b.mo)
    PROVE  DayNumber(a) < DayNumber(b)
<1> DEFINE A == DaysToMonth(a.y, a.mo)  A1 == DaysToMonth(a.y, a.mo + 1)
           B == DaysToMonth(b.y, b.mo)
           Y == DaysToYear(a.y)  Z == DaysToYear(b.y)
<1>1. /\ a.y \in Nat /\ a.y >= 1 /\ a.mo \in 1..12 /\ a.d \in 1..31
      /\ Y \in Int /\ A \in Nat /\ A1 \in Int /\ A + a.d <= A1 /\ A1 <= YearLength(a.y)
      /\ DayNumber(a) = Y + A + a.d - 1
  BY DayWithin
<1>2. /\ b.y \in Nat /\ b.mo \in 1..12 /\ b.d \in 1..31 /\ Z \in Int /\ B \in Nat
      /\ DayNumber(b) = Z + B + b.d - 1
  BY DayWithin
<1>3. CASE a.y < b.y
  <2>1. Y + YearLength(a.y) <= Z
    BY <1>1, <1>2, <1>3, YearsInOrder
  <2>2. YearLength(a.y) \in Nat
    BY DEF YearLength
  <2> HIDE DEF A, A1, B, Y, Z
  <2> QED
    BY <1>1, <1>2, <2>1, <2>2
<1>4. CASE a.y = b.y /\ a.mo < b.mo
  <2>1. A1 <= B /\ Y = Z
    <3>1. a.mo + 1 \in 1..13 /\ b.mo \in 1..13 /\ a.mo + 1 <= b.mo
      BY <1>1, <1>2, <1>4
    <3> QED
      BY <1>1, <1>4, <3>1, MonthsInOrder
  <2> HIDE DEF A, A1, B, Y, Z
  <2> QED
    BY <1>1, <1>2, <2>1
<1> QED
  BY <1>3, <1>4

LEMMA SameMonth ==
    ASSUME NEW a, NEW b, InCalendar(a), InCalendar(b), a.y = b.y, a.mo = b.mo
    PROVE  DayNumber(b) - DayNumber(a) = b.d - a.d
<1> DEFINE F == DaysToYear(a.y) + DaysToMonth(a.y, a.mo)
<1>1. /\ F \in Int /\ a.d \in 1..31 /\ b.d \in 1..31
      /\ DayNumber(a) = F + a.d - 1 /\ DayNumber(b) = F + b.d - 1
  BY DayWithin
<1> HIDE DEF F
<1> QED
  BY <1>1

\* Of two moments the later one has the later date.
LEMMA MomentsInOrder ==
    ASSUME NEW a, NEW b, InCalendar(a), InCalendar(b),
           NEW t \in Times, NEW u \in Times, Later(t, u),
           DayNumber(a) = t.day, DayNumber(b) = u.day,
           3600 * a.h + 60 * a.mi + a.s = t.rem,
           3600 * b.h + 60 * b.mi + b.s = u.rem
    PROVE  ReadsBefore(a, b)
<1>1. /\ a.y \in Nat /\ a.mo \in 1..12 /\ a.d \in 1..31
      /\ b.y \in Nat /\ b.mo \in 1..12 /\ b.d \in 1..31
      /\ t.day \in Nat /\ u.day \in Nat /\ t.rem \in Nat /\ u.rem \in Nat
      /\ t.day <= u.day
  BY DayWithin DEF Times, Later
<1>2. ~ (b.y < a.y) /\ ~ (b.y = a.y /\ b.mo < a.mo)
  <2> SUFFICES ASSUME b.y < a.y \/ (b.y = a.y /\ b.mo < a.mo) PROVE FALSE
    OBVIOUS
  <2>1. u.day < t.day
    BY DatesInOrder
  <2> QED
    BY <1>1, <2>1
<1>3. CASE a.y = b.y /\ a.mo = b.mo
  <2>1. u.day - t.day = b.d - a.d
    BY <1>3, SameMonth
  <2>2. a.d < b.d \/ (a.d = b.d /\ t.rem < u.rem)
    BY <1>1, <2>1 DEF Later
  <2> QED
    BY <1>3, <2>2 DEF ReadsBefore
<1>4. CASE a.y < b.y \/ (a.y = b.y /\ a.mo < b.mo)
  BY <1>4 DEF ReadsBefore
<1> QED
  BY <1>1, <1>2, <1>3, <1>4

\* Claims read in the order they were made: of two claims, whatever their years,
\* the one made later carries the date that reads later.
THEOREM ClaimsInOrder == Spec => ClaimsReadInOrder
<1>1. ASSUME ClockInv, ClockInv', [Next]_vars, stamp # NoStamp, Later(stampedAt, stampedAt')
      PROVE  ReadsBefore(stamp, stamp')
  <2>1. Write
    <3>1. stampedAt' # stampedAt
      <4>1. stampedAt.day \in Nat /\ stampedAt.rem \in Nat
        BY <1>1 DEF ClockInv, TypeOK, Times
      <4> QED
        BY <1>1, <4>1 DEF Later
    <3> QED
      BY <1>1, <3>1 DEF Next, Count, vars, Begin, NextYear, YearFound, NextMonth
  <2>2. stamp' # NoStamp
    <3>1. stamp'.mo = m + 1 /\ m \in 0..12
      BY <1>1, <2>1 DEF Write, ClockInv, TypeOK
    <3> QED
      BY <3>1 DEF NoStamp
  <2>3. /\ InCalendar(stamp) /\ stampedAt \in Times /\ DayNumber(stamp) = stampedAt.day
        /\ 3600 * stamp.h + 60 * stamp.mi + stamp.s = stampedAt.rem
    BY <1>1 DEF ClockInv, TypeOK, Dated, DateIsRight, InCalendar
  <2>4. PICK b, u : b = stamp' /\ u = stampedAt'
    OBVIOUS
  <2>5. /\ InCalendar(b) /\ u \in Times /\ DayNumber(b) = u.day
        /\ 3600 * b.h + 60 * b.mi + b.s = u.rem
    BY <1>1, <2>2, <2>4 DEF ClockInv, TypeOK, Dated, DateIsRight, InCalendar, NoStamp,
         Stamps, Times, DayNumber, DaysToYear, DaysToMonth, MonthLength, Leap
  <2>6. Later(stampedAt, u)
    BY <1>1, <2>4 DEF Later
  <2>7. ReadsBefore(stamp, b)
    BY <2>3, <2>5, <2>6, MomentsInOrder
  <2> QED
    BY <2>4, <2>7 DEF ReadsBefore
<1>2. ASSUME ClockInv, ClockInv', [Next]_vars
      PROVE  [stamp # NoStamp /\ Later(stampedAt, stampedAt') => ReadsBefore(stamp, stamp')]_vars
  BY <1>1, <1>2
<1> QED
  BY <1>2, Clockwork, PTL DEF Spec, ClaimsReadInOrder

-----------------------------------------------------------------------------
(***************************************************************************)
(* The loops end.                                                          *)
(***************************************************************************)

\* The days that are left of a year never run over its twelve months: the index
\* into the table of months is never out of bounds, whatever the clock says.
THEOREM MonthsSuffice == Spec => [](pc # "panicked")
<1>1. ClockInv => pc # "panicked"
  BY DEF ClockInv, Running
<1> QED
  BY <1>1, Clockwork, PTL

\* The days to count off, and after them the months.
LoopsLeft == CASE pc = "year" -> d + 15
               [] pc = "month" -> 14 - m
               [] pc \in {"idle", "panicked"} -> 0

\* Every turn of either loop brings its end nearer, so neither can go round for
\* ever: now_iso returns for every clock, in every year.
THEOREM LoopsAdvance ==
    Spec => [][Count => LoopsLeft' \in Nat /\ LoopsLeft' < LoopsLeft]_vars
<1>1. ASSUME ClockInv, ClockInv', Count
      PROVE  LoopsLeft' \in Nat /\ LoopsLeft' < LoopsLeft
  <2>1. /\ d \in Nat /\ m \in 0..12 /\ d' \in Nat /\ m' \in 0..12
        /\ YearLength(y) \in {365, 366}
    BY <1>1 DEF ClockInv, TypeOK, YearLength
  <2>2. CASE NextYear
    <3>1. pc = "year" /\ pc' = "year" /\ d' = d - YearLength(y)
      BY <2>2 DEF NextYear
    <3>2. LoopsLeft = d + 15 /\ LoopsLeft' = d' + 15
      BY <3>1 DEF LoopsLeft
    <3> QED
      BY <2>1, <3>1, <3>2
  <2>3. CASE YearFound
    <3>1. LoopsLeft = d + 15 /\ LoopsLeft' = 14 - 0
      BY <2>3 DEF YearFound, LoopsLeft
    <3> QED
      BY <2>1, <3>1
  <2>4. CASE NextMonth
    <3>1. pc = "month" /\ pc' = "month" /\ m' = m + 1
      BY <1>1, <2>1, <2>4 DEF NextMonth, ClockInv, Running
    <3>2. LoopsLeft = 14 - m /\ LoopsLeft' = 14 - m'
      BY <3>1 DEF LoopsLeft
    <3> QED
      BY <2>1, <3>1, <3>2
  <2>5. CASE Write
    <3>1. LoopsLeft = 14 - m /\ LoopsLeft' = 0
      BY <2>5 DEF Write, LoopsLeft
    <3> QED
      BY <2>1, <3>1
  <2> QED
    BY <1>1, <2>2, <2>3, <2>4, <2>5 DEF Count
<1>2. ASSUME ClockInv, ClockInv', [Next]_vars
      PROVE  [Count => LoopsLeft' \in Nat /\ LoopsLeft' < LoopsLeft]_vars
  BY <1>1, <1>2
<1> QED
  BY <1>2, Clockwork, PTL DEF Spec
=============================================================================
