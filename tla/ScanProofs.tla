----------------------------- MODULE ScanProofs -----------------------------
(***************************************************************************)
(* What a scan that found nothing has ruled out, on drives of every length *)
(* and for every size of chunk, sample, grain and tail in the order that   *)
(* ScanAssumption gives them.                                              *)
(***************************************************************************)
EXTENDS BlankScan, TLAPS

\* The lengths are numbers, and where the whole read ends is inside the drive.
LEMMA Sizes ==
    /\ Chunk \in Nat \ {0} /\ Deep \in Nat /\ Sample \in Nat \ {0}
    /\ Stride \in Nat /\ Tail \in Nat
    /\ Sample <= Tail /\ Tail <= Deep /\ Deep + Tail < Stride
  BY ScanAssumption

LEMMA WholeFits ==
    ASSUME len \in Nat
    PROVE  /\ Whole \in Nat /\ Whole <= len
           /\ Whole = len \/ (Whole = Deep /\ Whole + Tail < len)
  BY Sizes DEF Whole

\* What a read returns is where it was asked for, and inside the drive.
LEMMA RegionType ==
    ASSUME NEW o \in Nat, NEW n \in Nat, len \in Nat, end \in 0..len
    PROVE  /\ Region(o, n) \subseteq 0..(len - 1)
           /\ \A b \in Region(o, n) : o <= b /\ b < o + n
           /\ end = len /\ o + n <= len => Region(o, n) = o..(o + n - 1)
  BY DEF Region, Least

-----------------------------------------------------------------------------
LEMMA InitTypes == Init => TypeOK
<1> SUFFICES ASSUME Init PROVE TypeOK
  OBVIOUS
<1>1. PICK d \in Blanks : len = d.len /\ used = d.used
  BY DEF Init
<1>2. len \in Nat /\ used \subseteq 0..(len - 1)
  BY <1>1, ScanAssumption
<1>3. used \subseteq Nat
  BY <1>2
<1> QED
  BY <1>2, <1>3 DEF Init, TypeOK, Nothing

\* Every variable keeps its type; no read is asked for outside the drive.
THEOREM ScanTyping == Spec => []TypeOK
<1>1. Init => TypeOK
  BY InitTypes
<1>2. TypeOK /\ [Next]_vars => TypeOK'
  <2> SUFFICES ASSUME TypeOK, [Next]_vars PROVE TypeOK'
    OBVIOUS
  <2> USE Sizes, WholeFits DEF TypeOK
  <2>1. CASE ReadFront
    <3>1. at \in Nat /\ Least(Chunk, Whole - at) \in Nat
      BY <2>1 DEF ReadFront, Least
    <3>2. FrontChunk \subseteq 0..(len - 1)
      BY <3>1, RegionType DEF FrontChunk
    <3>3. Least(at + Least(Chunk, Whole - at), end) \in Nat
      BY <3>1 DEF Least
    <3> QED
      BY <2>1, <3>2, <3>3 DEF ReadFront, Take, GoOn, Conclude
  <2>2. CASE FrontEnds
    BY <2>2 DEF FrontEnds
  <2>3. CASE ReadSample
    <3>1. Region(at, Sample) \subseteq 0..(len - 1)
      BY RegionType
    <3>3. seen' = seen \cup Region(at, Sample)
      BY <2>3 DEF ReadSample, Take
    <3>2. at + Stride \in Nat
      OBVIOUS
    <3>4. seen' \subseteq 0..(len - 1)
      BY <3>1, <3>3
    <3> QED
      BY <2>3, <3>1, <3>2, <3>4 DEF ReadSample, Take, GoOn, Conclude
  <2>4. CASE SamplesEnd
    BY <2>4 DEF SamplesEnd
  <2>5. CASE ReadTail
    <3>1. len - Tail \in Nat
      BY <2>5 DEF ReadTail
    <3>2. Region(len - Tail, Tail) \subseteq 0..(len - 1)
      BY <3>1, RegionType
    <3> QED
      BY <2>5, <3>2 DEF ReadTail, Take, Conclude, Nothing
  <2>6. CASE TailRead \/ ReadFails
    BY <2>6 DEF TailRead, ReadFails, Conclude, Nothing, Failed
  <2>7. CASE Write
    BY <2>7, ScanAssumption DEF Write
  <2>8. CASE Shrink
    BY <2>8 DEF Shrink
  <2>9. CASE Done \/ UNCHANGED vars
    BY <2>9 DEF Done, vars
  <2> QED
    BY <2>1, <2>2, <2>3, <2>4, <2>5, <2>6, <2>7, <2>8, <2>9 DEF Next, Scan
<1> QED
  BY <1>1, <1>2, PTL DEF Spec

-----------------------------------------------------------------------------
(***************************************************************************)
(* The loop invariants.  Every window of Stride - Sample + 1 bytes that    *)
(* ends before the next offset has a byte that was read: the step to the   *)
(* next offset adds windows, and each of them either reaches into the      *)
(* sample just read or ends before it.                                     *)
(***************************************************************************)
Gap == Stride - Sample

\* Nothing that was there at first has been read yet.
NothingSoFar == answer \notin Nat => first \cap seen = {}

\* No window that ends before `limit` is all unread.
Covered(limit) ==
    \A a \in Nat : a + Gap < limit /\ a + Gap < len =>
        \E b \in seen : a <= b /\ b <= a + Gap

SeenFront ==
    end = len =>
        /\ pc = "front" => at <= Whole /\ 0..(at - 1) \subseteq seen
        /\ pc \in {"grain", "tail"} => 0..(Whole - 1) \subseteq seen

SeenGrain ==
    end = len =>
        /\ pc = "grain" => at >= Whole /\ Covered(at)
        /\ pc = "tail" => at >= Whole /\ at + Sample > len /\ Covered(at)

\* What the end of the loops leaves behind.
SeenAll ==
    ScannedBlank =>
        /\ Covered(len)
        /\ 0..(Whole - 1) \subseteq seen
        /\ (len - Tail)..(len - 1) \cap Nat \subseteq seen

Running == pc # "done" => answer = Nothing

Inv == /\ TypeOK
       /\ first \subseteq used
       /\ Running /\ NothingSoFar /\ SeenFront /\ SeenGrain /\ SeenAll
       /\ FoundIsFirst

\* A read that went on kept what was known of the bytes before it.
LEMMA TakeKeeps ==
    ASSUME Inv, NEW R \in SUBSET Nat, pc # "done",
           seen' = seen \cup R, UNCHANGED <<len, first, used, end>>,
           \/ \E b \in R \cap used :
                 (\A c \in R \cap used : b <= c) /\ Conclude(b)
           \/ R \cap used = {} /\ answer' = answer
    PROVE  /\ first' \subseteq used'
           /\ NothingSoFar' /\ FoundIsFirst'
           /\ Running' \/ answer' # Nothing
<1> USE DEF Inv, TypeOK
<1>1. answer = Nothing /\ first \cap seen = {} /\ Nothing \notin Nat
  BY DEF Running, NothingSoFar, Nothing
<1>2. CASE R \cap used = {} /\ answer' = answer
  BY <1>1, <1>2 DEF NothingSoFar, FoundIsFirst, Running
<1>3. ASSUME NEW b \in R \cap used, \A c \in R \cap used : b <= c, Conclude(b)
      PROVE  /\ NothingSoFar' /\ FoundIsFirst' /\ answer' # Nothing
  <2>1. answer' = b /\ b \in Nat /\ b \in used'
    BY <1>3 DEF Conclude
  <2>2. \A c \in first' \cap seen' : b <= c
    BY <1>1, <1>3
  <2> QED
    BY <1>1, <2>1, <2>2 DEF NothingSoFar, FoundIsFirst
<1> QED
  BY <1>2, <1>3

\* One chunk of the front, read in full unless the drive came to an end.
LEMMA FrontKeeps ==
    ASSUME Inv, TypeOK', ReadFront
    PROVE  Inv'
<1> DEFINE n == Least(Chunk, Whole - at)
<1> USE DEF Inv
<1>1. /\ pc = "front" /\ at < Whole /\ seen' = seen \cup FrontChunk
      /\ UNCHANGED <<len, first, used, end>>
      /\ \/ \E b \in FrontChunk \cap used :
               (\A c \in FrontChunk \cap used : b <= c) /\ Conclude(b)
         \/ /\ FrontChunk \cap used = {} /\ answer' = answer
            /\ pc' = "front" /\ at' = Least(at + n, end)
  BY DEF ReadFront, Take, GoOn
<1>2. n \in Nat /\ at \in Nat /\ at + n <= Whole /\ FrontChunk = Region(at, n)
  BY <1>1, Sizes, WholeFits DEF TypeOK, Least, FrontChunk
<1>3. FrontChunk \in SUBSET Nat
  BY <1>2, RegionType DEF TypeOK
<1>4. /\ first' \subseteq used' /\ NothingSoFar' /\ FoundIsFirst'
      /\ Running' \/ answer' # Nothing
  BY <1>1, <1>3, TakeKeeps
<1>5. CASE pc' = "front"
  <2>1. answer' = answer /\ at' = Least(at + n, end)
    BY <1>1, <1>5 DEF Conclude
  <2>2. SeenFront'
    <3> SUFFICES ASSUME end = len PROVE at' <= Whole /\ 0..(at' - 1) \subseteq seen'
      BY <1>1, <1>5 DEF SeenFront, Whole
    <3>1. at' = at + n /\ FrontChunk = at..(at + n - 1)
      <4>1. at + n <= end /\ len \in Nat /\ end \in 0..len
        BY <1>2, WholeFits DEF TypeOK
      <4>2. at' = at + n
        BY <1>2, <2>1, <4>1 DEF Least
      <4>3. Region(at, n) = at..(at + n - 1)
        BY <1>2, <4>1, RegionType
      <4> QED
        BY <1>2, <4>2, <4>3
    <3>2. 0..(at - 1) \subseteq seen
      BY <1>1 DEF SeenFront
    <3> QED
      BY <1>1, <1>2, <3>1, <3>2, WholeFits DEF TypeOK
  <2>3. SeenGrain' /\ SeenAll' /\ Running'
    BY <1>1, <1>5, <2>1 DEF SeenGrain, SeenAll, ScannedBlank, Running
  <2> QED
    BY <1>4, <2>2, <2>3
<1>6. CASE pc' # "front"
  <2>1. PICK b \in FrontChunk : pc' = "done" /\ answer' = b
    BY <1>1, <1>6 DEF Conclude
  <2>2. answer' # Nothing
    BY <1>3, <2>1 DEF Nothing
  <2> QED
    BY <1>4, <2>1, <2>2 DEF SeenFront, SeenGrain, SeenAll, ScannedBlank, Running
<1> QED
  BY <1>5, <1>6

\* One sample: every window that ends before the next offset either ended
\* before this one, or starts or ends in the sample, or spans its start.
LEMMA SampleKeeps ==
    ASSUME Inv, TypeOK', ReadSample
    PROVE  Inv'
<1> DEFINE R == Region(at, Sample)
<1> USE DEF Inv
<1>1. /\ pc = "grain" /\ at + Sample <= len /\ seen' = seen \cup R
      /\ UNCHANGED <<len, first, used, end>>
      /\ \/ \E b \in R \cap used : (\A c \in R \cap used : b <= c) /\ Conclude(b)
         \/ /\ R \cap used = {} /\ answer' = answer
            /\ pc' = "grain" /\ at' = at + Stride
  BY DEF ReadSample, Take, GoOn
<1>2. at \in Nat /\ len \in Nat /\ R \in SUBSET Nat
  BY Sizes, RegionType DEF TypeOK
<1>3. /\ first' \subseteq used' /\ NothingSoFar' /\ FoundIsFirst'
      /\ Running' \/ answer' # Nothing
  BY <1>1, <1>2, TakeKeeps
<1>4. CASE pc' = "grain"
  <2>1. answer' = answer /\ at' = at + Stride
    BY <1>1, <1>4 DEF Conclude
  <2>2. SeenFront' /\ SeenAll' /\ Running'
    BY <1>1, <1>4, <2>1 DEF SeenFront, SeenAll, ScannedBlank, Running, Whole
  <2>3. SeenGrain'
    <3> SUFFICES ASSUME end = len PROVE at' >= Whole /\ Covered(at)'
      BY <1>1, <1>4 DEF SeenGrain, Whole, Covered
    <3>1. at >= Whole /\ Covered(at)
      BY <1>1 DEF SeenGrain
    <3>2. R = at..(at + Sample - 1)
      BY <1>1, <1>2, Sizes, RegionType DEF TypeOK
    <3>3. at' >= Whole
      BY <1>2, <2>1, <3>1, Sizes, WholeFits
    <3>4. ASSUME NEW a \in Nat, a + Gap < at + Stride, a + Gap < len
          PROVE  \E b \in seen' : a <= b /\ b <= a + Gap
      <4>1. a < at + Sample /\ Gap \in Nat
        BY <1>2, <3>4, Sizes DEF Gap
      <4>2. CASE a + Gap < at
        BY <1>1, <3>1, <3>4, <4>2 DEF Covered
      <4>3. CASE a >= at
        <5>1. a \in R
          BY <1>2, <3>2, <4>1, <4>3, Sizes
        <5>2. a \in seen'
          BY <1>1, <5>1
        <5> QED
          BY <4>1, <5>2
      <4>4. CASE a < at /\ at <= a + Gap
        <5>1. at \in R
          BY <1>2, <3>2, Sizes
        <5>2. at \in seen'
          BY <1>1, <5>1
        <5>3. a <= at /\ at <= a + Gap
          BY <1>2, <4>1, <4>4
        <5> QED
          BY <5>2, <5>3
      <4> QED
        BY <1>2, <4>1, <4>2, <4>3, <4>4
    <3> QED
      BY <1>1, <2>1, <3>3, <3>4 DEF Covered, Gap
  <2> QED
    BY <1>3, <2>2, <2>3
<1>5. CASE pc' # "grain"
  <2>1. PICK b \in R : pc' = "done" /\ answer' = b
    BY <1>1, <1>5 DEF Conclude
  <2>2. answer' # Nothing
    BY <1>2, <2>1 DEF Nothing
  <2> QED
    BY <1>3, <2>1, <2>2 DEF SeenFront, SeenGrain, SeenAll, ScannedBlank, Running
<1> QED
  BY <1>4, <1>5

\* From one loop to the next.
LEMMA LoopsEndKeeps ==
    ASSUME Inv, TypeOK', FrontEnds \/ SamplesEnd
    PROVE  Inv'
<1> USE DEF Inv
<1>1. /\ UNCHANGED <<len, first, used, end, seen, answer>>
      /\ pc # "done" /\ pc' \in {"grain", "tail"}
  BY DEF FrontEnds, SamplesEnd
<1>2. first' \subseteq used' /\ NothingSoFar' /\ FoundIsFirst' /\ Running' /\ SeenAll'
  BY <1>1 DEF NothingSoFar, FoundIsFirst, Running, SeenAll, ScannedBlank
<1>3. CASE FrontEnds
  <2>1. pc = "front" /\ pc' = "grain" /\ at' = Whole
        /\ (at >= Whole \/ FrontChunk = {})
    BY <1>3 DEF FrontEnds
  <2>2. ASSUME end = len PROVE 0..(Whole - 1) \subseteq seen
    <3>1. at <= Whole /\ 0..(at - 1) \subseteq seen
      BY <2>1, <2>2 DEF SeenFront
    <3>2. at >= Whole
      <4> SUFFICES ASSUME at < Whole PROVE FALSE
        BY WholeFits DEF TypeOK
      <4>1. Least(Chunk, Whole - at) \in Nat /\ Least(Chunk, Whole - at) > 0
            /\ at + Least(Chunk, Whole - at) <= len
        BY Sizes, WholeFits DEF Least, TypeOK
      <4>2. FrontChunk = at..(at + Least(Chunk, Whole - at) - 1)
        BY <2>2, <4>1, RegionType DEF FrontChunk, TypeOK
      <4>3. at \in FrontChunk
        BY <4>1, <4>2 DEF TypeOK
      <4>4. FrontChunk # {}
        BY <4>3
      <4>5. ~(at >= Whole)
        BY WholeFits DEF TypeOK
      <4> QED
        BY <2>1, <4>4, <4>5
    <3> QED
      BY <3>1, <3>2, WholeFits DEF TypeOK
  <2>3. ASSUME end = len PROVE Covered(Whole)
    <3> SUFFICES ASSUME NEW a \in Nat, a + Gap < Whole
                 PROVE  \E b \in seen : a <= b /\ b <= a + Gap
      BY DEF Covered
    <3>1. Gap \in Nat /\ a \in 0..(Whole - 1)
      BY Sizes, WholeFits DEF Gap, TypeOK
    <3> QED
      BY <2>2, <2>3, <3>1
  <2>4. SeenFront'
    BY <1>1, <2>1, <2>2 DEF SeenFront, Whole
  <2>5. SeenGrain'
    BY <1>1, <2>1, <2>3, WholeFits DEF SeenGrain, Whole, Covered, TypeOK
  <2> QED
    BY <1>2, <2>4, <2>5
<1>4. CASE SamplesEnd
  <2>1. pc = "grain" /\ pc' = "tail" /\ at' = at /\ at + Sample > len
    BY <1>4 DEF SamplesEnd
  <2>2. SeenFront' /\ SeenGrain'
    BY <1>1, <2>1 DEF SeenFront, SeenGrain, Whole, Covered
  <2> QED
    BY <1>2, <2>2
<1> QED
  BY <1>3, <1>4

\* The last step: with the tail read, or with nothing left that is not seen.
LEMMA LastKeeps ==
    ASSUME Inv, TypeOK', ReadTail \/ TailRead
    PROVE  Inv'
<1> DEFINE R == Region(len - Tail, Tail)
<1> USE DEF Inv
<1>1. pc = "tail" /\ pc' = "done" /\ UNCHANGED <<len, first, used, end>>
  BY DEF ReadTail, TailRead, Take, Conclude
<1>2. first' \subseteq used' /\ NothingSoFar' /\ FoundIsFirst'
  <2>1. CASE ReadTail
    <3>1. len - Tail \in Nat
      BY <2>1, WholeFits, Sizes DEF ReadTail, TypeOK
    <3>2. R \in SUBSET Nat
      BY <3>1, RegionType, Sizes DEF TypeOK
    <3>3. seen' = seen \cup R
          /\ \/ \E b \in R \cap used : (\A c \in R \cap used : b <= c) /\ Conclude(b)
             \/ R \cap used = {} /\ answer' = Nothing
      BY <2>1 DEF ReadTail, Take, Conclude
    <3>4. answer = Nothing
      BY <1>1 DEF Running
    <3> QED
      BY <1>1, <3>2, <3>3, <3>4, TakeKeeps
  <2>2. CASE TailRead
    BY <1>1, <2>2 DEF TailRead, Conclude, NothingSoFar, FoundIsFirst, Running
  <2> QED
    BY <2>1, <2>2
<1>3. SeenFront' /\ SeenGrain' /\ Running'
  BY <1>1 DEF SeenFront, SeenGrain, Running
<1>4. SeenAll'
  <2> SUFFICES ASSUME end = len, answer' = Nothing
               PROVE  /\ Covered(len)'
                      /\ 0..(Whole - 1) \subseteq seen'
                      /\ (len - Tail)..(len - 1) \cap Nat \subseteq seen'
    BY <1>1 DEF SeenAll, ScannedBlank, Whole
  <2>1. /\ 0..(Whole - 1) \subseteq seen
        /\ at >= Whole /\ at + Sample > len /\ Covered(at) /\ at \in Nat /\ len \in Nat
    BY <1>1 DEF SeenFront, SeenGrain, TypeOK
  <2>2. seen \subseteq seen' /\ (len - Tail)..(len - 1) \cap Nat \subseteq seen'
    <3>1. CASE ReadTail
      <4>1. len - Tail \in Nat
        BY <3>1, WholeFits, Sizes DEF ReadTail, TypeOK
      <4>2. R = (len - Tail)..(len - Tail + Tail - 1)
        BY <2>1, <4>1, RegionType, Sizes DEF TypeOK
      <4>3. R = (len - Tail)..(len - 1)
        BY <2>1, <4>2, Sizes
      <4> QED
        BY <3>1, <4>3 DEF ReadTail, Take
    <3>2. CASE TailRead
      <4>1. Whole = len /\ seen' = seen
        BY <2>1, <3>2, WholeFits, Sizes DEF TailRead
      <4> QED
        BY <2>1, <4>1, Sizes
    <3> QED
      BY <3>1, <3>2
  <2>3. ASSUME NEW a \in Nat, a + Gap < len
        PROVE  \E b \in seen' : a <= b /\ b <= a + Gap
    <3>1. CASE a + Gap < at
      BY <2>1, <2>2, <2>3, <3>1 DEF Covered
    <3>2. CASE a + Gap >= at
      <4>1. Gap \in Nat /\ a + Gap \in (len - Tail)..(len - 1) \cap Nat
        BY <2>1, <2>3, <3>2, Sizes DEF Gap
      <4> QED
        BY <2>2, <4>1
    <3> QED
      BY <2>1, <3>1, <3>2, Sizes DEF Gap
  <2> QED
    BY <1>1, <2>1, <2>2, <2>3 DEF Covered, Gap
<1> QED
  BY <1>2, <1>3, <1>4

\* What the world does to the drive, and a read that fails.
LEMMA WorldKeeps ==
    ASSUME Inv, TypeOK', Write \/ Shrink \/ ReadFails
    PROVE  Inv'
<1> USE DEF Inv
<1>1. /\ UNCHANGED <<len, first, at, seen>> /\ used \subseteq used' /\ pc # "done"
      /\ answer = Nothing
  BY DEF Write, Shrink, ReadFails, Running
<1>2. CASE Write \/ ReadFails
  <2>1. /\ end' = end
        /\ \/ pc' = pc /\ answer' = answer
           \/ pc' = "done" /\ answer' = Failed
    BY <1>2 DEF Write, ReadFails, Conclude
  <2>2. first' \subseteq used' /\ NothingSoFar' /\ FoundIsFirst' /\ Running'
    BY <1>1, <2>1 DEF NothingSoFar, FoundIsFirst, Running, Nothing, Failed
  <2>3. SeenFront' /\ SeenGrain' /\ SeenAll'
    BY <1>1, <2>1 DEF SeenFront, SeenGrain, SeenAll, ScannedBlank, Whole, Covered,
                      Nothing, Failed
  <2> QED
    BY <2>2, <2>3
<1>3. CASE Shrink
  <2>1. pc' = pc /\ answer' = answer /\ used' = used /\ end' # len
    BY <1>1, <1>3 DEF Shrink, TypeOK
  <2> QED
    BY <1>1, <2>1 DEF NothingSoFar, FoundIsFirst, Running, SeenFront, SeenGrain, SeenAll,
                      ScannedBlank
<1> QED
  BY <1>2, <1>3

\* At every read of a scan, what was passed over held nothing when it was read.
THEOREM ScanInvariance == Spec => []Inv
<1>1. Init => Inv
  <2> SUFFICES ASSUME Init PROVE Inv
    OBVIOUS
  <2>1. TypeOK
    BY InitTypes
  <2>2. /\ first = used /\ end = len /\ pc = "front" /\ at = 0 /\ seen = {}
        /\ answer = Nothing
    BY DEF Init
  <2>3. NothingSoFar /\ SeenFront /\ SeenGrain /\ SeenAll /\ Running /\ FoundIsFirst
    BY <2>1, <2>2, WholeFits DEF NothingSoFar, SeenFront, SeenGrain, SeenAll,
       ScannedBlank, Running, FoundIsFirst, Nothing, TypeOK
  <2> QED
    BY <2>1, <2>2, <2>3 DEF Inv
<1>2. Inv /\ TypeOK' /\ [Next]_vars => Inv'
  <2> SUFFICES ASSUME Inv, TypeOK', [Next]_vars PROVE Inv'
    OBVIOUS
  <2>1. CASE Done \/ UNCHANGED vars
    <3>1. UNCHANGED vars
      BY <2>1 DEF Done
    <3> QED
      BY <3>1 DEF vars, Inv, NothingSoFar, SeenFront, SeenGrain, SeenAll, ScannedBlank,
                  Running, FoundIsFirst, Whole, Covered
  <2> QED
    BY <2>1, FrontKeeps, SampleKeeps, LoopsEndKeeps, LastKeeps, WorldKeeps
       DEF Next, Scan
<1> QED
  BY <1>1, <1>2, ScanTyping, PTL DEF Spec

-----------------------------------------------------------------------------
\* A drive that is called empty held no stretch of bytes longer than what is
\* left of a grain beside its sample.
THEOREM LongIsFound == Spec => []LongStretchesAreFound
<1>1. Inv => LongStretchesAreFound
  <2> SUFFICES ASSUME Inv, ScannedBlank,
                      NEW a \in 0..(len - 1 - (Stride - Sample)),
                      a..(a + (Stride - Sample)) \subseteq first
               PROVE  FALSE
    BY DEF LongStretchesAreFound
  <2>1. a \in Nat /\ Gap \in Nat /\ a + Gap < len
    BY Sizes DEF Gap, Inv, TypeOK
  <2>2. PICK b \in seen : a <= b /\ b <= a + Gap
    BY <2>1 DEF Inv, SeenAll, Covered
  <2>3. b \in first
    BY <2>1, <2>2 DEF Gap, Inv, TypeOK
  <2> QED
    BY <2>2, <2>3 DEF Inv, NothingSoFar, ScannedBlank, Nothing
<1> QED
  BY <1>1, ScanInvariance, PTL

\* The front and the tail of a drive that is called empty held nothing.
THEOREM EndsAreEmpty == Spec => []EndsAreRead
<1>1. Inv => EndsAreRead
  BY DEF Inv, TypeOK, EndsAreRead, SeenAll, NothingSoFar, ScannedBlank, Nothing
<1> QED
  BY <1>1, ScanInvariance, PTL

\* What is found is there, and nothing before it was passed over.
THEOREM FirstIsFound == Spec => []FoundIsFirst
<1>1. Inv => FoundIsFirst
  BY DEF Inv
<1> QED
  BY <1>1, ScanInvariance, PTL

-----------------------------------------------------------------------------
(***************************************************************************)
(* Which bytes those are.  The offsets of the samples are a grid, and the  *)
(* next offset is on it; every sample of the grid before it was read.      *)
(***************************************************************************)
Grid(k) == Whole + k * Stride

LEMMA TimesGrows ==
    ASSUME NEW S \in Nat, NEW i \in Nat, NEW j \in Nat, i <= j
    PROVE  i * S \in Nat /\ j * S \in Nat /\ i * S <= j * S
<1>1. PICK e \in Nat : j = i + e
  BY j - i \in Nat
<1>2. i * S \in Nat /\ e * S \in Nat
  OBVIOUS
<1>3. j * S = i * S + e * S
  BY <1>1
<1> QED
  BY <1>2, <1>3

\* One more grain is one more step of the grid, and there is none between.
LEMMA GridSteps ==
    ASSUME TypeOK, NEW j \in Nat
    PROVE  /\ Grid(j) \in Nat /\ Grid(j + 1) = Grid(j) + Stride
           /\ \A k \in Nat : /\ Grid(k) < Grid(j) => k < j
                            /\ Grid(k) < Grid(j + 1) => k = j \/ Grid(k) < Grid(j)
<1>1. Whole \in Nat /\ Stride \in Nat /\ Stride > 0
  BY WholeFits, Sizes DEF TypeOK
<1>2. j * Stride \in Nat /\ (j + 1) * Stride = j * Stride + Stride
  BY <1>1
<1>3. Grid(j) \in Nat /\ Grid(j + 1) = Grid(j) + Stride
  BY <1>1, <1>2 DEF Grid
<1>4. ASSUME NEW k \in Nat, j <= k PROVE Grid(j) <= Grid(k)
  <2>1. j * Stride <= k * Stride /\ k * Stride \in Nat
    BY <1>1, <1>4, TimesGrows
  <2> QED
    BY <1>1, <1>2, <2>1 DEF Grid
<1>5. ASSUME NEW k \in Nat, k < j PROVE Grid(k) < Grid(j)
  <2>1. (k + 1) * Stride <= j * Stride
    BY <1>1, <1>5, TimesGrows
  <2>2. (k + 1) * Stride = k * Stride + Stride /\ k * Stride \in Nat
    BY <1>1
  <2> QED
    BY <1>1, <1>2, <2>1, <2>2 DEF Grid
<1>6. ASSUME NEW k \in Nat, j + 1 <= k PROVE Grid(j + 1) <= Grid(k)
  <2>1. (j + 1) * Stride <= k * Stride /\ k * Stride \in Nat
    BY <1>1, <1>6, TimesGrows
  <2> QED
    BY <1>1, <1>2, <2>1 DEF Grid
<1>7. \A k \in Nat : Grid(k) \in Nat
  BY <1>1 DEF Grid
<1>8. Grid(j + 1) \in Nat
  BY <1>1, <1>3
<1>9. ASSUME NEW k \in Nat
      PROVE  /\ Grid(k) < Grid(j) => k < j
             /\ Grid(k) < Grid(j + 1) => k = j \/ Grid(k) < Grid(j)
  <2>1. k < j \/ k = j \/ j + 1 <= k
    OBVIOUS
  <2>2. Grid(k) \in Nat /\ Grid(j) \in Nat /\ Grid(j + 1) \in Nat
    BY <1>3, <1>7, <1>8
  <2>3. CASE k < j
    BY <1>5, <2>3
  <2>4. CASE k = j
    BY <2>2, <2>4
  <2>5. CASE j + 1 <= k
    <3>1. Grid(j) <= Grid(k)
      BY <1>4, <2>5
    <3>2. Grid(j + 1) <= Grid(k)
      BY <1>6, <2>5
    <3> QED
      BY <2>2, <3>1, <3>2
  <2> QED
    BY <2>1, <2>3, <2>4, <2>5
<1> QED
  BY <1>3, <1>9

SampleAt(k) == Grid(k)..(Grid(k) + Sample - 1)

\* The offset of the next sample is on the grid, and nothing is read beside it.
OnGrid == pc \in {"grain", "tail"} => \E k \in Nat : at = Grid(k)

SeenOnly == /\ seen \subseteq Looked
            /\ answer \in Nat => answer \in seen

SampledSoFar ==
    end = len /\ pc \in {"grain", "tail"} =>
        \A k \in Nat : Grid(k) < at /\ Grid(k) + Sample <= len => SampleAt(k) \subseteq seen

SampledAll ==
    ScannedBlank =>
        \A k \in Nat : Grid(k) + Sample <= len => SampleAt(k) \subseteq seen

Exact == OnGrid /\ SeenOnly /\ SampledSoFar /\ SampledAll

\* A sample of the grid that fits on the drive is part of what is looked at.
LEMMA SamplesAreLooked ==
    ASSUME TypeOK, NEW k \in Nat, Grid(k) + Sample <= len
    PROVE  SampleAt(k) \subseteq Looked
<1>1. Whole \in Nat /\ Stride \in Nat \ {0} /\ Sample \in Nat \ {0} /\ len \in Nat
  BY WholeFits, Sizes DEF TypeOK
<1>2. k * Stride \in Nat /\ k <= k * Stride
  <2>1. PICK e \in Nat : Stride = e + 1
    BY <1>1, Stride - 1 \in Nat
  <2>2. k * Stride = k * e + k /\ k * e \in Nat
    BY <2>1
  <2> QED
    BY <2>2
<1>3. Grid(k) = Whole + k * Stride
  BY DEF Grid
<1>4. Grid(k) \in Nat /\ k \in 0..len
  BY <1>1, <1>2, <1>3
<1>5. ASSUME NEW b \in SampleAt(k) PROVE b \in Looked
  <2>1. b \in 0..(len - 1) /\ Grid(k) <= b /\ b < Grid(k) + Sample
    BY <1>1, <1>4, <1>5 DEF SampleAt
  <2> QED
    BY <1>3, <1>4, <2>1 DEF Looked
<1> QED
  BY <1>5

\* A read stays in what is looked at, wherever the drive ends by then.
LEMMA ReadsAreLooked ==
    ASSUME TypeOK, OnGrid
    PROVE  /\ pc = "front" /\ at < Whole => FrontChunk \subseteq Looked
           /\ pc = "grain" /\ at + Sample <= len => Region(at, Sample) \subseteq Looked
           /\ len > Whole + Tail => Region(len - Tail, Tail) \subseteq Looked
<1>1. Whole \in Nat /\ Whole <= len /\ at \in Nat /\ len \in Nat /\ end \in 0..len
  BY WholeFits DEF TypeOK
<1>2. ASSUME pc = "front", at < Whole PROVE FrontChunk \subseteq Looked
  <2>1. /\ Least(Chunk, Whole - at) \in Nat
        /\ at + Least(Chunk, Whole - at) <= Whole
    BY <1>1, <1>2, Sizes DEF Least
  <2>2. FrontChunk \subseteq 0..(Whole - 1)
    BY <1>1, <2>1 DEF FrontChunk, Region, Least
  <2> QED
    BY <1>1, <2>2 DEF Looked
<1>3. ASSUME pc = "grain", at + Sample <= len PROVE Region(at, Sample) \subseteq Looked
  <2>1. PICK k \in Nat : at = Grid(k)
    BY <1>3 DEF OnGrid
  <2>2. Region(at, Sample) \subseteq SampleAt(k)
    BY <1>1, <2>1, Sizes DEF Region, Least, SampleAt
  <2> QED
    BY <1>3, <2>1, <2>2, SamplesAreLooked
<1>4. ASSUME len > Whole + Tail PROVE Region(len - Tail, Tail) \subseteq Looked
  <2>1. Region(len - Tail, Tail) \subseteq (len - Tail)..(len - 1)
        /\ len - Tail \in Nat
    BY <1>1, <1>4, Sizes DEF Region, Least
  <2> QED
    BY <1>1, <1>4, <2>1 DEF Looked
<1> QED
  BY <1>2, <1>3, <1>4

\* What was looked at stays that while the length is what it was.
LEMMA LookedStays == ASSUME len' = len PROVE Looked' = Looked
  BY DEF Looked, Whole

\* A read that goes on, or ends the scan, answers with a byte it has just seen.
LEMMA TakeSees ==
    ASSUME NEW R \in SUBSET Nat, SeenOnly, R \subseteq Looked, len' = len,
           seen' = seen \cup R, answer' = Nothing \/ answer' \in R
    PROVE  SeenOnly'
<1>1. Looked' = Looked
  BY LookedStays
<1> QED
  BY <1>1 DEF SeenOnly, Nothing

\* The three loops of a scan.
LEMMA ScanIsExact ==
    ASSUME Inv, Inv', Exact, Scan
    PROVE  Exact'
<1> USE DEF Exact
<1>1. TypeOK /\ answer = Nothing /\ pc # "done" /\ len' = len /\ end' = end
  BY DEF Inv, Running, Scan, ReadFront, FrontEnds, ReadSample, SamplesEnd, ReadTail,
         TailRead, Take
<1>2. /\ at \in Nat /\ len \in Nat /\ end \in 0..len /\ Whole \in Nat /\ Whole' = Whole
      /\ \A k \in Nat : Grid(k) \in Nat
      /\ \A k : SampleAt(k)' = SampleAt(k) /\ Grid(k)' = Grid(k)
  BY <1>1, WholeFits, GridSteps DEF TypeOK, Whole, SampleAt, Grid
<1>3. CASE ReadFront
  <2>1. FrontChunk \subseteq Looked /\ FrontChunk \in SUBSET Nat
    BY <1>1, <1>3, ReadsAreLooked DEF ReadFront, Looked
  <2>2. /\ seen' = seen \cup FrontChunk
        /\ \/ pc' = "done" /\ answer' \in FrontChunk
           \/ pc' = "front" /\ answer' = Nothing
    BY <1>1, <1>3 DEF ReadFront, Take, Conclude, GoOn
  <2>3. SeenOnly'
    BY <1>1, <2>1, <2>2, TakeSees
  <2> QED
    BY <2>1, <2>2, <2>3 DEF OnGrid, SampledSoFar, SampledAll, ScannedBlank, Nothing
<1>4. CASE FrontEnds
  <2>1. pc' = "grain" /\ at' = Whole /\ UNCHANGED <<seen, answer>>
    BY <1>4 DEF FrontEnds
  <2>2. Grid(0) = Whole
    BY <1>2, Sizes DEF Grid
  <2>3. OnGrid'
    BY <1>2, <2>1, <2>2 DEF OnGrid
  <2>4. \A k \in Nat : ~(Grid(k) < Whole)
    <3> SUFFICES ASSUME NEW k \in Nat PROVE Grid(k) >= Whole
      BY <1>2
    <3>1. k * Stride \in Nat
      BY Sizes
    <3> QED
      BY <1>2, <3>1 DEF Grid
  <2>5. SampledSoFar'
    BY <1>2, <2>1, <2>4 DEF SampledSoFar
  <2>6. SeenOnly' /\ SampledAll'
    BY <1>1, <2>1, LookedStays DEF SeenOnly, SampledAll, ScannedBlank
  <2> QED
    BY <2>3, <2>5, <2>6
<1>5. CASE ReadSample
  <2> DEFINE R == Region(at, Sample)
  <2>1. pc = "grain" /\ at + Sample <= len
    BY <1>5 DEF ReadSample
  <2>2. R \subseteq Looked /\ R \in SUBSET Nat
    BY <1>1, <2>1, ReadsAreLooked DEF Looked
  <2>3. /\ seen' = seen \cup R
        /\ \/ pc' = "done" /\ answer' \in R
           \/ pc' = "grain" /\ answer' = Nothing /\ at' = at + Stride
    BY <1>1, <1>5 DEF ReadSample, Take, Conclude, GoOn
  <2>4. SeenOnly'
    BY <1>1, <2>2, <2>3, TakeSees
  <2>5. CASE pc' = "done"
    BY <2>2, <2>3, <2>4, <2>5 DEF OnGrid, SampledSoFar, SampledAll, ScannedBlank, Nothing
  <2>6. CASE pc' # "done"
    <3>1. PICK j \in Nat : at = Grid(j)
      BY <2>1 DEF OnGrid
    <3>2. at' = Grid(j + 1)
      BY <1>1, <2>3, <2>6, <3>1, GridSteps
    <3>3. OnGrid'
      BY <1>2, <3>2 DEF OnGrid
    <3>4. ASSUME end = len, NEW k \in Nat, Grid(k) < Grid(j + 1), Grid(k) + Sample <= len
          PROVE  SampleAt(k) \subseteq seen'
      <4>1. CASE k = j
        <5>1. R = SampleAt(j)
          BY <1>2, <2>1, <3>1, <3>4, Sizes, RegionType DEF SampleAt
        <5> QED
          BY <2>3, <4>1, <5>1
      <4>2. CASE Grid(k) < Grid(j)
        BY <2>1, <2>3, <3>1, <3>4, <4>2 DEF SampledSoFar
      <4> QED
        BY <1>1, <3>4, <4>1, <4>2, GridSteps
    <3>5. SampledSoFar'
      BY <1>1, <1>2, <3>2, <3>4 DEF SampledSoFar
    <3> QED
      BY <2>4, <2>6, <3>3, <3>5 DEF SampledAll, ScannedBlank
  <2> QED
    BY <2>5, <2>6
<1>6. CASE SamplesEnd
  <2>1. pc = "grain" /\ pc' = "tail" /\ UNCHANGED <<at, seen, answer>>
    BY <1>6 DEF SamplesEnd
  <2>2. OnGrid' /\ SampledSoFar'
    BY <1>1, <1>2, <2>1 DEF OnGrid, SampledSoFar
  <2> QED
    BY <1>1, <2>1, <2>2, LookedStays DEF SeenOnly, SampledAll, ScannedBlank
<1>7. CASE ReadTail \/ TailRead
  <2>1. pc = "tail" /\ pc' = "done"
    BY <1>7 DEF ReadTail, TailRead, Take, Conclude
  <2>2. SeenOnly' /\ seen \subseteq seen'
    <3>1. CASE ReadTail
      <4>1. Region(len - Tail, Tail) \subseteq Looked
            /\ Region(len - Tail, Tail) \in SUBSET Nat
        BY <1>1, <3>1, ReadsAreLooked DEF ReadTail, Looked
      <4>2. /\ seen' = seen \cup Region(len - Tail, Tail)
            /\ answer' = Nothing \/ answer' \in Region(len - Tail, Tail)
        BY <3>1 DEF ReadTail, Take, Conclude
      <4> QED
        BY <1>1, <4>1, <4>2, TakeSees
    <3>2. CASE TailRead
      BY <1>1, <3>2, LookedStays DEF TailRead, Conclude, SeenOnly, Nothing
    <3> QED
      BY <1>7, <3>1, <3>2
  <2>3. SampledAll'
    <3> SUFFICES ASSUME end = len, NEW k \in Nat, Grid(k) + Sample <= len
                 PROVE  SampleAt(k) \subseteq seen'
      BY <1>1, <1>2 DEF SampledAll, ScannedBlank
    <3>1. at + Sample > len
      BY <2>1 DEF Inv, SeenGrain
    <3>2. Grid(k) < at
      BY <1>2, <3>1, Sizes
    <3> QED
      BY <2>1, <2>2, <3>2 DEF SampledSoFar
  <2> QED
    BY <2>1, <2>2, <2>3 DEF OnGrid, SampledSoFar
<1> QED
  BY <1>3, <1>4, <1>5, <1>6, <1>7 DEF Scan

\* The answer of a scan is about the front, the samples of the grid and the tail,
\* no more of the drive and no less.
THEOREM AnswersItsSample == Spec => []AnswersForItsSample
<1>1. Init /\ TypeOK => Exact
  BY DEF Init, Exact, OnGrid, SeenOnly, SampledSoFar, SampledAll, ScannedBlank, Nothing
<1>2. Inv /\ Inv' /\ Exact /\ [Next]_vars => Exact'
  <2> SUFFICES ASSUME Inv, Inv', Exact, [Next]_vars PROVE Exact'
    OBVIOUS
  <2> USE DEF Exact
  <2>1. CASE ~Scan
    <3>1. /\ UNCHANGED <<len, at, seen>> /\ (pc' = pc \/ pc' = "done")
          /\ \/ answer' = answer /\ pc' = pc
             \/ answer' = Failed
          /\ end' = end \/ end' # len'
      BY <2>1 DEF Next, ReadFails, Conclude, Write, Shrink, Done, vars, Inv, TypeOK
    <3>2. \A k : SampleAt(k)' = SampleAt(k) /\ Grid(k)' = Grid(k)
      BY <3>1 DEF SampleAt, Grid, Whole
    <3>3. OnGrid' /\ SampledSoFar'
      BY <3>1, <3>2 DEF OnGrid, SampledSoFar
    <3>4. SeenOnly'
      BY <3>1, LookedStays DEF SeenOnly, Failed
    <3>5. SampledAll'
      BY <3>1, <3>2 DEF SampledAll, ScannedBlank, Failed, Nothing
    <3> QED
      BY <3>3, <3>4, <3>5
  <2> QED
    BY <2>1, ScanIsExact
<1>3. Inv /\ Exact => AnswersForItsSample
  <2> SUFFICES ASSUME Inv, Exact PROVE AnswersForItsSample
    OBVIOUS
  <2>1. TypeOK /\ Whole \in Nat /\ len \in Nat
    BY WholeFits DEF Inv, TypeOK
  <2>2. ASSUME ScannedBlank, NEW b \in Looked PROVE b \in seen
    <3>1. b \in 0..(len - 1)
      BY DEF Looked
    <3>2. CASE b < Whole
      BY <2>1, <2>2, <3>1, <3>2 DEF Inv, SeenAll
    <3>3. CASE b >= len - Tail
      BY <2>1, <2>2, <3>1, <3>3, Sizes DEF Inv, SeenAll
    <3>4. ASSUME NEW k \in 0..len, Grid(k) <= b, b < Grid(k) + Sample,
                 Grid(k) + Sample <= len
          PROVE  b \in seen
      <4>1. k \in Nat /\ Grid(k) \in Nat
        BY <2>1, GridSteps
      <4>2. SampleAt(k) \subseteq seen
        BY <2>2, <3>4, <4>1 DEF Exact, SampledAll
      <4>3. b \in SampleAt(k)
        BY <3>1, <3>4, <4>1, Sizes DEF SampleAt
      <4> QED
        BY <4>2, <4>3
    <3> QED
      BY <3>2, <3>3, <3>4 DEF Looked, Grid
  <2>3. ScannedBlank => first \cap Looked = {}
    BY <2>2 DEF Inv, NothingSoFar, ScannedBlank, Nothing
  <2> QED
    BY <2>3 DEF Exact, SeenOnly, AnswersForItsSample
<1> QED
  BY <1>1, <1>2, <1>3, ScanInvariance, ScanTyping, PTL DEF Spec

-----------------------------------------------------------------------------
(***************************************************************************)
(* A scan takes no more steps than its drive has bytes for.                *)
(***************************************************************************)

\* How far the scan is from its end: the bytes ahead of it, loop by loop.
Ahead(limit) == IF at < limit THEN limit - at ELSE 0

StepsLeft ==
    CASE pc = "front" -> Ahead(Whole) + len + 3
      [] pc = "grain" -> Ahead(len) + 2
      [] pc = "tail" -> 1
      [] pc = "done" -> 0

\* Each read brings the end of the scan nearer by a byte at least, and nothing
\* that happens to the drive puts it off: a scan takes no more steps than twice
\* the bytes of its drive, and three.
ScanAdvances ==
    [][/\ StepsLeft' <= StepsLeft
       /\ Scan \/ ReadFails => StepsLeft' < StepsLeft]_vars

\* Each read brings the end of the scan nearer by a byte at least, whatever
\* becomes of the drive meanwhile: no scan takes more steps than twice the bytes
\* of its drive, and three.
THEOREM ScanKeepsAdvancing == Spec => ScanAdvances
<1>1. ASSUME TypeOK, Next
      PROVE  /\ StepsLeft' <= StepsLeft
             /\ Scan \/ ReadFails => StepsLeft' < StepsLeft
  <2>1. /\ at \in Nat /\ len \in Nat /\ Whole \in Nat /\ Whole <= len /\ end \in 0..len
        /\ Ahead(Whole) \in Nat /\ Ahead(len) \in Nat /\ Ahead(Whole) <= len
        /\ Ahead(len) <= len
    BY <1>1, WholeFits DEF TypeOK, Ahead
  <2>2. StepsLeft \in Nat /\ (pc # "done" => StepsLeft > 0)
    BY <1>1, <2>1 DEF StepsLeft, TypeOK
  <2> DEFINE Nearer == StepsLeft' \in Nat /\ StepsLeft' < StepsLeft
  <2>3. ASSUME pc' = "done", pc # "done" PROVE Nearer
    <3>1. StepsLeft' = 0
      BY <2>3 DEF StepsLeft
    <3> QED
      BY <2>2, <2>3, <3>1
  <2>4. ASSUME ReadFront, pc' # "done" PROVE Nearer
    <3>1. /\ pc = "front" /\ pc' = "front" /\ len' = len /\ at < Whole
          /\ at' = Least(at + Least(Chunk, Whole - at), end)
          /\ FrontChunk # {}
      BY <2>4 DEF ReadFront, Take, Conclude, GoOn
    <3>2. Least(Chunk, Whole - at) \in Nat \ {0}
      BY <2>1, <3>1, Sizes DEF Least
    <3>3. at < at' /\ at' \in Nat
      BY <2>1, <3>1, <3>2 DEF FrontChunk, Region, Least
    <3>4. Ahead(Whole)' < Ahead(Whole) /\ Ahead(Whole)' \in Nat
      BY <2>1, <3>1, <3>3 DEF Ahead, Whole
    <3> QED
      BY <2>1, <3>1, <3>4 DEF StepsLeft
  <2>5. ASSUME FrontEnds PROVE Nearer
    <3>1. pc = "front" /\ pc' = "grain" /\ at' = Whole /\ len' = len
      BY <2>5 DEF FrontEnds
    <3>2. Ahead(len)' \in Nat /\ Ahead(len)' <= len
      BY <2>1, <3>1 DEF Ahead
    <3> QED
      BY <2>1, <3>1, <3>2 DEF StepsLeft
  <2>6. ASSUME ReadSample, pc' # "done" PROVE Nearer
    <3>1. /\ pc = "grain" /\ pc' = "grain" /\ len' = len /\ at + Sample <= len
          /\ at' = at + Stride
      BY <2>6 DEF ReadSample, Take, Conclude, GoOn
    <3>2. Ahead(len)' < Ahead(len) /\ Ahead(len)' \in Nat
      BY <2>1, <3>1, Sizes DEF Ahead
    <3> QED
      BY <2>1, <3>1, <3>2 DEF StepsLeft
  <2>7. ASSUME SamplesEnd PROVE Nearer
    BY <2>1, <2>7 DEF SamplesEnd, StepsLeft
  <2>8. CASE Scan \/ ReadFails
    <3>1. pc # "done"
      BY <2>8 DEF Scan, ReadFails, ReadFront, FrontEnds, ReadSample, SamplesEnd,
                  ReadTail, TailRead
    <3>2. CASE pc' = "done"
      BY <2>2, <2>3, <3>1, <3>2
    <3>3. CASE pc' # "done"
      <4>1. ReadFront \/ FrontEnds \/ ReadSample \/ SamplesEnd
        BY <2>8, <3>3 DEF Scan, ReadFails, ReadTail, TailRead, Take, Conclude
      <4> QED
        BY <2>2, <2>4, <2>5, <2>6, <2>7, <3>3, <4>1
    <3> QED
      BY <3>2, <3>3
  <2>9. CASE ~(Scan \/ ReadFails)
    <3>1. UNCHANGED <<pc, at, len>>
      BY <1>1, <2>9 DEF Next, Write, Shrink, Done, vars
    <3>2. StepsLeft' = StepsLeft
      BY <3>1 DEF StepsLeft, Ahead, Whole
    <3> QED
      BY <2>2, <2>9, <3>2
  <2> QED
    BY <2>8, <2>9
<1>2. ASSUME TypeOK, [Next]_vars
      PROVE  [/\ StepsLeft' <= StepsLeft
              /\ Scan \/ ReadFails => StepsLeft' < StepsLeft]_vars
  BY <1>1, <1>2
<1> QED
  BY <1>2, ScanTyping, PTL DEF Spec, ScanAdvances
=============================================================================
