----------------------------- MODULE BlankScan ------------------------------
(***************************************************************************)
(* Which bytes of a drive first_nonzero reads before it answers "nothing"  *)
(* (crates/zeroboot/src/probe.rs).  A drive shorter than the grain is read *)
(* whole; a longer one is read at its front, at one sample in every grain, *)
(* and at its tail.  Module Probe knows the drive as these three parts;    *)
(* here are the loops that make them so, one read per step, while somebody *)
(* may write to the drive and the drive may come to an end early.          *)
(***************************************************************************)
EXTENDS Integers

CONSTANTS Chunk,    \* how much of the front one read takes     (1 MiB)
          Deep,     \* the front that is read whole             (64 MiB)
          Sample,   \* how much is read of each grain           (64 KiB)
          Stride,   \* the grain                                (1 GiB)
          Tail,     \* what is read at the end, HEAD and TAIL   (1 MiB)
          Blanks,   \* the drives: how long, and which bytes are not zero
          Writes    \* what somebody else may write meanwhile

ASSUME ScanAssumption ==
    /\ {Chunk, Deep, Sample, Stride, Tail} \subseteq Nat
    /\ Chunk > 0 /\ Sample > 0 /\ Sample <= Tail /\ Tail <= Deep
    /\ Deep + Tail < Stride
    /\ \A d \in Blanks : d.len \in Nat /\ d.used \subseteq 0..(d.len - 1)
    /\ \A w \in Writes : w \subseteq Nat

VARIABLES len,     \* the length that the seek to the end answered
          first,   \* the bytes that were not zero when the scan began
          used,    \* the bytes that are not zero now
          end,     \* where reads come to an end: len, unless the drive went
          pc, at,  \* the loop it is in, and the offset it reads next
          seen,    \* the bytes read so far
          answer   \* an offset, Nothing, or Failed

vars == <<len, first, used, end, pc, at, seen, answer>>

Nothing == -1
Failed == -2

TypeOK == /\ len \in Nat /\ first \subseteq Nat /\ used \subseteq Nat
          /\ end \in 0..len
          /\ pc \in {"front", "grain", "tail", "done"}
          /\ at \in Nat
          /\ seen \subseteq 0..(len - 1)
          /\ answer \in Nat \cup {Nothing, Failed}

Init == /\ \E d \in Blanks : len = d.len /\ used = d.used
        /\ first = used
        /\ end = len
        /\ pc = "front" /\ at = 0
        /\ seen = {}
        /\ answer = Nothing

-----------------------------------------------------------------------------
Least(a, b) == IF a < b THEN a ELSE b

Whole == IF len < Stride THEN len ELSE Deep

\* What one read returns: it stops where the drive does.
Region(off, n) == off..(Least(off + n, end) - 1)

Conclude(a) == /\ pc' = "done"
               /\ answer' = a

\* A region was read: the scan ends with the first byte in it that is not zero,
\* or goes on.
Take(region, goesOn) ==
    /\ seen' = seen \cup region
    /\ \/ \E b \in region \cap used :
             /\ \A c \in region \cap used : b <= c
             /\ Conclude(b) /\ UNCHANGED at
       \/ region \cap used = {} /\ goesOn
    /\ UNCHANGED <<len, first, used, end>>

GoOn(off) == pc' = pc /\ at' = off /\ UNCHANGED answer

FrontChunk == Region(at, Least(Chunk, Whole - at))

ReadFront ==
    /\ pc = "front" /\ at < Whole
    /\ FrontChunk # {}
    /\ Take(FrontChunk, GoOn(Least(at + Least(Chunk, Whole - at), end)))

\* A plausible slip: a read that returned nothing is tried again.
FrontGoesOn ==
    /\ pc = "front" /\ at >= Whole
    /\ pc' = "grain" /\ at' = Whole
    /\ UNCHANGED <<len, first, used, end, seen, answer>>

FrontEnds ==
    /\ pc = "front"
    /\ at >= Whole \/ FrontChunk = {}
    /\ pc' = "grain" /\ at' = Whole
    /\ UNCHANGED <<len, first, used, end, seen, answer>>

\* A plausible slip: the next grain is counted from the end of this sample.
SampleAndSkip ==
    /\ pc = "grain" /\ at + Sample <= len
    /\ Take(Region(at, Sample), GoOn(at + Sample + Stride))

ReadSample ==
    /\ pc = "grain" /\ at + Sample <= len
    /\ Take(Region(at, Sample), GoOn(at + Stride))

SamplesEnd ==
    /\ pc = "grain" /\ at + Sample > len
    /\ pc' = "tail"
    /\ UNCHANGED <<len, first, used, end, at, seen, answer>>

\* A plausible slip: the tail is read however short the drive is.
TailAlways ==
    /\ pc = "tail"
    /\ Take(Region(len - Tail, Tail), Conclude(Nothing) /\ UNCHANGED at)

\* A plausible slip: the offset of a byte is named from where its region starts.
TailByIndex ==
    /\ pc = "tail" /\ len > Whole + Tail
    /\ seen' = seen \cup Region(len - Tail, Tail)
    /\ \E b \in Region(len - Tail, Tail) \cap used : Conclude(b - (len - Tail))
    /\ UNCHANGED <<len, first, used, end, at>>

\* A plausible slip: nothing looks at the end of the drive.
NoTail ==
    /\ pc = "tail"
    /\ Conclude(Nothing)
    /\ UNCHANGED <<len, first, used, end, at, seen>>

ReadTail ==
    /\ pc = "tail" /\ len > Whole + Tail
    /\ Take(Region(len - Tail, Tail), Conclude(Nothing) /\ UNCHANGED at)

TailRead ==
    /\ pc = "tail" /\ len <= Whole + Tail
    /\ Conclude(Nothing)
    /\ UNCHANGED <<len, first, used, end, at, seen>>

\* The open, and any of the reads, may fail.
ReadFails ==
    /\ \/ pc = "front" /\ (at = 0 \/ at < Whole)
       \/ pc = "grain" /\ at + Sample <= len
       \/ pc = "tail" /\ len > Whole + Tail
    /\ Conclude(Failed)
    /\ UNCHANGED <<len, first, used, end, at, seen>>

Scan == ReadFront \/ FrontEnds \/ ReadSample \/ SamplesEnd \/ ReadTail \/ TailRead

-----------------------------------------------------------------------------
\* Somebody writes to the drive while it is scanned.
Write ==
    /\ pc # "done"
    /\ \E w \in Writes : used' = used \cup (w \cap 0..(len - 1))
    /\ UNCHANGED <<len, first, end, pc, at, seen, answer>>

\* The drive goes: reads past the new end return nothing, which is no error.
Shrink ==
    /\ pc # "done"
    /\ \E e \in 0..(end - 1) : end' = e
    /\ UNCHANGED <<len, first, used, pc, at, seen, answer>>

Done == pc = "done" /\ UNCHANGED vars

Next == Scan \/ ReadFails \/ Write \/ Shrink \/ Done

Spec == Init /\ [][Next]_vars

\* Reads return.
FairSpec == Spec /\ WF_vars(Scan)

-----------------------------------------------------------------------------
(***************************************************************************)
(* Properties.                                                             *)
(***************************************************************************)
ScannedBlank == pc = "done" /\ answer = Nothing /\ end = len

\* "It is a sample and not a proof": what may be missed on a drive that is
\* called empty is less than one grain long.  Any longer stretch of bytes that
\* were there when the scan began is found, wherever it lies.
LongStretchesAreFound ==
    ScannedBlank =>
        \A a \in 0..(len - 1 - (Stride - Sample)) :
            ~(a..(a + (Stride - Sample)) \subseteq first)

\* The front and the end of a drive that is called empty held nothing, nor did
\* any byte of one shorter than the grain: what Probe takes first_nonzero for.
EndsAreRead ==
    ScannedBlank =>
        /\ first \cap 0..(Whole - 1) = {}
        /\ first \cap (len - Tail)..(len - 1) = {}

\* The offset that is named holds something, and nothing that was there when
\* the scan began was passed over before it.
FoundIsFirst ==
    answer \in Nat =>
        /\ answer \in used
        /\ \A b \in first \cap seen : answer <= b

\* What a scan that is not cut short is meant to read: the front, a sample at
\* every whole grain behind it, and the tail of a drive that has one of its own.
Looked ==
    {b \in 0..(len - 1) :
        \/ b < Whole
        \/ \E k \in 0..len : LET o == Whole + k * Stride
                             IN  o <= b /\ b < o + Sample /\ o + Sample <= len
        \/ len > Whole + Tail /\ b >= len - Tail}

\* The answer is about that sample, no more of the drive and no less: "nothing"
\* says that all of it was empty, and an offset lies in it.  Whoever writes and
\* whatever the drive does, nothing outside it is read.
AnswersForItsSample ==
    /\ seen \subseteq Looked
    /\ ScannedBlank => first \cap Looked = {}
    /\ answer \in Nat => answer \in Looked

\* Every scan ends, on a drive that went away in the middle of it too.
ScanEnds == <>(pc = "done")
=============================================================================
