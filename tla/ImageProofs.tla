----------------------------- MODULE ImageProofs ----------------------------
(***************************************************************************)
(* What a build of a boot image leaves behind, for slabs of any length.    *)
(***************************************************************************)
EXTENDS BootImage, TLAPS

\* What is on the image at each step of a build, and what nobody builds on is.
InOrder == \A i, j \in 1..4 :
              i < j /\ out.file[EspFiles[j]] # "absent"
                  => out.file[EspFiles[i]] = "whole"

Before(k) == \A i \in 1..4 : i < k => out.file[EspFiles[i]] = "whole"

After(k) == \A i \in 1..4 : i > k => out.file[EspFiles[i]] = "absent"

Building ==
    /\ pc # "idle" => ~reported.there
    /\ pc = "create" => ~out.there
    /\ pc \in {"table", "format", "begin", "finish", "copy"} => out.there /\ out.room = bytes
    /\ pc \in {"format", "begin", "finish", "copy"} => out.table
    /\ pc \in {"begin", "finish", "copy"} => out.fat
    /\ pc \in {"table", "format"} => Before(1) /\ After(0)
    /\ pc = "begin" => Before(at) /\ After(at - 1)
    /\ pc = "finish" => Before(at) /\ After(at)
    /\ pc = "copy" => Before(5)

Kept == reported.there => out = reported /\ Whole(reported)

Inv == TypeOK /\ InOrder /\ Building /\ Kept

-----------------------------------------------------------------------------
\* The four files, by number and by name.
LEMMA Files ==
    /\ Len(EspFiles) = 4
    /\ EspFiles[1] = "bootloader" /\ EspFiles[2] = "kernel"
    /\ EspFiles[3] = "initramfs" /\ EspFiles[4] = "entry"
    /\ \A i \in 1..4 : EspFiles[i] \in OnEsp
    /\ \A i, j \in 1..4 : EspFiles[i] = EspFiles[j] => i = j
    /\ \A f \in OnEsp : \E i \in 1..4 : EspFiles[i] = f
  BY DEF EspFiles, OnEsp, Copied

LEMMA NoImageType ==
    /\ NoImage \in Images
    /\ ~NoImage.there
    /\ \A i \in 1..4 : NoImage.file[EspFiles[i]] = "absent"
  BY Files DEF NoImage, Images

LEMMA InitInv == Init => Inv
<1> SUFFICES ASSUME Init PROVE Inv
  OBVIOUS
<1>1. TypeOK
  BY ImageAssumption, NoImageType, Files DEF Init, TypeOK
<1>2. InOrder /\ Building /\ Kept
  BY NoImageType DEF Init, InOrder, Building, Kept
<1> QED
  BY <1>1, <1>2 DEF Inv

\* Setting one file of the image changes that one only.
LEMMA SetFile ==
    ASSUME out \in Images, NEW k \in 1..4, NEW v \in {"absent", "begun", "whole"},
           out' = [out EXCEPT !.file[EspFiles[k]] = v]
    PROVE  /\ out' \in Images
           /\ out'.there = out.there /\ out'.table = out.table /\ out'.fat = out.fat
           /\ out'.room = out.room /\ out'.slab = out.slab
           /\ out'.file[EspFiles[k]] = v
           /\ \A i \in 1..4 : i # k => out'.file[EspFiles[i]] = out.file[EspFiles[i]]
<1>1. EspFiles[k] \in OnEsp
  BY Files
<1>2. \A i \in 1..4 : EspFiles[i] \in OnEsp /\ (i # k => EspFiles[i] # EspFiles[k])
  BY Files
<1>3. out'.file = [out.file EXCEPT ![EspFiles[k]] = v]
  BY DEF Images
<1>4. out.file \in [OnEsp -> {"absent", "begun", "whole"}]
  BY DEF Images
<1>5. out'.file \in [OnEsp -> {"absent", "begun", "whole"}]
  BY <1>1, <1>3, <1>4
<1>6. /\ out'.there = out.there /\ out'.table = out.table /\ out'.fat = out.fat
      /\ out'.room = out.room /\ out'.slab = out.slab
  BY DEF Images
<1>7. out' \in Images
  BY <1>5 DEF Images
<1>8. out'.file[EspFiles[k]] = v
  BY <1>1, <1>3, <1>4
<1>9. \A i \in 1..4 : i # k => out'.file[EspFiles[i]] = out.file[EspFiles[i]]
  BY <1>1, <1>2, <1>3, <1>4
<1> QED
  BY <1>6, <1>7, <1>8, <1>9

-----------------------------------------------------------------------------
LEMMA StepInv == Inv /\ [Next]_vars => Inv'
<1> SUFFICES ASSUME Inv, [Next]_vars PROVE Inv'
  OBVIOUS
<1> USE DEF Inv, TypeOK
<1>1. CASE Measure
  <2>1. TypeOK'
    BY <1>1, Files DEF Measure
  <2>2. (InOrder /\ Building /\ Kept)'
    BY <1>1 DEF Measure, InOrder, Building, Kept, Before, After
  <2> QED
    BY <2>1, <2>2
<1>2. CASE Create
  <2>1. /\ out' \in Images /\ out'.there /\ out'.room = bytes
        /\ \A i \in 1..4 : out'.file[EspFiles[i]] = "absent"
    <3>1. /\ out' = [NoImage EXCEPT !.there = TRUE, !.room = bytes]
          /\ bytes \in Nat
      BY <1>2, ImageAssumption DEF Create
    <3>2. /\ out'.there /\ out'.room = bytes /\ out'.table = FALSE
          /\ out'.file = NoImage.file
      BY <3>1 DEF NoImage
    <3>3. out' \in Images
      BY <3>1, NoImageType DEF Images
    <3> QED
      BY <3>2, <3>3, NoImageType
  <2>2. TypeOK'
    BY <1>2, <2>1, Files DEF Create
  <2>3. (InOrder /\ Building /\ Kept)'
    BY <1>2, <2>1 DEF Create, InOrder, Building, Kept, Before, After
  <2> QED
    BY <2>2, <2>3
<1>3. CASE WriteTable
  <2>1. /\ out' \in Images /\ out'.table /\ out'.there = out.there
        /\ out'.file = out.file /\ out'.room = out.room
    BY <1>3 DEF WriteTable, Images
  <2>2. TypeOK'
    BY <1>3, <2>1, Files DEF WriteTable
  <2>3. (InOrder /\ Building /\ Kept)'
    BY <1>3, <2>1 DEF WriteTable, InOrder, Building, Kept, Before, After
  <2> QED
    BY <2>2, <2>3
<1>4. CASE Format
  <2>1. /\ out' \in Images /\ out'.fat /\ out'.there = out.there
        /\ out'.file = out.file /\ out'.room = out.room /\ out'.table = out.table
    BY <1>4 DEF Format, Images
  <2>2. TypeOK'
    BY <1>4, <2>1, Files DEF Format
  <2>3. (InOrder /\ Building /\ Kept)'
    BY <1>4, <2>1 DEF Format, InOrder, Building, Kept, Before, After
  <2> QED
    BY <2>2, <2>3
<1>5. CASE BeginFile
  <2> /\ at \in 1..4 /\ out \in Images
      /\ out' = [out EXCEPT !.file[EspFiles[at]] = "begun"]
    BY <1>5, Files DEF BeginFile
  <2>1. /\ out' \in Images
        /\ out'.there = out.there /\ out'.table = out.table /\ out'.fat = out.fat
        /\ out'.room = out.room
        /\ out'.file[EspFiles[at]] = "begun"
        /\ \A i \in 1..4 : i # at => out'.file[EspFiles[i]] = out.file[EspFiles[i]]
    BY SetFile
  <2>2. TypeOK'
    BY <1>5, <2>1, Files DEF BeginFile
  <2>3. Before(at) /\ After(at - 1) /\ at \in 1..4
    BY <1>5, Files DEF BeginFile, Building
  <2>4. ASSUME NEW i \in 1..4
        PROVE  /\ i < at => out'.file[EspFiles[i]] = "whole"
               /\ i > at => out'.file[EspFiles[i]] = "absent"
    <3>1. i # at => out'.file[EspFiles[i]] = out.file[EspFiles[i]]
      BY <2>1
    <3>2. i < at => i # at /\ out.file[EspFiles[i]] = "whole"
      BY <2>3 DEF Before
    <3>3. i > at => i # at /\ i > at - 1
      BY <2>3
    <3>4. i > at - 1 => out.file[EspFiles[i]] = "absent"
      BY <2>3 DEF After
    <3> QED
      BY <3>1, <3>2, <3>3, <3>4
  <2>5. InOrder'
    <3> SUFFICES ASSUME NEW i \in 1..4, NEW j \in 1..4, i < j,
                        out'.file[EspFiles[j]] # "absent"
                 PROVE  out'.file[EspFiles[i]] = "whole"
      BY DEF InOrder
    <3>1. ~(j > at)
      BY <2>4
    <3>2. i < at
      BY <2>3, <3>1
    <3> QED
      BY <2>4, <3>2
  <2>6. (Building /\ Kept)'
    <3>1. pc' = "finish" /\ at' = at
      BY <1>5 DEF BeginFile
    <3>2. Before(at)' /\ After(at)'
      BY <2>4, <3>1 DEF Before, After
    <3> QED
      BY <1>5, <2>1, <3>1, <3>2 DEF BeginFile, Building, Kept
  <2> QED
    BY <2>2, <2>5, <2>6
<1>6. CASE FinishFile
  <2> /\ at \in 1..4 /\ out \in Images
      /\ out' = [out EXCEPT !.file[EspFiles[at]] = "whole"]
    BY <1>6, Files DEF FinishFile
  <2>1. /\ out' \in Images
        /\ out'.there = out.there /\ out'.table = out.table /\ out'.fat = out.fat
        /\ out'.room = out.room
        /\ out'.file[EspFiles[at]] = "whole"
        /\ \A i \in 1..4 : i # at => out'.file[EspFiles[i]] = out.file[EspFiles[i]]
    BY SetFile
  <2>2. TypeOK'
    BY <1>6, <2>1, Files DEF FinishFile
  <2>3. Before(at) /\ After(at)
    BY <1>6 DEF FinishFile, Building
  <2>4. ASSUME NEW i \in 1..4
        PROVE  /\ i <= at => out'.file[EspFiles[i]] = "whole"
               /\ i > at => out'.file[EspFiles[i]] = "absent"
    <3>1. i # at => out'.file[EspFiles[i]] = out.file[EspFiles[i]]
      BY <2>1
    <3>2. i < at => i # at /\ out.file[EspFiles[i]] = "whole"
      BY <2>3 DEF Before
    <3>3. i > at => i # at /\ out.file[EspFiles[i]] = "absent"
      BY <2>3 DEF After
    <3>4. i = at => out'.file[EspFiles[i]] = "whole"
      BY <2>1
    <3>5. i <= at => i < at \/ i = at
      OBVIOUS
    <3> QED
      BY <3>1, <3>2, <3>3, <3>4, <3>5
  <2>5. InOrder'
    <3> SUFFICES ASSUME NEW i \in 1..4, NEW j \in 1..4, i < j,
                        out'.file[EspFiles[j]] # "absent"
                 PROVE  out'.file[EspFiles[i]] = "whole"
      BY DEF InOrder
    <3>1. ~(j > at)
      BY <2>4
    <3> QED
      BY <2>4, <3>1
  <2>6. (Building /\ Kept)'
    <3>1. CASE at < 4
      <4>1. at' = at + 1 /\ pc' = "begin" /\ at' - 1 = at
        BY <1>6, <3>1, Files DEF FinishFile
      <4>2. Before(at)' /\ After(at - 1)'
        BY <2>4, <4>1 DEF Before, After
      <4> QED
        BY <1>6, <2>1, <4>1, <4>2 DEF FinishFile, Building, Kept
    <3>2. CASE at = 4
      <4>1. pc' = "copy"
        BY <1>6, <3>2, Files DEF FinishFile
      <4>2. Before(5)'
        BY <2>4, <3>2 DEF Before
      <4> QED
        BY <1>6, <2>1, <4>1, <4>2 DEF FinishFile, Building, Kept
    <3> QED
      BY <3>1, <3>2
  <2> QED
    BY <2>2, <2>5, <2>6
<1>7. CASE CopySlab
  <2>1. /\ out' \in Images /\ out'.fat = out.fat /\ out'.there = out.there
        /\ out'.file = out.file /\ out'.room = out.room /\ out'.table = out.table
    BY <1>7 DEF CopySlab, Images
  <2>2. TypeOK'
    BY <1>7, <2>1 DEF CopySlab
  <2>3. (InOrder /\ Building /\ Kept)'
    BY <1>7, <2>1 DEF CopySlab, InOrder, Building, Kept, Before, After
  <2> QED
    BY <2>2, <2>3
<1>8. CASE Report
  <2>1. TypeOK'
    BY <1>8 DEF Report
  <2>2. (InOrder /\ Building)'
    <3>1. pc' = "idle" /\ out' = out
      BY <1>8 DEF Report
    <3> QED
      BY <3>1 DEF InOrder, Building
  <2>3. Kept'
    <3>1. CASE out.slab = bytes
      <4>1. \A f \in OnEsp : out.file[f] = "whole"
        BY <1>8, Files DEF Report, Building, Before
      <4>2. Whole(out)
        BY <1>8, <3>1, <4>1 DEF Report, Building, Whole
      <4> QED
        BY <1>8, <3>1, <4>2 DEF Report, Kept
    <3>2. CASE out.slab # bytes
      BY <1>8, <3>2 DEF Report, Kept
    <3> QED
      BY <3>1, <3>2
  <2> QED
    BY <2>1, <2>2, <2>3
<1>9. CASE Fail
  BY <1>9 DEF Fail, InOrder, Building, Kept
<1>10. CASE Remove
  <2>1. TypeOK'
    BY <1>10, NoImageType DEF Remove
  <2>2. (InOrder /\ Building /\ Kept)'
    BY <1>10, NoImageType DEF Remove, InOrder, Building, Kept
  <2> QED
    BY <2>1, <2>2
<1>11. CASE Rewrite
  BY <1>11 DEF Rewrite, InOrder, Building, Kept, Before, After
<1>12. CASE UNCHANGED vars
  BY <1>12 DEF vars, InOrder, Building, Kept, Before, After
<1> QED
  BY <1>1, <1>2, <1>3, <1>4, <1>5, <1>6, <1>7, <1>8, <1>9, <1>10, <1>11, <1>12
     DEF Next, Build

\* Every image a build leaves, at any step, is written in order, and one that
\* was reported is whole and untouched since (bootimage.rs, build).
THEOREM Invariance == Spec => []Inv
  BY InitInv, StepInv, PTL DEF Spec

\* A build that says it succeeded left every file and the slab it had measured.
THEOREM Reported == Spec => []ReportedIsWhole
<1>1. Inv => ReportedIsWhole
  BY DEF Inv, Kept, ReportedIsWhole
<1> QED
  BY <1>1, Invariance, PTL

\* A reported image stays as it was until somebody removes it.
THEOREM Stays == Spec => []ReportedIsKept
<1>1. Inv => ReportedIsKept
  BY DEF Inv, Kept, ReportedIsKept
<1> QED
  BY <1>1, Invariance, PTL

\* An ESP that reads as bootable has every file whole: none is half-written
\* when the entry that names it is there.
THEOREM Bootable == Spec => []BootsOnlyWhole
<1>1. Inv => BootsOnlyWhole
  <2> SUFFICES ASSUME Inv, EspBoots(out), NEW f \in OnEsp
               PROVE  out.file[f] = "whole"
    BY DEF BootsOnlyWhole
  <2>1. out.file[EspFiles[4]] = "whole"
    BY Files DEF EspBoots, Entry
  <2>2. \A i \in 1..4 : out.file[EspFiles[i]] = "whole"
    BY <2>1 DEF Inv, InOrder
  <2> QED
    BY <2>2, Files
<1> QED
  BY <1>1, Invariance, PTL

\* Every variable of a build keeps its type.
THEOREM ImageTyping == Spec => []TypeOK
<1>1. Inv => TypeOK
  BY DEF Inv
<1> QED
  BY <1>1, Invariance, PTL

\* What the writer lays out the reader accepts, when kernel and initramfs are text.
THEOREM ReadsBack == Spec => []TextReadsBack
<1>1. Inv => TextReadsBack
  <2> SUFFICES ASSUME Inv, reported.there,
                      input["kernel"] = "text", input["initramfs"] = "text"
               PROVE  EspBoots(reported)
    BY DEF TextReadsBack
  <2>1. Whole(reported)
    BY DEF Inv, Kept
  <2>2. \A f \in {"bootloader", "kernel", "initramfs", "entry"} : reported.file[f] = "whole"
    BY <2>1 DEF Whole, OnEsp, Copied
  <2> QED
    BY <2>1, <2>2 DEF Whole, EspBoots, Entry, Readable
<1> QED
  BY <1>1, Invariance, PTL
=============================================================================
