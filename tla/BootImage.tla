------------------------------ MODULE BootImage -----------------------------
(***************************************************************************)
(* boot-image lays a disk out in a new file (bootimage.rs, build), and the *)
(* ESP on it is read back wherever that disk turns up (esp.rs, read).  A   *)
(* build fails or is killed at any step and leaves what it wrote; the slab *)
(* it copies may be written to meanwhile; somebody removes the file.       *)
(***************************************************************************)
EXTENDS Naturals, Sequences

CONSTANT MaxSlab   \* the length of the slab file, in MiB, is at most this

ASSUME ImageAssumption == MaxSlab \in Nat

VARIABLES input,     \* what each input file holds
          slab,      \* how long the slab file is now
          pc,        \* what the build is at
          bytes,     \* how long it was when the build measured it
          at,        \* the file of the ESP being written
          out,       \* the image file
          reported   \* the image that a build reported, or NoImage

vars == <<input, slab, pc, bytes, at, out, reported>>

-----------------------------------------------------------------------------
\* A plausible slip: the entry first, as the one file whose content is known.
EntryFirst == <<"entry", "bootloader", "kernel", "initramfs">>

\* The files of the ESP that esp.rs reads, in the order they are written.
EspFiles == <<"bootloader", "kernel", "initramfs", "entry">>

Copied == {"bootloader", "kernel", "initramfs"}

OnEsp == Copied \cup {"entry"}

\* An image: whether it exists, its table, its ESP, the MiB of its slab
\* partition, and how many of them are written.
NoImage == [there |-> FALSE, table |-> FALSE, fat |-> FALSE,
            file |-> [f \in OnEsp |-> "absent"], room |-> 0, slab |-> 0]

Images == [there : BOOLEAN, table : BOOLEAN, fat : BOOLEAN,
           file : [OnEsp -> {"absent", "begun", "whole"}], room : Nat, slab : Nat]

Whole(image) == /\ image.there /\ image.table /\ image.fat
                /\ \A f \in OnEsp : image.file[f] = "whole"
                /\ image.slab = image.room

TypeOK == /\ input \in [Copied \cup {"slab"} -> {"absent", "text", "binary"}]
          /\ slab \in 0..MaxSlab
          /\ pc \in {"idle", "create", "table", "format", "begin", "finish", "copy"}
          /\ bytes \in 0..MaxSlab
          /\ at \in 1..Len(EspFiles)
          /\ out \in Images
          /\ reported \in Images

Init == /\ input \in [Copied \cup {"slab"} -> {"absent", "text", "binary"}]
        /\ input["slab"] # "text"
        /\ slab \in 0..MaxSlab
        /\ pc = "idle"
        /\ bytes = 0
        /\ at = 1
        /\ out = NoImage
        /\ reported = NoImage

-----------------------------------------------------------------------------
(***************************************************************************)
(* build, step by step.  What it refuses changes nothing, so a refusal is  *)
(* a build that does not start.                                            *)
(***************************************************************************)

\* A plausible slip: an image already there is built again.
MeasureAnyway ==
    /\ pc = "idle"
    /\ \A f \in DOMAIN input : input[f] # "absent"
    /\ bytes' = slab
    /\ pc' = "create"
    /\ UNCHANGED <<input, slab, at, out, reported>>

Measure ==
    /\ pc = "idle"
    /\ \A f \in DOMAIN input : input[f] # "absent"
    /\ ~out.there
    /\ bytes' = slab
    /\ pc' = "create"
    /\ UNCHANGED <<input, slab, at, out, reported>>

\* File::create and set_len: what was there is gone, and all is zero.
Create ==
    /\ pc = "create"
    /\ out' = [NoImage EXCEPT !.there = TRUE, !.room = bytes]
    /\ pc' = "table"
    /\ UNCHANGED <<input, slab, bytes, at, reported>>

\* The GPT and its protective MBR.
WriteTable ==
    /\ pc = "table"
    /\ out' = [out EXCEPT !.table = TRUE]
    /\ pc' = "format"
    /\ UNCHANGED <<input, slab, bytes, at, reported>>

Format ==
    /\ pc = "format"
    /\ out' = [out EXCEPT !.fat = TRUE]
    /\ at' = 1
    /\ pc' = "begin"
    /\ UNCHANGED <<input, slab, bytes, reported>>

BeginFile ==
    /\ pc = "begin"
    /\ out' = [out EXCEPT !.file[EspFiles[at]] = "begun"]
    /\ pc' = "finish"
    /\ UNCHANGED <<input, slab, bytes, at, reported>>

\* A plausible slip: one file more than there are.
OneFileTooMany ==
    /\ pc = "finish"
    /\ out' = [out EXCEPT !.file[EspFiles[at]] = "whole"]
    /\ IF at <= Len(EspFiles) THEN at' = at + 1 /\ pc' = "begin"
                              ELSE at' = 1 /\ pc' = "copy"
    /\ UNCHANGED <<input, slab, bytes, reported>>

FinishFile ==
    /\ pc = "finish"
    /\ out' = [out EXCEPT !.file[EspFiles[at]] = "whole"]
    /\ IF at < Len(EspFiles) THEN at' = at + 1 /\ pc' = "begin"
                          ELSE at' = 1 /\ pc' = "copy"
    /\ UNCHANGED <<input, slab, bytes, reported>>

\* io::copy goes on to the end of the slab file, wherever that is by now.
CopySlab ==
    /\ pc = "copy" /\ out.slab < slab
    /\ out' = [out EXCEPT !.slab = @ + 1]
    /\ UNCHANGED <<input, slab, pc, bytes, at, reported>>

\* A plausible slip: whatever was copied is the slab.
ReportAnything ==
    /\ pc = "copy" /\ out.slab >= slab
    /\ pc' = "idle"
    /\ reported' = out
    /\ UNCHANGED <<input, slab, bytes, at, out>>

\* "slab copy short": a slab of another length than was measured is an error.
Report ==
    /\ pc = "copy" /\ out.slab >= slab
    /\ pc' = "idle"
    /\ reported' = IF out.slab = bytes THEN out ELSE reported
    /\ UNCHANGED <<input, slab, bytes, at, out>>

\* An error, or the end of the process, at any step: nothing is cleaned up.
Fail ==
    /\ pc # "idle"
    /\ pc' = "idle"
    /\ UNCHANGED <<input, slab, bytes, at, out, reported>>

Build == \/ Measure \/ Create \/ WriteTable \/ Format \/ BeginFile
         \/ FinishFile \/ CopySlab \/ Report \/ Fail

\* Somebody removes the image, between two builds.
Remove ==
    /\ pc = "idle" /\ out.there
    /\ out' = NoImage /\ reported' = NoImage
    /\ UNCHANGED <<input, slab, pc, bytes, at>>

\* The slab file is written to while it is copied, or before.
Rewrite ==
    /\ slab' \in 0..MaxSlab
    /\ UNCHANGED <<input, pc, bytes, at, out, reported>>

Next == Build \/ Remove \/ Rewrite

Spec == Init /\ [][Next]_vars

-----------------------------------------------------------------------------
(***************************************************************************)
(* esp::read, of an image as it is.                                        *)
(***************************************************************************)

\* A plausible slip: the slash an entry's path begins with is kept.
SlashKept(image, f) == FALSE

\* read_file: a file there, whose bytes are UTF-8.  One just created is empty.
Readable(image, f) ==
    /\ image.file[f] # "absent"
    /\ image.file[f] = "whole" /\ f \in Copied => input[f] = "text"

\* loader_entry: an entry created and not yet written names nothing.
Entry(image) == image.file["entry"] = "whole"

\* What is missing stays unsaid here: the drive boots, or it does not.
EspBoots(image) ==
    /\ image.table /\ image.fat
    /\ Entry(image)
    /\ Readable(image, "kernel") /\ Readable(image, "initramfs")
    /\ image.file["bootloader"] # "absent"

-----------------------------------------------------------------------------
(***************************************************************************)
(* Properties.                                                             *)
(***************************************************************************)

\* A build that says it succeeded left every file and the whole slab it had
\* measured, and nothing past it, though the slab may be written to meanwhile.
ReportedIsWhole == reported.there => Whole(reported)

\* An image that was reported stays as it was until somebody removes it,
\* through any later builds to the same place, and their failures.
ReportedIsKept == reported.there => out = reported

\* A build cut short never leaves an ESP that reads as bootable without all it
\* takes to boot: every file is whole before the entry that names them is.
BootsOnlyWhole == EspBoots(out) => \A f \in OnEsp : out.file[f] = "whole"

\* The writer and the reader agree: what a build reported reads back as
\* bootable, when its kernel and its initramfs are text.
TextReadsBack ==
    reported.there /\ input["kernel"] = "text" /\ input["initramfs"] = "text"
        => EspBoots(reported)

\* The same of every image: "systemd-boot, a kernel, an initramfs and a loader
\* entry" are what makes a drive boot.
BuiltBoots == reported.there => EspBoots(reported)
=============================================================================
