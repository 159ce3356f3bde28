# zeroboot: models, checks and proofs

zeroboot runs in the initramfs of a stormcos node. It looks at every drive,
decides whose each one is, and tells `init` to boot a local slab or to ask the
appliance, naming at most one empty drive that stormblock may then format. The
code is small and mostly sequential. What is hard about it is around it: reads
that fail one by one, a drive that changes while it is read, device names that
change between boots, disks that are carried between chassis, a LUN that two
machines see, power that goes between two writes, and a program that acts later
on what this one said. These are the behaviours modelled here.

Paths below are under `src/crates/zeroboot/src/` unless they say otherwise.

## The system and its parts

| part | state | operations | hard part | what makes it correct |
|---|---|---|---|---|
| `probe.rs` look at a drive | what was read so far | a dozen reads, then a verdict | each read may fail alone; the drive may change in between | Blank only for an untouched drive; Mine only for a local slab not claimed by another |
| `probe.rs` scan a whole drive (`first_nonzero`) | an offset in one of three loops | reads at the front, in each grain, at the tail | boundaries of the loops; tens of seconds in which the disk may be written or pulled | no stretch longer than the gaps is missed; front and tail are read whole |
| `survey.rs` decide over the drives | the judged drives, in name order | `mine`, `bootable`, `available`, `intent` | sort orders, names that move | one intent, independent of names; ownership beats taking |
| `main.rs` boot | the survey; what it printed | `boot`, `ask`, `claim_on_boot` | names used after zeroboot has exited; a decision from a survey that is old by then | always an action; nothing offered while owning; no other node's root |
| `esp.rs` and `main.rs` claims | a record on the drive's ESP | `read`, `write_claim`, `claim` | truncate, then write; check, then write; errors read as "no claim" | a claim changes hands only with `--force` |
| `main.rs` the clock (`now_rfc3339`) | a year, a month, the days left | two loops | leap years, a clock before 1970, an array of twelve months | the right date; claims read in the order they were made |
| `bootimage.rs` | the image file | `build` | killed half-way; the slab file changes meanwhile | success means whole; half-done does not look bootable |
| `scripts/apply-manifests.py`, and the wait of `bootstrap-cluster.sh` for it | the apiserver's objects; a counter of failures | create, or read and replace | runs that died half-way, requests that arrive late, other clients | success means all accepted; a second run repairs; an old run never wins |
| init and stormblock (outside this repository) | root, the disk a flow-over goes to | boot a slab, lay out a drive | act by device name, later | two nodes never write one disk |
| command line, report, shell output, deployment | none | formatting, copying | none | not modelled |

They meet in few places: `probe` hands each drive's verdict, ESP, size and
medium to `survey`; `survey::intent` decides `boot`; `boot` writes a claim,
dated by the clock, through `esp` and prints variables which `init` evaluates
(`README.md:107-158`); stormblock gets a device name and formats what is behind
it. A claim written in one boot is evidence in a later one, on another machine.
The bootstrap shares nothing with these but the repository.

## Modules

| module | models | builds on |
|---|---|---|
| `Judgement` | the drive as its reads see it; every read with the value its failure turns into; `judge` as one function `Judge(d, me, failed)` | |
| `Probe` | the same look one read at a time, with failures and another writer | `Judgement` |
| `BlankScan` | the three loops of `first_nonzero`, byte ranges and all | |
| `Survey` | `boots`, `mine`, `available`, their orders, and `intent` | |
| `SurveyWalk` | `survey()` over the names, and the code's own sorted lists | `Survey` |
| `Ownership` | abstract: what a claim promises | |
| `Boot` | many machines, their drives, init, stormblock, operators, power, disk moves | `Judgement`, `Survey`; refines `Ownership` |
| `BootImage` | `boot-image` step by step, and `esp::read` of what it leaves | |
| `ClaimClock` | `now_rfc3339`, and the claims it dates | |
| `ApplyManifests` | the wait for the apiserver, the script, and the apiserver it talks to | |
| `DriveShapes`, `MCProbe`, `MCBlankScan`, `MCSurveyWalk`, `MCBoot`, `MCClaimClock`, `MCApplyManifests` | drives, worlds, clocks and manifests for TLC | |
| `JudgementProofs`, `ProbeProofs`, `ScanProofs`, `SurveyProofs`, `BootProofs`, `ImageProofs`, `ClockProofs`, `ManifestProofs` | proofs | |

**Drives.** A drive is not its bytes but what the reads can tell apart: the first
and the last megabyte (zero, a slab with a role, a signature, or noise that
matches nothing), the bytes between (zero, non-zero where `first_nonzero` reads, non-zero in a gap of
its sample), the head of each partition, and the ESP (a claim or none, whether
it boots). `failed` is the set of reads that failed in this look. Each read is
an operator over both, with the code's own default: `RemovableRead` is false on
failure because `probe.rs:170` says `unwrap_or(0)`, `EspRead` is "no ESP"
because `probe.rs:181` says `.ok().flatten()`. Inside an ESP the record and the
loader's files fail by themselves (no claim, nothing to boot), and of the
partitions that sysfs lists each entry may be lost alone (`PartsRead`).

**Probe.** One action per read; the scan of the whole drive is three, its front,
its grain and its tail, since it takes tens of seconds on a spinning disk
(`probe.rs:468-471`) and a writer may be behind it or ahead of it. `Write` is
stormblock, or anybody else, laying out a drive that was empty between two
reads (`zeroboot survey` is run by hand on machines that are up). `late`
remembers that this happened behind the scan, where no order of reads could
have noticed. `quiet` says that nobody does so in this behaviour; then the look
must come to what `Judge` computes (`AgreesWithJudge`), which is what entitles
`Boot` to take a look as one step.

**BlankScan.** A drive is a length and the set of its bytes that are not zero.
One action per read: `ReadFront`, `ReadSample`, `ReadTail`, and one for each way
a loop ends; the five sizes of `probe.rs:393-407` are constants. `first` is what
the drive held when the scan began, `used` what it holds now (`Write`), and
`end` where its reads come to an end: `Shrink` is a drive that goes, or answers
short without an error, in the middle of the scan.

**Survey.** The code sorts lists and uses their first element; the model has a
set and the order. `SurveyWalk` has the lists too, each as what a stable sort of
the drives returns: the list that is in order by key, and by place where keys
tie. `IntentIsTheLists` compares them on every machine of up to three drives.

**Boot.** Each node goes through `off`, `list`, `look` (one name at a time),
then either `init`, or `claim` and `write` (the truncate and the write of
`write_claim`) and `init`; then `up`, or `flow` while stormblock lays out a
drive. A node knows drives only by device name; `PowerOn` deals the names out
anew. `PowerOff` may come at any step, and a claim being written is then the
old one, none, or the new one. `Claim` is `zeroboot claim` on a machine that is
up; its check is one step, and the write the next two. It reads through the
same `esp::read` as the look, so a record that it cannot read is no claim. `missed` remembers what
failed in this boot, so that a property can say what it rests on. The actions
of init and stormblock are external and follow `README.md:107-168` of the
repository: `LayTable` is the first write of the flow-over, behind
stormblock's own guard on data slabs, and `Layouts` the slabs it may lay, in the
order of their partitions. Which order that is, nothing in this repository
fixes; the passing runs have the system slab first and the data slab first.

**BootImage.** One action per write of `build`; files of the ESP are begun and
finished, because `create_file` and the copy are two things. `Fail` is an error
or a kill at any step. `EspBoots` is `esp::read` on whatever is there.

**ClaimClock.** One action per turn of each loop: years, then months, counted
off the days since 1970. A month past December would index outside the array
and panic, in the middle of a boot; `panicked` is that state. The result is
compared with `DayNumber`, the calendar without a loop.

**ApplyManifests.** `Start` begins a run on some manifests; then the tries of
the shell's wait, and for each manifest POST, on a conflict GET and PUT with
the revision that was read. The apiserver is external: it answers 409 and 404,
keeps a revision per object, and serves a custom resource only a while after
its definition (`Needs`, `Establish`). A try of the wait may be taken and not
answered (`TakenUnanswered`, `asked`), for as long as the apiserver likes: its
`curl` has no time limit (`bootstrap-cluster.sh:153`). The script's own requests
have 30 seconds; `URLError` and that timeout are not caught and end it (`Dies`),
and what it had sent may still arrive, in a later run even (`late`). `excuse` says that something happened in
this run that the script cannot help.

## Runs

| run | what it asks | bounds | distinct states |
|---|---|---|---|
| `probe` | every shape of drive, any set of failing reads, a writer in between | 170 drives of up to 2 partitions | 506 k |
| `scan` | the loops of `first_nonzero`, with a writer and a drive that goes | drives of up to 17 bytes, grain 7 | 571 k |
| `survey_walk` | the intent of every machine | 11 kinds of drive, 3 drives | 1.5 k |
| `boot` | ownership over boots, moves, claims, power cuts; silent drives, no name | 2 nodes, 2 disks, 2 names; slabs in either order | 1.7 M |
| `boot_shared` | a LUN both machines reach; silent drives, no name, failing claims | same | 92 k |
| `boot_esp_error` | *violation*: claims are a ledger, though an ESP cannot be read | as `boot` | |
| `boot_data_first` | *violation*: an assimilated node boots locally, data slab first | same | |
| `boot_claim_race` | *violation*: claims are a ledger, on a shared LUN | same | |
| `boot_image` | a build stopped anywhere and run again | slab of up to 2 MiB | 3.5 k |
| `boot_image_binary` | *violation*: what was built reads back as bootable | 1 MiB | |
| `manifests` | runs that follow on runs that died, late requests, other clients | 3 runs, 2 disturbances | 132 k |
| `claim_clock` | the date of every claim, and of the next one | the turns of 4 years | 375 k |

**Why the bounds are enough.** A drive of two partitions has every case of the
slab loop: the slab on the whole drive, on the first or on the second
partition, behind a partition that does not open, and two slabs on one drive.
Three drives are what an order needs to be wrong about ties. Two nodes
and two disks are the least on which a disk can be another's, a node can own one
disk and be offered the other, and two nodes can meet on one LUN; two names are
what lets names be swapped. `Boot`, `Probe` and `BootImage` bound no counter:
they run over a finite state.

The sizes in `MCBlankScan.cfg` stand in the order of those of `probe.rs`
(sample, tail, front, grain), and share no divisor, so that the loops end off
the boundaries as well as on them; 17 bytes are two grains and a piece, and every
length below is a drive too. Three runs are what it takes for a request of the
first to meet what the third reads from the second, and two disturbances for a
run that dies and another client beside it; `MaxRuns` and `Troubles` are the
bounds in the guards. The years
of `claim_clock` are of every kind of the calendar: 1972 leaps, 2000 leaps
although it is a century, 2100 does not, and 2101 follows it; the days are those
around the ends of the year and of February. Where TLC's instance is small the
invariants are also proved for any size (below).

**The worlds of `Boot`.** `Crowded` puts two disks in one chassis and leaves
the other empty: two empty disks, an empty one with a disk nobody claimed or
one that the other node claimed, or both of those. `Shared` gives each machine
the same LUN: an empty one beside a disk of the first machine, or a laid-out one
that is all there is. A disk that `LaidOut(_, TRUE)` describes boots;
with the finding on kernels below, such a disk exists only with a kernel that
is text, and with a real one `esp.boot` is none, the `FALSE` of the model.

**Deadlock** is checked in every run. A finished look, scan or walk over the
drives stutters, as does the script after its last run; `Boot`, `BootImage` and
`ClaimClock` never stop.

## Properties

Look (`Probe`): `BlankIsUntouched` (the verdict that leads to a format, at the
step it is reached: the drive is empty *at that moment*, unless somebody wrote
behind the scan), `ClaimIsDecisive`, `MineIsALocalSlab`, `AgreesWithJudge`.

Scan (`BlankScan`): `LongStretchesAreFound` (no stretch of non-zero bytes
longer than a grain less a sample is missed, which is what entitles a sample to
speak for a drive), `EndsAreRead` (front and tail held nothing; a drive shorter
than the grain held nothing at all), `FoundIsFirst`, `AnswersForItsSample` (the
answer is about the sample, all of it and nothing else, where the sample is
given by its grid and not by the loops).

Decision (`SurveyWalk`): `IntentIsTheLists`, `NamesDoNotDecide` (renaming the
drives changes nothing but a tie), `OwnershipIsSticky` (a drive looked at later
never unmakes ownership).

Boots (`Boot`): `RootIsNotAnothers` (the identity a node boots with),
`OneWriterPerDisk`, `FormatsOnlyUntouched` (the survey's Blank is still true
when the format happens), `NothingOfferedWhileOwning`, `BootedIsClaimed`,
`SentBackForWantOfASystem` (a node that flowed over onto a drive asks the
appliance only when that drive does not begin with its system slab, and then it
is offered nothing), and `ClaimsAreALedger`, which is refinement: the claims
on the disks, mapped to `Ownership!owner`, take only the steps of that
specification. Each states, as a premise, which reads it needs
(`missed`): that premise is the honest part of the promise, and the
violation runs show where it cannot be dropped.

Build (`BootImage`): `ReportedIsWhole`, `ReportedIsKept`, `BootsOnlyWhole`,
`TextReadsBack`.

Bootstrap (`ApplyManifests`): `AppliedMeansAccepted` (who reads "all manifests
applied" can rely on it), `UndisturbedRunApplies` (the script can be run again,
whatever earlier runs left half-done), `OldRunsStayOld` (a request that was given
up on and arrives late never replaces what a later run wrote).

Dates (`ClaimClock`): `DateIsRight`, and `ClaimsReadInOrder`, which relates one
claim to the next: what was claimed later reads later, unless the clock went back.

Liveness: `LookEnds`, `ScanEnds`, `BootEnds`, `RunEnds`, `DateIsFound`. The
fairness is weak fairness of the program that runs: `Look`, `Scan`, `Script`,
`Count`, and `Zeroboot(n) \/ Claiming(n)` for each node of `Boot`. The code has
no lock on these paths, so all it needs is that system calls return and that the
script's requests are answered or run into their timeout. The wait counts its
tries, but a try has no timeout: while one is taken and not answered (`asked`)
there is no fairness, and `RunEnds` allows a run that stays there for ever, and
no other that does not end. Nothing is assumed of power, operators, init,
stormblock or the apiserver: `BootEnds` allows the power to go, and `RunEnds`
the server to stay away.

Every property of a passing run has a mutant in `PROJECT.json`: a plausible
bug in one mapped definition (in the modules, "a plausible slip") under which
the property fails. What can go wrong in this code that a test would hardly
reach is listed under `hazards`, with the properties that would catch it.

## What the runs found

1. **A claim that cannot be read is no claim** (`boot_esp_error`). An error of
   `esp::read`, or an unreadable record, makes another node's disk Mine, and
   `claim_on_boot` then replaces the claim: `probe.rs:181`, `main.rs:322-339`.
   `zeroboot claim` reads the same way (`main.rs:393`): an unreadable record
   passes its guard without `--force`.
2. **A kernel must be UTF-8** (`boot_image_binary`). `read_file` returns `None`
   for other bytes (`esp.rs:279`), so a disk with a real kernel is "named by the
   loader entry … not on the ESP" and never boots locally. The tests use text.
3. **The first slab wins** (`boot_data_first`). With a data slab on the
   partition that sorts first, the system slab is never seen
   (`probe.rs:242-302`), and an assimilated node goes back to the appliance for
   ever. The flow-over drive of the repository's own test is laid out like that:
   data on `/dev/sda1`, system on `/dev/sda2` (`survey.rs:489-498`). What holds
   in either order is `SentBackForWantOfASystem`.
4. **Check, then write** (`boot_claim_race`). Two `zeroboot claim`s on one LUN
   both find it unclaimed, and the later one wins without `--force`.

Further places where the code and the words beside it differ; they need no run to
be seen:

- `available` prefers solid state to size (`survey.rs:197-201`); the comment
  above it (`survey.rs:192`) says the largest comes first.
- A node whose own drive does not answer in one boot offers another drive for a
  second flow-over (`survey.rs:234`), where `README.md:160` of the repository says
  an owner is offered nothing: what cannot be read is not counted as owned.
- `removable` and the transport have defaults when they cannot be read
  (`probe.rs:170`, `376`), so a USB stick or a LUN may be judged Blank, where
  `probe.rs:15-17` says every verdict rests on something that was read. The
  proofs below name these two reads as assumptions.
- `probe.rs:466` says the front is read whole, but a read that returns nothing
  ends the loop (`probe.rs:484-486`): a drive that goes in the middle of a scan
  without an error is called Blank. `BlankScan` has that case (`Shrink`), and its
  properties speak of drives that did not (`end = len`).

## Proofs

TLAPS proves, for any number of nodes, disks and names, any drives, sizes,
manifests and years:

| theorem | says | assumes |
|---|---|---|
| `ProbeProofs!Typing`, `ClaimDecides`, `MineIsMine`, `BlankIsBlank` | `TypeOK`, `ClaimIsDecisive`, `MineIsALocalSlab`, `BlankIsUntouched` | `ProbeAssumption` |
| `ProbeProofs!ReadsAgree`, `LookKeepsAdvancing` | `AgreesWithJudge`, `LookAdvances` | the same |
| `ScanProofs!ScanTyping`, `LongIsFound`, `EndsAreEmpty`, `FirstIsFound` | `TypeOK`, `LongStretchesAreFound`, `EndsAreRead`, `FoundIsFirst` | `ScanAssumption` |
| `ScanProofs!AnswersItsSample`, `ScanKeepsAdvancing` | `AnswersForItsSample`, `ScanAdvances` | the same |
| `SurveyProofs!ListsDecide`, `NamesAreIdle`, `OwnershipSticks` | `IntentIsTheLists`, `NamesDoNotDecide`, `OwnershipIsSticky` | `WalkAssumption` |
| `BootProofs!Typing` | `TypeOK` of `Boot` | `BootAssumption` |
| `BootProofs!AlwaysConcludes`, `BootKeepsAdvancing` | the survey has exactly one answer; `BootAdvances` | the same |
| `BootProofs!NotAnothers`, `OneWriter` | `RootIsNotAnothers`, `OneWriterPerDisk` | the transport can be read |
| `BootProofs!OnlyUntouched` | `FormatsOnlyUntouched` | transport and `removable` can be read |
| `BootProofs!BootsOnRecord` | `BootedIsClaimed` | the transport can be read |
| `BootProofs!LedgerKept` | `ClaimsAreALedger`: `Boot` implements `Ownership` | transport and ESPs can be read, no disk is remote |
| `BootProofs!SentBackOnlyForWantOfASystem` | `SentBackForWantOfASystem` | transport and `removable` can be read |
| `BootProofs!OwnsNothingWhenOffering` | `NothingOfferedWhileOwning` | transport and `removable` can be read, no disk is removable or empty |
| `ImageProofs!ImageTyping`, `Reported`, `Stays`, `Bootable`, `ReadsBack` | `TypeOK`, `ReportedIsWhole`, `ReportedIsKept`, `BootsOnlyWhole`, `TextReadsBack` | `ImageAssumption` |
| `ManifestProofs!ManifestTyping`, `AppliedIsAccepted`, `UndisturbedApplies`, `OldStaysOld` | `TypeOK`, `AppliedMeansAccepted`, `UndisturbedRunApplies`, `OldRunsStayOld` | `ManifestAssumption` |
| `ManifestProofs!RunKeepsAdvancing` | `RunAdvances` | the same |
| `ClockProofs!ClockTyping`, `DatesAreRight`, `ClaimsInOrder` | `TypeOK`, `DateIsRight`, `ClaimsReadInOrder` | `ClockAssumption` |
| `ClockProofs!MonthsSuffice`, `LoopsAdvance` | the table of months is never overrun; both loops end | the same |

**Assumptions.** `NoNodeAssumption`: no node is called "nobody".
`ProbeAssumption` and `BootAssumption` type the constants and say two things
about the world. A drive with partitions or an ESP has its table in the first or
the last megabyte (`TableInSight`), as a GPT has. A disk that is not remote is
in one bay (`Apart`). The transport must be readable because
`remote_transport` takes a failure for "attached here": with it failing,
`OneWriterPerDisk` is false, and that is what its mutant shows. The other
premises of `LedgerKept` are those that findings 1 and 4 drop. `ScanAssumption` orders the sizes as `probe.rs` has them, and
`ClockAssumption` says that a second of a day is less than 86400.
`WalkAssumption` says that a judged drive is what `struct Drive` and `Verdict` can
hold, where only `Mine` carries a slab and its role.

**Probe.** `Inv` says, at each point of the program, what the values read so far
still say about the drive. A drive can change in between, but only from
untouched to laid out, and one that is laid out is never written again in a
look, so whatever was read as *there* stays there; the reads on which Mine
rests come in an order that makes this enough. `BlankIsBlank` needs only the
scan: each of its three steps reads a part of what `Untouched` speaks of.
`ReadsAgree` has an invariant of its own, `Agreeing`: with nobody writing, what
was read is what the drive and the reads that failed so far give, and what the
look passed over, `Judge` passes over too.

**Scan.** What was seen held nothing at first; what was seen is, at each point,
everything before the offset (`SeenFront`), one sample of every grain before it
(`SeenGrain`), or both and the tail (`SeenAll`). A stretch longer than the gap
between two samples then meets one of them, or the tail. `AnswersItsSample` says
more: the offsets the second loop stands on are those of the grid from the end
of the front on (`GridSteps`), none is left out and none is read beside it, so
what was seen at the end *is* the sample.

**Survey.** The one thing the code and the model do differently is that the code
sorts. `JudgementProofs` shows, for any finite set with a strict total order,
that something in it comes first (`FirstExists`, `FirstIsOne`), that the set has
a sorted list (`SortedExists`), and that what comes first in the set heads every
such list (`FirstInList`). Both are inductions on the size of the set; they are
made through the least size at which the claim would fail (`LeastNatural`, from
the library's `WFMin`), since the induction theorems themselves take an operator.
`BootsBefore` and `TakenBefore` are such orders (`BootOrders`, `TakeOrders`), the
key first and then the place. So the head of each list is the drive that
`Intents` chooses, the intent is unique (`OneIntent`), and `ListsDecide` follows.
`NamesAreIdle` renames: sets of drives are carried along by the renaming, so the
kind of intent stays, and a drive that is first under one naming and not under
the other ties with the one that took its place in all that the order looks at
before the name.

**Boot, types.** `TypeInv` is `TypeOK`, that tables stay in sight, and what each
node carries where: what a node saw is `NotSeen` outside the survey, a task is
empty unless a claim is under way, a blank drive was seen with no ESP,
`boot-local` names a slot with a drive. Without the last ones
`bay[n][out[n].drive]` has no type at all.

**Boot, safety.** `Inv` adds, per node: it knows itself or nobody; each drive it
saw is behind that name still, and its verdict still holds where it decides
something; what it told init is a drive that is local and not another's, or one
untouched; likewise its root and its target; and a claim is written only to a
disk behind one of its names. The argument is that the only disks a
running node does not have to itself are remote; a remote disk is never Mine
and never Blank; and a local one is written only from the chassis it is in,
which cannot change while that chassis is on. So no other node's step disturbs
what this node rests on, and its own steps are its own program.

`Fresh` takes this further: what a survey remembers of a local disk *is* what a
look would still find there, with no more reads failing than were missed. The
later theorems stand on it. `LedgerKept` needs that a claim on boot goes only
where there is none (`Unforced`), which the survey saw and which is still so.
`Recording` follows the claim of a boot through its truncate and its write, to
the machine that runs from the disk (`BootsOnRecord`). `LaidOutSoundly` says
what a flow-over leaves, in whichever order, which nobody can claim since it has
no ESP; a survey that missed nothing therefore calls a disk it laid out Mine,
and when the system slab is the first of it that disk boots, so the appliance is
asked only when it is not (`AsksWithReason`).

**BootImage.** Files appear in order, so an entry that is there has all before it
whole; a build that is not idle has nothing reported.

**Manifests.** Revisions only grow, and no PUT that is on its way carries one
that a later run has seen (`Revisions`, `NotOutrun`): it meets a newer one and is
refused. What was not accepted was counted as a failure (`Counted`). While
nothing excuses a run, each step leaves only what the next can deal with
(`Calm`).

**Clock.** The days counted off and the days left are the days since 1970, and
what is left when the first loop ends fits in the year it ended on (`Running`);
so the months do not run out (`MonthsSuffice`). `DateIsRight` then ties each date to
the day it stands for, and the days at which years and months begin grow with
them (`YearsInOrder`, `MonthsInOrder`): the later of two days cannot have the
earlier year or month, which is `ClaimsInOrder`.

**Progress.** The liveness properties have a part that owes nothing to fairness.
`LookAdvances`, `ScanAdvances`, `BootAdvances`, `RunAdvances` and `LoopsAdvance`,
stated beside their proofs, give each program a count of the steps it has left,
or its reads an order: its own steps go down that count and nobody else's go up
it. No failure is tried for ever, no loop stands still, no writer, server,
operator or other machine sends a program back. Each is proved from the type
invariant, or the clock's invariant, and where the count has several parts from
a lemma that spells it out per point of the program (`StepsLeftIs`). In `Boot` a
step of another machine leaves all of a node's own state alone (`OthersStill`),
which is why it leaves the count alone. `AlwaysConcludes` is what makes the last
count of a survey real: a finished one has an intent to act on, so the decision
can be made, and in only one way.

**Model-checked only.** Every invariant and every action property of a passing
run has a theorem. The five liveness properties have none: they rest on fairness,
hence on ENABLED, which is out of the prover's reach. What is proved of them is
that the steps are bounded (**Progress**); that the program takes the next one
is checked by TLC. No recursive definition is used in a module with theorems,
because what one computes for every input would again be an induction with an
operator as a parameter.

## What is left out

- The options `--node`, `--device`, `--no-claim`, `--report`.
- Which names of `/sys/block` are drives at all (`probe.rs:141-160`).
- Hot-plug during a boot: names hold from power-on to power-off.
- The bytes: how entries, claims and slab lines are parsed; which signatures
  there are.
- What a flow-over migrates onto its slabs; the model ends when they are laid.
- Two builders writing one image at a time.
- The shell contract of `emit` and `sh_quote`, the JSON report: formatting with
  no state.
- The bootstrap before the manifests: it makes certificates, copies files and
  starts units with fixed sleeps between, and reacts to nothing that happens.
- The initramfs packing script and the test deployment.

## What could come next

1. Hot-plug in `Boot`, as a second kind of world: a name that comes to stand
   for another drive between the survey and what acts on it.
2. Two builders in `BootImage`.
