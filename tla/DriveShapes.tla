---------------------------- MODULE DriveShapes -----------------------------
(***************************************************************************)
(* The drives the models are checked on: one of every shape that look_at   *)
(* and judge tell apart.                                                   *)
(***************************************************************************)
EXTENDS Judgement

Attached(shape, bytes, isRemovable, isRemote) ==
    [size |-> bytes, rotational |-> FALSE, removable |-> isRemovable,
     remote |-> isRemote, head |-> shape.head, tail |-> shape.tail,
     rest |-> shape.rest, parts |-> shape.parts, esp |-> shape.esp]

\* A drive with no partition table: empty, bare slab, filesystem or noise.
Bare(head, tail, rest) ==
    [head |-> head, tail |-> tail, rest |-> rest, parts |-> << >>, esp |-> NoEsp]

EmptyShape == Bare("zero", "zero", "zero")

\* A drive with a GPT, which has its backup in the tail.
Table(contents, espThere) ==
    [head |-> "signature", tail |-> "signature", rest |-> "zero",
     parts |-> contents, esp |-> espThere]

\* What boot-image lays out: an ESP and a slab beside it.
LaidOut(claim, boots) ==
    Table(<<"other", "system">>, [present |-> TRUE, claim |-> claim, boot |-> boots])

\* What the flow-over lays out: slabs and no ESP.
FlowedOver(slabs) == Table(slabs, NoEsp)
=============================================================================
