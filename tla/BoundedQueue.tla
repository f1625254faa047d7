----------------------------- MODULE BoundedQueue -----------------------------
(***************************************************************************)
(* What Pipeline<R> of shell/common/pipeline.h promises to the two threads *)
(* that share it: a first-in first-out queue that, with the item being     *)
(* consumed, never holds more than Depth items.                            *)
(***************************************************************************)
EXTENDS Naturals, Sequences

CONSTANTS
    Depth,    \* the depth the pipeline is constructed with
    Values    \* what can be pushed

VARIABLES
    contents,  \* the items, oldest first
    busy       \* the item being consumed: a sequence of at most one

Init == contents = <<>> /\ busy = <<>>

Put == /\ Len(contents) + Len(busy) < Depth
       /\ \E x \in Values : contents' = Append(contents, x)
       /\ UNCHANGED busy

Take == /\ contents # <<>>
        /\ busy = <<>>
        /\ busy' = <<Head(contents)>>
        /\ contents' = Tail(contents)

Done == /\ busy # <<>>
        /\ busy' = <<>>
        /\ UNCHANGED contents

Next == Put \/ Take \/ Done

Spec == Init /\ [][Next]_<<contents, busy>>
=============================================================================
