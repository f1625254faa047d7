------------------------------- MODULE Pipeline -------------------------------
(***************************************************************************)
(* The pipeline of layer trees between the UI thread and the raster thread *)
(* (shell/common/pipeline.h).                                              *)
(*                                                                         *)
(* Two counting semaphores bracket a deque under a mutex: empty_ counts    *)
(* the slots nobody has claimed, available_ the items the consumer may     *)
(* claim.  A slot claimed by Produce is a continuation the producer owes a *)
(* Complete; one that is dropped pushes a null item in its place.  The     *)
(* consumer may claim a slot for itself, to push an item back if nothing   *)
(* was pushed in the meantime (ProduceIfEmpty).                            *)
(*                                                                         *)
(* The semaphores are touched outside of the mutex, so pushing and         *)
(* signalling, and claiming and popping, are separate steps.  The failing  *)
(* TryWaits of Produce, ProduceIfEmpty and Consume change nothing, and     *)
(* inflight_, which is only traced, is left out.                           *)
(***************************************************************************)
EXTENDS Integers, Sequences

CONSTANTS
    Depth,   \* constructor argument: 2, or 1 when platform and raster share a thread
    Items,   \* the layer trees
    Null     \* what the continuation that is dropped commits

ASSUME DepthAssumption == Depth \in Nat \ {0}
ASSUME NullAssumption == Null \notin Items

VARIABLES
    empty,         \* count of empty_
    available,     \* count of available_
    queue,         \* queue_
    continuation,  \* the producer holds a continuation
    producer,      \* where the producer is in ProducerCommit
    isFirst,       \* is_first_item of the last commit
    consumer,      \* where the consumer is
    item,          \* the item the consumer is given
    itemsCount     \* items_count of Consume

pipelineVars == <<empty, available, queue, continuation, producer,
                  isFirst, consumer, item, itemsCount>>

\* Every variable has its type: the semaphores never go below zero.
TypeOK ==
    /\ empty \in Nat /\ available \in Nat
    /\ queue \in Seq(Items \cup {Null})
    /\ continuation \in BOOLEAN
    /\ producer \in {"idle", "pushed"}
    /\ isFirst \in BOOLEAN
    /\ consumer \in {"idle", "claimed", "consuming", "done", "retrying", "pushedBack"}
    /\ item \in Items \cup {Null}
    /\ itemsCount \in Nat

Init ==
    /\ empty = Depth /\ available = 0
    /\ queue = <<>>
    /\ continuation = FALSE /\ producer = "idle" /\ isFirst = FALSE
    /\ consumer = "idle" /\ item = Null /\ itemsCount = 0

(***************************************************************************)
(* The producer.                                                           *)
(***************************************************************************)
Produce ==
    /\ ~continuation /\ producer = "idle"
    /\ empty > 0
    /\ empty' = empty - 1
    /\ continuation' = TRUE
    /\ UNCHANGED <<available, queue, producer, isFirst, consumer, item, itemsCount>>

\* ProducerCommit up to the release of queue_mutex_, as Complete calls it.
Push(x) ==
    /\ continuation /\ producer = "idle"
    /\ isFirst' = (queue = <<>>)
    /\ queue' = Append(queue, x)
    /\ continuation' = FALSE
    /\ producer' = "pushed"
    /\ UNCHANGED <<empty, available, consumer, item, itemsCount>>

\* available_.Signal() of ProducerCommit.
SignalPushed_Twice ==   \* mutant: also signalled by the caller
    /\ producer = "pushed"
    /\ producer' = "idle"
    /\ available' = available + 2
    /\ UNCHANGED <<empty, queue, continuation, isFirst, consumer, item, itemsCount>>
SignalPushed ==
    /\ producer = "pushed"
    /\ producer' = "idle"
    /\ available' = available + 1
    /\ UNCHANGED <<empty, queue, continuation, isFirst, consumer, item, itemsCount>>

(***************************************************************************)
(* The consumer: Consume.                                                  *)
(***************************************************************************)
Claim ==
    /\ consumer = "idle"
    /\ available > 0
    /\ available' = available - 1
    /\ consumer' = "claimed"
    /\ UNCHANGED <<empty, queue, continuation, producer, isFirst, item, itemsCount>>

PopFront_Back(s) ==   \* mutant: last in, first out
    [head |-> s[Len(s)], rest |-> SubSeq(s, 1, Len(s) - 1)]
PopFront(s) == [head |-> Head(s), rest |-> Tail(s)]

Pop ==
    /\ consumer = "claimed"
    /\ item' = PopFront(queue).head
    /\ queue' = PopFront(queue).rest
    /\ itemsCount' = Len(queue')
    /\ consumer' = "consuming"
    /\ UNCHANGED <<empty, available, continuation, producer, isFirst>>

\* After the consumer function returned.
Release ==
    /\ consumer = "consuming"
    /\ consumer' = "done"
    /\ empty' = empty + 1
    /\ UNCHANGED <<available, queue, continuation, producer, isFirst, item, itemsCount>>

(***************************************************************************)
(* The consumer: ProduceIfEmpty and ProducerCommitIfEmpty.                 *)
(***************************************************************************)
ProduceIfEmpty ==
    /\ consumer = "done"
    /\ empty > 0
    /\ empty' = empty - 1
    /\ consumer' = "retrying"
    /\ UNCHANGED <<available, queue, continuation, producer, isFirst, item, itemsCount>>

MayPushBack_Always == TRUE   \* mutant: pushed behind the newer items
MayPushBack == queue = <<>>

PushBack ==
    /\ consumer = "retrying"
    /\ MayPushBack
    /\ queue' = Append(queue, item)
    /\ consumer' = "pushedBack"
    /\ UNCHANGED <<empty, available, continuation, producer, isFirst, item, itemsCount>>

BailOut_KeepSlot ==   \* mutant: the slot is not given back
    /\ consumer = "retrying"
    /\ ~MayPushBack
    /\ consumer' = "done"
    /\ UNCHANGED <<empty, available, queue, continuation, producer, isFirst, item, itemsCount>>
BailOut ==
    /\ consumer = "retrying"
    /\ ~MayPushBack
    /\ empty' = empty + 1
    /\ consumer' = "done"
    /\ UNCHANGED <<available, queue, continuation, producer, isFirst, item, itemsCount>>

\* available_.Signal() of ProducerCommitIfEmpty.
SignalPushedBack ==
    /\ consumer = "pushedBack"
    /\ consumer' = "done"
    /\ available' = available + 1
    /\ UNCHANGED <<empty, queue, continuation, producer, isFirst, item, itemsCount>>

\* The caller of Consume is through with its result.
Return ==
    /\ consumer = "done"
    /\ consumer' = "idle"
    /\ UNCHANGED <<empty, available, queue, continuation, producer, isFirst, item, itemsCount>>

-----------------------------------------------------------------------------
(***************************************************************************)
(* The pipeline between any two threads that use it as it is meant to be   *)
(* used: one producer, one consumer.                                       *)
(***************************************************************************)
ProducerStep ==
    \/ Produce
    \/ \E x \in Items : Push(x)
    \/ Push(Null)              \* ~ProducerContinuation
    \/ SignalPushed

ConsumerStep ==
    \/ Claim \/ Pop \/ Release
    \/ ProduceIfEmpty \/ PushBack \/ BailOut \/ SignalPushedBack
    \/ Return

PipelineNext == ProducerStep \/ ConsumerStep

PipelineSpec == Init /\ [][PipelineNext]_pipelineVars

-----------------------------------------------------------------------------
B(p) == IF p THEN 1 ELSE 0

\* No slot is lost and none is used twice: whatever the interleaving, each is
\* free, claimed by a continuation, behind a queued item, or behind the item
\* that is being consumed.
SlotAccounting ==
    empty + B(continuation) + Len(queue) + B(consumer = "consuming")
          + B(consumer = "retrying") = Depth

\* Every queued item is announced once: by the count of available_, by a push
\* whose Signal is still to come, or by the claim of a consumer about to pop.
\* Consume's pop, which does not look, therefore never meets an empty deque.
SignalAccounting ==
    available + B(consumer = "claimed") + B(producer = "pushed")
              + B(consumer = "pushedBack") = Len(queue)

PipelineInv == TypeOK /\ SlotAccounting /\ SignalAccounting

\* The pipeline is the bounded queue of BoundedQueue.
Bounded == INSTANCE BoundedQueue WITH
    Values <- Items \cup {Null},
    contents <- queue,
    busy <- IF consumer = "consuming" THEN <<item>> ELSE <<>>

ImplementsBoundedQueue == Bounded!Spec
=============================================================================
