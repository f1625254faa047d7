---------------------------- MODULE PipelineProofs ----------------------------
(***************************************************************************)
(* What holds of the Pipeline for every depth and every set of items.      *)
(*                                                                         *)
(* PipelineInv is inductive as a whole.  The two countings need each other *)
(* only through the pop: that the deque is not empty when the consumer     *)
(* pops follows from SignalAccounting, and the length it leaves behind is  *)
(* what SlotAccounting counts.                                             *)
(***************************************************************************)
EXTENDS Pipeline, TLAPS

\* Popping takes the first item and leaves the rest of a non-empty deque.
LEMMA PopFacts ==
    ASSUME NEW S, NEW s \in Seq(S), Len(s) > 0
    PROVE  /\ PopFront(s).head \in S
           /\ PopFront(s).head = Head(s)
           /\ PopFront(s).rest = Tail(s)
           /\ PopFront(s).rest \in Seq(S)
           /\ Len(PopFront(s).rest) = Len(s) - 1
  BY DEF PopFront

LEMMA InitInv == Init => PipelineInv
  <1> SUFFICES ASSUME Init PROVE PipelineInv
    OBVIOUS
  <1>1. TypeOK
    <2>1. queue \in Seq(Items \cup {Null}) /\ item \in Items \cup {Null}
      BY DEF Init
    <2>2. empty \in Nat /\ available \in Nat /\ itemsCount \in Nat
      BY DepthAssumption DEF Init
    <2>3. continuation \in BOOLEAN /\ isFirst \in BOOLEAN
      BY Zenon DEF Init
    <2>4. QED BY <2>1, <2>2, <2>3 DEF Init, TypeOK
  <1>2. Len(queue) = 0
    BY DEF Init
  <1>3. SlotAccounting /\ SignalAccounting
    BY <1>2, DepthAssumption DEF Init, SlotAccounting, SignalAccounting, B
  <1>4. QED BY <1>1, <1>3 DEF PipelineInv

\* Every step of the producer keeps the two countings.
LEMMA ProducerInv ==
    ASSUME PipelineInv, ProducerStep PROVE PipelineInv'
  <1> USE DEF PipelineInv, TypeOK, SlotAccounting, SignalAccounting, B
  <1>1. CASE Produce
    BY <1>1 DEF Produce
  <1>2. ASSUME NEW x \in Items \cup {Null}, Push(x) PROVE PipelineInv'
    <2>1. queue' \in Seq(Items \cup {Null}) /\ Len(queue') = Len(queue) + 1
      BY <1>2 DEF Push
    <2>2. isFirst' \in BOOLEAN
      BY <1>2 DEF Push
    <2>3. TypeOK'
      BY <1>2, <2>1, <2>2 DEF Push
    <2>4. (SlotAccounting /\ SignalAccounting)'
      BY <1>2, <2>1 DEF Push
    <2>5. QED BY <2>3, <2>4
  <1>3. CASE SignalPushed
    <2>1. TypeOK'
      BY <1>3 DEF SignalPushed
    <2>2. SlotAccounting'
      BY <1>3 DEF SignalPushed
    <2>3. SignalAccounting'
      BY <1>3 DEF SignalPushed
    <2>4. QED BY <2>1, <2>2, <2>3
  <1>4. QED BY <1>1, <1>2, <1>3 DEF ProducerStep

\* Every step of the consumer keeps the two countings.
LEMMA ConsumerInv ==
    ASSUME PipelineInv, ConsumerStep PROVE PipelineInv'
  <1> USE DEF PipelineInv, TypeOK, SlotAccounting, SignalAccounting, B
  <1>1. CASE Claim
    BY <1>1 DEF Claim
  <1>2. CASE Pop
    <2>1. Len(queue) > 0
      BY <1>2 DEF Pop
    <2>2. /\ item' \in Items \cup {Null} /\ queue' \in Seq(Items \cup {Null})
          /\ Len(queue') = Len(queue) - 1
      BY <1>2, <2>1, PopFacts DEF Pop
    <2>3. QED BY <1>2, <2>1, <2>2 DEF Pop
  <1>3. CASE Release
    BY <1>3 DEF Release
  <1>4. CASE ProduceIfEmpty
    BY <1>4 DEF ProduceIfEmpty
  <1>5. CASE PushBack
    <2>1. queue' \in Seq(Items \cup {Null}) /\ Len(queue') = Len(queue) + 1
      BY <1>5 DEF PushBack
    <2>2. QED BY SMTT(30), <1>5, <2>1 DEF PushBack
  <1>6. CASE BailOut
    BY <1>6 DEF BailOut
  <1>7. CASE SignalPushedBack
    BY <1>7 DEF SignalPushedBack
  <1>8. CASE Return
    BY <1>8 DEF Return
  <1>9. QED BY <1>1, <1>2, <1>3, <1>4, <1>5, <1>6, <1>7, <1>8 DEF ConsumerStep

LEMMA StepInv == PipelineInv /\ [PipelineNext]_pipelineVars => PipelineInv'
  <1> SUFFICES ASSUME PipelineInv, [PipelineNext]_pipelineVars PROVE PipelineInv'
    OBVIOUS
  <1>1. CASE PipelineNext
    BY <1>1, ProducerInv, ConsumerInv DEF PipelineNext
  <1>2. CASE UNCHANGED pipelineVars
    BY <1>2 DEF pipelineVars, PipelineInv, TypeOK, SlotAccounting, SignalAccounting
  <1>3. QED BY <1>1, <1>2

\* Types, slots and announcements, in every reachable state.
THEOREM PipelineInvariant == PipelineSpec => []PipelineInv
  BY InitInv, StepInv, PTL DEF PipelineSpec

\* No slot of the pipeline is lost or used twice, whatever the interleaving of
\* producer and consumer.
THEOREM SlotsAreAccounted == PipelineSpec => []SlotAccounting
  <1>1. PipelineInv => SlotAccounting
    BY DEF PipelineInv
  <1>2. QED BY <1>1, PipelineInvariant, PTL

\* Every queued item is announced exactly once, so the pop of Consume never
\* meets an empty deque.
THEOREM SignalsAreAccounted == PipelineSpec => []SignalAccounting
  <1>1. PipelineInv => SignalAccounting
    BY DEF PipelineInv
  <1>2. QED BY <1>1, PipelineInvariant, PTL

-----------------------------------------------------------------------------
\* The state of BoundedQueue the pipeline stands for.
busyOf == IF consumer = "consuming" THEN <<item>> ELSE <<>>

LEMMA RefinedInit == Init => Bounded!Init
  BY DEF Init, Bounded!Init

\* A push by either side finds room: the slot was claimed before.
LEMMA RefinedProducer ==
    ASSUME PipelineInv, ProducerStep
    PROVE  Bounded!Put \/ UNCHANGED <<queue, busyOf>>
  <1>1. CASE Produce
    BY <1>1 DEF Produce, busyOf
  <1>2. ASSUME NEW x \in Items \cup {Null}, Push(x) PROVE Bounded!Put
    <2>1. Len(queue) + Len(busyOf) < Depth
      BY <1>2, DepthAssumption DEF Push, PipelineInv, TypeOK, SlotAccounting, B, busyOf
    <2>2. queue' = Append(queue, x) /\ UNCHANGED busyOf
      BY <1>2 DEF Push, busyOf
    <2>3. QED BY <2>1, <2>2 DEF Bounded!Put, busyOf
  <1>3. CASE SignalPushed
    BY <1>3 DEF SignalPushed, busyOf
  <1>4. QED BY <1>1, <1>2, <1>3 DEF ProducerStep

LEMMA RefinedConsumer ==
    ASSUME PipelineInv, ConsumerStep
    PROVE  Bounded!Next \/ UNCHANGED <<queue, busyOf>>
  <1>1. CASE Claim
    BY <1>1 DEF Claim, busyOf
  <1>2. CASE Pop
    <2>1. queue \in Seq(Items \cup {Null}) /\ Len(queue) > 0
      BY <1>2 DEF Pop, PipelineInv, TypeOK, SignalAccounting, B
    <2>2. item' = Head(queue) /\ queue' = Tail(queue) /\ queue # <<>>
      BY <1>2, <2>1 DEF Pop, PopFront
    <2>3. busyOf = <<>> /\ busyOf' = <<Head(queue)>>
      BY <1>2, <2>2 DEF Pop, busyOf
    <2>4. QED BY <2>2, <2>3 DEF Bounded!Next, Bounded!Take, busyOf
  <1>3. CASE Release
    BY <1>3 DEF Release, Bounded!Next, Bounded!Done
  <1>4. CASE ProduceIfEmpty
    BY <1>4 DEF ProduceIfEmpty, busyOf
  <1>5. CASE PushBack
    <2>1. Len(queue) + Len(busyOf) < Depth
      BY <1>5, DepthAssumption DEF PushBack, MayPushBack, PipelineInv, TypeOK, busyOf
    <2>2. /\ queue' = Append(queue, item) /\ UNCHANGED busyOf
          /\ item \in Items \cup {Null}
      BY <1>5 DEF PushBack, busyOf, PipelineInv, TypeOK
    <2>3. QED BY <2>1, <2>2 DEF Bounded!Next, Bounded!Put, busyOf
  <1>6. CASE BailOut
    BY <1>6 DEF BailOut, busyOf
  <1>7. CASE SignalPushedBack
    BY <1>7 DEF SignalPushedBack, busyOf
  <1>8. CASE Return
    BY <1>8 DEF Return, busyOf
  <1>9. QED BY <1>1, <1>2, <1>3, <1>4, <1>5, <1>6, <1>7, <1>8 DEF ConsumerStep

\* The pipeline is a first-in first-out queue that, with the item being
\* consumed, never holds more than Depth items.
THEOREM Refinement == PipelineSpec => ImplementsBoundedQueue
  <1>1. PipelineInv /\ [PipelineNext]_pipelineVars
            => [Bounded!Next]_<<queue, busyOf>>
    <2> SUFFICES ASSUME PipelineInv, [PipelineNext]_pipelineVars
                 PROVE  Bounded!Next \/ UNCHANGED <<queue, busyOf>>
      OBVIOUS
    <2>1. CASE PipelineNext
      BY <2>1, RefinedProducer, RefinedConsumer DEF PipelineNext, Bounded!Next
    <2>2. CASE UNCHANGED pipelineVars
      BY <2>2 DEF pipelineVars, busyOf
    <2>3. QED BY <2>1, <2>2
  <1>2. QED BY <1>1, RefinedInit, PipelineInvariant, PTL
            DEF PipelineSpec, ImplementsBoundedQueue, Bounded!Spec, busyOf
=============================================================================
