------------------------ MODULE FrameSchedulingProofs ------------------------
(***************************************************************************)
(* Theorems about FrameScheduling, for every depth, every number of frames *)
(* and requests and every set of secondary callbacks.                      *)
(*                                                                         *)
(* The threads of FrameScheduling only ever move the pipeline by its own   *)
(* steps, so the pipeline's invariant is theirs.  The order of the frames  *)
(* on screen rests on OrderInv: trees are queued in the order they were    *)
(* built, the one being drawn before them all, and the one last drawn      *)
(* before that.  The requests for frames are counted: RequestInv is their  *)
(* accounting with the types, and is inductive.                            *)
(***************************************************************************)
EXTENDS FrameScheduling, PipelineProofs, FiniteSetTheorems

\* A step of the three threads is a step of the pipeline, or leaves it alone.
LEMMA PipelineStep == Next => PipelineNext \/ UNCHANGED pipelineVars
  <1> SUFFICES ASSUME Next PROVE PipelineNext \/ UNCHANGED pipelineVars
    OBVIOUS
  <1> USE DEF PipelineNext, ProducerStep, ConsumerStep
  <1>1. CASE UiNext
    <2>1. CASE UiWork
      <3>1. CASE AwaitVSync \/ DrawLastLayerTree \/ BeginFrameWithContinuation
                   \/ BeginFramePipelineFull \/ EndFrame \/ OnAnimatorDraw
                   \/ AnimatorDestroyed
        BY <3>1 DEF AwaitVSync, DrawLastLayerTree, BeginFrameWithContinuation,
                    BeginFramePipelineFull, EndFrame, OnAnimatorDraw, AnimatorDestroyed
      <3>2. CASE \E id \in SecondaryIds : RunSecondaryCallback(id)
        BY <3>2 DEF RunSecondaryCallback
      <3>3. CASE BeginFrame
        BY <3>3 DEF BeginFrame
      <3>4. CASE CompleteReturns
        BY <3>4 DEF CompleteReturns
      <3>5. QED BY <2>1, <3>1, <3>2, <3>3, <3>4 DEF UiWork
    <2>2. CASE \E r \in BOOLEAN : RequestFrame(r)
      BY <2>2 DEF RequestFrame
    <2>3. CASE \E id \in SecondaryIds : ScheduleSecondaryCallback(id)
      BY <2>3 DEF ScheduleSecondaryCallback
    <2>4. CASE Render
      BY <2>4 DEF Render
    <2>5. CASE DestroyAnimator
      BY <2>5 DEF DestroyAnimator
    <2>6. QED BY <1>1, <2>1, <2>2, <2>3, <2>4, <2>5 DEF UiNext
  <1>2. CASE VsyncNext
    BY <1>2 DEF VsyncNext, TakeCallbacks, PostCallback, PostSecondaryCallback
  <1>3. CASE RasterNext
    <2>1. CASE \E task \in {"Draw", "Redraw"} :
                  BeginDraw(task) \/ DrawNothing(task) \/ SkipDraw(task)
      BY <2>1 DEF BeginDraw, DrawNothing, SkipDraw
    <2>2. CASE \E outcome \in Outcomes : DoDraw(outcome)
      BY <2>2 DEF DoDraw
    <2>3. CASE Resubmit
      BY <2>3 DEF Resubmit
    <2>4. CASE PopItem \/ Resubmitted \/ EndDraw
      BY <2>4 DEF PopItem, Resubmitted, EndDraw
    <2>5. CASE RedrawLastLayerTree \/ ResetRasterizer
      BY <2>5 DEF RedrawLastLayerTree, ResetRasterizer
    <2>6. QED BY <1>3, <2>1, <2>2, <2>3, <2>4, <2>5 DEF RasterNext
  <1>4. QED BY <1>1, <1>2, <1>3 DEF Next

LEMMA PipelineStuttering == [Next]_vars => [PipelineNext]_pipelineVars
  BY PipelineStep DEF vars

\* The threads are built from the steps of the pipeline, so that what is proved
\* of any user of the pipeline holds of them.
LEMMA ThreadsUsePipeline == Spec => PipelineSpec
  <1>1. FrameInit => Init
    BY DEF FrameInit
  <1>2. QED BY <1>1, PipelineStuttering, PTL DEF Spec, PipelineSpec

\* The platform is asked for one vsync for all the callbacks that wait for it.
THEOREM VsyncAwaitedOnce == Spec => []AwaitedOnce
  <1>1. FrameInit => AwaitedOnce
    BY DEF FrameInit, AwaitedOnce, B
  <1>2. AwaitedOnce /\ [Next]_vars => AwaitedOnce'
    <2> SUFFICES ASSUME AwaitedOnce, [Next]_vars PROVE AwaitedOnce'
      OBVIOUS
    <2> DEFINE waiting == <<callback, secondary, awaits>>
    <2>1. CASE UNCHANGED waiting
      BY <2>1 DEF AwaitedOnce
    <2>2. CASE AwaitVSync
      BY <2>2 DEF AwaitVSync, AwaitedOnce, B
    <2>3. ASSUME NEW id \in SecondaryIds, ScheduleSecondaryCallback(id)
          PROVE  AwaitedOnce'
      <3>1. secondary' # {} /\ callback' = callback
        BY <2>3 DEF ScheduleSecondaryCallback
      <3>2. awaits' = 1
        BY <2>3 DEF ScheduleSecondaryCallback, AwaitedOnce, B
      <3>3. QED BY <3>1, <3>2 DEF AwaitedOnce, B
    <2>4. CASE TakeCallbacks
      BY <2>4 DEF TakeCallbacks, AwaitedOnce, B
    <2>5. \/ UNCHANGED waiting \/ AwaitVSync \/ TakeCallbacks
          \/ \E id \in SecondaryIds : ScheduleSecondaryCallback(id)
      <3>1. CASE UNCHANGED vars
        BY <3>1 DEF vars, vsyncVars
      <3>2. CASE UiNext
        BY <3>2 DEF UiNext, UiWork, RequestFrame, RunSecondaryCallback,
             DrawLastLayerTree, BeginFrameAs, BeginFrameWithContinuation, BeginFrame,
             BeginFramePipelineFull, EndFrame, Render, CompleteReturns, OnAnimatorDraw,
             DestroyAnimator, AnimatorDestroyed, vsyncVars
      <3>3. CASE VsyncNext
        BY <3>3 DEF VsyncNext, PostCallback, PostSecondaryCallback
      <3>4. CASE RasterNext
        BY <3>4 DEF RasterNext, BeginDraw, DrawNothing, SkipDraw, PopItem, DoDraw,
             Resubmit, Resubmitted, EndDraw, RedrawLastLayerTree, ResetRasterizer,
             vsyncVars
      <3>5. QED BY <3>1, <3>2, <3>3, <3>4 DEF Next
    <2>6. QED BY <2>1, <2>2, <2>3, <2>4, <2>5
  <1>3. QED BY <1>1, <1>2, PTL DEF Spec

-----------------------------------------------------------------------------
(***************************************************************************)
(* The order of the frames.                                                *)
(***************************************************************************)
\* The rasterizer has a tree in hand that it may still draw.
InHand == consumer = "consuming" \/ status = "kResubmit"

OrderTypes ==
    /\ built \in Nat /\ lastTree \in Nat /\ lastTree <= built
    /\ status \in {"none", "kResubmit", "resubmitted"}
    /\ status = "kResubmit" => consumer \in {"done", "retrying"} /\ item # Null
    /\ consumer = "retrying" => status = "kResubmit"

QueueInOrder ==
    \A i \in 1..Len(queue) : queue[i] # Null =>
        /\ lastTree < queue[i] /\ queue[i] <= built
        /\ \A j \in 1..(i - 1) : queue[j] # Null => queue[j] < queue[i]

HandInOrder ==
    InHand /\ item # Null =>
        /\ lastTree < item /\ item <= built
        /\ \A i \in 1..Len(queue) : queue[i] # Null => item < queue[i]

OrderInv == PipelineInv /\ OrderTypes /\ QueueInOrder /\ HandInOrder

orderVars == <<pipelineVars, built, lastTree, status>>

LEMMA OrderInit == FrameInit => OrderInv
  <1> SUFFICES ASSUME FrameInit PROVE OrderInv
    OBVIOUS
  <1>1. PipelineInv /\ Len(queue) = 0
    BY InitInv DEF FrameInit, Init
  <1>2. OrderTypes
    BY DEF FrameInit, Init, OrderTypes
  <1>3. QueueInOrder /\ HandInOrder
    BY <1>1 DEF FrameInit, Init, QueueInOrder, HandInOrder, InHand
  <1>4. QED BY <1>1, <1>2, <1>3 DEF OrderInv

\* What a step may do to the order: nothing, or one of the steps below.
LEMMA OrderSteps ==
    ASSUME [Next]_vars
    PROVE  \/ UNCHANGED orderVars
           \/ Render
           \/ /\ Produce \/ SignalPushed \/ Push(Null) \/ Claim \/ SignalPushedBack
              /\ UNCHANGED <<built, lastTree, status>>
           \/ PopItem
           \/ \E outcome \in Outcomes : DoDraw(outcome)
           \/ Resubmit
           \/ EndDraw
  <1>1. CASE UNCHANGED vars
    BY <1>1 DEF vars, uiVars, rasterVars, orderVars
  <1>2. CASE UiNext
    BY <1>2 DEF UiNext, UiWork, RequestFrame, AwaitVSync, ScheduleSecondaryCallback,
         RunSecondaryCallback, DrawLastLayerTree, BeginFrameAs,
         BeginFrameWithContinuation, BeginFrame, BeginFramePipelineFull, EndFrame,
         CompleteReturns, OnAnimatorDraw, DestroyAnimator, AnimatorDestroyed,
         uiVars, rasterVars, orderVars
  <1>3. CASE VsyncNext
    BY <1>3 DEF VsyncNext, TakeCallbacks, PostCallback, PostSecondaryCallback,
         uiVars, rasterVars, orderVars
  <1>4. CASE RasterNext
    BY <1>4 DEF RasterNext, BeginDraw, DrawNothing, SkipDraw, Resubmitted,
         RedrawLastLayerTree, ResetRasterizer, uiVars, rasterVars, orderVars
  <1>5. QED BY <1>1, <1>2, <1>3, <1>4 DEF Next

\* The pipeline's own invariant is kept by every step.
LEMMA PipelineKept == PipelineInv /\ [Next]_vars => PipelineInv'
  BY PipelineStuttering, StepInv

\* Appending a tree that is newer than the queued ones.
LEMMA PushKeepsOrder ==
    ASSUME OrderInv, PipelineInv', OrderTypes', NEW x \in Items \cup {Null},
           queue' = Append(queue, x), lastTree' = lastTree, item' = item,
           InHand' => InHand,
           built <= built',
           x # Null => /\ lastTree < x /\ x <= built'
                       /\ \A i \in 1..Len(queue) : queue[i] # Null => queue[i] < x
                       /\ InHand /\ item # Null => item < x
    PROVE  QueueInOrder' /\ HandInOrder'
  <1>1. /\ Len(queue) \in Nat /\ Len(queue') = Len(queue) + 1
        /\ queue'[Len(queue) + 1] = x
        /\ \A i \in 1..Len(queue) : queue'[i] = queue[i]
        /\ \A i \in 1..Len(queue) : queue[i] \in Items \cup {Null}
    BY DEF OrderInv, PipelineInv, TypeOK
  <1>2. /\ lastTree \in Nat /\ built \in Nat /\ built' \in Nat
        /\ Items \subseteq Nat /\ item \in Items \cup {Null}
    BY FramesAssumption DEF OrderInv, OrderTypes, PipelineInv, TypeOK
  <1>3. QueueInOrder'
    <2> SUFFICES ASSUME NEW i \in 1..Len(queue'), queue'[i] # Null
                 PROVE  /\ lastTree < queue'[i] /\ queue'[i] <= built'
                        /\ \A j \in 1..(i - 1) : queue'[j] # Null => queue'[j] < queue'[i]
      BY DEF QueueInOrder
    <2>1. CASE i = Len(queue) + 1
      BY <1>1, <1>2, <2>1
    <2>2. CASE i \in 1..Len(queue)
      <3>1. /\ lastTree < queue[i] /\ queue[i] <= built
            /\ \A j \in 1..(i - 1) : queue[j] # Null => queue[j] < queue[i]
        BY <1>1, <2>2 DEF OrderInv, QueueInOrder
      <3>2. queue'[i] \in Nat /\ queue'[i] = queue[i]
        BY <1>1, <1>2, <2>2
      <3>3. \A j \in 1..(i - 1) : queue'[j] = queue[j]
        BY <1>1, <2>2
      <3>4. QED BY SMTT(30), <1>2, <3>1, <3>2, <3>3
    <2>3. QED BY <1>1, <2>1, <2>2
  <1>4. HandInOrder'
    <2> SUFFICES ASSUME InHand', item' # Null
                 PROVE  /\ lastTree < item /\ item <= built'
                        /\ \A i \in 1..Len(queue') : queue'[i] # Null => item < queue'[i]
      BY DEF HandInOrder
    <2>1. /\ lastTree < item /\ item <= built
          /\ \A i \in 1..Len(queue) : queue[i] # Null => item < queue[i]
      BY DEF OrderInv, HandInOrder
    <2>2. item \in Nat
      BY <1>2
    <2>3. ASSUME NEW i \in 1..Len(queue'), queue'[i] # Null PROVE item < queue'[i]
      <3>1. CASE i = Len(queue) + 1
        BY <1>1, <2>3, <3>1
      <3>2. CASE i \in 1..Len(queue)
        BY <1>1, <2>1, <2>3, <3>2
      <3>3. QED BY <1>1, <3>1, <3>2
    <2>4. QED BY <1>2, <2>1, <2>2, <2>3
  <1>5. QED BY <1>3, <1>4

\* A step that touches none of the trees.
LEMMA SameTreesKeepOrder ==
    ASSUME OrderInv, UNCHANGED <<queue, built, lastTree, item>>, InHand' => InHand
    PROVE  QueueInOrder' /\ HandInOrder'
  BY DEF OrderInv, QueueInOrder, HandInOrder

LEMMA RenderKeepsOrder == OrderInv /\ PipelineInv' /\ Render => OrderInv'
  <1> SUFFICES ASSUME OrderInv, PipelineInv', Render PROVE OrderInv'
    OBVIOUS
  <1>1. /\ queue' = Append(queue, built + 1) /\ built' = built + 1
        /\ built + 1 \in Items
        /\ UNCHANGED <<lastTree, status, consumer, item>>
    BY DEF Render, Push, rasterVars
  <1>2. OrderTypes'
    BY <1>1 DEF OrderInv, OrderTypes
  <1>3. InHand' => InHand
    BY <1>1 DEF InHand
  <1>4. Items \subseteq Nat /\ built \in Nat /\ lastTree \in Nat /\ lastTree <= built
    BY FramesAssumption DEF OrderInv, OrderTypes
  <1>5. /\ \A i \in 1..Len(queue) : queue[i] # Null => queue[i] < built + 1
        /\ InHand /\ item # Null => item < built + 1
    <2>1. /\ \A i \in 1..Len(queue) : queue[i] \in Items \cup {Null}
          /\ item \in Items \cup {Null}
      BY DEF OrderInv, PipelineInv, TypeOK
    <2>2. ASSUME NEW i \in 1..Len(queue), queue[i] # Null PROVE queue[i] < built + 1
      <3>1. queue[i] \in Nat /\ queue[i] <= built
        BY <1>4, <2>1, <2>2 DEF OrderInv, QueueInOrder
      <3>2. QED BY <1>4, <3>1
    <2>3. ASSUME InHand, item # Null PROVE item < built + 1
      <3>1. item \in Nat /\ item <= built
        BY <1>4, <2>1, <2>3 DEF OrderInv, HandInOrder
      <3>2. QED BY <1>4, <3>1
    <2>4. QED BY <2>2, <2>3
  <1>6. QueueInOrder' /\ HandInOrder'
    BY <1>1, <1>2, <1>3, <1>4, <1>5, PushKeepsOrder
  <1>7. QED BY <1>2, <1>6 DEF OrderInv

LEMMA PipelineStepKeepsOrder ==
    ASSUME OrderInv, PipelineInv', UNCHANGED <<built, lastTree, status>>,
           Produce \/ SignalPushed \/ Push(Null) \/ Claim \/ SignalPushedBack
    PROVE  OrderInv'
  <1>1. CASE Produce \/ SignalPushed
    <2>1. UNCHANGED <<queue, consumer, item>>
      BY <1>1 DEF Produce, SignalPushed
    <2>2. OrderTypes' /\ (InHand' => InHand)
      BY <2>1 DEF OrderInv, OrderTypes, InHand
    <2>3. QED BY <2>1, <2>2, SameTreesKeepOrder DEF OrderInv
  <1>2. CASE Push(Null)
    <2>1. queue' = Append(queue, Null) /\ UNCHANGED <<consumer, item>>
      BY <1>2 DEF Push
    <2>2. OrderTypes' /\ (InHand' => InHand)
      BY <2>1 DEF OrderInv, OrderTypes, InHand
    <2>3. built <= built'
      BY DEF OrderInv, OrderTypes
    <2>4. QueueInOrder' /\ HandInOrder'
      BY <2>1, <2>2, <2>3, PushKeepsOrder
    <2>5. QED BY <2>2, <2>4 DEF OrderInv
  <1>3. CASE Claim \/ SignalPushedBack
    <2>1. /\ UNCHANGED <<queue, item>>
          /\ consumer \in {"idle", "pushedBack"} /\ consumer' \in {"claimed", "done"}
      BY <1>3 DEF Claim, SignalPushedBack
    <2>2. status # "kResubmit"
      BY <2>1 DEF OrderInv, OrderTypes
    <2>3. OrderTypes' /\ (InHand' => InHand)
      BY <2>1, <2>2 DEF OrderInv, OrderTypes, InHand
    <2>4. QED BY <2>1, <2>3, SameTreesKeepOrder DEF OrderInv
  <1>4. QED BY <1>1, <1>2, <1>3

\* The tree popped is older than the ones it leaves behind.
LEMMA PopKeepsOrder == OrderInv /\ PipelineInv' /\ PopItem => OrderInv'
  <1> SUFFICES ASSUME OrderInv, PipelineInv', PopItem PROVE OrderInv'
    OBVIOUS
  <1>1. /\ item' = Head(queue) /\ queue' = Tail(queue)
        /\ consumer = "claimed" /\ consumer' = "consuming"
        /\ UNCHANGED <<built, lastTree, status>>
    BY DEF PopItem, Pop, PopFront, uiVars, rasterVars
  <1>2. queue \in Seq(Items \cup {Null}) /\ Len(queue) > 0
    BY <1>1 DEF OrderInv, PipelineInv, TypeOK, SignalAccounting, B
  <1>3. /\ Len(queue) \in Nat /\ Len(queue') = Len(queue) - 1 /\ item' = queue[1]
        /\ \A i \in 1..Len(queue') : queue'[i] = queue[i + 1]
        /\ \A i \in 1..Len(queue) : queue[i] \in Items \cup {Null}
    BY <1>1, <1>2
  <1>4. OrderTypes'
    BY <1>1 DEF OrderInv, OrderTypes
  <1>5. QueueInOrder'
    <2> SUFFICES ASSUME NEW i \in 1..Len(queue'), queue'[i] # Null
                 PROVE  /\ lastTree < queue'[i] /\ queue'[i] <= built
                        /\ \A j \in 1..(i - 1) : queue'[j] # Null => queue'[j] < queue'[i]
      BY <1>1 DEF QueueInOrder
    <2>1. i + 1 \in 1..Len(queue) /\ queue[i + 1] # Null /\ queue'[i] = queue[i + 1]
      BY <1>3
    <2>2. /\ lastTree < queue[i + 1] /\ queue[i + 1] <= built
          /\ \A j \in 1..((i + 1) - 1) : queue[j] # Null => queue[j] < queue[i + 1]
      BY <2>1 DEF OrderInv, QueueInOrder
    <2>3. ASSUME NEW j \in 1..(i - 1)
          PROVE  j + 1 \in 1..((i + 1) - 1) /\ queue'[j] = queue[j + 1]
      <3>1. j \in Nat /\ i \in Nat /\ j \in 1..Len(queue')
        BY <1>3
      <3>2. QED BY <1>3, <3>1
    <2>4. ASSUME NEW j \in 1..(i - 1), queue'[j] # Null PROVE queue'[j] < queue'[i]
      <3>1. j + 1 \in 1..((i + 1) - 1) /\ queue[j + 1] # Null
        BY <2>3, <2>4
      <3>2. queue[j + 1] < queue[i + 1]
        BY <2>2, <3>1
      <3>3. QED BY <2>1, <2>3, <3>2
    <2>5. lastTree < queue'[i] /\ queue'[i] <= built
      BY <2>1, <2>2
    <2>6. QED BY <2>4, <2>5
  <1>6. HandInOrder'
    <2> SUFFICES ASSUME item' # Null
                 PROVE  /\ lastTree < item' /\ item' <= built
                        /\ \A i \in 1..Len(queue') : queue'[i] # Null => item' < queue'[i]
      BY <1>1 DEF HandInOrder
    <2>1. lastTree < queue[1] /\ queue[1] <= built
      BY <1>2, <1>3 DEF OrderInv, QueueInOrder
    <2>2. ASSUME NEW i \in 1..Len(queue'), queue'[i] # Null PROVE queue[1] < queue'[i]
      <3>1. i + 1 \in 1..Len(queue) /\ queue[i + 1] # Null /\ 1 \in 1..((i + 1) - 1)
        BY <1>3, <2>2
      <3>2. queue[1] < queue[i + 1]
        BY <1>3, <3>1 DEF OrderInv, QueueInOrder
      <3>3. QED BY <1>3, <3>2
    <2>3. QED BY <1>3, <2>1, <2>2
  <1>7. QED BY <1>4, <1>5, <1>6 DEF OrderInv

\* The tree drawn last becomes the one in hand, or stays.
LEMMA DrawKeepsOrder ==
    ASSUME OrderInv, PipelineInv', NEW outcome \in Outcomes, DoDraw(outcome)
    PROVE  OrderInv' /\ (lastTree' # lastTree => lastTree' > lastTree)
  <1>1. /\ consumer = "consuming" /\ consumer' = "done" /\ item # Null
        /\ UNCHANGED <<queue, item, built>>
        /\ lastTree' = IF outcome = "kSuccess" THEN item ELSE lastTree
        /\ status' = IF outcome = "kResubmit" THEN "kResubmit" ELSE "none"
    BY DEF DoDraw, Release, uiVars
  <1>2. /\ lastTree < item /\ item <= built
        /\ \A i \in 1..Len(queue) : queue[i] # Null => item < queue[i]
    BY <1>1 DEF OrderInv, HandInOrder, InHand
  <1>3. /\ item \in Nat /\ lastTree \in Nat /\ built \in Nat
        /\ \A i \in 1..Len(queue) : queue[i] \in Items \cup {Null}
    BY <1>1, FramesAssumption DEF OrderInv, OrderTypes, PipelineInv, TypeOK
  <1>4. OrderTypes'
    BY <1>1, <1>2, <1>3 DEF OrderInv, OrderTypes
  <1>5. QueueInOrder'
    BY <1>1, <1>2, <1>3 DEF OrderInv, QueueInOrder
  <1>6. HandInOrder'
    BY <1>1, <1>2 DEF HandInOrder, InHand
  <1>7. QED BY <1>1, <1>2, <1>3, <1>4, <1>5, <1>6 DEF OrderInv

\* A resubmitted tree returns to an empty queue, or not at all.
LEMMA ResubmitKeepsOrder == OrderInv /\ PipelineInv' /\ Resubmit => OrderInv'
  <1> SUFFICES ASSUME OrderInv, PipelineInv', Resubmit PROVE OrderInv'
    OBVIOUS
  <1>1. status = "kResubmit" /\ item # Null /\ UNCHANGED <<built, lastTree>>
    BY DEF Resubmit, uiVars, OrderInv, OrderTypes
  <1>2. CASE PushBack /\ status' = "resubmitted"
    <2>1. /\ queue = <<>> /\ queue' = Append(queue, item) /\ item' = item
          /\ consumer' = "pushedBack"
      BY <1>2 DEF PushBack, MayPushBack
    <2>2. OrderTypes' /\ ~InHand'
      BY <1>1, <1>2, <2>1 DEF OrderInv, OrderTypes, InHand
    <2>3. lastTree < item /\ item <= built /\ Len(queue) = 0
      BY <1>1, <2>1 DEF OrderInv, HandInOrder, InHand
    <2>4. item \in Items \cup {Null} /\ built \in Nat /\ InHand
      BY <1>1 DEF OrderInv, OrderTypes, PipelineInv, TypeOK, InHand
    <2>5. /\ Len(queue') = 1 /\ queue'[1] = item
      BY <2>1
    <2>6. QueueInOrder'
      BY <1>1, <2>3, <2>5 DEF QueueInOrder
    <2>7. HandInOrder'
      BY <2>2 DEF HandInOrder
    <2>8. QED BY <2>2, <2>6, <2>7 DEF OrderInv
  <1>3. CASE \/ ProduceIfEmpty /\ UNCHANGED status
             \/ BailOut /\ status' = "none"
             \/ consumer = "done" /\ empty = 0 /\ status' = "none" /\ UNCHANGED pipelineVars
    <2>1. /\ UNCHANGED <<queue, item>>
          /\ \/ consumer' = "retrying" /\ status' = status
             \/ consumer' = "done" /\ status' = "none"
      BY <1>3 DEF ProduceIfEmpty, BailOut, pipelineVars
    <2>2. OrderTypes' /\ (InHand' => InHand)
      BY <1>1, <2>1 DEF OrderInv, OrderTypes, InHand
    <2>3. QED BY <1>1, <2>1, <2>2, SameTreesKeepOrder DEF OrderInv
  <1>4. QED BY <1>2, <1>3 DEF Resubmit

LEMMA EndDrawKeepsOrder == OrderInv /\ PipelineInv' /\ EndDraw => OrderInv'
  <1> SUFFICES ASSUME OrderInv, PipelineInv', EndDraw PROVE OrderInv'
    OBVIOUS
  <1>1. /\ UNCHANGED <<queue, item, built, lastTree>>
        /\ consumer' = "idle" /\ status' = "none"
    BY DEF EndDraw, Return, uiVars
  <1>2. OrderTypes' /\ (InHand' => InHand)
    BY <1>1 DEF OrderInv, OrderTypes, InHand
  <1>3. QED BY <1>1, <1>2, SameTreesKeepOrder DEF OrderInv

LEMMA OrderStep ==
    OrderInv /\ [Next]_vars => OrderInv' /\ [lastTree' > lastTree]_lastTree
  <1> SUFFICES ASSUME OrderInv, [Next]_vars
               PROVE  OrderInv' /\ (lastTree' # lastTree => lastTree' > lastTree)
    OBVIOUS
  <1>1. PipelineInv'
    BY PipelineKept DEF OrderInv
  <1>2. CASE UNCHANGED orderVars
    BY <1>1, <1>2 DEF orderVars, pipelineVars, OrderInv, OrderTypes, QueueInOrder,
         HandInOrder, InHand
  <1>3. CASE Render
    BY <1>1, <1>3, RenderKeepsOrder DEF Render, rasterVars
  <1>4. CASE /\ Produce \/ SignalPushed \/ Push(Null) \/ Claim \/ SignalPushedBack
             /\ UNCHANGED <<built, lastTree, status>>
    BY <1>1, <1>4, PipelineStepKeepsOrder
  <1>5. CASE PopItem
    BY <1>1, <1>5, PopKeepsOrder DEF PopItem, rasterVars
  <1>6. CASE \E outcome \in Outcomes : DoDraw(outcome)
    BY <1>1, <1>6, DrawKeepsOrder
  <1>7. CASE Resubmit
    BY <1>1, <1>7, ResubmitKeepsOrder DEF Resubmit
  <1>8. CASE EndDraw
    BY <1>1, <1>8, EndDrawKeepsOrder DEF EndDraw
  <1>9. QED BY <1>2, <1>3, <1>4, <1>5, <1>6, <1>7, <1>8, OrderSteps

\* What the raster thread draws never goes back to an older tree, whatever the
\* interleaving with the frames that are built, resubmitted or dropped.
THEOREM FramesAreInOrder == Spec => FramesInOrder
  BY OrderInit, OrderStep, PTL DEF Spec, FramesInOrder

-----------------------------------------------------------------------------
(***************************************************************************)
(* Requests for a frame.                                                   *)
(***************************************************************************)
\* How often a task is posted.
Places(s, x) == {i \in 1..Len(s) : s[i] = x}
Occurs(s, x) == Cardinality(Places(s, x))

LEMMA OccursType ==
    ASSUME NEW S, NEW s \in Seq(S), NEW x
    PROVE  IsFiniteSet(Places(s, x)) /\ Occurs(s, x) \in Nat
  <1>1. IsFiniteSet(1..Len(s)) /\ Places(s, x) \in SUBSET (1..Len(s))
    BY FS_Interval DEF Places
  <1>2. QED BY <1>1, FS_Subset, FS_CardinalityType DEF Occurs

LEMMA OccursNowhere == ASSUME NEW x PROVE Occurs(<<>>, x) = 0
  <1>1. Places(<<>>, x) = {}
    BY DEF Places
  <1>2. QED BY <1>1, FS_EmptySet DEF Occurs

\* A task that is posted is posted once more.
LEMMA OccursAppended ==
    ASSUME NEW S, NEW s \in Seq(S), NEW y \in S, NEW x
    PROVE  Occurs(Append(s, y), x) = Occurs(s, x) + B(y = x)
  <1>1. /\ Len(s) \in Nat /\ Len(Append(s, y)) = Len(s) + 1
        /\ Append(s, y)[Len(s) + 1] = y
        /\ \A i \in 1..Len(s) : Append(s, y)[i] = s[i]
    OBVIOUS
  <1>2. CASE y = x
    <2>1. /\ Places(Append(s, y), x) = Places(s, x) \cup {Len(s) + 1}
          /\ Len(s) + 1 \notin Places(s, x)
      BY <1>1, <1>2 DEF Places
    <2>2. QED BY ZenonT(60), <1>2, <2>1, OccursType, FS_AddElement DEF Occurs, B
  <1>3. CASE y # x
    <2>1. Places(Append(s, y), x) = Places(s, x)
      BY <1>1, <1>3 DEF Places
    <2>2. Occurs(s, x) \in Nat
      BY OccursType
    <2>3. QED BY <1>3, <2>1, <2>2 DEF Occurs, B
  <1>4. QED BY <1>2, <1>3

\* The task at the head is posted once less when it is taken.
LEMMA OccursTail ==
    ASSUME NEW S, NEW s \in Seq(S), s # <<>>, NEW x
    PROVE  Occurs(s, x) = Occurs(Tail(s), x) + B(Head(s) = x)
  <1>1. /\ Len(s) \in Nat /\ Len(s) > 0 /\ Len(Tail(s)) = Len(s) - 1 /\ Head(s) = s[1]
        /\ \A i \in 1..(Len(s) - 1) : Tail(s)[i] = s[i + 1]
        /\ Tail(s) \in Seq(S)
    OBVIOUS
  <1> DEFINE later == {i \in 2..Len(s) : s[i] = x}
             shift == [i \in Places(Tail(s), x) |-> i + 1]
  <1>2. shift \in Bijection(Places(Tail(s), x), later)
    <2>1. \A i \in Places(Tail(s), x) : i \in Nat /\ i + 1 \in later
      BY <1>1 DEF Places
    <2>2. shift \in [Places(Tail(s), x) -> later]
      BY <2>1
    <2>3. \A i, j \in Places(Tail(s), x) : shift[i] = shift[j] => i = j
      BY <2>1
    <2>4. \A k \in later : k - 1 \in Places(Tail(s), x) /\ shift[k - 1] = k
      BY <1>1 DEF Places
    <2> HIDE DEF shift, later
    <2>5. \A k \in later : \E i \in Places(Tail(s), x) : shift[i] = k
      BY <2>4
    <2>6. QED BY <2>2, <2>3, <2>5 DEF Bijection, Injection, Surjection, IsInjective
  <1>3. IsFiniteSet(later) /\ Cardinality(later) = Occurs(Tail(s), x)
    <2>1. IsFiniteSet(Places(Tail(s), x))
      BY <1>1, OccursType
    <2>2. ExistsBijection(Places(Tail(s), x), later)
      BY <1>2 DEF ExistsBijection
    <2>3. QED BY <2>1, <2>2, FS_Bijection DEF Occurs
  <1>4. Cardinality(later) \in Nat
    BY <1>3, FS_CardinalityType
  <1>5. CASE Head(s) = x
    <2>1. Places(s, x) = later \cup {1} /\ 1 \notin later
      BY <1>1, <1>5 DEF Places
    <2> HIDE DEF later
    <2>2. QED BY ZenonT(60), <1>3, <1>4, <1>5, <2>1, FS_AddElement DEF Occurs, B
  <1>6. CASE Head(s) # x
    <2>1. Places(s, x) = later
      BY <1>1, <1>6 DEF Places
    <2> HIDE DEF later
    <2>2. QED BY <1>3, <1>4, <1>6, <2>1 DEF Occurs, B
  <1>7. QED BY <1>5, <1>6

\* The types of what a request goes through.
RequestTypes ==
    /\ uiTasks \in Seq(UiTask)
    /\ secondary \subseteq SecondaryIds
    /\ fired \in [callback : BOOLEAN, secondary : SUBSET SecondaryIds]
    /\ {callback, regenerate, frameScheduled} \subseteq BOOLEAN
    /\ pendingFrame \in 0..1

RequestInv == RequestTypes /\ FrameRequestAccounting

requestVars == <<uiTasks, pendingFrame, frameScheduled, regenerate, callback, fired>>

LEMMA RequestInit == FrameInit => RequestInv
  <1> SUFFICES ASSUME FrameInit PROVE RequestInv
    OBVIOUS
  <1>1. RequestTypes
    <2>1. uiTasks \in Seq(UiTask) /\ secondary \subseteq SecondaryIds /\ pendingFrame \in 0..1
      BY DEF FrameInit
    <2>2. fired \in [callback : BOOLEAN, secondary : SUBSET SecondaryIds]
      BY DEF FrameInit, NothingFired
    <2>3. {callback, regenerate, frameScheduled} \subseteq BOOLEAN
      BY Zenon DEF FrameInit
    <2>4. QED BY <2>1, <2>2, <2>3 DEF RequestTypes
  <1>2. TasksOf("AwaitVSync") = 0 /\ TasksOf("Vsync") = 0
    BY OccursNowhere DEF FrameInit, TasksOf, Occurs, Places
  <1>3. FrameRequestAccounting
    BY <1>2 DEF FrameInit, FrameRequestAccounting, B, NothingFired
  <1>4. QED BY <1>1, <1>3 DEF RequestInv

\* What a step may do to the requests: nothing, or one of the steps below.
LEMMA RequestSteps ==
    ASSUME [Next]_vars
    PROVE  \/ UNCHANGED <<requestVars, secondary>>
           \/ \E r \in BOOLEAN : RequestFrame(r)
           \/ AwaitVSync
           \/ \E id \in SecondaryIds : \/ RunSecondaryCallback(id)
                                       \/ ScheduleSecondaryCallback(id)
                                       \/ PostSecondaryCallback(id)
           \/ DrawLastLayerTree
           \/ BeginFrameAs
           \/ BeginFramePipelineFull
           \/ TakeCallbacks
           \/ PostCallback
  <1>1. CASE UNCHANGED vars
    BY <1>1 DEF vars, uiVars, vsyncVars, requestVars
  <1>2. CASE UiNext
    BY <1>2 DEF UiNext, UiWork, BeginFrameWithContinuation, BeginFrame, EndFrame,
         Render, CompleteReturns, OnAnimatorDraw, DestroyAnimator, AnimatorDestroyed,
         vsyncVars, requestVars
  <1>3. CASE VsyncNext
    BY <1>3 DEF VsyncNext
  <1>4. CASE RasterNext
    BY <1>4 DEF RasterNext, BeginDraw, DrawNothing, SkipDraw, PopItem, DoDraw,
         Resubmit, Resubmitted, EndDraw, RedrawLastLayerTree, ResetRasterizer,
         uiVars, vsyncVars, requestVars
  <1>5. QED BY <1>1, <1>2, <1>3, <1>4 DEF Next

LEMMA TasksOfOccurs ==
    ASSUME NEW x PROVE TasksOf(x) = Occurs(uiTasks, x) /\ TasksOf(x)' = Occurs(uiTasks', x)
  BY DEF TasksOf, Occurs, Places

\* The posted tasks after one is posted, or taken from the front.
LEMMA TasksPosted ==
    ASSUME RequestTypes, NEW t \in UiTask, uiTasks' = Append(uiTasks, t), NEW x
    PROVE  TasksOf(x)' = TasksOf(x) + B(t = x) /\ TasksOf(x) \in Nat
  <1>1. uiTasks \in Seq(UiTask)
    BY DEF RequestTypes
  <1>2. /\ Occurs(Append(uiTasks, t), x) = Occurs(uiTasks, x) + B(t = x)
        /\ Occurs(uiTasks, x) \in Nat
    BY <1>1, OccursAppended, OccursType
  <1>3. QED BY <1>2, TasksOfOccurs

LEMMA TasksTaken ==
    ASSUME RequestTypes, NEW t, UiTakes(t), uiTasks' = Tail(uiTasks), NEW x
    PROVE  TasksOf(x) = TasksOf(x)' + B(t = x) /\ TasksOf(x)' \in Nat
  <1>1. uiTasks # <<>> /\ Head(uiTasks) = t /\ uiTasks \in Seq(UiTask)
    BY DEF UiTakes, RequestTypes
  <1>2. Tail(uiTasks) \in Seq(UiTask)
    BY <1>1
  <1>3. /\ Occurs(uiTasks, x) = Occurs(Tail(uiTasks), x) + B(t = x)
        /\ Occurs(Tail(uiTasks), x) \in Nat
    BY ZenonT(60), <1>1, <1>2, OccursTail, OccursType
  <1>4. QED BY <1>3, TasksOfOccurs

\* The two tasks a request is in are not the ids of secondary callbacks.
LEMMA UiTasks ==
    /\ "AwaitVSync" \in UiTask /\ "Vsync" \in UiTask /\ SecondaryIds \subseteq UiTask
    /\ \A id \in SecondaryIds : id # "AwaitVSync" /\ id # "Vsync"
    /\ "AwaitVSync" # "Vsync"
  BY SecondaryAssumption DEF UiTask

\* The types are kept whatever a request goes through, the semaphore's aside.
LEMMA RequestTypesKept ==
    ASSUME RequestTypes, [Next]_vars, pendingFrame' \in 0..1
    PROVE  RequestTypes'
  <1> USE DEF RequestTypes
  <1>1. uiTasks' \in Seq(UiTask)
    <2>1. \/ UNCHANGED uiTasks
          \/ uiTasks # <<>> /\ uiTasks' = Tail(uiTasks)
          \/ \E t \in UiTask : uiTasks' = Append(uiTasks, t)
          \/ uiTasks # <<>> /\ \E t \in UiTask : uiTasks' = Append(Tail(uiTasks), t)
      BY RequestSteps, UiTasks
         DEF requestVars, RequestFrame, AwaitVSync, RunSecondaryCallback,
             ScheduleSecondaryCallback, PostSecondaryCallback, DrawLastLayerTree,
             BeginFrameAs, BeginFramePipelineFull, TakeCallbacks, PostCallback, UiTakes
    <2>2. QED BY SMTT(30), <2>1
  <1>2. secondary' \subseteq SecondaryIds
    BY RequestSteps
       DEF requestVars, RequestFrame, AwaitVSync, RunSecondaryCallback,
           ScheduleSecondaryCallback, PostSecondaryCallback, DrawLastLayerTree,
           BeginFrameAs, BeginFramePipelineFull, TakeCallbacks, PostCallback, uiVars, vsyncVars
  <1>3. fired' \in [callback : BOOLEAN, secondary : SUBSET SecondaryIds]
    <2>1. \/ UNCHANGED fired
          \/ fired' = [callback |-> callback, secondary |-> secondary]
          \/ fired' = [fired EXCEPT !.callback = FALSE]
          \/ \E id : fired' = [fired EXCEPT !.secondary = @ \ {id}]
      BY RequestSteps, Zenon
         DEF requestVars, RequestFrame, AwaitVSync, RunSecondaryCallback,
             ScheduleSecondaryCallback, PostSecondaryCallback, DrawLastLayerTree,
             BeginFrameAs, BeginFramePipelineFull, TakeCallbacks, PostCallback, uiVars, vsyncVars
    <2>2. callback \in BOOLEAN /\ secondary \in SUBSET SecondaryIds
      BY Zenon
    <2>3. CASE fired' = [callback |-> callback, secondary |-> secondary]
      BY <2>2, <2>3, Zenon
    <2>4. CASE fired' = [fired EXCEPT !.callback = FALSE]
      BY <2>4
    <2>5. ASSUME NEW id, fired' = [fired EXCEPT !.secondary = @ \ {id}]
          PROVE  fired' \in [callback : BOOLEAN, secondary : SUBSET SecondaryIds]
      BY <2>5
    <2>6. QED BY <2>1, <2>3, <2>4, <2>5
  <1>4. {callback', regenerate', frameScheduled'} \subseteq BOOLEAN
    <2>1. callback' \in BOOLEAN
      <3>1. callback' = callback \/ callback' = TRUE \/ callback' = FALSE
        BY RequestSteps, Zenon
         DEF requestVars, RequestFrame, AwaitVSync, RunSecondaryCallback,
             ScheduleSecondaryCallback, PostSecondaryCallback, DrawLastLayerTree,
             BeginFrameAs, BeginFramePipelineFull, TakeCallbacks, PostCallback, uiVars, vsyncVars
      <3>2. QED BY <3>1, Zenon
    <2>2. frameScheduled' \in BOOLEAN
      <3>1. \/ frameScheduled' = frameScheduled
            \/ frameScheduled' = TRUE \/ frameScheduled' = FALSE
        BY RequestSteps, Zenon
         DEF requestVars, RequestFrame, AwaitVSync, RunSecondaryCallback,
             ScheduleSecondaryCallback, PostSecondaryCallback, DrawLastLayerTree,
             BeginFrameAs, BeginFramePipelineFull, TakeCallbacks, PostCallback, uiVars, vsyncVars
      <3>2. QED BY <3>1, Zenon
    <2>3. regenerate' \in BOOLEAN
      <3>1. \/ regenerate' = regenerate \/ regenerate' = FALSE
            \/ \E r \in BOOLEAN : regenerate' = (regenerate \/ r)
        BY RequestSteps, Zenon
         DEF requestVars, RequestFrame, AwaitVSync, RunSecondaryCallback,
             ScheduleSecondaryCallback, PostSecondaryCallback, DrawLastLayerTree,
             BeginFrameAs, BeginFramePipelineFull, TakeCallbacks, PostCallback, uiVars, vsyncVars
      <3>2. QED BY <3>1, Zenon
    <2>4. QED BY <2>1, <2>2, <2>3, Zenon
  <1>5. QED BY <1>1, <1>2, <1>3, <1>4

\* A step that leaves the counted places alone.
LEMMA SameRequests ==
    ASSUME RequestInv, \A x \in {"AwaitVSync", "Vsync"} : TasksOf(x)' = TasksOf(x),
           UNCHANGED <<pendingFrame, callback>>, fired'.callback = fired.callback,
           regenerate' => regenerate, frameScheduled => frameScheduled'
    PROVE  FrameRequestAccounting'
  BY DEF RequestInv, FrameRequestAccounting

LEMMA RequestAccountingStep ==
    ASSUME RequestInv, [Next]_vars
    PROVE  FrameRequestAccounting' /\ pendingFrame' \in 0..1
  <1> DEFINE A == TasksOf("AwaitVSync")
             V == TasksOf("Vsync")
  <1>0. /\ pendingFrame + A + B(callback) + B(fired.callback) + V = 1
        /\ regenerate => pendingFrame = 0
        /\ pendingFrame = 0 => frameScheduled
        /\ pendingFrame \in 0..1 /\ RequestTypes
        /\ A \in Nat /\ V \in Nat
    <2>1. A \in Nat /\ V \in Nat
      BY OccursType, TasksOfOccurs DEF RequestInv, RequestTypes
    <2>2. QED BY <2>1 DEF RequestInv, RequestTypes, FrameRequestAccounting
  <1>1. ASSUME UNCHANGED <<uiTasks, pendingFrame, callback>>,
               fired'.callback = fired.callback,
               regenerate' => regenerate, frameScheduled => frameScheduled'
        PROVE  FrameRequestAccounting' /\ pendingFrame' \in 0..1
    <2>1. A' = A /\ V' = V
      BY <1>1, TasksOfOccurs
    <2>2. QED BY <1>0, <1>1, <2>1, SameRequests
  <1>2. CASE UNCHANGED requestVars
    BY <1>1, <1>2 DEF requestVars
  <1>3. ASSUME NEW r \in BOOLEAN, RequestFrame(r)
        PROVE  FrameRequestAccounting' /\ pendingFrame' \in 0..1
    <2>1. UNCHANGED <<callback, fired>> /\ regenerate' = (regenerate \/ r)
      BY <1>3 DEF RequestFrame, vsyncVars
    <2>2. CASE pendingFrame = 0
      <3>1. UNCHANGED <<uiTasks, frameScheduled, pendingFrame>>
        BY <1>3, <2>2 DEF RequestFrame
      <3>2. A' = A /\ V' = V
        BY <3>1, TasksOfOccurs
      <3>3. QED BY <1>0, <2>1, <2>2, <3>1, <3>2 DEF FrameRequestAccounting
    <2>3. CASE pendingFrame # 0
      <3>1. /\ pendingFrame' = 0 /\ frameScheduled' = TRUE
            /\ uiTasks' = Append(uiTasks, "AwaitVSync")
        BY <1>3, <2>3 DEF RequestFrame
      <3>2. A' = A + 1 /\ V' = V
        BY SMTT(30), <1>0, <3>1, TasksPosted, UiTasks DEF B
      <3>3. A' + V' + B(callback) + B(fired.callback) = 1
        BY <1>0, <2>3, <3>2 DEF B
      <3>4. QED BY SMTT(30), <1>0, <2>1, <3>1, <3>2, <3>3 DEF FrameRequestAccounting, B
    <2>4. QED BY <2>2, <2>3
  <1>4. CASE AwaitVSync
    <2>1. /\ UiTakes("AwaitVSync") /\ uiTasks' = Tail(uiTasks) /\ callback' = TRUE
          /\ UNCHANGED <<pendingFrame, frameScheduled, regenerate, fired>>
      BY <1>4 DEF AwaitVSync, uiVars
    <2>2. A = A' + 1 /\ V = V' /\ A' \in Nat
      <3>1. ASSUME NEW x
            PROVE  TasksOf(x) = TasksOf(x)' + B("AwaitVSync" = x) /\ TasksOf(x)' \in Nat
        BY <1>0, <2>1, TasksTaken, Zenon
      <3>2. QED BY <1>0, <3>1, UiTasks DEF B
    <2>3. B(callback) = 0
      BY <1>0, <2>2 DEF B
    <2>4. QED BY <1>0, <2>1, <2>2, <2>3 DEF FrameRequestAccounting, B
  <1>5. ASSUME NEW id \in SecondaryIds, RunSecondaryCallback(id)
        PROVE  FrameRequestAccounting' /\ pendingFrame' \in 0..1
    <2>1. /\ UiTakes(id) /\ uiTasks' = Tail(uiTasks)
          /\ UNCHANGED <<pendingFrame, frameScheduled, regenerate, callback, fired>>
      BY <1>5 DEF RunSecondaryCallback, uiVars, vsyncVars
    <2>2. A = A' /\ V = V'
      BY <1>0, <2>1, TasksTaken, UiTasks DEF B
    <2>3. QED BY <1>0, <2>1, <2>2, SameRequests
  <1>6. ASSUME NEW id \in SecondaryIds, ScheduleSecondaryCallback(id)
        PROVE  FrameRequestAccounting' /\ pendingFrame' \in 0..1
    BY <1>1, <1>6 DEF ScheduleSecondaryCallback
  <1>7. ASSUME NEW id \in SecondaryIds, PostSecondaryCallback(id)
        PROVE  FrameRequestAccounting' /\ pendingFrame' \in 0..1
    <2>1. /\ uiTasks' = Append(uiTasks, id)
          /\ fired' = [fired EXCEPT !.secondary = @ \ {id}]
          /\ UNCHANGED <<pendingFrame, frameScheduled, regenerate, callback>>
      BY <1>7 DEF PostSecondaryCallback, uiVars
    <2>2. A = A' /\ V = V'
      BY <1>0, <2>1, TasksPosted, UiTasks DEF B
    <2>3. fired'.callback = fired.callback
      BY <1>0, <2>1 DEF RequestTypes
    <2>4. QED BY <1>0, <2>1, <2>2, <2>3, SameRequests
  <1>8. CASE DrawLastLayerTree
    <2>1. /\ UiTakes("Vsync") /\ uiTasks' = Tail(uiTasks) /\ ~regenerate
          /\ pendingFrame' = pendingFrame + 1
          /\ UNCHANGED <<frameScheduled, regenerate, callback, fired>>
      BY <1>8 DEF DrawLastLayerTree, vsyncVars
    <2>2. A = A' /\ V = V' + 1 /\ V' \in Nat
      <3>1. ASSUME NEW x
            PROVE  TasksOf(x) = TasksOf(x)' + B("Vsync" = x) /\ TasksOf(x)' \in Nat
        BY <1>0, <2>1, TasksTaken, Zenon
      <3>2. QED BY <1>0, <3>1, UiTasks DEF B
    <2>3. pendingFrame = 0
      BY <1>0, <2>2 DEF B
    <2>4. pendingFrame' + A' + B(callback') + B(fired'.callback) + V' = 1
      BY SMTT(30), <1>0, <2>1, <2>2 DEF B
    <2>5. QED BY <1>0, <2>1, <2>3, <2>4 DEF FrameRequestAccounting
  <1>9. CASE BeginFrameAs
    <2>1. /\ UiTakes("Vsync") /\ uiTasks' = Tail(uiTasks) /\ regenerate' = FALSE
          /\ pendingFrame' = pendingFrame + 1
          /\ UNCHANGED <<callback, fired>>
      BY <1>9 DEF BeginFrameAs, vsyncVars
    <2>2. A = A' /\ V = V' + 1 /\ V' \in Nat
      <3>1. ASSUME NEW x
            PROVE  TasksOf(x) = TasksOf(x)' + B("Vsync" = x) /\ TasksOf(x)' \in Nat
        BY <1>0, <2>1, TasksTaken, Zenon
      <3>2. QED BY <1>0, <3>1, UiTasks DEF B
    <2>3. pendingFrame = 0
      BY <1>0, <2>2 DEF B
    <2>4. pendingFrame' + A' + B(callback') + B(fired'.callback) + V' = 1
      BY SMTT(30), <1>0, <2>1, <2>2 DEF B
    <2>5. QED BY <1>0, <2>1, <2>3, <2>4 DEF FrameRequestAccounting
  <1>10. CASE BeginFramePipelineFull
    <2>1. /\ UiTakes("Vsync") /\ uiTasks' = Append(Tail(uiTasks), "AwaitVSync")
          /\ frameScheduled' = TRUE
          /\ UNCHANGED <<pendingFrame, regenerate, callback, fired>>
      BY <1>10 DEF BeginFramePipelineFull, vsyncVars
    <2>2. /\ uiTasks \in Seq(UiTask) /\ uiTasks # <<>> /\ Head(uiTasks) = "Vsync"
          /\ Tail(uiTasks) \in Seq(UiTask)
      BY <1>0, <2>1 DEF RequestTypes, UiTakes
    <2>3. ASSUME NEW x
          PROVE  /\ Occurs(uiTasks, x) = Occurs(Tail(uiTasks), x) + B("Vsync" = x)
                 /\ Occurs(uiTasks', x) = Occurs(Tail(uiTasks), x) + B("AwaitVSync" = x)
                 /\ Occurs(Tail(uiTasks), x) \in Nat
      <3>1. Occurs(uiTasks, x) = Occurs(Tail(uiTasks), x) + B("Vsync" = x)
        BY <2>2, OccursTail
      <3>2. Occurs(uiTasks', x) = Occurs(Tail(uiTasks), x) + B("AwaitVSync" = x)
        <4> DEFINE rest == Tail(uiTasks)
        <4>1. rest \in Seq(UiTask) /\ uiTasks' = Append(rest, "AwaitVSync")
          BY <2>1, <2>2
        <4> HIDE DEF rest
        <4>2. Occurs(Append(rest, "AwaitVSync"), x) = Occurs(rest, x) + B("AwaitVSync" = x)
          BY <4>1, OccursAppended, UiTasks
        <4>3. QED BY <4>1, <4>2 DEF rest
      <3>3. Occurs(Tail(uiTasks), x) \in Nat
        BY <2>2, OccursType
      <3>4. QED BY <3>1, <3>2, <3>3
    <2>4. A' = A + 1 /\ V = V' + 1 /\ V' \in Nat
      BY <2>3, TasksOfOccurs, UiTasks DEF B
    <2>5. pendingFrame' + A' + B(callback') + B(fired'.callback) + V' = 1
      BY SMTT(30), <1>0, <2>1, <2>4 DEF B
    <2>6. QED BY <1>0, <2>1, <2>5 DEF FrameRequestAccounting
  <1>11. CASE TakeCallbacks
    <2>1. /\ fired = NothingFired /\ callback' = FALSE
          /\ fired'.callback = callback
          /\ UNCHANGED <<uiTasks, pendingFrame, frameScheduled, regenerate>>
      BY <1>11 DEF TakeCallbacks, uiVars
    <2>2. A' = A /\ V' = V
      BY <2>1, TasksOfOccurs
    <2>3. B(fired.callback) = 0 /\ B(callback') = 0 /\ B(fired'.callback) = B(callback)
      BY <2>1 DEF B, NothingFired
    <2>4. QED BY <1>0, <2>1, <2>2, <2>3 DEF FrameRequestAccounting, B
  <1>12. CASE PostCallback
    <2>1. /\ fired.callback /\ fired' = [fired EXCEPT !.callback = FALSE]
          /\ uiTasks' = Append(uiTasks, "Vsync")
          /\ UNCHANGED <<pendingFrame, frameScheduled, regenerate, callback>>
      BY <1>12 DEF PostCallback, uiVars
    <2>2. A' = A /\ V' = V + 1
      BY SMTT(30), <1>0, <2>1, TasksPosted, UiTasks DEF B
    <2>3. ~fired'.callback
      BY <1>0, <2>1 DEF RequestTypes
    <2>4. QED BY SMTT(30), <1>0, <2>1, <2>2, <2>3 DEF FrameRequestAccounting, B
  <1>13. QED BY <1>2, <1>3, <1>4, <1>5, <1>6, <1>7, <1>8, <1>9, <1>10, <1>11, <1>12,
                RequestSteps, Zenon

LEMMA RequestNext == RequestInv /\ [Next]_vars => RequestInv'
  BY RequestAccountingStep, RequestTypesKept DEF RequestInv

LEMMA RequestInvariant == Spec => []RequestInv
  BY RequestInit, RequestNext, PTL DEF Spec

\* A request for a frame is in one place at a time until a vsync answers it,
\* however many requests and secondary callbacks come in between and wherever
\* they overlap with the frame that is being drawn.
THEOREM RequestsAreAccounted == Spec => []FrameRequestAccounting
  <1>1. RequestInv => FrameRequestAccounting
    BY DEF RequestInv
  <1>2. QED BY <1>1, RequestInvariant, PTL

-----------------------------------------------------------------------------
(***************************************************************************)
(* Type correctness: the bounds of the two semaphores-like counts follow   *)
(* from the two accountings.                                               *)
(***************************************************************************)
ThreadTypes ==
    /\ rasterTasks \in Seq(RasterTask)
    /\ {inFrame, drawDue, rasterizer} \subseteq BOOLEAN
    /\ animator \in {"alive", "destroying", "destroyed"}
    /\ requests \in 0..MaxRequests
    /\ rasterTask \in RasterTask \cup {"none"}

threadVars == <<rasterTasks, inFrame, drawDue, rasterizer, animator, requests, rasterTask>>

LEMMA ThreadTypesInit == FrameInit => ThreadTypes
  <1> SUFFICES ASSUME FrameInit PROVE ThreadTypes
    OBVIOUS
  <1>1. {inFrame, drawDue, rasterizer} \subseteq BOOLEAN
    BY Zenon DEF FrameInit
  <1>2. QED BY <1>1, RequestsAssumption DEF FrameInit, ThreadTypes

LEMMA ThreadTypesNext == ThreadTypes /\ [Next]_vars => ThreadTypes'
  <1> SUFFICES ASSUME ThreadTypes, [Next]_vars PROVE ThreadTypes'
    OBVIOUS
  <1> USE DEF ThreadTypes
  <1>1. CASE UNCHANGED threadVars
    BY <1>1 DEF threadVars
  <1>2. CASE UNCHANGED vars
    BY <1>1, <1>2 DEF vars, uiVars, rasterVars, threadVars
  <1>3. CASE UiNext
    <2>1. inFrame' \in BOOLEAN /\ rasterizer' \in BOOLEAN
      <3>1. (inFrame' = inFrame \/ inFrame' = TRUE \/ inFrame' = FALSE) /\ rasterizer' = rasterizer
        BY <1>3, Zenon
           DEF UiNext, UiWork, RequestFrame, AwaitVSync, ScheduleSecondaryCallback,
               RunSecondaryCallback, DrawLastLayerTree, BeginFrameAs,
               BeginFrameWithContinuation, BeginFrame, BeginFramePipelineFull, EndFrame,
               Render, CompleteReturns, OnAnimatorDraw, DestroyAnimator,
               AnimatorDestroyed, uiVars, rasterVars
      <3>2. QED BY <3>1, Zenon
    <2>2. drawDue' \in BOOLEAN
      <3>1. \/ drawDue' = drawDue \/ drawDue' = FALSE
            \/ drawDue' = (animator = "alive" /\ isFirst)
        BY <1>3, Zenon
           DEF UiNext, UiWork, RequestFrame, AwaitVSync, ScheduleSecondaryCallback,
               RunSecondaryCallback, DrawLastLayerTree, BeginFrameAs,
               BeginFrameWithContinuation, BeginFrame, BeginFramePipelineFull, EndFrame,
               Render, CompleteReturns, OnAnimatorDraw, DestroyAnimator,
               AnimatorDestroyed, uiVars, rasterVars
      <3>2. QED BY <3>1, Zenon
    <2>3. /\ animator' \in {"alive", "destroying", "destroyed"}
          /\ requests' \in 0..MaxRequests /\ rasterTask' = rasterTask
          /\ \/ rasterTasks' = rasterTasks
             \/ \E t \in RasterTask : rasterTasks' = Append(rasterTasks, t)
      BY <1>3, RequestsAssumption
         DEF UiNext, UiWork, RequestFrame, AwaitVSync, ScheduleSecondaryCallback,
             RunSecondaryCallback, DrawLastLayerTree, BeginFrameAs,
             BeginFrameWithContinuation, BeginFrame, BeginFramePipelineFull, EndFrame,
             Render, CompleteReturns, OnAnimatorDraw, DestroyAnimator,
             AnimatorDestroyed, uiVars, rasterVars, RasterTask
    <2>4. rasterTasks' \in Seq(RasterTask)
      BY <2>3
    <2>5. QED BY <2>1, <2>2, <2>3, <2>4
  <1>4. CASE VsyncNext
    BY <1>1, <1>4 DEF VsyncNext, TakeCallbacks, PostCallback, PostSecondaryCallback,
         uiVars, rasterVars, threadVars
  <1>5. CASE RasterNext
    <2>1. /\ UNCHANGED <<inFrame, drawDue, animator, requests>>
          /\ rasterTask' \in RasterTask \cup {"none"}
          /\ \/ rasterTasks' = rasterTasks
             \/ rasterTasks # <<>> /\ rasterTasks' = Tail(rasterTasks)
             \/ \E t \in RasterTask : rasterTasks' = Append(rasterTasks, t)
      BY <1>5 DEF RasterNext, BeginDraw, DrawNothing, SkipDraw, PopItem, DoDraw, Resubmit,
           Resubmitted, EndDraw, RedrawLastLayerTree, ResetRasterizer, RasterTakes,
           uiVars, rasterVars, RasterTask
    <2>2. rasterizer' \in BOOLEAN
      <3>1. rasterizer' = rasterizer \/ rasterizer' = FALSE
        BY <1>5, Zenon DEF RasterNext, BeginDraw, DrawNothing, SkipDraw, PopItem, DoDraw,
             Resubmit, Resubmitted, EndDraw, RedrawLastLayerTree, ResetRasterizer, rasterVars
      <3>2. QED BY <3>1, Zenon
    <2>3. rasterTasks' \in Seq(RasterTask)
      BY SMTT(30), <2>1
    <2>4. QED BY <2>1, <2>2, <2>3
  <1>6. QED BY <1>2, <1>3, <1>4, <1>5 DEF Next

\* Every variable of the three threads has its type in every reachable state,
\* pending_frame_semaphore_ is binary and the platform owes one vsync at most.
THEOREM FrameTypeCorrect == Spec => []TypeInvariant
  <1>1. Spec => []OrderInv
    BY OrderInit, OrderStep, PTL DEF Spec
  <1>2. Spec => []ThreadTypes
    BY ThreadTypesInit, ThreadTypesNext, PTL DEF Spec
  <1>3. OrderInv /\ ThreadTypes /\ RequestInv /\ AwaitedOnce => TypeInvariant
    <2> SUFFICES ASSUME OrderInv, ThreadTypes, RequestInv, AwaitedOnce PROVE TypeInvariant
      OBVIOUS
    <2>1. TypeOK /\ built \in Nat /\ lastTree \in Nat
          /\ status \in {"none", "kResubmit", "resubmitted"}
      BY DEF OrderInv, PipelineInv, OrderTypes
    <2>2. awaits \in 0..1
      BY DEF AwaitedOnce, B
    <2>3. {inFrame, drawDue, frameScheduled, regenerate, callback, rasterizer} \subseteq BOOLEAN
      BY Zenon DEF RequestInv, RequestTypes, ThreadTypes
    <2>4. QED BY <2>1, <2>2, <2>3 DEF TypeInvariant, RequestInv, RequestTypes, ThreadTypes
  <1>4. QED BY <1>1, <1>2, <1>3, RequestInvariant, VsyncAwaitedOnce, PTL
=============================================================================
