--------------------------- MODULE FrameScheduling ---------------------------
(***************************************************************************)
(* From a request for a frame to its rasterization (shell/common:          *)
(* animator.cc, vsync_waiter.cc, the Draw of rasterizer.cc, and the        *)
(* Animator::Delegate half of shell.cc), over the Pipeline.                *)
(*                                                                         *)
(* Three threads take part.  The UI thread runs the animator and, through  *)
(* the engine, the framework that asks for frames and renders them; it is  *)
(* the producer of the pipeline.  The thread of the platform's vsync       *)
(* source fires the callbacks of VsyncWaiter.  The raster thread draws; it *)
(* is the consumer.  The UI and the raster thread run the tasks posted to  *)
(* them in order.  The rasterizer is one without a thread merger.          *)
(*                                                                         *)
(* Layer trees are numbered in the order the framework renders them, and   *)
(* the items of the pipeline are these numbers.                            *)
(***************************************************************************)
EXTENDS Pipeline, FiniteSets

CONSTANTS
    SecondaryIds,  \* ids of the secondary vsync callbacks
    Destroyable,   \* the shell may be destroyed
    Outcomes,      \* what DoDraw may return
    MaxRequests    \* bound on the requests of the engine and the framework

ASSUME FramesAssumption == Items \subseteq Nat \ {0}
ASSUME SecondaryAssumption == SecondaryIds \cap {"AwaitVSync", "Vsync"} = {}
ASSUME OutcomesAssumption == Outcomes \subseteq {"kSuccess", "kDiscarded", "kResubmit"}
ASSUME RequestsAssumption == MaxRequests \in Nat

VARIABLES
    uiTasks,         \* tasks posted to the UI thread
    inFrame,         \* the UI thread is inside OnAnimatorBeginFrame
    drawDue,         \* Render has pushed a first item and has yet to notify
    animator,        \* "alive", "destroying", "destroyed"
    pendingFrame,    \* count of pending_frame_semaphore_
    frameScheduled,  \* frame_scheduled_
    regenerate,      \* regenerate_layer_tree_
    built,           \* layer trees rendered so far
    requests,        \* requests made so far
    callback,        \* callback_ of VsyncWaiter is set
    secondary,       \* ids in secondary_callbacks_
    awaits,          \* AwaitVSync calls the platform has not answered
    fired,           \* what FireCallback has taken and not yet posted
    rasterTasks,     \* tasks posted to the raster thread
    rasterTask,      \* the task the raster thread is in
    rasterizer,      \* the rasterizer is alive
    status,          \* "kResubmit" or "resubmitted" once a Draw gets there
    lastTree         \* last_layer_tree_, 0 when there is none

uiVars == <<inFrame, drawDue, animator, pendingFrame, frameScheduled, regenerate,
            built, requests>>
vsyncVars == <<callback, secondary, awaits, fired>>
rasterVars == <<rasterTask, rasterizer, status, lastTree>>

vars == <<pipelineVars, uiTasks, uiVars, vsyncVars, rasterTasks, rasterVars>>

NothingFired == [callback |-> FALSE, secondary |-> {}]

UiTask == {"AwaitVSync", "Vsync"} \cup SecondaryIds
RasterTask == {"Draw", "Redraw", "DrawLast", "Reset"}

\* Every variable has its type; pending_frame_semaphore_ is binary, and the
\* platform owes one vsync at most.
TypeInvariant ==
    /\ TypeOK
    /\ uiTasks \in Seq(UiTask) /\ rasterTasks \in Seq(RasterTask)
    /\ {inFrame, drawDue, frameScheduled, regenerate, callback, rasterizer} \subseteq BOOLEAN
    /\ animator \in {"alive", "destroying", "destroyed"}
    /\ pendingFrame \in 0..1 /\ awaits \in 0..1
    /\ built \in Nat /\ requests \in 0..MaxRequests /\ lastTree \in Nat
    /\ secondary \subseteq SecondaryIds
    /\ fired \in [callback : BOOLEAN, secondary : SUBSET SecondaryIds]
    /\ rasterTask \in RasterTask \cup {"none"}
    /\ status \in {"none", "kResubmit", "resubmitted"}

FrameInit ==
    /\ Init
    /\ uiTasks = <<>> /\ inFrame = FALSE /\ drawDue = FALSE /\ animator = "alive"
    /\ pendingFrame = 1 /\ frameScheduled = FALSE /\ regenerate = FALSE
    /\ built = 0 /\ requests = 0
    /\ callback = FALSE /\ secondary = {} /\ awaits = 0 /\ fired = NothingFired
    /\ rasterTasks = <<>> /\ rasterTask = "none" /\ rasterizer = TRUE
    /\ status = "none" /\ lastTree = 0

(***************************************************************************)
(* The UI thread.                                                          *)
(***************************************************************************)
\* Between two calls of the code below: not in the middle of Render.
UiRuns == animator = "alive" /\ producer = "idle" /\ ~drawDue

\* UI thread takes a task only when it is not inside one.
UiTakes(task) ==
    /\ UiRuns /\ ~inFrame
    /\ uiTasks # <<>> /\ Head(uiTasks) = task

\* Animator::RequestFrame, called by the engine or, inside or outside of a
\* frame, by the framework; FALSE is an external texture with a new frame.
RequestFrame_Unguarded(regenerateTree) ==   \* mutant: no pending_frame_semaphore_
    /\ UiRuns /\ requests < MaxRequests
    /\ requests' = requests + 1
    /\ regenerate' = (regenerate \/ regenerateTree)
    /\ uiTasks' = Append(uiTasks, "AwaitVSync")
    /\ frameScheduled' = TRUE
    /\ pendingFrame' = 0
    /\ UNCHANGED <<pipelineVars, inFrame, drawDue, animator, built, vsyncVars,
                   rasterTasks, rasterVars>>
RequestFrame(regenerateTree) ==
    /\ UiRuns /\ requests < MaxRequests
    /\ requests' = requests + 1
    /\ regenerate' = (regenerate \/ regenerateTree)
    /\ IF pendingFrame = 0
       THEN UNCHANGED <<uiTasks, frameScheduled, pendingFrame>>
       ELSE /\ pendingFrame' = 0
            /\ uiTasks' = Append(uiTasks, "AwaitVSync")
            /\ frameScheduled' = TRUE
    /\ UNCHANGED <<pipelineVars, inFrame, drawDue, animator, built, vsyncVars,
                   rasterTasks, rasterVars>>

\* The task of RequestFrame: Animator::AwaitVSync and AsyncWaitForVsync.
AwaitVSync_Early ==   \* mutant: returns before the callback is stored
    /\ UiTakes("AwaitVSync")
    /\ uiTasks' = Tail(uiTasks)
    /\ callback' = (callback \/ secondary = {})
    /\ awaits' = IF callback \/ secondary # {} THEN awaits ELSE awaits + 1
    /\ UNCHANGED <<pipelineVars, uiVars, secondary, fired, rasterTasks, rasterVars>>
AwaitVSync_Always ==   \* mutant: a secondary callback's await is not noticed
    /\ UiTakes("AwaitVSync")
    /\ uiTasks' = Tail(uiTasks)
    /\ callback' = TRUE
    /\ awaits' = IF callback THEN awaits ELSE awaits + 1
    /\ UNCHANGED <<pipelineVars, uiVars, secondary, fired, rasterTasks, rasterVars>>
AwaitVSync ==
    /\ UiTakes("AwaitVSync")
    /\ uiTasks' = Tail(uiTasks)
    /\ callback' = TRUE
    /\ awaits' = IF callback \/ secondary # {} THEN awaits ELSE awaits + 1
    /\ UNCHANGED <<pipelineVars, uiVars, secondary, fired, rasterTasks, rasterVars>>

\* ScheduleSecondaryCallback, for the animator's trace flows or the pointer
\* data dispatcher.
ScheduleSecondaryCallback(id) ==
    /\ UiRuns /\ requests < MaxRequests
    /\ requests' = requests + 1
    /\ secondary' = secondary \cup {id}
    /\ awaits' = IF callback \/ secondary # {} THEN awaits ELSE awaits + 1
    /\ UNCHANGED <<pipelineVars, uiTasks, inFrame, drawDue, animator, pendingFrame,
                   frameScheduled, regenerate, built, callback, fired,
                   rasterTasks, rasterVars>>

RunSecondaryCallback(id) ==
    /\ UiTakes(id)
    /\ uiTasks' = Tail(uiTasks)
    /\ UNCHANGED <<pipelineVars, uiVars, vsyncVars, rasterTasks, rasterVars>>

\* The vsync task: DrawLastLayerTree or BeginFrame, whose three ends follow.
DrawLastLayerTree ==
    /\ UiTakes("Vsync") /\ ~regenerate
    /\ uiTasks' = Tail(uiTasks)
    /\ pendingFrame' = pendingFrame + 1
    /\ rasterTasks' = Append(rasterTasks, "DrawLast")
    /\ UNCHANGED <<pipelineVars, inFrame, drawDue, animator, frameScheduled, regenerate,
                   built, requests, vsyncVars, rasterVars>>

BeginFrameAs ==
    /\ UiTakes("Vsync") /\ regenerate
    /\ uiTasks' = Tail(uiTasks)
    /\ frameScheduled' = FALSE
    /\ regenerate' = FALSE
    /\ pendingFrame' = pendingFrame + 1
    /\ inFrame' = TRUE
    /\ UNCHANGED <<drawDue, animator, built, requests, vsyncVars, rasterTasks, rasterVars>>

BeginFrameWithContinuation ==
    /\ continuation
    /\ BeginFrameAs
    /\ UNCHANGED pipelineVars

BeginFrame ==
    /\ Produce
    /\ BeginFrameAs

\* Nothing is produced: the frame is requested again for the next vsync.
BeginFramePipelineFull ==
    /\ UiTakes("Vsync") /\ regenerate
    /\ ~continuation /\ empty = 0
    /\ uiTasks' = Append(Tail(uiTasks), "AwaitVSync")
    /\ frameScheduled' = TRUE
    /\ UNCHANGED <<pipelineVars, inFrame, drawDue, animator, pendingFrame, regenerate,
                   built, requests, vsyncVars, rasterTasks, rasterVars>>

EndFrame ==
    /\ UiRuns /\ inFrame
    /\ inFrame' = FALSE
    /\ UNCHANGED <<pipelineVars, uiTasks, drawDue, animator, pendingFrame, frameScheduled,
                   regenerate, built, requests, vsyncVars, rasterTasks, rasterVars>>

\* Animator::Render, in a frame or, by a framework that held on to a frame's
\* continuation, outside of one.  Without a continuation it returns.
Render ==
    /\ UiRuns /\ built + 1 \in Items
    /\ Push(built + 1)
    /\ built' = built + 1
    /\ UNCHANGED <<uiTasks, inFrame, drawDue, animator, pendingFrame, frameScheduled,
                   regenerate, requests, vsyncVars, rasterTasks, rasterVars>>

CompleteReturns ==
    /\ SignalPushed
    /\ drawDue' = (animator = "alive" /\ isFirst)
    /\ UNCHANGED <<uiTasks, inFrame, animator, pendingFrame, frameScheduled, regenerate,
                   built, requests, vsyncVars, rasterTasks, rasterVars>>

OnAnimatorDraw ==
    /\ drawDue
    /\ drawDue' = FALSE
    /\ rasterTasks' = Append(rasterTasks, "Draw")
    /\ UNCHANGED <<pipelineVars, uiTasks, inFrame, animator, pendingFrame, frameScheduled,
                   regenerate, built, requests, vsyncVars, rasterVars>>

\* ~Shell destroys the engine and with it the animator, whose members go in
\* reverse order: a continuation it holds commits null, then its reference to
\* the pipeline is dropped.  The rasterizer is reset next, on its own thread.
DestroyAnimator ==
    /\ Destroyable /\ UiRuns /\ ~inFrame
    /\ animator' = "destroying"
    /\ \/ continuation /\ Push(Null)
       \/ ~continuation /\ UNCHANGED pipelineVars
    /\ UNCHANGED <<uiTasks, inFrame, drawDue, pendingFrame, frameScheduled, regenerate,
                   built, requests, vsyncVars, rasterTasks, rasterVars>>

AnimatorDestroyed ==
    /\ animator = "destroying" /\ producer = "idle"
    /\ animator' = "destroyed"
    /\ rasterTasks' = Append(rasterTasks, "Reset")
    /\ UNCHANGED <<pipelineVars, uiTasks, inFrame, drawDue, pendingFrame, frameScheduled,
                   regenerate, built, requests, vsyncVars, rasterVars>>

UiWork ==
    \/ AwaitVSync
    \/ \E id \in SecondaryIds : RunSecondaryCallback(id)
    \/ DrawLastLayerTree
    \/ BeginFrameWithContinuation \/ BeginFrame \/ BeginFramePipelineFull \/ EndFrame
    \/ CompleteReturns \/ OnAnimatorDraw
    \/ AnimatorDestroyed

UiNext ==
    \/ UiWork
    \/ \E r \in BOOLEAN : RequestFrame(r)
    \/ \E id \in SecondaryIds : ScheduleSecondaryCallback(id)
    \/ Render
    \/ DestroyAnimator

(***************************************************************************)
(* The vsync source: FireCallback, once for every AwaitVSync.              *)
(***************************************************************************)
TakeCallbacks ==
    /\ awaits > 0 /\ fired = NothingFired
    /\ awaits' = awaits - 1
    /\ fired' = [callback |-> callback, secondary |-> secondary]
    /\ callback' = FALSE
    /\ secondary' = {}
    /\ UNCHANGED <<pipelineVars, uiTasks, uiVars, rasterTasks, rasterVars>>

PostCallback ==
    /\ fired.callback
    /\ fired' = [fired EXCEPT !.callback = FALSE]
    /\ uiTasks' = Append(uiTasks, "Vsync")
    /\ UNCHANGED <<pipelineVars, uiVars, callback, secondary, awaits, rasterTasks, rasterVars>>

PostSecondaryCallback(id) ==
    /\ ~fired.callback /\ id \in fired.secondary
    /\ fired' = [fired EXCEPT !.secondary = @ \ {id}]
    /\ uiTasks' = Append(uiTasks, id)
    /\ UNCHANGED <<pipelineVars, uiVars, callback, secondary, awaits, rasterTasks, rasterVars>>

VsyncNext ==
    \/ TakeCallbacks \/ PostCallback
    \/ \E id \in SecondaryIds : PostSecondaryCallback(id)

(***************************************************************************)
(* The raster thread.                                                      *)
(***************************************************************************)
InTasks(task) == \E i \in 1..Len(rasterTasks) : rasterTasks[i] = task

RasterTakes(task) ==
    /\ rasterTask = "none"
    /\ rasterTasks # <<>> /\ Head(rasterTasks) = task
    /\ rasterTasks' = Tail(rasterTasks)

\* The task of OnAnimatorDraw has a weak reference to the pipeline, the one
\* Draw posts itself a strong one.
ReachesPipeline(task) ==
    /\ rasterizer
    /\ task = "Draw" => animator # "destroyed" \/ InTasks("Redraw")

\* Draw, up to the claim of an item.
BeginDraw(task) ==
    /\ RasterTakes(task)
    /\ ReachesPipeline(task)
    /\ Claim
    /\ rasterTask' = task
    /\ UNCHANGED <<uiTasks, uiVars, vsyncVars, rasterizer, status, lastTree>>

\* Draw finds nothing to claim and returns at once.
DrawNothing(task) ==
    /\ RasterTakes(task)
    /\ ReachesPipeline(task)
    /\ available = 0
    /\ UNCHANGED <<pipelineVars, uiTasks, uiVars, vsyncVars, rasterTask, rasterizer,
                   status, lastTree>>

\* The rasterizer or the pipeline is gone.
SkipDraw(task) ==
    /\ RasterTakes(task)
    /\ ~ReachesPipeline(task)
    /\ UNCHANGED <<pipelineVars, uiTasks, uiVars, vsyncVars, rasterTask, rasterizer,
                   status, lastTree>>

PopItem ==
    /\ Pop
    /\ UNCHANGED <<uiTasks, uiVars, vsyncVars, rasterTasks, rasterVars>>

\* The consumer of Draw, that is discard_callback or DoDraw, and the end of
\* Consume.
DoDraw(outcome) ==
    /\ item # Null
    /\ Release
    /\ lastTree' = IF outcome = "kSuccess" THEN item ELSE lastTree
    /\ status' = IF outcome = "kResubmit" THEN "kResubmit" ELSE "none"
    /\ UNCHANGED <<uiTasks, uiVars, vsyncVars, rasterTasks, rasterTask, rasterizer>>

Resubmit ==
    /\ status = "kResubmit"
    /\ \/ ProduceIfEmpty /\ UNCHANGED status
       \/ PushBack /\ status' = "resubmitted"
       \/ BailOut /\ status' = "none"
       \/ consumer = "done" /\ empty = 0 /\ status' = "none" /\ UNCHANGED pipelineVars
    /\ UNCHANGED <<uiTasks, uiVars, vsyncVars, rasterTasks, rasterTask, rasterizer,
                   lastTree>>

Resubmitted ==
    /\ SignalPushedBack
    /\ UNCHANGED <<uiTasks, uiVars, vsyncVars, rasterTasks, rasterVars>>

\* Draw posts itself again while there is more to consume.
MoreAvailable_Consume == itemsCount > 0   \* mutant: the resubmitted frame is forgotten
MoreAvailable == itemsCount > 0 \/ status = "resubmitted"

EndDraw ==
    /\ status # "kResubmit"
    /\ Return
    /\ rasterTasks' = IF MoreAvailable THEN Append(rasterTasks, "Redraw") ELSE rasterTasks
    /\ rasterTask' = "none"
    /\ status' = "none"
    /\ UNCHANGED <<uiTasks, uiVars, vsyncVars, rasterizer, lastTree>>

\* Rasterizer::DrawLastLayerTree draws the tree it drew last.
RedrawLastLayerTree ==
    /\ RasterTakes("DrawLast")
    /\ UNCHANGED <<pipelineVars, uiTasks, uiVars, vsyncVars, rasterVars>>

ResetRasterizer ==
    /\ RasterTakes("Reset")
    /\ rasterizer' = FALSE
    /\ UNCHANGED <<pipelineVars, uiTasks, uiVars, vsyncVars, rasterTask, status, lastTree>>

RasterNext ==
    \/ \E task \in {"Draw", "Redraw"} : BeginDraw(task) \/ DrawNothing(task) \/ SkipDraw(task)
    \/ PopItem
    \/ \E outcome \in Outcomes : DoDraw(outcome)
    \/ Resubmit \/ Resubmitted \/ EndDraw
    \/ RedrawLastLayerTree \/ ResetRasterizer

-----------------------------------------------------------------------------
Next == UiNext \/ VsyncNext \/ RasterNext

Spec == FrameInit /\ [][Next]_vars

\* The threads run the tasks they are given, the platform answers every
\* AwaitVSync and the GPU finishes every frame.  The framework owes nothing.
FairSpec == Spec /\ WF_vars(UiWork) /\ WF_vars(VsyncNext) /\ WF_vars(RasterNext)

-----------------------------------------------------------------------------
TasksOf(task) == Cardinality({i \in 1..Len(uiTasks) : uiTasks[i] = task})

\* A request for a frame is in one place at a time until a vsync answers it:
\* pending_frame_semaphore_ is free, or the request is a posted AwaitVSync, the
\* callback the vsync waiter holds or is posting, or the posted vsync task.  A
\* tree that is to be regenerated has such a request, and an outstanding request
\* is known as scheduled to whoever asks on the UI thread.
FrameRequestAccounting ==
    /\ pendingFrame + TasksOf("AwaitVSync") + B(callback) + B(fired.callback)
          + TasksOf("Vsync") = 1
    /\ regenerate => pendingFrame = 0
    /\ pendingFrame = 0 => frameScheduled

\* The platform is asked for a vsync once for all the callbacks that wait for
\* it, and FireCallback answers it once (vsync_waiter.h:54).
AwaitedOnce == awaits = B(callback \/ secondary # {})

\* What ends up on screen never goes back to an older tree, through resubmitted
\* frames, pushed behind or dropped for newer ones.
FramesInOrder == [][lastTree' > lastTree]_lastTree

\* Every request for a frame is answered by a vsync, as long as the animator lives.
RequestsAreAnswered ==
    []<>(pendingFrame = 1 \/ animator # "alive" \/ (uiTasks # <<>> /\ Head(uiTasks) = "Vsync"))

\* The frames the raster thread is notified of - pushed as the first item, or
\* pushed back by itself - are consumed, as long as the rasterizer lives.
NotifiedFramesAreConsumed ==
    \A x \in Items :
        \/ producer = "pushed" /\ isFirst /\ built = x
        \/ consumer = "pushedBack" /\ item = x
        ~> (~rasterizer \/ (consumer = "consuming" /\ item = x))

(***************************************************************************)
(* What the code says of itself and does not keep.                         *)
(***************************************************************************)
\* animator.cc:164, of a frame that is not the first item: "Eventually the
\* 'Rasterizer' will consume it, so we don't need to notify the delegate."
FramesAreConsumed ==
    \A x \in Items :
        (producer = "pushed" /\ built = x) ~> (consumer = "consuming" /\ item = x)

\* "The continuation is being dropped on the floor" (pipeline.h:66): nothing of
\* it reaches the consumer, which dereferences what it is given.
DroppedContinuationIsNotConsumed == consumer = "consuming" => item # Null
=============================================================================
