---------------------------- MODULE PlatformViews ----------------------------
(***************************************************************************)
(* Frames with platform views, which must be submitted on the platform     *)
(* thread, while the platform creates and destroys the shells' surfaces    *)
(* (shell/common/shell.cc and rasterizer.cc, with the external view        *)
(* embedder of shell/platform/android), over the ThreadMerger.             *)
(*                                                                         *)
(* The tasks of the raster task runner are taken, in order, by the thread  *)
(* that owns the raster queue: the raster thread, or the platform thread   *)
(* while the queues are merged.  The shells share both threads.  The model *)
(* starts where every shell has had its first surface, and with it its     *)
(* merger.                                                                 *)
(*                                                                         *)
(* Left out: the semaphores of the pipeline and the vsync (Pipeline and    *)
(* FrameScheduling have them), DrawLastLayerTree, discarded trees, and a   *)
(* surface that yields no frame.                                           *)
(***************************************************************************)
EXTENDS ThreadMerger, Sequences, FiniteSets

CONSTANTS
    Trees,        \* layer trees, numbered in the order the framework renders them
    ViewTrees,    \* those with platform views
    Depth,        \* of the pipelines
    MaxDestroys   \* bound on the surfaces that are destroyed

ASSUME TreesAssumption == Trees \subseteq Nat \ {0} /\ ViewTrees \subseteq Trees
ASSUME BoundsAssumption == Depth \in Nat \ {0} /\ MaxDestroys \in Nat

VARIABLES
    rasterTasks,   \* tasks of the raster task runner
    pipeline,      \* per shell, the trees pushed and not yet popped
    built,         \* per shell, the last tree its framework rendered
    draw,          \* per thread, the Draw it is in
    resubmitted,   \* per rasterizer, resubmitted_layer_tree_, 0 for null
    composed,      \* per embedder, composition_order_ holds views
    shown,         \* per shell, the last tree submitted to its surface
    surface,       \* per rasterizer, surface_ is set
    view,          \* per shell, the platform has given it a surface
    platform,      \* where the platform thread is, and for which shell; history: a
                   \* frame was merging the threads when the merger was disabled
    destroys,      \* surfaces destroyed so far
    aborted        \* a FML_CHECK has failed

rasterVars == <<pipeline, built, draw, resubmitted, composed, shown>>
platformVars == <<view, platform, destroys>>

vars == <<mergerVars, rasterTasks, rasterVars, surface, platformVars, aborted>>

Threads == {"platform", "raster"}
Nobody == "nobody"
Task(kind, s) == [kind |-> kind, shell |-> s]
NoDraw == [phase |-> "none", shell |-> Nobody, tree |-> 0, more |-> FALSE, retry |-> FALSE]
Free == [pc |-> "idle", shell |-> Nobody, overlapped |-> FALSE]

\* Every variable has its type; a lease is never negative, nor is it recorded
\* for a shell that took none.
TypeInvariant ==
    /\ MergerTypeOK
    /\ rasterTasks \in Seq([kind : {"Draw", "Setup", "Teardown"}, shell : Shells])
    /\ pipeline \in [Shells -> Seq(Trees \cup {0})]
    /\ {built, resubmitted, shown} \subseteq [Shells -> Trees \cup {0}]
    /\ draw \in [Threads -> [phase : {"none", "drawing", "merging", "submitting",
                                      "ending"},
                             shell : Shells \cup {Nobody}, tree : Trees \cup {0},
                             more : BOOLEAN, retry : BOOLEAN]]
    /\ {composed, surface, view} \subseteq [Shells -> BOOLEAN]
    /\ platform \in [pc : {"idle", "creating", "destroying", "waiting"},
                     shell : Shells \cup {Nobody}, overlapped : BOOLEAN]
    /\ destroys \in 0..MaxDestroys
    /\ aborted \in BOOLEAN

Init ==
    /\ MergerInit
    /\ rasterTasks = <<>>
    /\ pipeline = [s \in Shells |-> <<>>]
    /\ built = [s \in Shells |-> 0]
    /\ draw = [t \in Threads |-> NoDraw]
    /\ resubmitted = [s \in Shells |-> 0]
    /\ composed = [s \in Shells |-> FALSE]
    /\ shown = [s \in Shells |-> 0]
    /\ surface = [s \in Shells |-> TRUE]
    /\ view = [s \in Shells |-> TRUE]
    /\ platform = Free
    /\ destroys = 0
    /\ aborted = FALSE

\* The thread RunsTasksOnCurrentThread is true of for the raster task runner.
Owner == IF queuesMerged THEN "platform" ELSE "raster"

\* A thread takes a task when it is not inside one.
Idle(t) == ~aborted /\ draw[t] = NoDraw /\ (t = "platform" => platform = Free)

\* A thread in the middle of a Draw; nothing moves once a check has failed.
Inside(t, phase) == ~aborted /\ draw[t].phase = phase

Takes(t, task) ==
    /\ t = Owner /\ Idle(t)
    /\ rasterTasks # <<>> /\ Head(rasterTasks) = task

-----------------------------------------------------------------------------
(***************************************************************************)
(* The UI thread: Animator::Render, and OnAnimatorDraw for a first item.   *)
(***************************************************************************)
DoDrawPhases == {"drawing", "merging", "submitting"}
InDraw(t, s) == draw[t].phase \in DoDrawPhases /\ draw[t].shell = s

Render(s, x) ==
    /\ ~aborted /\ x > built[s]
    /\ Len(pipeline[s]) + Cardinality({t \in Threads : InDraw(t, s)}) < Depth
    /\ built' = [built EXCEPT ![s] = x]
    /\ pipeline' = [pipeline EXCEPT ![s] = Append(@, x)]
    /\ rasterTasks' = IF pipeline[s] = <<>> THEN Append(rasterTasks, Task("Draw", s))
                      ELSE rasterTasks
    /\ UNCHANGED <<mergerVars, draw, resubmitted, composed, shown, surface,
                   platformVars, aborted>>

(***************************************************************************)
(* Rasterizer::Draw.                                                       *)
(***************************************************************************)
IsOnRasterizingThread(t) == t = IF IsMerged THEN "platform" ELSE "raster"

\* Draw yields on the wrong thread, or finds the pipeline empty.
SkipDraw(t, s) ==
    /\ Takes(t, Task("Draw", s))
    /\ ~IsOnRasterizingThread(t) \/ pipeline[s] = <<>>
    /\ rasterTasks' = Tail(rasterTasks)
    /\ UNCHANGED <<mergerVars, rasterVars, surface, platformVars, aborted>>

BeginDraw(t, s) ==
    /\ Takes(t, Task("Draw", s))
    /\ IsOnRasterizingThread(t)
    /\ pipeline[s] # <<>>
    /\ rasterTasks' = Tail(rasterTasks)
    /\ pipeline' = [pipeline EXCEPT ![s] = Tail(@)]
    /\ draw' = [draw EXCEPT ![t] = [phase |-> "drawing", shell |-> s,
                                    tree |-> Head(pipeline[s]),
                                    more |-> Len(pipeline[s]) > 1, retry |-> FALSE]]
    /\ UNCHANGED <<mergerVars, built, resubmitted, composed, shown, surface,
                   platformVars, aborted>>

\* DoDraw without a layer tree or a surface: kFailed.
FailDraw(t) ==
    LET s == draw[t].shell IN
    /\ Inside(t, "drawing")
    /\ draw[t].tree = 0 \/ ~surface[s]
    /\ draw' = [draw EXCEPT ![t].phase = "ending"]
    /\ UNCHANGED <<mergerVars, rasterTasks, pipeline, built, resubmitted, composed,
                   shown, surface, platformVars, aborted>>

Drawable(t) == Inside(t, "drawing") /\ draw[t].tree # 0 /\ surface[draw[t].shell]

\* A frame with views while the threads are not merged.
NeedsMerge_Never(t) == FALSE   \* mutant: views are rasterized on any thread
NeedsMerge(t) == draw[t].tree \in ViewTrees /\ ~IsMerged

\* PostPrerollAction of such a frame: in MergeWithLease ...
BeginMerge(t) ==
    /\ Drawable(t) /\ NeedsMerge(t) /\ MayMerge
    /\ draw' = [draw EXCEPT ![t].phase = "merging"]
    /\ UNCHANGED <<mergerVars, rasterTasks, pipeline, built, resubmitted, composed,
                   shown, surface, platformVars, aborted>>

\* ... to its end, or not at all: kSkipAndRetryFrame, after which DoDraw keeps the
\* tree in resubmitted_layer_tree_.
SkipAndRetry(t) ==
    LET s == draw[t].shell IN
    /\ \/ Inside(t, "merging") /\ MergeWithLease(s)
       \/ Drawable(t) /\ NeedsMerge(t) /\ ~MayMerge /\ UNCHANGED mergerVars
    /\ composed' = [composed EXCEPT ![s] = FALSE]
    /\ resubmitted' = [resubmitted EXCEPT ![s] = draw[t].tree]
    /\ draw' = [draw EXCEPT ![t].phase = "ending", ![t].retry = TRUE]
    /\ UNCHANGED <<rasterTasks, pipeline, built, shown, surface, platformVars, aborted>>

\* PostPrerollAction of any other frame.  The first with views is not
\* submitted but drawn once more (kResubmitFrame).
Preroll(t) ==
    LET s == draw[t].shell
        views == draw[t].tree \in ViewTrees IN
    /\ Drawable(t) /\ ~NeedsMerge(t)
    /\ IF views THEN ExtendLeaseTo(s) ELSE UNCHANGED mergerVars
    /\ composed' = [composed EXCEPT ![s] = views]
    /\ draw' = [draw EXCEPT ![t].phase = "submitting", ![t].retry = views /\ ~composed[s]]
    /\ UNCHANGED <<rasterTasks, pipeline, built, resubmitted, shown, surface,
                   platformVars, aborted>>

Resubmit(t) ==
    /\ Inside(t, "submitting") /\ draw[t].retry
    /\ resubmitted' = [resubmitted EXCEPT ![draw[t].shell] = draw[t].tree]
    /\ draw' = [draw EXCEPT ![t].phase = "ending"]
    /\ UNCHANGED <<mergerVars, rasterTasks, pipeline, built, composed, shown, surface,
                   platformVars, aborted>>

\* SubmitFrame, and the DecrementLease at the end of DoDraw; kEnqueuePipeline
\* if it unmerged the threads.
Submit(t) ==
    LET s == draw[t].shell IN
    /\ Inside(t, "submitting") /\ ~draw[t].retry
    /\ shown' = [shown EXCEPT ![s] = draw[t].tree]
    /\ DecrementLease(s)
    /\ draw' = [draw EXCEPT ![t].phase = "ending", ![t].more = @ \/ UnmergedNow]
    /\ UNCHANGED <<rasterTasks, pipeline, built, resubmitted, composed, surface,
                   platformVars, aborted>>

SubmitAborts(t) ==
    /\ Inside(t, "submitting") /\ ~draw[t].retry
    /\ LeaseUnderflow(draw[t].shell)
    /\ aborted' = TRUE
    /\ UNCHANGED <<mergerVars, rasterTasks, rasterVars, surface, platformVars>>

\* What makes Draw post itself.
MoreAvailable_Consume(t) == draw[t].more   \* mutant: the result of Consume only
MoreAvailable(t) ==
    draw[t].more \/ (draw[t].retry /\ pipeline[draw[t].shell] = <<>>)

\* The rest of Draw: the tree to be drawn again is pushed back if no newer one
\* is there (ProduceIfEmpty), and Draw posts itself if there is more to draw.
EndDraw(t) ==
    LET s == draw[t].shell
        retry == draw[t].retry
        back == retry /\ pipeline[s] = <<>> IN
    /\ Inside(t, "ending")
    /\ pipeline' = IF back THEN [pipeline EXCEPT ![s] = <<resubmitted[s]>>] ELSE pipeline
    /\ resubmitted' = IF retry THEN [resubmitted EXCEPT ![s] = 0] ELSE resubmitted
    /\ rasterTasks' = IF MoreAvailable(t) THEN Append(rasterTasks, Task("Draw", s))
                      ELSE rasterTasks
    /\ draw' = [draw EXCEPT ![t] = NoDraw]
    /\ UNCHANGED <<mergerVars, built, composed, shown, surface, platformVars, aborted>>

-----------------------------------------------------------------------------
(***************************************************************************)
(* The surface comes and goes.  Both calls disable the merger, then look   *)
(* at which thread has the raster queue, and either run their raster task  *)
(* themselves or post it.                                                  *)
(***************************************************************************)
\* raster_task of OnPlatformViewCreated.
Setup(s) ==
    /\ SetEnabled(TRUE)
    /\ surface' = [surface EXCEPT ![s] = TRUE]

\* raster_task of OnPlatformViewDestroyed, and Rasterizer::Teardown.
Teardown(s) ==
    /\ surface' = [surface EXCEPT ![s] = FALSE]
    /\ enabled' = TRUE
    /\ IF IsMerged THEN EraseRecord(s) ELSE UNCHANGED <<lease, queuesMerged>>

\* A frame of s that merges the threads holds the mutex of its merger.
Merging == {t \in Threads : draw[t].phase = "merging"}
DisableMerger(s) ==
    /\ \A t \in Merging : draw[t].shell # s
    /\ SetEnabled(FALSE)

DisableForCreate(s) ==
    /\ Idle("platform") /\ ~view[s]
    /\ view' = [view EXCEPT ![s] = TRUE]
    /\ platform' = [pc |-> "creating", shell |-> s, overlapped |-> Merging # {}]
    /\ DisableMerger(s)
    /\ UNCHANGED <<rasterTasks, rasterVars, surface, destroys, aborted>>

OnPlatformViewCreated ==
    /\ ~aborted /\ platform.pc = "creating"
    /\ platform' = Free
    /\ IF queuesMerged
       THEN Setup(platform.shell) /\ UNCHANGED rasterTasks
       ELSE /\ rasterTasks' = Append(rasterTasks, Task("Setup", platform.shell))
            /\ UNCHANGED <<mergerVars, surface>>
    /\ UNCHANGED <<rasterVars, view, destroys, aborted>>

DisableForDestroy(s) ==
    /\ Idle("platform") /\ view[s] /\ destroys < MaxDestroys
    /\ view' = [view EXCEPT ![s] = FALSE]
    /\ destroys' = destroys + 1
    /\ platform' = [pc |-> "destroying", shell |-> s, overlapped |-> Merging # {}]
    /\ DisableMerger(s)
    /\ UNCHANGED <<rasterTasks, rasterVars, surface, aborted>>

\* When the task is posted, the platform thread waits on the latch.
OnPlatformViewDestroyed_NoWait ==   \* mutant: the latch is not waited for
    /\ ~aborted /\ platform.pc = "destroying"
    /\ platform' = Free
    /\ IF queuesMerged
       THEN Teardown(platform.shell) /\ UNCHANGED rasterTasks
       ELSE /\ rasterTasks' = Append(rasterTasks, Task("Teardown", platform.shell))
            /\ UNCHANGED <<mergerVars, surface>>
    /\ UNCHANGED <<rasterVars, view, destroys, aborted>>
OnPlatformViewDestroyed ==
    /\ ~aborted /\ platform.pc = "destroying"
    /\ IF queuesMerged
       THEN Teardown(platform.shell) /\ platform' = Free /\ UNCHANGED rasterTasks
       ELSE /\ rasterTasks' = Append(rasterTasks, Task("Teardown", platform.shell))
            /\ platform' = [platform EXCEPT !.pc = "waiting"]
            /\ UNCHANGED <<mergerVars, surface>>
    /\ UNCHANGED <<rasterVars, view, destroys, aborted>>

RunSetup(t, s) ==
    /\ Takes(t, Task("Setup", s))
    /\ rasterTasks' = Tail(rasterTasks)
    /\ Setup(s)
    /\ UNCHANGED <<rasterVars, platformVars, aborted>>

\* The task ends with the signal of the latch, by way of the IO thread.
RunTeardown(t, s) ==
    /\ Takes(t, Task("Teardown", s))
    /\ rasterTasks' = Tail(rasterTasks)
    /\ Teardown(s)
    /\ platform' = Free
    /\ UNCHANGED <<rasterVars, view, destroys, aborted>>

-----------------------------------------------------------------------------
RunTask(t) == \E s \in Shells :
    SkipDraw(t, s) \/ BeginDraw(t, s) \/ RunSetup(t, s) \/ RunTeardown(t, s)

ContinueDraw(t) ==
    \/ FailDraw(t) \/ BeginMerge(t) \/ SkipAndRetry(t) \/ Preroll(t) \/ Resubmit(t)
    \/ Submit(t) \/ SubmitAborts(t) \/ EndDraw(t)

ThreadStep(t) == RunTask(t) \/ ContinueDraw(t)

ContinuePlatform == OnPlatformViewCreated \/ OnPlatformViewDestroyed

Next ==
    \/ \E s \in Shells, x \in Trees : Render(s, x)
    \/ \E t \in Threads : ThreadStep(t)
    \/ \E s \in Shells : DisableForCreate(s) \/ DisableForDestroy(s)
    \/ ContinuePlatform

Spec == Init /\ [][Next]_vars

\* A thread runs its tasks as long as there are any; nobody has to render a
\* tree or to create or destroy a surface.
Fairness ==
    /\ \A t \in Threads : WF_vars(ThreadStep(t))
    /\ WF_vars(ContinuePlatform)

FairSpec == Spec /\ Fairness

-----------------------------------------------------------------------------
\* At most one thread draws, and it is the one that owns the raster queue,
\* from the pop of a tree until DoDraw is through with it; however the queues
\* are merged and unmerged in the middle of frames.  Frames with platform
\* views are submitted on the platform thread only.
RasterizesOnOwner ==
    \A t \in Threads :
       /\ draw[t].phase \in DoDrawPhases => t = Owner
       /\ draw[t].phase = "submitting" /\ draw[t].tree \in ViewTrees => t = "platform"

\* While the platform thread waits for the raster task it has posted and the
\* merger is still disabled, the raster queue stays with the raster thread; unless
\* another shell's frame was past its look at enabled_ when it was disabled.
DisabledHoldsConfiguration ==
    platform.pc = "waiting" /\ ~enabled /\ ~platform.overlapped => ~queuesMerged

\* Once OnPlatformViewDestroyed has returned, the rasterizer has no surface.
SuspendedWhenDestroyed ==
    \A s \in Shells : ~view[s] /\ platform.shell # s => ~surface[s]

\* What shell.cc says of OnPlatformViewDestroyed, and the program does not keep
\* to: the raster queue stays with the raster thread until the raster
\* task of OnPlatformViewDestroyed has run.
ConfigurationHeldWhileWaiting == platform.pc = "waiting" => ~queuesMerged

\* With fair threads a tree that was pushed is popped and drawn, or is given
\* up for a newer one, through merges and unmerges, skipped and repeated
\* frames: the pipeline runs empty, unless the threads have come to the
\* deadlock that ConfigurationHeldWhileWaiting is about.
FramesAreDrawn ==
    []ConfigurationHeldWhileWaiting =>
        \A s \in Shells : []<>(pipeline[s] = <<>> /\ \A t \in Threads : ~InDraw(t, s))

-----------------------------------------------------------------------------
(***************************************************************************)
(* What the code says of itself, and does not keep to.                     *)
(***************************************************************************)
\* shell/common/pipeline.h: one consumer.  A tree is never shown after a newer
\* one.
TreesInOrder == [][\A s \in Shells : shown[s] <= shown'[s]]_vars

\* shell.cc:844 again: while the merger is disabled no request changes the threads,
\* not even one of another shell that was being made when it was disabled.
DisabledHoldsForAll == platform.pc = "waiting" /\ ~enabled => ~queuesMerged

\* fml/shared_thread_merger.cc: the lease of a caller is positive when the
\* threads are merged.
LeaseIsPositiveWhenMerged == ~aborted
=============================================================================
