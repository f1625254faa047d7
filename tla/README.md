# Verification of the engine's threads and frames

This directory holds TLA+ specifications of the Flutter engine in `src/`, the TLC
configurations that check them, and proofs for TLAPS. They cover the part of the engine
that is hardest to test: four threads (platform, UI, raster, IO) that exchange tasks and
frames, two of which may become one while the program runs; and the places where these
threads meet others: the pool of workers, the creation and destruction of shells, pointer
data, the release of graphics objects, messages between framework and embedder, the
resizing of windows, and the hosts and views of the OpenHarmony embedder.

    tlc -config TaskQueuesSafety.cfg MCTaskQueues      # model-check one run
    tlapm PipelineProofs.tla                           # check one module of proofs

`PROJECT.json` lists the components, the runs with the properties of each, the lines of
the source every definition stands for, the hazards, the findings and the theorems. Lines
are given below as `file:line`, relative to `src/`.

Contents: [inventory](#inventory) · [modules](#modules) · [runs](#runs) ·
[fairness](#fairness) · [proofs](#proofs) · [findings](#findings) ·
[observations](#observations) · [not modelled](#not-modelled) · [plan](#plan)

## Inventory

The components that carry the engine's own control, what each keeps, and what makes it
correct. A component without a module name is not modelled yet.

| Component | State | Operations | Talks to | Hard behaviour | Correct when |
|---|---|---|---|---|---|
| Task queues, task sources (`fml/message_loop_task_queues.cc`, `task_source.cc`, `delayed_task.cc`): **TaskQueues** | per queue two heaps of tasks, a pause count, `owner_of`, `subsumed_by`; the process-wide order | register, take, merge, unmerge, pause, resume, dispose | loops (wake-ups), thread merger, isolates | wake-ups across merged queues; grade read after the pop | no task is lost, doubled, early, or left with nobody awake to run it; the merge relation is consistent |
| Message loop (`fml/message_loop_impl.cc`, `fml/platform/linux`): **TaskQueues** | `terminated_`, the timer, the time of a flush | post, run, flush, terminate, dispose | queues | post against terminate; timer re-armed by other threads | every task is run once or destructed |
| Pipeline (`shell/common/pipeline.h`): **Pipeline**, **BoundedQueue** | two semaphores, a deque, continuations | produce, complete, drop, consume, push back | animator, rasterizer | semaphores outside of the mutex | a bounded FIFO; no slot or signal lost |
| Animator (`shell/common/animator.cc`): **FrameScheduling** | a binary semaphore, three flags, a continuation | request, begin frame, render, draw last tree | vsync waiter, pipeline, shell | full pipeline; destruction with a continuation in hand | every request is answered by a vsync, one request at a time |
| Vsync waiter (`shell/common/vsync_waiter.cc`): **FrameScheduling** | a primary and several secondary callbacks | schedule, fire | animator, pointer dispatcher, the platform | one await shared by all callbacks, over two threads | one await per vsync, every callback fired once |
| Rasterizer (`shell/common/rasterizer.cc`): **FrameScheduling**, **PlatformViews** | surface, last and resubmitted tree | draw, set up, tear down | pipeline, merger, embedder | changes its thread inside of a frame | one thread draws at a time; older trees never follow newer ones; every frame is drawn or superseded |
| Thread merger (`fml/raster_thread_merger.cc`, `shared_thread_merger.cc`): **ThreadMerger** | a lease per shell, enabled | merge, extend, decrement, unmerge, enable | task queues, rasterizer, shell | leases of several shells behind one flag | leases and queues agree; a disabled merger changes nothing |
| Platform views on Android (`external_view_embedder.cc`): **PlatformViews** | views of this and the previous frame | what to do with a frame after preroll | merger, rasterizer | skipped, repeated frames | views are submitted on the platform thread |
| Surface changes (`shell/common/shell.cc`, `OnPlatformViewCreated`, `OnPlatformViewDestroyed`): **PlatformViews** | the surface, a latch | create, destroy | merger, rasterizer, IO | the platform thread waits for a thread that may become itself | synchronous, without deadlock |
| Shells: creation, destruction, service protocol (`shell/common/shell.cc`, `runtime/service_protocol.cc`): **ShellLifecycle** | stages of a shell, its parts, tasks of four threads, the table of handlers | create, spawn, destroy, setup, draw, handle a message | everything | destruction over four threads, against a lock held over a wait | nothing outlives its shell; a message finds a whole shell; each stage ends |
| First frame and frame timings (`shell/common/shell.cc`): **FirstFrame** | `waiting_for_first_frame_`, `unreported_timings_`, the delayed report | wait, store and notify, report | rasterizer, platform thread, framework | a notification without the mutex; immediate, full and delayed reports | who waits is answered, not before a Draw; timings in order, once |
| Engine and runtime controller | a delegate chain | schedule frame, dispatch | animator, isolate | reentrancy | forwards every call |
| Pointer data dispatcher (`shell/common/pointer_data_dispatcher.cc`): **PointerDispatcher** | a pending packet, a flag | dispatch, fire | vsync waiter | a packet held back for a vsync, callbacks that are tasks | packets delivered in order, none lost or stuck |
| Concurrent message loop (`fml/concurrent_message_loop.cc`): **ConcurrentLoop** | task queue, per-thread tasks, shutdown, weak references | post, work, terminate, destroy | Dart workers, image decoders | notifying outside of the mutex; shutdown against work; the last reference | no worker sleeps through work; tasks run once; the destructor returns |
| Threads (`fml/thread.cc`) | a loop, joined | start, join | loop | join on a merged queue | join ends |
| Synchronization (`waitable_event.cc`, `semaphore.cc`, `sync_switch.cc`) | a flag under a mutex | wait, signal | all threads | lost wake-ups | one signal, one waiter |
| Weak pointers, reference counts | counts | acquire, release | all | cross-thread release | freed once |
| IO manager, unref queue (`flow/skia_gpu_object.h`, `shell/common/shell_io_manager.cc`): **UnrefQueue** | objects to unref, a pending drain, the GPU's switch | unref, drain, flush, tear down | rasterizer, IO | delayed drain against teardown and the queue's own destructor | every object unreffed once, in the end |
| Platform messages on Android (`platform_message_handler_android.cc`, `DartMessenger.java`): **PlatformMessages** | pending responses, buffered messages, a serial queue over a pool | send, route, dispatch, set a handler, answer | UI, platform, pool | three threads and a buffer on one channel | one message at a time, in the order of dispatch; one answer each |
| Dart isolate, VM (`runtime/`) | phase, message tasks | prepare, run, shut down | UI queue | phases out of order | phases move forward |
| Channel buffers (`lib/ui/channel_buffers.dart`): **ChannelBuffers** | a ring per channel, a drain in microtasks | push, drain, resize, set and clear listeners | engine, framework | reentrant handlers, resize while draining, a listener that throws | order kept, overflow drops the oldest, no backlog behind a listener |
| Resizing on Windows (`flutter_windows_view.cc`, `gpu_surface_gl_skia.cc`): **WindowsResize** | `resize_status_`, target, expected size, two surfaces | resize, wait, draw, present | platform, UI, raster | a wait over three threads with a timeout | the wait ends with a frame of the new size |
| Hosts and views on OpenHarmony (`shell/platform/ohos`): **OhosViews** | delegates, views, XComponents, shell holders | the lifecycle callbacks of abilities, entries and surfaces | hosts, engines | engines that are taken over; awaits; either order of surface callbacks | a shell renders to a window that exists; an engine serves its host |
| Raster cache, frame timings (`flow/`) | entries with age; states of a frame | prepare, sweep; record | rasterizer | eviction while in use | entries used this frame survive |
| Display lists, Impeller, GPU surfaces, Vulkan | recordings, GPU objects | draw | rasterizer | graphics semantics | out of reach here |
| The rest of the embedders (Android, Darwin, Windows, Linux, Fuchsia, OHOS, C API) | handles over the shell | glue | the shell | platform threads | contracts of the shell kept |
| Client wrapper, codecs, text input | buffers | encode, edit | - | sequential | round trips |
| Web engine, tools, tests, third party | - | - | - | - | not part of this system |

How they interact: the framework asks for a frame on the UI thread; the animator posts a
wait for a vsync; the vsync source fires on its own thread and posts the frame back; the
framework renders a layer tree, which goes through the pipeline to the raster thread. A
frame with platform views cannot be submitted there: it merges the raster queue into the
platform queue, so that the platform thread rasterizes until the lease of the merge has
run out. All of this happens in tasks, and every task goes through the task queues.

## Modules

    TaskDelivery <--implements-- TaskQueues <-- MCTaskQueues (constants)
                                            <-- TaskQueuesProofs
    BoundedQueue <--implements-- Pipeline   <-- PipelineProofs
                                     ^
                              FrameScheduling (EXTENDS Pipeline) <-- FrameSchedulingProofs
    ThreadMerger <-- PlatformViews (EXTENDS ThreadMerger) <-- MergingProofs

    ConcurrentLoop  ShellLifecycle  FirstFrame  PointerDispatcher  UnrefQueue <-- MCEngine
    PlatformViews  PlatformMessages  ChannelBuffers  WindowsResize  OhosViews <-- MCEmbedding
    ConcurrentLoop  UnrefQueue  PointerDispatcher   <-- EngineProofs
    ShellLifecycle  FirstFrame                      <-- ShellProofs
    PlatformMessages  ChannelBuffers  WindowsResize <-- EmbeddingProofs
    OhosViews                                       <-- OhosViewsProofs

**TaskQueues**. A queue and its loop have one name. `entries` is `queue_entries_`; the
two heaps of a source are the two halves, by grade, of its set of tasks, and a peek takes
the smallest by target time and order. Every operation under `queue_mutex_` is one action
(`RegisterTask`, `GetNextTaskToRun`, `Merge`, `Unmerge`, `PauseSecondarySource`, ...).
What a loop does between two such operations is spread over `pc`: `Run`, `EpollReturns`
and `OnEventFired` are the Linux loop with its timer, `GetNextTaskToRun`/`FinishTask` the
flush, `RunExpiredTasksNow`, `DisposeTasks` and `Dispose` the end. `PostTask` and
`FinishPost` are the two halves of `MessageLoopImpl::PostTask`, which tests `terminated_`
without a lock. `GradesRead` is the read through a reference to the heap's top after the
pop. All three grades of `task_source_grade.h` are there; two of them share the primary
heap (`SameHeap`). Which task a peek returns first among equals, and with it the time a
timer is left with, is a choice. `ran` and `dropped` are histories, for the properties only.

**TaskDelivery** is what a poster relies on: a task waits, and is then run once and not
early, or destructed. Merges are not visible in it.

**Pipeline**. `empty` and `available` are the counts of the two semaphores, `queue` the
deque. The mutex makes a push and a pop atomic; the semaphores are outside of it, so
claiming and popping, and pushing and signalling, are separate actions. A dropped
continuation pushes a null item. A `TryWait` that fails changes nothing.

**BoundedQueue** is what the pipeline is for: a FIFO that holds at most `Depth` items,
the one being consumed included.

**FrameScheduling** extends Pipeline with its two users. On the UI thread: `RequestFrame`,
`AwaitVSync`, the vsync task (`DrawLastLayerTree`, or the three ends of `BeginFrame`),
`Render`, and the destruction of the animator by `~Shell`. On the vsync thread:
`TakeCallbacks`, and one post per callback. On the raster thread: `BeginDraw`, `PopItem`,
`DoDraw`, `Resubmit`, `EndDraw`. Layer trees are numbers in the order in which they are
rendered. The vsync source of the platform is the only external part: it answers every
await.

**ThreadMerger**. `lease` is `lease_term_by_caller_` (-1: no record), `enabled` is
`enabled_`, `queuesMerged` is the state of the task queues. One operator per call of
`RasterThreadMerger`, with what it does to the `SharedThreadMerger` behind it; the look at
`enabled_`, which every shell protects by a mutex of its own, is a step apart from the merge.
`MergerSpec` is the merger with arbitrary callers.

**PlatformViews** extends ThreadMerger with the rasterizers of the shells that share it.
The task list of the raster queue is taken by `Owner`: the raster thread, or, while the
queues are merged, the platform thread. A Draw has three phases between which other
threads move: the pop; preroll, where the external view embedder decides
(`SkipAndRetry`, or `Preroll`); and submission, where the lease is decremented. On the
platform side `DisableForCreate`/`OnPlatformViewCreated` and
`DisableForDestroy`/`OnPlatformViewDestroyed` are each a call in two steps, because other
threads move between disabling the merger and looking at which thread has the queue. A
failed `FML_CHECK` sets `aborted`, after which nothing moves. Here the pipeline is the
sequence that BoundedQueue says it is, vsync is left out, and a merge or unmerge is one
step that moves the tasks, as TaskQueues says it does.

**ConcurrentLoop**. `WaitForWork`, `TakeTasks`, `RunPoolTask` and `LeaveOrGoOn` are
`WorkerMain`; `LockLoop`, `PostTask`, `NotifyOne` and `ReleaseLoop` are
`ConcurrentTaskRunner::PostTask`, split at the release of the mutex and at the end of the
strong reference. A task that runs may post. Whoever drops the last reference is the
`destructor`: the owner, a poster, or a worker.

**ShellLifecycle**. Each of the four threads has the tasks posted to it, in order, with
the tasks by which `Shell::Create` makes the parts and `~Shell` resets them. `stage` is
where the platform thread is in these two functions. `HandleMessage` is the service
protocol on the UI thread; while `call` is set it holds `handlers_mutex_` shared.

**FirstFrame**. The store to `waiting_for_first_frame_` and its notification are two
steps (`RunDrawTask`, `NotifyAll`), and so are the waiter's test and its blocking. A caller
waits for some time or, with a timeout so large that it is clamped (`shell.cc:2007`), without
end: `deadline`. `missed` is a history: the notification came before the waiter blocked.
Timings go through `unreported`, `delayedReports` and `batches` to the framework.

**PointerDispatcher** is `SmoothPointerDataDispatcher` with the callbacks of the vsync
waiter it depends on. A vsync fires all of them as tasks of the UI thread, between which
packets and further vsyncs may come.

**UnrefQueue**. Holders of the queue are counted, because the last one runs its
destructor, which posts the remaining objects or releases them where it runs. The flush
for the platform, the teardown by the IO manager and the delayed drain may meet; the
switch that says whether the GPU is available is held by those that look at it.

**PlatformMessages**. One channel, from `Shell::OnEngineHandlePlatformMessage`
to the handler: `handing` and `unbuffering` are what the UI and the platform thread have in
hand between two critical sections of `DartMessenger`, and `pool` where each thread of the
executor is in `SerialTaskQueue.flush`.

**ChannelBuffers**. The isolate is single-threaded, but a listener may call back into the
channel: `handler` says from where it was called, and everything a program may do is
enabled while it runs.

**WindowsResize**. `resizer` is the platform thread in `OnWindowSizeChanged`, `raster` the
raster thread between acquiring a surface and presenting it; `status` is
`resize_status_`. The framework renders what it was told last, when it likes.

**OhosViews**. Callbacks of the platform are atomic but for the `await` of an engine that
is being created (`starting`, `FinishAttach`). `embedder` is the state of delegates,
views, XComponents and shells as one record, because one callback changes many of them in
a sequence of calls: each call is an operator from record to record, named as in the
source. Whether a late callback passes the checks of a host (`ShouldDispatch`,
`stillAttachedForEvent`) is modelled per kind of host.

**MCEngine** and **MCEmbedding** put components that share no state into one run: one of
them is chosen at the start (`active`) and only it moves, so that their states add up. The
fairness formula is that of the chosen component: `FairStep(k)` is its k-th fair action.

## Runs

"Pass" runs explore every state within their bounds. "Violation" runs show a disagreement
between the code and what the code says of itself (see [findings](#findings)).

| Run | Instance | States | Shows |
|---|---|---|---|
| `task_queues_safety` | platform, UI, raster queues; every merge that leaves the UI queue an owner; 2 tasks, clock 0..1, 3 merges/unmerges/pauses; the platform and raster queue interchangeable | 2.9 M | `TypeOK`; `MergeInv`: the two halves of the relation agree and owners are never subsumed; `NoLostWakeUp`: a loop that sleeps with visible tasks has its timer set in time; `TasksKeepTheirOrder`: no task is taken while another one, due no later and registered before it, waits in the same heap or in the primary one, which no pause holds back |
| `task_queues_fair` | platform may own raster; both may terminate, merged or not; 2 tasks, 3 operations, fair threads | 668 k | `TaskAccounting`: every task is in one place; `ImplementsDelivery`; `EveryTaskIsTaken` |
| `frame_scheduling` | depth 2, 3 trees, 2 secondary callbacks, 4 requests, every outcome, the shell may go at any time, fair threads | 156 k | `FrameRequestAccounting`, `AwaitedOnce`, `SlotAccounting`, `SignalAccounting`, `FramesInOrder`, `ImplementsBoundedQueue`; `RequestsAreAnswered`, `NotifiedFramesAreConsumed` |
| `frame_scheduling_stall` | depth 2, 2 trees, fair threads | - | violates `FramesAreConsumed` |
| `frame_scheduling_dropped` | destruction with a continuation in hand | - | violates `DroppedContinuationIsNotConsumed` |
| `merging_two_shells` | 2 shells, lease 2, 3 trees, the first with views, 2 destroyed surfaces | 1.05 M | `MergedTogether`, `RasterizesOnOwner`, `DisabledHoldsConfiguration` |
| `merging_order` | 1 shell, 2 trees | - | violates `TreesInOrder` |
| `merging_deadlock` | 1 shell, 2 destroyed surfaces | - | violates `ConfigurationHeldWhileWaiting` |
| `merging_lease` | 2 shells | - | violates `LeaseIsPositiveWhenMerged` |
| `shell_destruction` | 1 shell, fair threads | - | violates `DestructionIsSynchronous` |
| `engine_components` | pool: 2 workers, 1 other poster, 3 tasks; shells: 2, with 3 methods and 3 events; first frame: 4 draws, batches of 2; pointers: 4 packets, 3 vsync tasks; unref queue: 3 objects, 3 switches; fair threads | 267 k | pool: `NobodySleeps`, `PoolTaskAccounting`, `PoolProgress`; shells: `ShellSafety`, `ShellProgress`; first frame: `TimingsAreKept`, `WaiterIsNotified`, `FramesAreAnnounced`; pointers: `PacketsAreHeldInOrder`, `PacketsGoOn`; unref queue: `ObjectsAreAccountedFor`, `ObjectsAreReleased` |
| `embedding_components` | views: 1 shell, lease 2, 4 trees, 2 of them with views, 2 destroyed surfaces; messages: 3, 2 pool threads; channel: 4 pushes, capacities 0 to 2; resize: 2 sizes, 5 resizes, 2 frames; hosts: 2 abilities and an entry that share the cached engine, without late detaches, and an entry with its own; fair threads | 130 k | views: `SuspendedWhenDestroyed`, `FramesAreDrawn` unless the deadlock is met; messages: `MessagesTakeTurns`, `EachMessageIsAnswered`; channel: `ChannelSafety`, `BacklogIsDrained`; resize: `ResizedWindowIsShown`, `ResizeEndsWithItsFrame`; hosts: `ShellRendersToItsView`, `EngineServesItsHost` |

Why these bounds. *Tasks, clock, operations.* A lost wake-up needs one task and one
operation that moves it; a second task tells a timer armed for the wrong one apart, and
three operations reach merge, unmerge, merge again, and a pause in the middle of a merge.
In the fair run the loops may end as well, with one task queued or running and one in a
post that is past the test of `terminated_`. Two instants separate due from not yet
due. *Depth 2* is the engine's; three trees fill the pipeline with one being consumed, and
let a newer tree come between a resubmitted one and its push back. Four requests exceed
what one vsync answers. *Lease 2* (10 in the code) has a frame that leaves the lease
positive and one that ends it; two shells are the least that disagree about the lease.
*Pool.* Two workers and a poster let two threads race for a wake-up while a third is
between the push and the notification; a third task is there when two are taken.
*Shells.* Two, since one spawned from the other shares its threads and the table; one
method per thread that handles, and three events suffice to create, call and destroy.
*Timings.* Batches of 2 (100 in the code) and four draws have an immediate, a full and a
delayed report, and one draw more. *Pointers.* Four packets: one in progress, one held,
one that pushes it out, one late; three tasks of a vsync overlap two vsyncs. *Unref
queue.* Three objects: released, being drained, still kept. *Messages.* Three, so that one
can be buffered, one dispatched and one sent; two pool threads race in `flush`. *Channel.*
Four messages overflow every capacity by two; 0, the default 1, and 2. *Resize.* The
window goes back and forth between two sizes, with frames of the other one on their way;
five resizes are what it takes for one to end with another size's frame after timeouts,
which is why the property excepts them (see the observations). The theorems
remove the bound on the sizes. *Hosts.* Two abilities and an entry take the cached engine
from each other, so that one may have lost it to another that has lost it to a third; a
second entry creates its engine. The proofs remove these bounds for the invariants they
cover.

`CHECK_DEADLOCK FALSE` in every run: a bounded instance stops when its tasks, requests or
trees are used up, and a real loop sleeps when it has nothing to do. The one deadlock
between threads is stated as an invariant, `ConfigurationHeldWhileWaiting`.

Each property of a passing run is broken by a small change of the code, given under
`mutants` in `PROJECT.json` and defined beside the definition it changes (`_Own`,
`_NoWait`, ...); they are used by no specification.

## Fairness

Weak fairness only, for the steps a thread owes. `TaskQueues!Fairness`: a loop keeps
running and flushing, a task that runs returns, a thread past the test in PostTask
registers its task, time passes, and a pause is followed by its resume (VsyncWaiter posts
the resume with the pause, `vsync_waiter.cc:115,141`). Callers owe no post and no merge.
`FrameScheduling!FairSpec`: threads run what is posted to them and finish it, and the
platform answers every await; the framework owes no request and no tree.
`PlatformViews!FairSpec`: a thread with a task takes it and goes on; the platform thread
finishes the call it is in. `PoolFairness`: workers and the destructor go on, and a thread
inside of PostTask leaves it. `ShellFairness`: the four threads run their tasks and the
calls they are in. `FirstFrameFairness`: the same, and time passes for delayed tasks and
timeouts. `DispatcherFairness`: the UI thread runs its tasks, the platform answers an
await. `UnrefFairness`: the IO thread works as long as it runs, the platform thread
finishes what it asked for. `MessageFairness`: the UI thread, the platform thread and the
pool go on; handlers answer. `ChannelFairness`: microtasks run and listeners come to an
end, by returning or by throwing. `ResizeFairness`: all threads go on, the framework lays
out what it was told, and nothing makes the wait time out. No program has to post, set a
handler, switch the GPU or resize. Operating systems schedule threads in this sense. No strong
fairness is assumed anywhere.

Where the code does not promise an end, the property names the exception and nothing else:
`PoolProgress` a loop that was terminated, and a worker that runs the destructor and joins
itself; `ShellProgress` the two threads of finding 6 (`WaitForEachOther`); `BacklogIsDrained`
a listener that threw; `FramesAreAnnounced` a wait without a timeout that missed its
notification, which never ends (see the observations); `ResizeEndsWithItsFrame` a wait that timed out, and a frame that was
drawn before the shell expected it (`overtaken`). These are of the form `[]<>`: again and
again, what was asked for has come to its end.

## Proofs

Eight modules of proofs, all proved by SMT, Zenon and LS4. The assumptions are
the named `ASSUME`s of the modules: depth and lease at least 1, trees are positive
numbers, merge pairs are of different queues, and so on.

**TaskQueuesProofs**
- `TypeCorrect`: every variable keeps its type.
- `MergeRelation`: `MergeInv`. It is proved together with `PairsInv`: only the pairs that
  callers ask for are merged, a loop not yet created has an untouched entry, and only UI
  queues are paused. `WakeUps` needs these facts.
- `WakeUps`: if the UI queue is never the subsumed one (`UiNeverSubsumed`), `NoLostWakeUp`.
  The invariant is `RelationInv /\ NoLostWakeUp`. The argument is one lemma per kind of
  step: an action that re-arms a timer covers the loop it wakes (`WokenIsCovered`), one
  that leaves `Visible` as it is keeps the rest covered (`SameVisible`,
  `QuietIsCovered`). The hypothesis cannot be dropped, see the first observation.
- `TasksAccountedFor` (`TaskAccounting`). The property counts with sets of numbers; the
  invariant `AccountInv` says it task by task: a number below `order_` is that of a task in
  one source (`PendingInv`, `UniqueInv`), or was handed over, or was destructed, and none
  is missing (`NoneLostInv`). Every action is one of five kinds, proved first: a task is
  registered, handed over, destructed, or time passes, or the tasks are left alone; so
  the invariant is proved for five steps and not for all actions.
- `QueuesImplementDelivery` (`ImplementsDelivery`): TaskQueues implements TaskDelivery,
  step by step, with the same five kinds. That a task is not run early needs `TimeInv`: a
  flush reads a clock that is not ahead of the real one.
- `TasksInOrder` (`TasksKeepTheirOrder`): for any queues, merges and grades. A loop takes
  the first of the heads of the heaps that it sees (`FirstIsTaken`), and a task that was taken
  was ahead of all that waited in its heap then; later ones have later orders (`OrderInv`,
  `RunningInv`).

**PipelineProofs**
- `SlotsAreAccounted`, `SignalsAreAccounted`: for every depth; together with the types
  they are inductive (`PipelineInvariant`). The second says that the pop, which does not
  look whether the deque is empty, never meets an empty one.
- `Refinement`: Pipeline implements BoundedQueue. A push is a Put because a slot is paid
  for it; the claims, signals and slots are stutters.

**FrameSchedulingProofs**
- `VsyncAwaitedOnce`: inductive as it is.
- `FramesAreInOrder`: the invariant `OrderInv` says that the queue is ascending, that the
  tree in hand is older than all of the queue, and that the last one drawn is older than
  all of them. Null items are excepted.
- `RequestsAreAccounted` (`FrameRequestAccounting`): for any depth, trees and secondary
  callbacks; with the types it is inductive (`RequestInv`). It counts tasks in a queue, so
  its lemmas are about the number of times a task occurs in a sequence that loses its head
  or gains an element (`OccursTail`, `OccursAppended`, over the cardinality of sets of positions).
- The theorems of PipelineProofs hold of these threads, too, by the lemma
  `ThreadsUsePipeline`: what they do to the pipeline are its own operations.
- `FrameTypeCorrect` (`TypeInvariant`): the bounds of the counts follow from the two
  accountings of the pipeline.

**MergingProofs**
- `DrawingIsTheOwners` (`RasterizesOnOwner`), `LeaseAndQueues` (`MergedTogether`),
  `DisableHolds` (`DisabledHoldsConfiguration`): for any number of shells, any lease,
  trees and depth. They need each other: that only the owner is drawing holds because
  whoever changes the owner is drawing itself or is the platform thread between two tasks.
  `IInv` adds the types of the two threads, that a platform thread inside a call of the
  shell is not inside a Draw (`NotBoth`), and that while the merger is disabled nobody is
  in `MergeWithLease` but who was when it was disabled (`Overlaps`).
- `LeaseAndQueuesOfAnyCallers`: `MergedTogether` of the merger alone.
- `DestroyedIsSuspended` (`SuspendedWhenDestroyed`), for one shell. `SurfaceInv` says that
  a setup is queued once, before any teardown (`Ordered`), that from the call of
  `OnPlatformViewCreated` to its raster task the merger is disabled and no frame is past its
  look at it (`SetupHolds`), and what of surface and view belongs to each phase of the
  platform thread. With two shells it fails, as a frame of the other one may merge the
  queues, and a teardown that the platform thread then runs itself overtakes a setup that is
  still queued. TLC shows it, and the run of this property has one shell.
- `SuspendedUnlessOvertaken`: for any number of shells, through every merge and unmerge, that
  overtaking is the only way to it. The hypothesis, `Overtaking`, is the one step at
  `shell.cc:898` with a Setup of the same shell in the queue; `EachSurface` says that the
  tasks of each shell are in order, and that the platform thread is busy with one shell. TLC
  has checked it with two shells and two destroyed surfaces.
- `ViewsTypeCorrect` (`TypeInvariant`), for any number of shells: a lease stays between 0
  and its term, also when the process ends because it ran out (finding 5).

What is left of the three properties that findings 3 to 5 refute, and under which condition:
- `LeaseOfOneShell` (`LeaseIsPositiveWhenMerged`), for one shell: with the threads merged
  the positive lease is its own.
- `InOrderWithOneConsumer` (`TreesInOrder`), for any number of shells, as long as no two
  Draws of one shell overlap (`SingleConsumer`, what `pipeline.h:37` asks for). Threads may
  merge and unmerge, frames be skipped, drawn twice and pushed back, and surfaces come and
  go. `TreeOrder` says that the queue is ascending, that a tree in hand that may still be
  shown or pushed back is older than the queue and newer than the one shown last, and that
  the tree to be pushed back is the one in hand. So the overlap of finding 3 is the only
  way to that order. TLC has checked the invariant for one and for two shells, in the states that
  overlap-free executions reach; merges are among them.
- `HeldUnlessDisturbed` (`ConfigurationHeldWhileWaiting`), for any number of shells and
  through every merge: the platform thread waits for a task in its own queue only if, when
  `OnPlatformViewDestroyed` began, a Setup was still queued, which would enable the merger
  again (finding 4), or a frame of another shell was in `MergeWithLease` (`Undisturbed`). So
  a fix has these two to see to. TLC has checked it with two shells.

**EngineProofs**, in three parts
- `NobodySleepsThroughWork` (`NobodySleeps`): for any workers, posters and tasks. It is
  proved with the types and with `CarriesOne` (a thread that is past the lock carries one
  task). The counting is in lemmas about the cardinality of a set that gains or loses one
  element: a push that is followed by a notification adds one thread to those that will
  notify, the notification moves that one to the workers that are awake, and a worker that
  takes a task leaves one less to be taken.
- `PoolTasksAccounted` (`PoolTaskAccounting`): a posted task is in one place or was lost
  with the loop. `PlacesInv` adds that a task is posted once, so that it is not elsewhere
  (`PostedOnce`), and who can hold tasks (`HeldByTheBusy`).
- `ObjectsAccounted` (`ObjectsAreAccountedFor`): for any set of objects. The invariant
  adds that a pending drain has a task (`FlagHasATask`) and that an object is taken by one
  drain at a time (`TakenByOne`).
- `PacketsHeldInOrder` (`PacketsAreHeldInOrder`): for any number of packets; with the
  types it is inductive. In particular a packet in progress always has a callback.

**ShellProofs**, in two parts
- `NobodyFindsLess` (`ShellSafety`): for any number of shells that share their threads.
  Which parts of a shell exist follows from its stage (`PartsOf`) and from the tasks that
  wait: a part that is to be made, or reset, has exactly one task waiting, in the queue of
  its thread (`TasksOf`). That a Setup task finds its shell is a matter of the order of a
  queue, so the invariant says that no Setup waits behind the reset of its rasterizer
  (`Ordered`), with lemmas about a queue that gains a task or loses its first. Last, that
  the UI thread waits only for a shell of the table (`CallInv`): while it does, the lock
  of the table keeps that shell from being removed. `ShellTypeCorrect` comes with it.
- `NoTimingIsLost` (`TimingsAreKept`): for any frames and any size of a batch. The timings
  that are reported, in batches on their way, and kept back are ascending each and follow
  each other (`InOrder`); they are so because the frames are drawn in order and every frame
  whose Draw task waits is later than all those drawn (`TasksFollow`).
- `WaiterGetsItsNotification` (`WaiterIsNotified`): a waiter that still waits after a frame
  has a notification on its way, unless the notification came before it blocked. So a wait
  without a timeout that does not end has missed one.
- `WaitEndsAfterDraw`: the safety half of `FramesAreAnnounced`; `FirstFrameTypeCorrect`.

**EmbeddingProofs**, in three parts
- `MessagesInTurn` (`MessagesTakeTurns`): for any number of messages and threads of the
  pool; with the types it is inductive. That a message is never stuck needs the look at
  the queue after `isRunning` is released.
- `ChannelIsSafe` (`ChannelSafety`): for any number of messages and any capacities. The
  order of what was delivered and what waits is kept as facts of the two sequences and of
  the pair (`InTheirOrder`), with no number later than the last received. That a listener
  that threw leaves `_draining` set makes the rest inductive.
- `ResizedWindowShown` (`ResizedWindowIsShown`) and `OneFrameEndsIt` (the safety half of
  `ResizeEndsWithItsFrame`): for any sizes and any number of resizes. `Calm` says of each
  phase of the platform thread which of the sizes are equal: while it tells the shell, what
  is shown and the surface have another size than the window; while it waits, a generated
  frame is in the raster thread's hands and has the window's size.

**OhosViewsProofs**
- `ViewsAreRenderedTo` (`ShellRendersToItsView`), `EnginesServeTheirHosts`
  (`EngineServesItsHost`) and `EmbedderTypeCorrect`: for any number of hosts that have
  engines of their own or take the cached one from each other, as long as no entry detaches
  the engine after another host has taken it (`NoLateDetach`). That one step breaks the
  second property, see the observations; the run leaves it out as well. A callback is a composition of
  functions on the state of the embedder; each function has a lemma that says what it
  changes, and one that it keeps `SurfaceInv` (what the XComponent and the shell have
  follows from the engine and the surface of the view) and `EngineInv` (an engine is
  attached to the ability of the host that is attached to it, and only such a host has a
  view with an engine). `attachToAbility` is the one step that disturbs another host:
  it makes the one that has the engine let go of it first (`OthersKept`). `PhaseInv` says
  what a host is attached to from what the platform has told it.

Each invariant was checked by TLC on small instances before it was proved.

Only model-checked: liveness, which is out of the prover's reach, as is `ENABLED` in the
fairness conditions (`EveryTaskIsTaken`, `RequestsAreAnswered`, `NotifiedFramesAreConsumed`,
`FramesAreDrawn`, `PoolProgress`, `ShellProgress`, the other half of `FramesAreAnnounced`,
`PacketsGoOn`, `ObjectsAreReleased`, `EachMessageIsAnswered`, `BacklogIsDrained`, the other
half of `ResizeEndsWithItsFrame`). Every safety property of a passing run is a theorem,
some under a hypothesis that is named above: `WakeUps` that the UI queue is never subsumed,
`DestroyedIsSuspended` that there is one shell, those of OhosViewsProofs `NoLateDetach`. Three
properties that findings refute are theorems under the condition that excludes what the
finding shows. Sums over sequences
are stated as cardinalities of sets of positions, and concatenations with quantifiers over
the pieces, because what a recursive definition computes would need an induction that the
provers cannot instantiate. The type invariant of PlatformViews is proved (`ViewsTypeCorrect`)
and not given to a run.

## Findings

Each is a run that TLC ends with a counterexample.

1. **A stalled frame** (`frame_scheduling_stall`). `ProducerCommit` pushes, leaves the
   mutex, then signals (`pipeline.h:194-198`). The raster thread can count the item before
   it can claim it: the Draw it posts for it finds `available_` at zero and ends. The
   signal then tells nobody, as the frame was not the first item. It stays in the deque,
   and as long as it does no later frame is a first item. `animator.cc:164` expects that
   it is consumed eventually.
2. **A null item is dereferenced** (`frame_scheduling_dropped`). `~ProducerContinuation`
   commits a null item (`pipeline.h:66`). If the shell goes while the animator holds a
   continuation and the raster thread is in a Draw that posts another, that Draw consumes
   it and `rasterizer.cc:194` dereferences it.
3. **An older tree after a newer one** (`merging_order`). The Draw that merges the threads
   goes on, on the raster thread, to push its tree back, while the platform thread already
   consumes the same pipeline. Two consumers, where `pipeline.h:37` has one.
4. **Deadlock on a surface that is destroyed early** (`merging_deadlock`). The Setup task
   posted by `OnPlatformViewCreated` enables the merger after `OnPlatformViewDestroyed`
   has disabled it. A frame with views between Setup and Teardown merges the threads;
   Teardown is now a task of the platform thread, which waits for it.
5. **The lease check fails** (`merging_lease`). One shell extends its lease, another's has
   reached zero; the next frame of the latter fails `FML_CHECK(lease_term_ref > 0)`
   (`shared_thread_merger.cc:59`), since the threads are merged while any lease is positive.
6. **A shell that cannot be destroyed** (`shell_destruction`). `~Shell` removes the shell
   from the service protocol first, which takes `handlers_mutex_` exclusively
   (`shell.cc:460`). The UI thread holds it shared while it waits for a handler's task
   (`service_protocol.cc:164-187`), and some handlers run on the platform thread, or wait
   for it: then neither thread goes on. `shell.h:172` promises a synchronous destruction.

## Observations

Met while modelling; no run is kept for them.

- `ResumeSecondarySource` (`message_loop_task_queues.cc:329`) on a subsumed queue wakes
  its own loop, which sees nothing, and not the owner's. With the UI queue subsumed
  `NoLostWakeUp` fails. The engine merges raster queues only, hence the hypothesis of
  `WakeUps`.
- A flush pops a task and only then reads the grade it hands to the tracing and to the
  isolate's microtasks, through a reference to the top of the heap
  (`message_loop_task_queues.cc:139`). With tasks of both `kUnspecified` and
  `kUserInteraction` in the primary heap (`task_source.cc:25-27`) it is the grade of the task
  that comes next: TLC refutes `GradeIsTheTasks` in nine states, by two tasks of the UI
  queue. Nothing in the engine registers a `kUserInteraction` task (`task_source_grade.h:16`),
  and the secondary heap has one grade, which is what `embedder_unittests_gl.cc:3881` tests.
- `frame_scheduled_` stays true after a vsync answered by `DrawLastLayerTree`
  (`animator.cc:188`).
- `waiting_for_first_frame_` is cleared after any Draw (`shell.cc:1184`), a skipped one
  included: `OkWhenPresented`, what `shell.h:322` says, fails, and `OkAfterDraw` is what
  remains.
- It is cleared and notified without the mutex (`shell.cc:1184-1185`), so that both may
  happen between the waiter's test and its blocking. A wait with a timeout ends at its
  timeout, with the flag tested again. One whose timeout was clamped blocks indefinitely, as
  `shell.h:315-320` says, and then for good, although a frame was drawn: TLC refutes
  `PausesUntilPresented` under `FirstFrameFairSpec` (2 draws, batches of 2).
  `WaiterIsNotified` and `FramesAreAnnounced` are what remains. (A condition variable may
  also wake up without a notification; nobody can rely on it, and the model has none.)
- `inflight_` is not decremented when a push back bails out (`pipeline.h:209`). It is only
  traced.
- `UnMergeNowIfLastOne` with another shell's record at zero leaves the queues merged while
  `IsMerged` is false: every Draw yields from then on. `MergedTogether` is what remains
  true. So `FramesAreDrawn` is checked for one shell.
- With two shells `DisabledHoldsForAll` fails: `enabled_` is shared, the mutex under which
  it is read and written is each shell's own. A frame of one shell that has found the
  merger enabled (`raster_thread_merger.cc:59`) merges the threads after the other shell's
  `OnPlatformViewDestroyed` has disabled it, posted its Teardown and begun to wait: the
  deadlock of finding 4 with no surface but the one that goes. `DisabledHoldsConfiguration`
  excepts just this frame.
- With two shells `SuspendedWhenDestroyed` fails: a Teardown that runs at once on a merged
  platform thread overtakes a queued Setup (found with 2 trees and 3 destroyed surfaces).
- A post that has passed the test of `terminated_` (`message_loop_impl.cc:63`) may register
  its task after `DisposeTasks`; the task is destructed with the queue.
- When all workers of the pool have read `shutdown_`, the tasks left in the queue are never
  run (`concurrent_message_loop.cc:114`). A worker that drops the last reference to the
  loop runs the destructor and joins itself. So `PoolProgress` excepts both.
- The delayed drain of the unref queue releases GPU objects whatever the switch says
  (`skia_gpu_object.h:34`, against `shell.h:65`): `NoFlushWhenUnavailable` fails. Textures
  of an IO manager without a context are dropped (`skia_gpu_object.h:111`).
- Shell creation returns early if one part cannot be made (`shell.cc:206`) while the tasks
  for the others refer to its promises.
- Messages may overtake each other when routing through the platform thread ends
  (`shell.cc:1234-1269`), and when a handler is set while buffered ones are dispatched
  (`DartMessenger.java:233`); so the order that is promised is that of dispatch.
- A listener that throws in `_drainStep` leaves `_draining` set without a microtask
  (`channel_buffers.dart:223`, against the comment at `:107`): `DrainingHasAMicrotask`
  fails, and later messages wait until a new listener is set. With capacity 0 a message
  is discarded without the empty reply others get.
- After a timeout `resize_status_` stays as it was, and `BlockedWhileNotDone`, what
  `flutter_windows_view.h:396` says, fails (`flutter_windows_view.cc:157`): frames of
  other sizes are held back without anybody waiting. It may also end with the wrong one:
  with five resizes and two timeouts, the framebuffer that `PresentSurface` asks for after
  a frame (`gpu_surface_gl_skia.cc:284-307`) has the size a new resize waits for, so that
  `kFrameGenerated` is set with no frame in hand, and the next frame, of another size, is
  presented and ends it. `NoOtherFrameIsShown` is therefore stated for resizes before the
  first timeout.
- The new metrics are posted to the UI thread before the shell expects frames of their
  size (`shell.cc:949-958`); a frame that is faster is discarded as too large or small,
  and the wait for it ends by its timeout.
- OpenHarmony, entries that share the cached engine: `FlutterEntry.aboutToDisappear` calls
  `onDetach` without the `stillAttachedForEvent` of an ability, so that a late one detaches
  the engine from the host that took it over, and reports `detached` to its framework
  (`FlutterEntry.ets:112`): `EngineServesItsHost` fails. This step is `LateDetach`; the run
  and the theorems leave it out, and nothing else.
- OpenHarmony, a slow engine: an `onBackground` that comes while the engine is created is
  dropped, and `onCreate` reports `resumed` afterwards, against the table of
  `LifecycleChannel.ets:70-81` (`PausedInBackground` fails); an engine that is created for
  a delegate released meanwhile is never destroyed (`EngineGoesWithItsHost` fails).
- OpenHarmony, below the model: `window_` of an XComponent is not initialized, so that the
  order of `onSurfaceCreated` and `onLoad` matters (`ohos_xcomponent_adapter.h`), and
  `isDestroyed_` is shared by all platform views (`platform_view_ohos.cpp:183`). An ability
  whose window stage comes after another one has taken the cached engine attaches its view
  to it all the same; `MayCome` states the assumption that excludes it.

## Not modelled

Within modelled components: task observers, `GetNumPendingTasks`, the single-task flush
(no caller); idle notifications, trace flows and frame timings of the animator; the merge
callback and `WaitUntilMerged` (only tests call it); `DrawLastLayerTree` and discarded
trees with merged threads; overlay surfaces and what is drawn. The timer's `it_interval`
(`timerfd.cc:50`) repeats the timer only after as long again as the system has been up,
and is left out. Of the calls of the thread merger only `MergeWithLease` is split: when
the others change anything, the thread that makes them is the one that could disturb them
(`RasterizesOnOwner`). Of the platforms' loops, the Linux one stands for all; of the embedders' platform views, Android's. The shell's
merged threads are not in ShellLifecycle, nor the isolate and the VM behind the engine.
Background task queues of Android other than the serial one, and several channels, are
left out: channels share only `pending_responses_`. Of the Windows view, only the path
with a GL surface is modelled. Plugins, touch, external textures and the window focus of
the OpenHarmony embedder are left out.

Not modelled at all: see the inventory; the reason is with each component in
`PROJECT.json`. Rendering, codecs and glue are most of the lines of this repository; they
have no control of their own worth a state machine, or need graphics semantics.

## Plan

Done, in this order, most central first: TaskQueues with TaskDelivery; Pipeline with
BoundedQueue; FrameScheduling; ThreadMerger and PlatformViews; their proofs;
ConcurrentLoop, ShellLifecycle, FirstFrame, PointerDispatcher, UnrefQueue; PlatformMessages,
ChannelBuffers, WindowsResize, OhosViews; the proofs of all of these.

Next theorems: that BoundedQueue is a FIFO of at most `Depth` items, for its own sake;
a condition on the leases under which several shells never fail the check of finding 5.

Next modules: `fml::Thread::Join` on a merged queue (`thread.cc:101`, the hazard that is
open), over the contract of TaskQueues; the primitives of `fml/synchronization`; external
textures of the OpenHarmony embedder; the keyboard manager of Windows, which holds events
back and redispatches them; the iOS embedder, which merges in EndFrame; the raster cache;
the session connection of Fuchsia.
