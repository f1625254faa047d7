------------------------------ MODULE UnrefQueue ------------------------------
(***************************************************************************)
(* The queue that releases graphics objects on the IO thread               *)
(* (flow/skia_gpu_object.h), with those that drain it: its own delayed     *)
(* task, the IO manager when it is destroyed                               *)
(* (shell/common/shell_io_manager.cc), and the shell when its surface goes *)
(* or when the GPU becomes unavailable (shell/common/shell.cc).            *)
(*                                                                         *)
(* Objects are unreffed on any thread.  Everything that holds a reference  *)
(* to the queue is counted: the IO manager, each object not unreffed yet,  *)
(* the delayed tasks and a drain in progress.                              *)
(***************************************************************************)
EXTENDS Integers, FiniteSets

CONSTANTS
    Objects,     \* the Skia objects and textures that are kept by images
    MaxSwitches  \* bound on the changes of the availability of the GPU

ASSUME MaxSwitchesAssumption == MaxSwitches \in Nat

VARIABLES
    kept,          \* objects whose owners hold them, and the queue, still
    unreffed,      \* objects_ and textures_
    drainPending,  \* drain_pending_
    drainTasks,    \* delayed tasks of the IO thread
    drain,         \* what the IO thread drains: taken and not released, and for whom
    ioManager,     \* the IO manager: "alive", "draining" in its destructor, "gone"
    ioRunning,     \* the loop of the IO thread runs
    queueGone,     \* the destructor of the queue has run
    lastTask,      \* what the destructor of the queue found, in a task for the IO thread
    releases,      \* how often each object was released
    gpuDisabled,   \* value of the switch is_gpu_disabled_sync_switch_
    switches,      \* changes of the switch so far
    gpuRequest     \* what the platform thread has asked of the IO thread and waits for

unrefQueueVars == <<kept, unreffed, drainPending, queueGone>>
gpuVars == <<gpuDisabled, switches, gpuRequest>>
unrefVars == <<unrefQueueVars, drainTasks, drain, ioManager, ioRunning, lastTask, releases,
               gpuVars>>

\* A drain by the delayed task or at the platform's request; only the latter and
\* the IO manager's look at the switch, and hold it while they drain.
NotDraining == "none"
Drainers == {"delayed", "flush", "teardown", "destructor"}
Guarded == {"teardown", "destructor"}

\* Every variable has its type.
UnrefTypeOK ==
    /\ kept \in SUBSET Objects /\ unreffed \in SUBSET Objects
    /\ drainPending \in BOOLEAN /\ queueGone \in BOOLEAN
    /\ drainTasks \in Nat
    /\ drain \in [for : Drainers \cup {NotDraining}, batch : SUBSET Objects]
    /\ ioManager \in {"alive", "draining", "gone"}
    /\ ioRunning \in BOOLEAN
    /\ lastTask \in SUBSET Objects
    /\ releases \in [Objects -> Nat]
    /\ gpuDisabled \in BOOLEAN /\ switches \in 0..MaxSwitches
    /\ gpuRequest \in {"idle", "flush", "flushed", "teardown"}

UnrefInit ==
    /\ kept = Objects /\ unreffed = {} /\ drainPending = FALSE /\ queueGone = FALSE
    /\ drainTasks = 0 /\ drain = [for |-> NotDraining, batch |-> {}]
    /\ ioManager = "alive" /\ ioRunning = TRUE /\ lastTask = {}
    /\ releases = [o \in Objects |-> 0]
    /\ gpuDisabled \in BOOLEAN /\ switches = 0 /\ gpuRequest = "idle"

(***************************************************************************)
(* The queue.                                                              *)
(***************************************************************************)
ScheduleDrain ==
    /\ drainPending' = TRUE
    /\ drainTasks' = IF drainPending THEN drainTasks ELSE drainTasks + 1

\* Unref or DeleteTexture by the owner of o, on whichever thread it is; a task for
\* a loop that has ended never runs.
Unref(o) ==
    /\ o \in kept
    /\ kept' = kept \ {o}
    /\ unreffed' = unreffed \cup {o}
    /\ IF ioRunning THEN ScheduleDrain ELSE drainPending' = TRUE /\ drainTasks' = drainTasks
    /\ UNCHANGED <<queueGone, drain, ioManager, ioRunning, lastTask, releases, gpuVars>>

TakeObjects_Keep(drainer) ==   \* mutant: copied instead of swapped
    /\ drain' = [for |-> drainer, batch |-> unreffed]
    /\ unreffed' = unreffed
    /\ drainPending' = FALSE
TakeObjects_Late(drainer) ==   \* mutant: the flag stays
    /\ drain' = [for |-> drainer, batch |-> unreffed]
    /\ unreffed' = {}
    /\ drainPending' = drainPending
\* Drain, as far as it holds the mutex.
TakeObjects(drainer) ==
    /\ drain' = [for |-> drainer, batch |-> unreffed]
    /\ unreffed' = {}
    /\ drainPending' = FALSE

IODrains(drainer) == ioRunning /\ drain.for = NotDraining /\ TakeObjects(drainer)

RunDelayedDrain ==
    /\ drainTasks > 0
    /\ IODrains("delayed")
    /\ drainTasks' = drainTasks - 1
    /\ UNCHANGED <<kept, queueGone, ioManager, ioRunning, lastTask, releases, gpuVars>>

\* DoDrain of these objects.
Released(batch) == [o \in Objects |-> IF o \in batch THEN releases[o] + 1 ELSE releases[o]]

\* DoDrain, and what the drainer does next: it lets go of the switch, and signals
\* the platform thread; the IO manager goes.
FinishDrain ==
    /\ drain.for # NotDraining
    /\ releases' = Released(drain.batch)
    /\ drain' = [for |-> NotDraining, batch |-> {}]
    /\ ioManager' = IF drain.for = "destructor" THEN "gone" ELSE ioManager
    /\ gpuRequest' = CASE drain.for = "flush" -> "flushed"
                     [] drain.for = "teardown" -> "idle"
                     [] OTHER -> gpuRequest
    /\ UNCHANGED <<unrefQueueVars, drainTasks, ioRunning, lastTask, gpuDisabled, switches>>

\* The last reference is dropped; what the queue still holds goes with a last task.
NoReferences == kept = {} /\ drainTasks = 0 /\ drain.for = NotDraining /\ ioManager = "gone"
DestroyQueue ==
    /\ NoReferences /\ ~queueGone
    /\ queueGone' = TRUE
    /\ lastTask' = unreffed
    /\ unreffed' = {}
    /\ UNCHANGED <<kept, drainPending, drainTasks, drain, ioManager, ioRunning, releases,
                   gpuVars>>

RunLastTask ==
    /\ ioRunning /\ lastTask # {}
    /\ releases' = Released(lastTask)
    /\ lastTask' = {}
    /\ UNCHANGED <<unrefQueueVars, drainTasks, drain, ioManager, ioRunning, gpuVars>>

(***************************************************************************)
(* The IO manager and the IO thread.                                       *)
(***************************************************************************)
\* The destructor of the IO manager, on the IO thread.
DestroyIOManager ==
    /\ ioManager = "alive" /\ gpuRequest = "idle"
    /\ IF gpuDisabled
       THEN /\ ioRunning /\ drain.for = NotDraining
            /\ ioManager' = "gone"
            /\ UNCHANGED <<unreffed, drainPending, drain>>
       ELSE IODrains("destructor") /\ ioManager' = "draining"
    /\ UNCHANGED <<kept, drainTasks, queueGone, ioRunning, lastTask, releases, gpuVars>>

\* The thread host goes after the shell; tasks that were not run are dropped.
EndIOThread ==
    /\ ioManager = "gone" /\ drain.for = NotDraining /\ ioRunning
    /\ ioRunning' = FALSE
    /\ drainTasks' = 0
    /\ UNCHANGED <<unrefQueueVars, drain, ioManager, lastTask, releases, gpuVars>>

(***************************************************************************)
(* The platform thread.                                                     *)
(***************************************************************************)
\* Drainers of the switch hold it shared, and SetSwitch needs it exclusively.
SetSwitch(value) ==
    /\ drain.for \notin Guarded
    /\ gpuDisabled' = value

\* SetGpuAvailability: kAvailable, kUnavailable.
SetGpuAvailability(disabled) ==
    /\ gpuRequest = "idle" /\ ioManager = "alive" /\ switches < MaxSwitches
    /\ SetSwitch(disabled)
    /\ switches' = switches + 1
    /\ UNCHANGED <<unrefQueueVars, drainTasks, drain, ioManager, ioRunning, lastTask,
                   releases, gpuRequest>>

\* kFlushAndMakeUnavailable, or the surface is destroyed: a task for the IO thread.
AskForDrain(reason) ==
    /\ gpuRequest = "idle" /\ ioManager = "alive" /\ switches < MaxSwitches
    /\ switches' = switches + 1
    /\ gpuRequest' = reason
    /\ UNCHANGED <<unrefQueueVars, drainTasks, drain, ioManager, ioRunning, lastTask,
                   releases, gpuDisabled>>

\* The task: only the teardown looks at the switch.
RunDrainForPlatform ==
    /\ gpuRequest \in {"flush", "teardown"} /\ drain.for = NotDraining
    /\ IF gpuRequest = "teardown" /\ gpuDisabled
       THEN gpuRequest' = "idle" /\ UNCHANGED <<unreffed, drainPending, drain>>
       ELSE IODrains(gpuRequest) /\ gpuRequest' = gpuRequest
    /\ UNCHANGED <<kept, queueGone, drainTasks, ioManager, ioRunning, lastTask, releases,
                   gpuDisabled, switches>>

\* The latch was signaled: the fall-through to kUnavailable.
MakeUnavailable ==
    /\ gpuRequest = "flushed"
    /\ SetSwitch(TRUE)
    /\ gpuRequest' = "idle"
    /\ UNCHANGED <<unrefQueueVars, drainTasks, drain, ioManager, ioRunning, lastTask,
                   releases, switches>>

-----------------------------------------------------------------------------
IOWork == RunDelayedDrain \/ FinishDrain \/ DestroyQueue \/ RunLastTask \/ RunDrainForPlatform

UnrefNext ==
    \/ \E o \in Objects : Unref(o)
    \/ IOWork \/ DestroyIOManager \/ EndIOThread
    \/ \E disabled \in BOOLEAN : SetGpuAvailability(disabled)
    \/ \E reason \in {"flush", "teardown"} : AskForDrain(reason)
    \/ MakeUnavailable

UnrefSpec == UnrefInit /\ [][UnrefNext]_unrefVars

\* The IO thread runs what is due, and the platform thread what it has begun.
UnrefFairness == WF_unrefVars(IOWork) /\ WF_unrefVars(MakeUnavailable)

UnrefFairSpec == UnrefSpec /\ UnrefFairness

-----------------------------------------------------------------------------
\* What was unreffed has a task that will release it, as long as there is a thread
\* to run it, however often others have drained the queue in between.
UnreffedHasADrain == ioRunning /\ unreffed # {} => drainPending /\ drainTasks > 0

\* An object is kept, unreffed, taken by a drain or by the queue's destructor, or it
\* was released once.
ReleasedOnce ==
    /\ \A o \in Objects :
          releases[o] = IF o \in kept \cup unreffed \cup drain.batch \cup lastTask THEN 0 ELSE 1
    /\ kept \cap unreffed = {} /\ (kept \cup unreffed) \cap (drain.batch \cup lastTask) = {}

\* The destructor finds objects only if the IO thread ended before their drain.
DestructorFindsNothing == lastTask # {} => ~ioRunning

\* What is unreffed is released, if the IO thread does not end first.
ObjectsAreReleased ==
    []<>(~ioRunning \/ \A o \in Objects \ kept : releases[o] = 1)

\* No object is forgotten or released twice, whoever drains the queue and whoever
\* drops its last reference.
ObjectsAreAccountedFor == UnreffedHasADrain /\ ReleasedOnce /\ DestructorFindsNothing

(***************************************************************************)
(* What the code says of itself and does not keep.                         *)
(***************************************************************************)
\* "no attempt should be made to even flush GPU objects until it is available
\* again" (shell.h:65).
NoFlushWhenUnavailable ==
    [][drain.for # NotDraining /\ drain'.for = NotDraining /\ drain.batch # {}
           => ~gpuDisabled]_unrefVars
=============================================================================
