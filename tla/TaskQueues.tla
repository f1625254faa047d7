------------------------------ MODULE TaskQueues ------------------------------
(***************************************************************************)
(* The task queues of fml and the message loops that drain them            *)
(* (fml/message_loop_task_queues.cc, fml/task_source.cc,                   *)
(* fml/delayed_task.cc, fml/message_loop_impl.cc and, as the loop of a     *)
(* platform, fml/platform/linux/message_loop_linux.cc).                    *)
(*                                                                         *)
(* Every thread of the engine runs one MessageLoopImpl, and every loop has *)
(* one queue in the process-wide MessageLoopTaskQueues; a queue and its    *)
(* loop are named by the same member of Queues.  A queue may be merged     *)
(* into ("subsumed by") another one: from then on the loop of the owner    *)
(* runs the tasks of both.  queue_mutex_ makes every operation on the      *)
(* queues one atomic step; everything a loop does between two of them is   *)
(* interleaved with the other threads.                                     *)
(*                                                                         *)
(* One action per operation.  The calls on which an operation returns      *)
(* without touching the state (Merge and Unmerge returning false, PostTask *)
(* on a terminated loop) are stuttering steps.                             *)
(***************************************************************************)
EXTENDS Integers, FiniteSets

CONSTANTS
    Queues,       \* the task queues, each with its own message loop
    Unmerged,     \* _kUnmerged
    MergePairs,   \* the <<owner, subsumed>> pairs callers merge and unmerge
    UiQueues,     \* queues that get graded tasks and whose secondary source is paused
    Terminable,   \* loops that are told to terminate
    Posters,      \* threads that post tasks
    MaxTasks,     \* bound on the tasks ever registered
    MaxTime,      \* bound on the clock
    MaxOps        \* bound on the merges, unmerges and pauses

\* The TaskSourceGrades.
Grades == {"kUserInteraction", "kDartMicroTasks", "kUnspecified"}

ASSUME QueuesAssumption ==
    /\ Unmerged \notin Queues
    /\ MergePairs \subseteq {p \in Queues \X Queues : p[1] # p[2]}
    /\ UiQueues \subseteq Queues
    /\ Terminable \subseteq Queues

ASSUME BoundsAssumption == MaxTasks \in Nat /\ MaxTime \in Nat /\ MaxOps \in Nat

VARIABLES
    entries,     \* queue_entries_: tasks, pause requests and merge state of a queue
    timer,       \* expiry the loop's timer is armed for, or Disarmed
    pc,          \* where the thread of a loop is
    flushNow,    \* |now| of FlushTasks
    cur,         \* the invocation a loop is running and the grade its thread sees
    terminated,  \* terminated_
    posts,       \* PostTask calls that are past the check of terminated_
    order,       \* order_
    clock,       \* the monotonic clock
    ops,         \* merges, unmerges and pauses so far
    ran,         \* history: tasks handed to a loop
    dropped      \* history: tasks destructed without being run

vars == <<entries, timer, pc, flushNow, cur, terminated, posts, order, clock,
          ops, ran, dropped>>

Disarmed == -1
NoTask   == [home |-> Unmerged]
NoPost   == [queue |-> Unmerged]

Times == 0..MaxTime
Task  == [order : Nat, target : Nat, grade : Grades]
Entry == [tasks : SUBSET Task, pauses : Nat,
          subsumedBy : Queues \cup {Unmerged}, ownerOf : SUBSET Queues]

NewEntry == [tasks |-> {}, pauses |-> 0, subsumedBy |-> Unmerged, ownerOf |-> {}]

(***************************************************************************)
(* TaskSource and DelayedTask.  The two heaps of a source are the two      *)
(* halves of its set of tasks: kUserInteraction and kUnspecified share the *)
(* primary one.  |order| makes operator> a total order.                    *)
(***************************************************************************)
After_Target(t, u) == t.target > u.target   \* mutant: without the order
After(t, u) == \/ t.target > u.target
               \/ t.target = u.target /\ t.order > u.order

IsSecondary(t) == t.grade = "kDartMicroTasks"

SameHeap(t, u) == IsSecondary(t) <=> IsSecondary(u)

Available(e, q) == {t \in e[q].tasks : IsSecondary(t) => e[q].pauses = 0}

(***************************************************************************)
(* The queries of MessageLoopTaskQueues, on a value e of the entries.      *)
(***************************************************************************)
Sources(e, q) == {q} \cup e[q].ownerOf

Visible(e, q) == IF e[q].subsumedBy # Unmerged
                 THEN {}
                 ELSE UNION {Available(e, s) : s \in Sources(e, q)}

HasPendingTasks(e, q) == Visible(e, q) # {}

\* PeekNextTaskUnlocked: the earliest task, if there is one.
NextTasks(e, q) == {t \in Visible(e, q) : \A u \in Visible(e, q) : ~After(t, u)}

\* The expiries the timer of q may be left with by WakeUp when tasks are
\* pending; with nothing pending it is left alone.
WakeTimes(e, q) == IF HasPendingTasks(e, q)
                   THEN {t.target : t \in NextTasks(e, q)}
                   ELSE {timer[q]}

\* RegisterTask wakes the loop that will run the task.
LoopToWake_Own(e, q) == q   \* mutant: not aware of the merge
LoopToWake(e, q) ==
    IF e[q].subsumedBy # Unmerged THEN e[q].subsumedBy ELSE q

\* The checks of Merge.
CanMerge_OwnerSubsumed(owner, subsumed) ==   \* mutant: an owner is merged again
    /\ subsumed \notin entries[owner].ownerOf
    /\ entries[owner].subsumedBy = Unmerged
    /\ entries[subsumed].subsumedBy = Unmerged
CanMerge(owner, subsumed) ==
    /\ subsumed \notin entries[owner].ownerOf
    /\ entries[owner].subsumedBy = Unmerged
    /\ entries[subsumed].ownerOf = {}
    /\ entries[subsumed].subsumedBy = Unmerged

\* PopTask(grade) on the source the top task came from.
PopTask_PrimaryOnly(e, home, t) ==   \* mutant: the secondary heap is not popped
    [e EXCEPT ![home].tasks = {u \in @ : u # t \/ IsSecondary(t)}]
PopTask(e, home, t) == [e EXCEPT ![home].tasks = @ \ {t}]

\* A flush runs what is due at the time it read.
Due_Clock(q, t) == t.target <= flushNow[q] + 1   \* mutant: off by one
Due(q, t) == t.target <= flushNow[q]

Expired(q) == timer[q] # Disarmed /\ timer[q] <= clock

Alive(q) == pc[q] \notin {"none", "gone"}
-----------------------------------------------------------------------------
Init ==
    /\ entries = [q \in Queues |-> NewEntry]
    /\ timer = [q \in Queues |-> Disarmed]
    /\ pc = [q \in Queues |-> "none"]
    /\ flushNow = [q \in Queues |-> 0]
    /\ cur = [q \in Queues |-> NoTask]
    /\ terminated = [q \in Queues |-> FALSE]
    /\ posts = [p \in Posters |-> NoPost]
    /\ order = 0
    /\ clock = 0
    /\ ops = 0
    /\ ran = {}
    /\ dropped = {}

\* MessageLoopImpl::MessageLoopImpl: CreateTaskQueue and SetWakeable.
CreateLoop(q) ==
    /\ pc[q] = "none"
    /\ pc' = [pc EXCEPT ![q] = "new"]
    /\ UNCHANGED <<entries, timer, flushNow, cur, terminated, posts, order,
                   clock, ops, ran, dropped>>

-----------------------------------------------------------------------------
(* Posting *)

RegisterTask(q, target, grade) ==
    /\ Alive(q)
    /\ order < MaxTasks
    /\ order' = order + 1
    /\ LET t == [order |-> order, target |-> target, grade |-> grade]
           e == [entries EXCEPT ![q].tasks = @ \cup {t}]
       IN  /\ entries' = e
           /\ \E w \in WakeTimes(e, LoopToWake(e, q)) :
                 timer' = [timer EXCEPT ![LoopToWake(e, q)] = w]
    /\ UNCHANGED <<pc, flushNow, cur, terminated, clock, ops, ran, dropped>>

\* MessageLoopImpl::PostTask up to its check of terminated_ ...
PostTask(p, q, target) ==
    /\ posts[p] = NoPost
    /\ Alive(q)
    /\ ~terminated[q]
    /\ order < MaxTasks
    /\ posts' = [posts EXCEPT ![p] = [queue |-> q, target |-> target]]
    /\ UNCHANGED <<entries, timer, pc, flushNow, cur, terminated, order, clock,
                   ops, ran, dropped>>

\* ... and the registration that follows it.
FinishPost(p) ==
    /\ posts[p] # NoPost
    /\ RegisterTask(posts[p].queue, posts[p].target, "kUnspecified")
    /\ posts' = [posts EXCEPT ![p] = NoPost]

\* The message handler of a Dart isolate registers on the queue, past the loop.
PostMicroTask(q) ==
    /\ q \in UiQueues
    /\ RegisterTask(q, clock, "kDartMicroTasks")
    /\ UNCHANGED posts

\* RegisterTask takes any grade of any caller.  This one is in its interface and
\* in the tests of TaskSource; the engine has no such task yet.
PostUserInteraction(q) ==
    /\ q \in UiQueues
    /\ RegisterTask(q, clock, "kUserInteraction")
    /\ UNCHANGED posts

-----------------------------------------------------------------------------
(* Merging, and pausing the secondary source *)

Merge(owner, subsumed) ==
    /\ Alive(owner) /\ Alive(subsumed)
    /\ ops < MaxOps
    /\ CanMerge(owner, subsumed)
    /\ LET e == [entries EXCEPT ![owner].ownerOf = @ \cup {subsumed},
                                ![subsumed].subsumedBy = owner]
       IN  /\ entries' = e
           /\ \E w \in WakeTimes(e, owner) : timer' = [timer EXCEPT ![owner] = w]
    /\ ops' = ops + 1
    /\ UNCHANGED <<pc, flushNow, cur, terminated, posts, order, clock, ran, dropped>>

Unmerge(owner, subsumed) ==
    /\ Alive(owner) /\ Alive(subsumed)
    /\ ops < MaxOps
    /\ entries[owner].ownerOf # {}
    /\ entries[owner].subsumedBy = Unmerged
    /\ entries[subsumed].subsumedBy # Unmerged
    /\ subsumed \in entries[owner].ownerOf
    /\ LET e == [entries EXCEPT ![owner].ownerOf = @ \ {subsumed},
                                ![subsumed].subsumedBy = Unmerged]
       IN  /\ entries' = e
           /\ \E w \in WakeTimes(e, owner), v \in WakeTimes(e, subsumed) :
                 timer' = [timer EXCEPT ![owner] = w, ![subsumed] = v]
    /\ ops' = ops + 1
    /\ UNCHANGED <<pc, flushNow, cur, terminated, posts, order, clock, ran, dropped>>

PauseSecondarySource_Down(q) ==   \* mutant: the request count goes the wrong way
    /\ q \in UiQueues
    /\ Alive(q)
    /\ ops < MaxOps
    /\ ops' = ops + 1
    /\ entries' = [entries EXCEPT ![q].pauses = @ - 1]
    /\ UNCHANGED <<timer, pc, flushNow, cur, terminated, posts, order, clock,
                   ran, dropped>>
PauseSecondarySource(q) ==
    /\ q \in UiQueues
    /\ Alive(q)
    /\ ops < MaxOps
    /\ ops' = ops + 1
    /\ entries' = [entries EXCEPT ![q].pauses = @ + 1]
    /\ UNCHANGED <<timer, pc, flushNow, cur, terminated, posts, order, clock,
                   ran, dropped>>

ResumeSecondarySource(q) ==
    /\ Alive(q)
    /\ entries[q].pauses > 0
    /\ LET e == [entries EXCEPT ![q].pauses = @ - 1]
       IN  /\ entries' = e
           /\ \E w \in WakeTimes(e, q) : timer' = [timer EXCEPT ![q] = w]
    /\ UNCHANGED <<pc, flushNow, cur, terminated, posts, order, clock, ops,
                   ran, dropped>>

-----------------------------------------------------------------------------
(* The thread of a loop *)

\* MessageLoopImpl::DoRun enters Run of the platform's loop.
Run(q) ==
    /\ pc[q] = "new"
    /\ pc' = [pc EXCEPT ![q] = "poll"]
    /\ UNCHANGED <<entries, timer, flushNow, cur, terminated, posts, order,
                   clock, ops, ran, dropped>>

\* epoll_wait returns.
EpollReturns(q) ==
    /\ pc[q] = "poll"
    /\ Expired(q)
    /\ pc' = [pc EXCEPT ![q] = "ready"]
    /\ UNCHANGED <<entries, timer, flushNow, cur, terminated, posts, order,
                   clock, ops, ran, dropped>>

\* OnEventFired: TimerDrain finds nothing to read when the timer was armed
\* anew, for later, since epoll_wait returned; else FlushTasks reads the clock.
OnEventFired(q) ==
    /\ pc[q] = "ready"
    /\ \/ /\ ~Expired(q)
          /\ pc' = [pc EXCEPT ![q] = "poll"]
          /\ UNCHANGED <<timer, flushNow>>
       \/ /\ Expired(q)
          /\ timer' = [timer EXCEPT ![q] = Disarmed]
          /\ flushNow' = [flushNow EXCEPT ![q] = clock]
          /\ pc' = [pc EXCEPT ![q] = "flush"]
    /\ UNCHANGED <<entries, cur, terminated, posts, order, clock, ops, ran, dropped>>

\* The grade GetNextTaskToRun stores for its thread.  It is read from the top of
\* the heap the task was in, after the task was popped off it; when that was
\* the last one, the slot still holds it.
GradesRead(e, home, t) ==
    LET heap == {u \in e[home].tasks : SameHeap(t, u)}
    IN  IF heap = {} THEN {t.grade}
        ELSE {u.grade : u \in {h \in heap : \A g \in heap : ~After(h, g)}}

\* A flush that finds no task to run: back to epoll_wait while the loop runs.
EndFlush(q) ==
    pc' = [pc EXCEPT ![q] = CASE @ = "lastflush"                -> "disposing"
                              [] @ = "flush" /\ terminated[q]   -> "exit"
                              [] OTHER                          -> "poll"]

GetNextTaskToRun(q) ==
    /\ pc[q] \in {"flush", "lastflush"}
    /\ \/ /\ ~HasPendingTasks(entries, q)
          /\ EndFlush(q)
          /\ UNCHANGED <<entries, timer, cur, ran>>
       \/ \E t \in NextTasks(entries, q) :
          /\ timer' = [timer EXCEPT ![q] = t.target]
          /\ \/ /\ ~Due(q, t)
                /\ EndFlush(q)
                /\ UNCHANGED <<entries, cur, ran>>
             \/ /\ Due(q, t)
                /\ \E home \in {s \in Sources(entries, q) : t \in entries[s].tasks} :
                   LET e == PopTask(entries, home, t)
                   IN  /\ entries' = e
                       /\ \E g \in GradesRead(e, home, t) :
                             cur' = [cur EXCEPT ![q] =
                                       [home |-> home, task |-> t, tlsGrade |-> g]]
                /\ ran' = ran \cup {t.order}
                /\ pc' = [pc EXCEPT ![q] =
                            IF @ = "flush" THEN "task" ELSE "lasttask"]
    /\ UNCHANGED <<flushNow, terminated, posts, order, clock, ops, dropped>>

\* The invocation returns and FlushTasks looks for the next one.
FinishTask(q) ==
    /\ pc[q] \in {"task", "lasttask"}
    /\ pc' = [pc EXCEPT ![q] = IF @ = "task" THEN "flush" ELSE "lastflush"]
    /\ cur' = [cur EXCEPT ![q] = NoTask]
    /\ UNCHANGED <<entries, timer, flushNow, terminated, posts, order, clock,
                   ops, ran, dropped>>

\* MessageLoop::GetCurrent().Terminate(), called by a task.
Terminate(q) ==
    /\ q \in Terminable
    /\ pc[q] = "task"
    /\ ~terminated[q]
    /\ terminated' = [terminated EXCEPT ![q] = TRUE]
    /\ timer' = [timer EXCEPT ![q] = clock]
    /\ UNCHANGED <<entries, pc, flushNow, cur, posts, order, clock, ops, ran, dropped>>

\* DoRun after Run has returned: the last flush ...
RunExpiredTasksNow(q) ==
    /\ pc[q] = "exit"
    /\ pc' = [pc EXCEPT ![q] = "lastflush"]
    /\ flushNow' = [flushNow EXCEPT ![q] = clock]
    /\ UNCHANGED <<entries, timer, cur, terminated, posts, order, clock, ops,
                   ran, dropped>>

PendingOrders(e, S) == {t.order : t \in UNION {e[q].tasks : q \in S}}

\* ... and the end of every task still in a source of the loop.
DisposeTasks(q) ==
    /\ pc[q] = "disposing"
    /\ pc' = [pc EXCEPT ![q] = "done"]
    /\ entries' = [s \in Queues |-> IF s \in Sources(entries, q)
                                    THEN [entries[s] EXCEPT !.tasks = {}]
                                    ELSE entries[s]]
    /\ dropped' = dropped \cup PendingOrders(entries, Sources(entries, q))
    /\ UNCHANGED <<timer, flushNow, cur, terminated, posts, order, clock, ops, ran>>

\* MessageLoopImpl::~MessageLoopImpl: nothing refers to the loop any more.  The
\* engine unmerges its queues before it drops its threads.
Dispose(q) ==
    /\ pc[q] = "done"
    /\ \A p \in Posters : posts[p] # NoPost => posts[p].queue # q
    /\ entries[q].subsumedBy = Unmerged /\ entries[q].ownerOf = {}
    /\ pc' = [pc EXCEPT ![q] = "gone"]
    /\ entries' = [entries EXCEPT ![q] = NewEntry]
    /\ dropped' = dropped \cup PendingOrders(entries, {q})
    /\ UNCHANGED <<timer, flushNow, cur, terminated, posts, order, clock, ops, ran>>

-----------------------------------------------------------------------------
Tick ==
    /\ clock < MaxTime
    /\ clock' = clock + 1
    /\ UNCHANGED <<entries, timer, pc, flushNow, cur, terminated, posts, order,
                   ops, ran, dropped>>

Callers ==
    \/ \E p \in Posters, q \in Queues, target \in Times : PostTask(p, q, target)
    \/ \E p \in Posters : FinishPost(p)
    \/ \E q \in Queues : \/ PostMicroTask(q)
                         \/ PostUserInteraction(q)
                         \/ PauseSecondarySource(q)
                         \/ ResumeSecondarySource(q)
    \/ \E pair \in MergePairs : \/ Merge(pair[1], pair[2])
                                \/ Unmerge(pair[1], pair[2])

Loop(q) ==
    \/ CreateLoop(q)
    \/ Run(q)
    \/ EpollReturns(q)
    \/ OnEventFired(q)
    \/ GetNextTaskToRun(q)
    \/ FinishTask(q)
    \/ Terminate(q)
    \/ RunExpiredTasksNow(q)
    \/ DisposeTasks(q)
    \/ Dispose(q)

Next == Callers \/ (\E q \in Queues : Loop(q)) \/ Tick

Spec == Init /\ [][Next]_vars

\* A thread keeps running its loop, its tasks return, a poster finishes its
\* call, a pause is followed by its resume, and time passes.
Fairness ==
    /\ \A q \in Queues :
          /\ WF_vars(CreateLoop(q) \/ Run(q) \/ EpollReturns(q) \/ OnEventFired(q))
          /\ WF_vars(GetNextTaskToRun(q))
          /\ WF_vars(FinishTask(q))
          /\ WF_vars(RunExpiredTasksNow(q) \/ DisposeTasks(q))
          /\ WF_vars(ResumeSecondarySource(q))
    /\ \A p \in Posters : WF_vars(FinishPost(p))
    /\ WF_vars(Tick)

FairSpec == Spec /\ Fairness
-----------------------------------------------------------------------------
(* Properties *)

Pcs == {"none", "new", "poll", "ready", "flush", "task", "exit", "lastflush",
        "lasttask", "disposing", "done", "gone"}

Invocation == [home : Queues, task : Task, tlsGrade : Grades]

\* Every variable has its type.
TypeOK ==
    /\ entries \in [Queues -> Entry]
    /\ timer \in [Queues -> Nat \cup {Disarmed}]
    /\ pc \in [Queues -> Pcs]
    /\ flushNow \in [Queues -> Nat]
    /\ cur \in [Queues -> Invocation \cup {NoTask}]
    /\ terminated \in [Queues -> BOOLEAN]
    /\ posts \in [Posters -> [queue : Queues, target : Nat] \cup {NoPost}]
    /\ order \in Nat
    /\ clock \in Nat
    /\ ops \in Nat
    /\ ran \subseteq Nat
    /\ dropped \subseteq Nat

\* The invariants for merge and un-merge stated in message_loop_task_queues.h:
\* a queue is an owner, or subsumed, or independent.  owner_of and subsumed_by,
\* two halves of one relation kept in two entries, agree through every
\* interleaving of Merge, Unmerge and the end of a loop; an owner is never
\* subsumed, and no queue is owned by two.
MergeInv ==
    /\ \A q, r \in Queues : r \in entries[q].ownerOf <=> entries[r].subsumedBy = q
    /\ \A q \in Queues :
          entries[q].ownerOf # {} => entries[q].subsumedBy = Unmerged

\* No wake-up is lost: whenever a loop is outside FlushTasks and tasks are
\* visible to it, of its own queue or of a queue it owns, its timer is armed and
\* goes off no later than the earliest of them.  RegisterTask, Merge, Unmerge,
\* ResumeSecondarySource and GetNextTaskToRun each re-arm one timer or two; the
\* others have to be right already, whichever thread acts in between.
Covered(q) ==
    pc[q] \in {"new", "poll", "ready"} =>
        \A t \in Visible(entries, q) : timer[q] # Disarmed /\ timer[q] <= t.target

NoLostWakeUp == \A q \in Queues : Covered(q)

\* The UI queue is never the subsumed one, as in every embedder of this tree:
\* the only queue the raster thread merger subsumes is the raster queue.
UiNeverSubsumed == \A pair \in MergePairs : pair[2] \notin UiQueues

\* Task u was taken although t, which is as early and was registered before it,
\* was there to be taken too: of the same heap, or of the one that is never paused.
Overtook(u, t) ==
    /\ t.order < u.order /\ t.target <= u.target
    /\ IsSecondary(t) => IsSecondary(u)

\* The tasks of a queue are taken in the order in which they were posted: the
\* order the users of a task runner rely on for what they post to one thread.
\* It has to hold over two heaps, merges that let one loop and then another take
\* them, pauses, and timers that are armed for either heap.
TasksKeepTheirOrder ==
    \A q \in Queues : cur[q] # NoTask =>
        \A t \in entries[cur[q].home].tasks : ~Overtook(cur[q].task, t)

\* Every registered task is in exactly one place: in the source of one queue,
\* or handed to a loop (once), or destructed.  No merge, unmerge, terminating
\* loop or pop from the wrong heap loses or duplicates one.
TaskAccounting ==
    /\ 0..(order - 1) = ran \cup dropped \cup PendingOrders(entries, Queues)
    /\ ran \cap dropped = {}
    /\ \A q \in Queues : PendingOrders(entries, {q}) \cap (ran \cup dropped) = {}
    /\ \A q, r \in Queues :
          q # r => PendingOrders(entries, {q}) \cap PendingOrders(entries, {r}) = {}

\* The queues implement what TaskRunner promises: a task waits in whatever source
\* it is in, merges and unmerges are invisible, and it is run at most once and
\* never early, on the owner's loop as well as on its own.
Delivery == INSTANCE TaskDelivery
            WITH waiting <- {[order |-> t.order, target |-> t.target] :
                                t \in UNION {entries[q].tasks : q \in Queues}}

ImplementsDelivery == Delivery!Spec

\* Every registered task is eventually run, whatever merges, unmerges and pauses
\* happen on the way, as long as no loop terminates.
EveryTaskIsTaken ==
    []<>(PendingOrders(entries, Queues) = {} \/ \E q \in Queues : terminated[q])
-----------------------------------------------------------------------------
(***************************************************************************)
(* What the code means to do, and TLC refutes once a heap has tasks of two *)
(* grades; the README has the behaviour.                                   *)
(***************************************************************************)
\* GetCurrentTaskSourceGrade tells a task its own grade, although the grade is
\* read after the task has been popped off its heap.
GradeIsTheTasks ==
    \A q \in Queues : cur[q] # NoTask => cur[q].tlsGrade = cur[q].task.grade
=============================================================================
