---------------------------- MODULE ConcurrentLoop ----------------------------
(***************************************************************************)
(* The pool of worker threads (fml/concurrent_message_loop.cc).            *)
(*                                                                         *)
(* Workers wait on one condition variable for tasks of the common queue    *)
(* and for tasks addressed to each of them.  PostTask pushes under the     *)
(* mutex and notifies one worker after it has released it; what a thread   *)
(* does between two acquisitions of the mutex is in worker and posting.    *)
(*                                                                         *)
(* Task runners hold the loop weakly.  Whoever drops the last strong       *)
(* reference runs the destructor, which ends the workers and joins them.   *)
(* That may be a thread that posts: it has a strong reference meanwhile.   *)
(***************************************************************************)
EXTENDS Integers, Sequences, FiniteSets

CONSTANTS
    Workers,   \* the threads of workers_
    Posters,   \* other threads that post tasks
    PoolTasks  \* the tasks that are posted, each once

ASSUME WorkersAssumption == IsFiniteSet(Workers) /\ Workers # {}
ASSUME PostersAssumption == IsFiniteSet(Posters) /\ Workers \cap Posters = {}

PoolThreads == Workers \cup Posters
NoThread == "no thread"

ASSUME NoThreadAssumption == NoThread \notin PoolThreads

VARIABLES
    poolTasks,    \* tasks_
    threadTasks,  \* thread_tasks_, <<>> when a worker has no entry
    poolShutdown, \* shutdown_
    worker,       \* where each worker is in WorkerMain
    leaving,      \* its shutdown_now
    taken,        \* the task and thread tasks it has taken and not yet run
    posting,      \* where each thread is in ConcurrentTaskRunner::PostTask
    carried,      \* the task it is posting, as long as it has it
    owned,        \* the owner of the loop has its reference
    destructor,   \* the thread inside of the destructor
    poolGone,     \* the destructor has returned
    posted,       \* history: how often each task is to be run
    ran           \* history: how often it was

poolVars == <<poolTasks, threadTasks, poolShutdown, worker, leaving, taken, posting,
              carried, owned, destructor, poolGone, posted, ran>>

\* Every variable has its type.
PoolTypeOK ==
    /\ poolTasks \in Seq(PoolTasks)
    /\ threadTasks \in [Workers -> Seq(PoolTasks)]
    /\ poolShutdown \in BOOLEAN
    /\ worker \in [Workers -> {"waiting", "awake", "running", "left"}]
    /\ leaving \in [Workers -> BOOLEAN]
    /\ taken \in [Workers -> Seq(PoolTasks)]
    /\ posting \in [PoolThreads -> {"none", "locked", "pushed", "returning"}]
    /\ carried \in [PoolThreads -> Seq(PoolTasks)]
    /\ owned \in BOOLEAN /\ poolGone \in BOOLEAN
    /\ destructor \in PoolThreads \cup {NoThread, "owner"}
    /\ posted \in [PoolTasks -> Nat] /\ ran \in [PoolTasks -> Nat]

PoolInit ==
    /\ poolTasks = <<>> /\ threadTasks = [w \in Workers |-> <<>>]
    /\ poolShutdown = FALSE
    /\ worker = [w \in Workers |-> "awake"]
    /\ leaving = [w \in Workers |-> FALSE]
    /\ taken = [w \in Workers |-> <<>>]
    /\ posting = [t \in PoolThreads |-> "none"] /\ carried = [t \in PoolThreads |-> <<>>]
    /\ owned = TRUE /\ destructor = NoThread /\ poolGone = FALSE
    /\ posted = [j \in PoolTasks |-> 0] /\ ran = [j \in PoolTasks |-> 0]

\* The loop has strong references.
Referenced == owned \/ \E t \in PoolThreads : posting[t] # "none"

Woken == [w \in Workers |-> IF worker[w] = "waiting" THEN "awake" ELSE worker[w]]

(***************************************************************************)
(* Posting.  A worker posts from within a task.                            *)
(***************************************************************************)
MayPost(t) ==
    /\ posting[t] = "none" /\ destructor # t
    /\ t \in Workers => worker[t] = "running" /\ taken[t] # <<>>

\* weak_loop_.lock()
LockLoop(t, j) ==
    /\ MayPost(t) /\ Referenced
    /\ posted[j] = 0
    /\ posted' = [posted EXCEPT ![j] = 1]
    /\ posting' = [posting EXCEPT ![t] = "locked"]
    /\ carried' = [carried EXCEPT ![t] = <<j>>]
    /\ UNCHANGED <<poolTasks, threadTasks, poolShutdown, worker, leaving, taken, owned,
                   destructor, poolGone, ran>>

\* The loop has died: the task is run here and now.
RunUnposted(t, j) ==
    /\ MayPost(t) /\ ~Referenced
    /\ posted[j] = 0
    /\ posted' = [posted EXCEPT ![j] = 1]
    /\ ran' = [ran EXCEPT ![j] = 1]
    /\ UNCHANGED <<poolTasks, threadTasks, poolShutdown, worker, leaving, taken, posting,
                   carried, owned, destructor, poolGone>>

PostTask_IfFirst(t) ==   \* mutant: notified for the first task of the queue only
    /\ posting[t] = "locked" /\ ~poolShutdown
    /\ poolTasks' = poolTasks \o carried[t]
    /\ carried' = [carried EXCEPT ![t] = <<>>]
    /\ posting' = [posting EXCEPT ![t] = IF poolTasks = <<>> THEN "pushed" ELSE "returning"]
    /\ UNCHANGED <<threadTasks, poolShutdown, worker, leaving, taken, owned, destructor,
                   poolGone, posted, ran>>
PostTask(t) ==
    /\ posting[t] = "locked" /\ ~poolShutdown
    /\ poolTasks' = poolTasks \o carried[t]
    /\ carried' = [carried EXCEPT ![t] = <<>>]
    /\ posting' = [posting EXCEPT ![t] = "pushed"]
    /\ UNCHANGED <<threadTasks, poolShutdown, worker, leaving, taken, owned, destructor,
                   poolGone, posted, ran>>

\* PostTask after Terminate.
PostToShutdown(t) ==
    /\ posting[t] = "locked" /\ poolShutdown
    /\ ran' = [ran EXCEPT ![Head(carried[t])] = @ + 1]
    /\ carried' = [carried EXCEPT ![t] = <<>>]
    /\ posting' = [posting EXCEPT ![t] = "returning"]
    /\ UNCHANGED <<poolTasks, threadTasks, poolShutdown, worker, leaving, taken, owned,
                   destructor, poolGone, posted>>

NotifyOne(t) ==
    /\ posting[t] = "pushed"
    /\ posting' = [posting EXCEPT ![t] = "returning"]
    /\ IF \A w \in Workers : worker[w] # "waiting"
       THEN UNCHANGED worker
       ELSE \E w \in Workers : /\ worker[w] = "waiting"
                               /\ worker' = [worker EXCEPT ![w] = "awake"]
    /\ UNCHANGED <<poolTasks, threadTasks, poolShutdown, leaving, taken, carried, owned,
                   destructor, poolGone, posted, ran>>

\* A thread drops a reference; if it is the last one, the destructor is next.
Destructs(t) ==
    destructor' = IF \E r \in PoolThreads \ {t} : posting[r] # "none" THEN destructor ELSE t

\* End of ConcurrentTaskRunner::PostTask.
ReleaseLoop(t) ==
    /\ posting[t] = "returning"
    /\ posting' = [posting EXCEPT ![t] = "none"]
    /\ IF owned THEN UNCHANGED destructor ELSE Destructs(t)
    /\ UNCHANGED <<poolTasks, threadTasks, poolShutdown, worker, leaving, taken,
                   carried, owned, poolGone, posted, ran>>

(***************************************************************************)
(* The workers.                                                            *)
(***************************************************************************)
HasWork(w) == poolTasks # <<>> \/ poolShutdown \/ threadTasks[w] # <<>>

WaitForWork(w) ==
    /\ worker[w] = "awake" /\ ~HasWork(w)
    /\ worker' = [worker EXCEPT ![w] = "waiting"]
    /\ UNCHANGED <<poolTasks, threadTasks, poolShutdown, leaving, taken, posting,
                   carried, owned, destructor, poolGone, posted, ran>>

SpuriousWakeUp(w) ==
    /\ worker[w] = "waiting"
    /\ worker' = [worker EXCEPT ![w] = "awake"]
    /\ UNCHANGED <<poolTasks, threadTasks, poolShutdown, leaving, taken, posting,
                   carried, owned, destructor, poolGone, posted, ran>>

FirstTask == IF poolTasks = <<>> THEN <<>> ELSE <<Head(poolTasks)>>

TakeTasks_Keep(w) ==   \* mutant: thread_tasks_ keeps the entry
    /\ worker[w] = "awake" /\ HasWork(w)
    /\ taken' = [taken EXCEPT ![w] = FirstTask \o threadTasks[w]]
    /\ poolTasks' = IF poolTasks = <<>> THEN <<>> ELSE Tail(poolTasks)
    /\ leaving' = [leaving EXCEPT ![w] = poolShutdown]
    /\ worker' = [worker EXCEPT ![w] = "running"]
    /\ UNCHANGED <<threadTasks, poolShutdown, posting, carried, owned, destructor,
                   poolGone, posted, ran>>
TakeTasks(w) ==
    /\ worker[w] = "awake" /\ HasWork(w)
    /\ taken' = [taken EXCEPT ![w] = FirstTask \o threadTasks[w]]
    /\ poolTasks' = IF poolTasks = <<>> THEN <<>> ELSE Tail(poolTasks)
    /\ threadTasks' = [threadTasks EXCEPT ![w] = <<>>]
    /\ leaving' = [leaving EXCEPT ![w] = poolShutdown]
    /\ worker' = [worker EXCEPT ![w] = "running"]
    /\ UNCHANGED <<poolShutdown, posting, carried, owned, destructor, poolGone, posted,
                   ran>>

RunPoolTask(w) ==
    /\ worker[w] = "running" /\ posting[w] = "none" /\ destructor # w
    /\ taken[w] # <<>>
    /\ taken' = [taken EXCEPT ![w] = Tail(@)]
    /\ ran' = [ran EXCEPT ![Head(taken[w])] = @ + 1]
    /\ UNCHANGED <<poolTasks, threadTasks, poolShutdown, worker, leaving, posting,
                   carried, owned, destructor, poolGone, posted>>

LeaveOrGoOn(w) ==
    /\ worker[w] = "running" /\ posting[w] = "none" /\ destructor # w
    /\ taken[w] = <<>>
    /\ worker' = [worker EXCEPT ![w] = IF leaving[w] THEN "left" ELSE "awake"]
    /\ UNCHANGED <<poolTasks, threadTasks, poolShutdown, leaving, taken, posting,
                   carried, owned, destructor, poolGone, posted, ran>>

(***************************************************************************)
(* The owner: the VM, a surface, or impeller's work queue, the only one    *)
(* that calls Terminate before it drops its reference.                     *)
(***************************************************************************)
PostTaskToAllWorkers(j) ==
    /\ owned /\ posted[j] = 0
    /\ posted' = [posted EXCEPT ![j] = Cardinality(Workers)]
    /\ threadTasks' = [w \in Workers |-> Append(threadTasks[w], j)]
    /\ worker' = Woken
    /\ UNCHANGED <<poolTasks, poolShutdown, leaving, taken, posting, carried, owned,
                   destructor, poolGone, ran>>

Terminate_Silent ==   \* mutant: without notify_all
    /\ poolShutdown' = TRUE
    /\ UNCHANGED <<poolTasks, threadTasks, worker, leaving, taken, posting, carried, owned,
                   destructor, poolGone, posted, ran>>
Terminate ==
    /\ poolShutdown' = TRUE
    /\ worker' = Woken
    /\ UNCHANGED <<poolTasks, threadTasks, leaving, taken, posting, carried, owned,
                   destructor, poolGone, posted, ran>>

TerminateByOwner == owned /\ ~poolShutdown /\ Terminate

DropLoop ==
    /\ owned
    /\ owned' = FALSE
    /\ destructor' = IF \E t \in PoolThreads : posting[t] # "none" THEN destructor ELSE "owner"
    /\ UNCHANGED <<poolTasks, threadTasks, poolShutdown, worker, leaving, taken,
                   posting, carried, poolGone, posted, ran>>

(***************************************************************************)
(* The destructor.                                                         *)
(***************************************************************************)
TerminateInDestructor == destructor # NoThread /\ ~poolShutdown /\ ~poolGone /\ Terminate

JoinWorkers ==
    /\ destructor # NoThread /\ poolShutdown
    /\ \A w \in Workers : worker[w] = "left"
    /\ poolGone' = TRUE
    /\ destructor' = NoThread
    /\ UNCHANGED <<poolTasks, threadTasks, poolShutdown, worker, leaving, taken,
                   posting, carried, owned, posted, ran>>

-----------------------------------------------------------------------------
WorkerStep(w) == WaitForWork(w) \/ TakeTasks(w) \/ RunPoolTask(w) \/ LeaveOrGoOn(w)

PostStep(t) ==
    \/ PostTask(t) \/ PostToShutdown(t)
    \/ NotifyOne(t) \/ ReleaseLoop(t)

DestructorStep == TerminateInDestructor \/ JoinWorkers

PoolNext ==
    \/ \E w \in Workers : WorkerStep(w) \/ SpuriousWakeUp(w)
    \/ \E t \in PoolThreads :
          PostStep(t) \/ \E j \in PoolTasks : LockLoop(t, j) \/ RunUnposted(t, j)
    \/ \E j \in PoolTasks : PostTaskToAllWorkers(j)
    \/ TerminateByOwner \/ DropLoop
    \/ DestructorStep

PoolSpec == PoolInit /\ [][PoolNext]_poolVars

\* Threads run; nobody has to post, to terminate or to drop the loop.
PoolFairness ==
    /\ \A w \in Workers : WF_poolVars(WorkerStep(w))
    /\ \A t \in PoolThreads : WF_poolVars(PostStep(t))
    /\ WF_poolVars(DestructorStep)

-----------------------------------------------------------------------------
Awake == {w \in Workers : worker[w] = "awake"}
Notifying == {t \in PoolThreads : posting[t] = "pushed"}

\* No worker sleeps through a task: as long as one waits, there is for each
\* task of the queue a worker that is about to look, or a thread that has yet to
\* notify.  Notifying outside of the mutex, waking without a reason, and waking
\* workers that find the task taken do not add up to a lost task.
NobodySleepsOnTasks ==
    (\E w \in Workers : worker[w] = "waiting")
        => Len(poolTasks) <= Cardinality(Awake) + Cardinality(Notifying)

\* A worker does not wait while tasks are addressed to it, nor after Terminate.
NobodySleepsOnOwnTasks ==
    \A w \in Workers : worker[w] = "waiting" => threadTasks[w] = <<>> /\ ~poolShutdown

\* Where a task may be until it is run: in the common queue, with a worker, or
\* with a thread that posts it.
Places == ({"queue"} \X {NoThread}) \cup ({"worker"} \X Workers) \cup ({"post"} \X PoolThreads)

TasksAt(place) == CASE place[1] = "queue"  -> poolTasks
                    [] place[1] = "worker" -> threadTasks[place[2]] \o taken[place[2]]
                    [] place[1] = "post"   -> carried[place[2]]

IsIn(j, tasks) == \E i \in DOMAIN tasks : tasks[i] = j

\* A task posted once is in one place or was run, once; one posted to all
\* workers is with as many of them as have not run it.  No place has it twice.
PoolTaskAccounting ==
    /\ \A j \in PoolTasks :
           posted[j] = ran[j] + Cardinality({place \in Places : IsIn(j, TasksAt(place))})
    /\ \A place \in Places : \A i, k \in DOMAIN TasksAt(place) :
           TasksAt(place)[i] = TasksAt(place)[k] => i = k

\* What is posted before Terminate is run, unless the loop is terminated.
PostedTasksRun ==
    \A j \in PoolTasks : []<>(ran[j] = posted[j] \/ poolShutdown)

\* The destructor returns, unless it is a worker's own: then it joins itself.
DestructorReturns == []<>(destructor \in Workers \cup {NoThread})

\* No worker sleeps through a task, whichever way it was posted.
NobodySleeps == NobodySleepsOnTasks /\ NobodySleepsOnOwnTasks

\* Tasks are run, and the loop can be destroyed.
PoolProgress == PostedTasksRun /\ DestructorReturns
=============================================================================
