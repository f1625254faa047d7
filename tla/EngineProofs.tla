----------------------------- MODULE EngineProofs -----------------------------
(***************************************************************************)
(* Safety of the components of the engine that share no state with each    *)
(* other: the worker pool, the unref queue and the pointer dispatcher.     *)
(***************************************************************************)
EXTENDS ConcurrentLoop, UnrefQueue, PointerDispatcher, FiniteSetTheorems,
        SequenceTheorems, TLAPS

-----------------------------------------------------------------------------
(***************************************************************************)
(* What holds of the pool of workers for every finite number of workers    *)
(* and of threads that post.                                               *)
(*                                                                         *)
(* NobodySleeps is inductive together with the types, and with a thread    *)
(* that has locked the loop carrying one task: then the push that makes    *)
(* the queue longer makes the set of those who have yet to notify larger.  *)
(***************************************************************************)
CarriesOne == \A t \in PoolThreads : posting[t] = "locked" => Len(carried[t]) = 1

PoolInv == PoolTypeOK /\ CarriesOne /\ NobodySleeps

\* The two sets are finite, and their sizes numbers.
LEMMA FiniteThreads ==
    /\ IsFiniteSet(Awake) /\ IsFiniteSet(Notifying)
    /\ Cardinality(Awake) \in Nat /\ Cardinality(Notifying) \in Nat
  <1>1. IsFiniteSet(PoolThreads)
    BY WorkersAssumption, PostersAssumption, FS_Union DEF PoolThreads
  <1>2. Awake \in SUBSET Workers /\ Notifying \in SUBSET PoolThreads
    BY DEF Awake, Notifying
  <1>3. IsFiniteSet(Awake) /\ IsFiniteSet(Notifying)
    BY <1>1, <1>2, WorkersAssumption, FS_Subset
  <1>4. QED BY <1>3, FS_CardinalityType

LEMMA FiniteThreadsNext ==
    /\ IsFiniteSet(Awake') /\ IsFiniteSet(Notifying')
    /\ Cardinality(Awake') \in Nat /\ Cardinality(Notifying') \in Nat
  <1>1. IsFiniteSet(PoolThreads)
    BY WorkersAssumption, PostersAssumption, FS_Union DEF PoolThreads
  <1>2. Awake' \in SUBSET Workers /\ Notifying' \in SUBSET PoolThreads
    BY DEF Awake, Notifying
  <1>3. IsFiniteSet(Awake') /\ IsFiniteSet(Notifying')
    BY <1>1, <1>2, WorkersAssumption, FS_Subset
  <1>4. QED BY <1>3, FS_CardinalityType

\* No task comes, and nobody who would look or notify goes.
LEMMA NobodyLeaves ==
    ASSUME PoolTypeOK, NobodySleepsOnTasks,
           poolTasks' = poolTasks, Awake \subseteq Awake', Notifying \subseteq Notifying',
           \A w \in Workers : worker'[w] = "waiting" => worker[w] = "waiting"
    PROVE  NobodySleepsOnTasks'
  <1>1. Cardinality(Awake) <= Cardinality(Awake')
    BY FiniteThreadsNext, FS_Subset
  <1>2. Cardinality(Notifying) <= Cardinality(Notifying')
    BY FiniteThreadsNext, FS_Subset
  <1>3. Len(poolTasks) \in Nat
    BY DEF PoolTypeOK
  <1>4. QED BY <1>1, <1>2, <1>3, FiniteThreads, FiniteThreadsNext DEF NobodySleepsOnTasks

\* Nobody is left waiting.
LEMMA AllWoken ==
    ASSUME \A w \in Workers : worker'[w] # "waiting"
    PROVE  NobodySleeps'
  BY DEF NobodySleeps, NobodySleepsOnTasks, NobodySleepsOnOwnTasks

LEMMA WokenFacts ==
    ASSUME PoolTypeOK
    PROVE  /\ Woken \in [Workers -> {"waiting", "awake", "running", "left"}]
           /\ \A w \in Workers : Woken[w] # "waiting"
  BY DEF PoolTypeOK, Woken

-----------------------------------------------------------------------------
LEMMA PoolInitInv == PoolInit => PoolInv
  <1> SUFFICES ASSUME PoolInit PROVE PoolInv
    OBVIOUS
  <1>1. PoolTypeOK
    <2>1. /\ poolTasks \in Seq(PoolTasks)
          /\ threadTasks \in [Workers -> Seq(PoolTasks)] /\ taken \in [Workers -> Seq(PoolTasks)]
          /\ carried \in [PoolThreads -> Seq(PoolTasks)]
      BY DEF PoolInit
    <2>2. /\ worker \in [Workers -> {"waiting", "awake", "running", "left"}]
          /\ leaving \in [Workers -> BOOLEAN]
          /\ posting \in [PoolThreads -> {"none", "locked", "pushed", "returning"}]
      BY DEF PoolInit
    <2>3. poolShutdown \in BOOLEAN /\ owned \in BOOLEAN /\ poolGone \in BOOLEAN
      BY Zenon DEF PoolInit
    <2>4. destructor \in PoolThreads \cup {NoThread, "owner"}
      BY DEF PoolInit
    <2>5. posted \in [PoolTasks -> Nat] /\ ran \in [PoolTasks -> Nat]
      BY DEF PoolInit
    <2>6. QED BY <2>1, <2>2, <2>3, <2>4, <2>5 DEF PoolTypeOK
  <1>2. CarriesOne
    BY DEF PoolInit, CarriesOne
  <1>3. NobodySleeps
    BY DEF PoolInit, NobodySleeps, NobodySleepsOnTasks, NobodySleepsOnOwnTasks
  <1>4. QED BY <1>1, <1>2, <1>3 DEF PoolInv

-----------------------------------------------------------------------------
\* Before and after its push and its notification, a thread that posts changes
\* neither the queue nor who looks at it.
LEMMA PostingInv ==
    ASSUME PoolInv, NEW t \in PoolThreads,
           \/ \E j \in PoolTasks : LockLoop(t, j) \/ RunUnposted(t, j)
           \/ PostToShutdown(t) \/ ReleaseLoop(t)
    PROVE  PoolInv'
  <1> USE DEF PoolInv
  <1>1. UNCHANGED <<poolTasks, threadTasks, poolShutdown, worker, leaving, taken, owned, poolGone>>
    BY DEF LockLoop, RunUnposted, PostToShutdown, ReleaseLoop
  <1>2. \/ posting' = posting
        \/ posting[t] # "pushed" /\ \E s \in {"locked", "returning", "none"} :
                                       posting' = [posting EXCEPT ![t] = s]
    BY DEF LockLoop, RunUnposted, PostToShutdown, ReleaseLoop, MayPost
  <1>3. Awake' = Awake
    BY <1>1 DEF Awake
  <1>4. Notifying \subseteq Notifying'
    BY <1>2 DEF Notifying, PoolTypeOK
  <1>5. NobodySleepsOnTasks'
    BY <1>1, <1>3, <1>4, NobodyLeaves DEF NobodySleeps
  <1>6. NobodySleeps'
    BY <1>1, <1>5 DEF NobodySleeps, NobodySleepsOnOwnTasks
  <1>7. PoolTypeOK' /\ CarriesOne'
    <2>1. ASSUME NEW j \in PoolTasks, LockLoop(t, j) PROVE PoolTypeOK' /\ CarriesOne'
      <3>1. <<j>> \in Seq(PoolTasks) /\ Len(<<j>>) = 1
        OBVIOUS
      <3>2. /\ posted' = [posted EXCEPT ![j] = 1] /\ posting' = [posting EXCEPT ![t] = "locked"]
            /\ carried' = [carried EXCEPT ![t] = <<j>>] /\ UNCHANGED <<destructor, ran>>
        BY <2>1 DEF LockLoop
      <3>3. QED BY <1>1, <3>1, <3>2 DEF PoolTypeOK, CarriesOne
    <2>2. ASSUME NEW j \in PoolTasks, RunUnposted(t, j) PROVE PoolTypeOK' /\ CarriesOne'
      BY <1>1, <2>2 DEF RunUnposted, PoolTypeOK, CarriesOne
    <2>3. CASE PostToShutdown(t)
      <3>1. /\ posting[t] = "locked" /\ ran' = [ran EXCEPT ![Head(carried[t])] = @ + 1]
            /\ carried' = [carried EXCEPT ![t] = <<>>]
            /\ posting' = [posting EXCEPT ![t] = "returning"] /\ UNCHANGED <<destructor, posted>>
        BY <2>3 DEF PostToShutdown
      <3>2. carried[t] \in Seq(PoolTasks) /\ Len(carried[t]) = 1
        BY <3>1 DEF PoolTypeOK, CarriesOne
      <3>3. Head(carried[t]) \in PoolTasks
        BY <3>2
      <3>4. ran' \in [PoolTasks -> Nat]
        BY SMTT(30), <3>1, <3>3 DEF PoolTypeOK
      <3>5. QED BY SMTT(30), <1>1, <3>1, <3>4 DEF PoolTypeOK, CarriesOne
    <2>4. CASE ReleaseLoop(t)
      <3>1. destructor' = destructor \/ destructor' = t
        BY <2>4 DEF ReleaseLoop, Destructs
      <3>2. posting' = [posting EXCEPT ![t] = "none"] /\ UNCHANGED <<carried, posted, ran>>
        BY <2>4 DEF ReleaseLoop
      <3>3. QED BY <1>1, <3>1, <3>2 DEF PoolTypeOK, CarriesOne
    <2>5. QED BY <2>1, <2>2, <2>3, <2>4
  <1>8. QED BY <1>6, <1>7

LEMMA OneMore ==
    ASSUME NEW S, NEW s \in Seq(S), NEW c \in Seq(S), Len(c) = 1
    PROVE  s \o c \in Seq(S) /\ Len(s \o c) = Len(s) + 1
  <1>1. s \o c \in Seq(S) /\ Len(s \o c) = Len(s) + Len(c)
    BY ONLY ConcatProperties, Zenon
  <1>2. QED BY <1>1

\* One more task, and one more thread that will notify.
LEMMA PostTaskInv == ASSUME PoolInv, NEW t \in PoolThreads, PostTask(t) PROVE PoolInv'
  <1> USE DEF PoolInv
  <1>1. /\ posting[t] = "locked" /\ poolTasks' = poolTasks \o carried[t]
        /\ carried' = [carried EXCEPT ![t] = <<>>] /\ posting' = [posting EXCEPT ![t] = "pushed"]
        /\ UNCHANGED <<threadTasks, poolShutdown, worker, leaving, taken, owned, destructor,
                       poolGone, posted, ran>>
    BY DEF PostTask
  <1>2. carried[t] \in Seq(PoolTasks) /\ Len(carried[t]) = 1 /\ poolTasks \in Seq(PoolTasks)
    BY <1>1 DEF PoolTypeOK, CarriesOne
  <1>3. poolTasks' \in Seq(PoolTasks) /\ Len(poolTasks') = Len(poolTasks) + 1
    <2>1. poolTasks \o carried[t] \in Seq(PoolTasks)
          /\ Len(poolTasks \o carried[t]) = Len(poolTasks) + 1
      <3> HIDE DEF PoolInv
      <3>1. QED BY ONLY <1>2, OneMore, Zenon
    <2>2. QED BY <1>1, <2>1
  <1>4. PoolTypeOK' /\ CarriesOne'
    BY <1>1, <1>3 DEF PoolTypeOK, CarriesOne
  <1>5. Notifying' = Notifying \cup {t} /\ t \notin Notifying /\ Awake' = Awake
    BY <1>1 DEF Notifying, Awake, PoolTypeOK
  <1>6. Cardinality(Notifying') = Cardinality(Notifying) + 1
    BY <1>5, FiniteThreads, FS_AddElement
  <1>7. NobodySleepsOnTasks'
    BY <1>1, <1>2, <1>3, <1>5, <1>6, FiniteThreads DEF NobodySleeps, NobodySleepsOnTasks
  <1>8. NobodySleeps'
    BY <1>1, <1>7 DEF NobodySleeps, NobodySleepsOnOwnTasks
  <1>9. QED BY <1>4, <1>8

\* The notification that is given is a worker that is awake, if one waits.
LEMMA NotifyOneInv == ASSUME PoolInv, NEW t \in PoolThreads, NotifyOne(t) PROVE PoolInv'
  <1> USE DEF PoolInv
  <1>1. /\ posting[t] = "pushed" /\ posting' = [posting EXCEPT ![t] = "returning"]
        /\ UNCHANGED <<poolTasks, threadTasks, poolShutdown, leaving, taken, carried, owned,
                       destructor, poolGone, posted, ran>>
    BY DEF NotifyOne
  <1>2. \/ (\A w \in Workers : worker[w] # "waiting") /\ worker' = worker
        \/ \E w \in Workers : worker[w] = "waiting" /\ worker' = [worker EXCEPT ![w] = "awake"]
    BY DEF NotifyOne
  <1>3. PoolTypeOK' /\ CarriesOne'
    BY <1>1, <1>2 DEF PoolTypeOK, CarriesOne
  <1>4. CASE (\A w \in Workers : worker[w] # "waiting") /\ worker' = worker
    BY <1>3, <1>4, AllWoken
  <1>5. ASSUME NEW w \in Workers, worker[w] = "waiting", worker' = [worker EXCEPT ![w] = "awake"]
        PROVE  NobodySleeps'
    <2>1. Awake' = Awake \cup {w} /\ w \notin Awake
      BY <1>5 DEF Awake, PoolTypeOK
    <2>2. Notifying' = Notifying \ {t} /\ t \in Notifying
      BY <1>1 DEF Notifying, PoolTypeOK
    <2>3. Cardinality(Awake') = Cardinality(Awake) + 1
      BY <2>1, FiniteThreads, FS_AddElement
    <2>4. Cardinality(Notifying') = Cardinality(Notifying) - 1
      BY <2>2, FiniteThreads, FS_RemoveElement
    <2>5. Len(poolTasks') <= Cardinality(Awake') + Cardinality(Notifying')
      BY SMTT(30), <1>1, <1>5, <2>3, <2>4, FiniteThreads
         DEF NobodySleeps, NobodySleepsOnTasks, PoolTypeOK
    <2>6. NobodySleepsOnOwnTasks'
      BY <1>1, <1>5 DEF NobodySleeps, NobodySleepsOnOwnTasks, PoolTypeOK
    <2>7. QED BY <2>5, <2>6 DEF NobodySleeps, NobodySleepsOnTasks
  <1>6. QED BY <1>2, <1>3, <1>4, <1>5

-----------------------------------------------------------------------------
\* A worker waits when there is nothing to do.
LEMMA WaitForWorkInv == ASSUME PoolInv, NEW w \in Workers, WaitForWork(w) PROVE PoolInv'
  <1> USE DEF PoolInv
  <1>1. /\ poolTasks = <<>> /\ ~poolShutdown /\ threadTasks[w] = <<>>
        /\ worker' = [worker EXCEPT ![w] = "waiting"]
        /\ UNCHANGED <<poolTasks, threadTasks, poolShutdown, leaving, taken, posting,
                       carried, owned, destructor, poolGone, posted, ran>>
    BY DEF WaitForWork, HasWork
  <1>2. PoolTypeOK' /\ CarriesOne'
    BY <1>1 DEF PoolTypeOK, CarriesOne
  <1>3. Len(poolTasks') = 0
    BY <1>1
  <1>4. NobodySleepsOnTasks'
    BY <1>3, FiniteThreadsNext DEF NobodySleepsOnTasks
  <1>5. NobodySleepsOnOwnTasks'
    BY <1>1 DEF NobodySleeps, NobodySleepsOnOwnTasks, PoolTypeOK
  <1>6. QED BY <1>2, <1>4, <1>5 DEF NobodySleeps

\* A worker wakes, or goes on, without having taken a task.
LEMMA GoOnInv ==
    ASSUME PoolInv, NEW w \in Workers, SpuriousWakeUp(w) \/ LeaveOrGoOn(w) PROVE PoolInv'
  <1> USE DEF PoolInv
  <1>1. UNCHANGED <<poolTasks, threadTasks, poolShutdown, leaving, taken, posting,
                    carried, owned, destructor, poolGone, posted, ran>>
    BY DEF SpuriousWakeUp, LeaveOrGoOn
  <1>2. /\ worker[w] # "awake"
        /\ \E s \in {"awake", "left"} : worker' = [worker EXCEPT ![w] = s]
    BY DEF SpuriousWakeUp, LeaveOrGoOn
  <1>3. PoolTypeOK' /\ CarriesOne'
    BY <1>1, <1>2 DEF PoolTypeOK, CarriesOne
  <1>4. Awake \subseteq Awake' /\ Notifying' = Notifying
    BY <1>1, <1>2 DEF Awake, Notifying, PoolTypeOK
  <1>5. \A v \in Workers : worker'[v] = "waiting" => worker[v] = "waiting"
    BY <1>2 DEF PoolTypeOK
  <1>6. NobodySleepsOnTasks'
    BY <1>1, <1>4, <1>5, NobodyLeaves DEF NobodySleeps
  <1>7. NobodySleepsOnOwnTasks'
    BY <1>1, <1>5 DEF NobodySleeps, NobodySleepsOnOwnTasks
  <1>8. QED BY <1>3, <1>6, <1>7 DEF NobodySleeps

\* The task that a worker takes is one less for those who are left.
LEMMA TakeTasksInv == ASSUME PoolInv, NEW w \in Workers, TakeTasks(w) PROVE PoolInv'
  <1> USE DEF PoolInv
  <1>1. /\ worker[w] = "awake" /\ worker' = [worker EXCEPT ![w] = "running"]
        /\ taken' = [taken EXCEPT ![w] = FirstTask \o threadTasks[w]]
        /\ poolTasks' = IF poolTasks = <<>> THEN <<>> ELSE Tail(poolTasks)
        /\ threadTasks' = [threadTasks EXCEPT ![w] = <<>>]
        /\ leaving' = [leaving EXCEPT ![w] = poolShutdown]
        /\ UNCHANGED <<poolShutdown, posting, carried, owned, destructor, poolGone, posted, ran>>
    BY DEF TakeTasks
  <1>2. /\ poolTasks \in Seq(PoolTasks) /\ threadTasks[w] \in Seq(PoolTasks)
        /\ poolShutdown \in BOOLEAN
    BY DEF PoolTypeOK
  <1>3. /\ poolTasks' \in Seq(PoolTasks)
        /\ Len(poolTasks') = 0 \/ Len(poolTasks') = Len(poolTasks) - 1
    BY <1>1, <1>2
  <1>4. FirstTask \in Seq(PoolTasks)
    BY <1>2 DEF FirstTask
  <1>5. FirstTask \o threadTasks[w] \in Seq(PoolTasks)
    BY <1>2, <1>4
  <1>6. leaving' \in [Workers -> BOOLEAN]
    BY <1>1, <1>2 DEF PoolTypeOK
  <1>7. PoolTypeOK' /\ CarriesOne'
    BY <1>1, <1>3, <1>5, <1>6 DEF PoolTypeOK, CarriesOne
  <1>8. Awake' = Awake \ {w} /\ w \in Awake /\ Notifying' = Notifying
    BY <1>1 DEF Awake, Notifying, PoolTypeOK
  <1>9. Cardinality(Awake') = Cardinality(Awake) - 1
    BY <1>8, FiniteThreads, FS_RemoveElement
  <1>10. \A v \in Workers : worker'[v] = "waiting" => worker[v] = "waiting" /\ v # w
    BY <1>1 DEF PoolTypeOK
  <1>11. NobodySleepsOnTasks'
    <2>1. Len(poolTasks) \in Nat
      BY <1>2
    <2>2. QED BY <1>3, <1>8, <1>9, <1>10, <2>1, FiniteThreads, FiniteThreadsNext
              DEF NobodySleeps, NobodySleepsOnTasks
  <1>12. NobodySleepsOnOwnTasks'
    BY <1>1, <1>10 DEF NobodySleeps, NobodySleepsOnOwnTasks, PoolTypeOK
  <1>13. QED BY <1>7, <1>11, <1>12 DEF NobodySleeps

LEMMA RunPoolTaskInv == ASSUME PoolInv, NEW w \in Workers, RunPoolTask(w) PROVE PoolInv'
  <1> USE DEF PoolInv
  <1>1. /\ taken[w] # <<>> /\ taken' = [taken EXCEPT ![w] = Tail(@)]
        /\ ran' = [ran EXCEPT ![Head(taken[w])] = @ + 1]
        /\ UNCHANGED <<poolTasks, threadTasks, poolShutdown, worker, leaving, posting,
                       carried, owned, destructor, poolGone, posted>>
    BY DEF RunPoolTask
  <1>2. taken[w] \in Seq(PoolTasks)
    BY DEF PoolTypeOK
  <1>3. Head(taken[w]) \in PoolTasks /\ Tail(taken[w]) \in Seq(PoolTasks)
    BY <1>1, <1>2
  <1>4. ran' \in [PoolTasks -> Nat] /\ taken' \in [Workers -> Seq(PoolTasks)]
    BY SMTT(30), <1>1, <1>3 DEF PoolTypeOK
  <1>5. PoolTypeOK' /\ CarriesOne'
    BY <1>1, <1>4 DEF PoolTypeOK, CarriesOne
  <1>6. Awake' = Awake /\ Notifying' = Notifying
    BY <1>1 DEF Awake, Notifying
  <1>7. NobodySleeps'
    BY <1>1, <1>6 DEF NobodySleeps, NobodySleepsOnTasks, NobodySleepsOnOwnTasks
  <1>8. QED BY <1>5, <1>7

-----------------------------------------------------------------------------
\* What is meant for all workers wakes all of them.
LEMMA PostToAllInv == ASSUME PoolInv, NEW j \in PoolTasks, PostTaskToAllWorkers(j) PROVE PoolInv'
  <1> USE DEF PoolInv
  <1>1. /\ posted' = [posted EXCEPT ![j] = Cardinality(Workers)]
        /\ threadTasks' = [w \in Workers |-> Append(threadTasks[w], j)]
        /\ worker' = Woken
        /\ UNCHANGED <<poolTasks, poolShutdown, leaving, taken, posting, carried, owned,
                       destructor, poolGone, ran>>
    BY DEF PostTaskToAllWorkers
  <1>2. Cardinality(Workers) \in Nat
    BY WorkersAssumption, FS_CardinalityType
  <1>3. posted' \in [PoolTasks -> Nat] /\ threadTasks' \in [Workers -> Seq(PoolTasks)]
    BY <1>1, <1>2 DEF PoolTypeOK
  <1>4. PoolTypeOK' /\ CarriesOne'
    BY <1>1, <1>3, WokenFacts DEF PoolTypeOK, CarriesOne
  <1>5. QED BY <1>1, <1>4, WokenFacts, AllWoken

LEMMA TerminateInv ==
    ASSUME PoolInv, TerminateByOwner \/ TerminateInDestructor PROVE PoolInv'
  <1> USE DEF PoolInv
  <1>1. /\ poolShutdown' = TRUE /\ worker' = Woken
        /\ UNCHANGED <<poolTasks, threadTasks, leaving, taken, posting, carried, owned,
                       destructor, poolGone, posted, ran>>
    BY DEF TerminateByOwner, TerminateInDestructor, Terminate
  <1>2. PoolTypeOK' /\ CarriesOne'
    BY <1>1, WokenFacts DEF PoolTypeOK, CarriesOne
  <1>3. QED BY <1>1, <1>2, WokenFacts, AllWoken

LEMMA EndInv == ASSUME PoolInv, DropLoop \/ JoinWorkers PROVE PoolInv'
  <1> USE DEF PoolInv
  <1>1. UNCHANGED <<poolTasks, threadTasks, poolShutdown, worker, leaving, taken, posting,
                    carried, posted, ran>>
    BY DEF DropLoop, JoinWorkers
  <1>2. destructor' \in PoolThreads \cup {NoThread, "owner"}
    BY DEF DropLoop, JoinWorkers, PoolTypeOK
  <1>3. owned' \in BOOLEAN /\ poolGone' \in BOOLEAN
    <2>1. (owned' = FALSE \/ owned' = owned) /\ (poolGone' = TRUE \/ poolGone' = poolGone)
      BY DEF DropLoop, JoinWorkers
    <2>2. QED BY <2>1 DEF PoolTypeOK
  <1>4. PoolTypeOK' /\ CarriesOne'
    BY <1>1, <1>2, <1>3 DEF PoolTypeOK, CarriesOne
  <1>5. Awake' = Awake /\ Notifying' = Notifying
    BY <1>1 DEF Awake, Notifying
  <1>6. NobodySleeps'
    BY <1>1, <1>5 DEF NobodySleeps, NobodySleepsOnTasks, NobodySleepsOnOwnTasks
  <1>7. QED BY <1>4, <1>6

-----------------------------------------------------------------------------
LEMMA PoolInvariant == PoolSpec => []PoolInv
  <1>1. ASSUME PoolInv, [PoolNext]_poolVars PROVE PoolInv'
    <2>1. ASSUME NEW w \in Workers, WorkerStep(w) \/ SpuriousWakeUp(w) PROVE PoolInv'
      BY <1>1, <2>1, WaitForWorkInv, GoOnInv, TakeTasksInv, RunPoolTaskInv DEF WorkerStep
    <2>2. ASSUME NEW t \in PoolThreads,
                 PostStep(t) \/ \E j \in PoolTasks : LockLoop(t, j) \/ RunUnposted(t, j)
          PROVE  PoolInv'
      BY <1>1, <2>2, PostingInv, PostTaskInv, NotifyOneInv DEF PostStep
    <2>3. CASE \/ \E j \in PoolTasks : PostTaskToAllWorkers(j)
               \/ TerminateByOwner \/ DropLoop \/ DestructorStep
      BY <1>1, <2>3, PostToAllInv, TerminateInv, EndInv DEF DestructorStep
    <2>4. CASE UNCHANGED poolVars
      BY <1>1, <2>4 DEF poolVars, PoolInv, PoolTypeOK, CarriesOne, NobodySleeps,
         NobodySleepsOnTasks, NobodySleepsOnOwnTasks, Awake, Notifying
    <2>5. QED BY <1>1, <2>1, <2>2, <2>3, <2>4 DEF PoolNext
  <1>2. QED BY <1>1, PoolInitInv, PTL DEF PoolSpec

\* However many workers and threads that post there are, no worker sleeps through a
\* task of the queue, one that is addressed to it, or the end of the pool.
THEOREM NobodySleepsThroughWork == PoolSpec => []NobodySleeps
  <1>1. PoolInv => NobodySleeps
    BY DEF PoolInv
  <1>2. QED BY <1>1, PoolInvariant, PTL
-----------------------------------------------------------------------------
(***************************************************************************)
(* Where the tasks are.  The accounting is inductive together with what    *)
(* says that a task in the common queue or on its way there was posted     *)
(* once, so that it is nowhere else, and that only a running worker has    *)
(* taken tasks and only a posting thread carries one.                      *)
(***************************************************************************)
At(j) == {place \in Places : IsIn(j, TasksAt(place))}
Once(tasks) == \A i, k \in DOMAIN tasks : tasks[i] = tasks[k] => i = k

TheQueue == <<"queue", NoThread>>
With(w) == <<"worker", w>>
By(t) == <<"post", t>>

NoneTwice ==
    /\ Once(poolTasks)
    /\ \A w \in Workers : /\ Once(threadTasks[w]) /\ Once(taken[w])
                          /\ \A j : ~(IsIn(j, threadTasks[w]) /\ IsIn(j, taken[w]))
    /\ \A t \in PoolThreads : Once(carried[t])

PostedOnce ==
    \A j \in PoolTasks :
       IsIn(j, poolTasks) \/ (\E t \in PoolThreads : IsIn(j, carried[t])) => posted[j] = 1

HeldByTheBusy ==
    /\ \A w \in Workers : worker[w] # "running" => taken[w] = <<>>
    /\ \A t \in PoolThreads : posting[t] # "locked" => carried[t] = <<>>

Counted == \A j \in PoolTasks : posted[j] = ran[j] + Cardinality(At(j))

PlacesInv == Counted /\ NoneTwice /\ PostedOnce /\ HeldByTheBusy

LEMMA ConcatIsIn ==
    ASSUME NEW s \in Seq(PoolTasks), NEW r \in Seq(PoolTasks)
    PROVE  /\ \A j : IsIn(j, s \o r) <=> IsIn(j, s) \/ IsIn(j, r)
           /\ Once(s \o r) <=> Once(s) /\ Once(r) /\ \A j : ~(IsIn(j, s) /\ IsIn(j, r))
  <1> DEFINE m == Len(s)  n == Len(r)  c == s \o r
  <1>1. /\ m \in Nat /\ n \in Nat /\ Len(c) = m + n
        /\ DOMAIN s = 1..m /\ DOMAIN r = 1..n /\ DOMAIN c = 1..(m + n)
        /\ \A i \in 1..m : c[i] = s[i]
        /\ \A i \in 1..n : c[m + i] = r[i]
    OBVIOUS
  <1> HIDE DEF m, n, c
  <1>2. \A i \in 1..(m + n) : i \in 1..m \/ (i - m \in 1..n /\ i = m + (i - m))
    BY <1>1
  <1>3. \A j : IsIn(j, c) <=> IsIn(j, s) \/ IsIn(j, r)
    <2>1. ASSUME NEW j, IsIn(j, c) PROVE IsIn(j, s) \/ IsIn(j, r)
      <3>1. PICK i \in 1..(m + n) : c[i] = j
        BY <1>1, <2>1 DEF IsIn
      <3>2. CASE i \in 1..m
        BY <1>1, <3>1, <3>2 DEF IsIn
      <3>3. CASE i \notin 1..m
        <4>1. i - m \in 1..n /\ r[i - m] = j
          BY <1>1, <1>2, <3>1, <3>3
        <4> QED BY <1>1, <4>1 DEF IsIn
      <3> QED BY <3>2, <3>3
    <2>2. ASSUME NEW j, IsIn(j, s) \/ IsIn(j, r) PROVE IsIn(j, c)
      <3>1. ASSUME NEW i \in 1..m, s[i] = j PROVE IsIn(j, c)
        BY <1>1, <3>1 DEF IsIn
      <3>2. ASSUME NEW i \in 1..n, r[i] = j PROVE IsIn(j, c)
        <4>1. m + i \in 1..(m + n) /\ c[m + i] = j
          BY <1>1, <3>2
        <4> QED BY <1>1, <4>1 DEF IsIn
      <3> QED BY <1>1, <2>2, <3>1, <3>2 DEF IsIn
    <2> QED BY <2>1, <2>2
  <1>4. ASSUME Once(c) PROVE Once(s) /\ Once(r) /\ \A j : ~(IsIn(j, s) /\ IsIn(j, r))
    <2>1. Once(s)
      BY <1>1, <1>4 DEF Once
    <2>2. Once(r)
      <3>1. SUFFICES ASSUME NEW i \in 1..n, NEW k \in 1..n, r[i] = r[k] PROVE i = k
        BY <1>1 DEF Once
      <3>2. m + i = m + k
        BY <1>1, <1>4, <3>1 DEF Once
      <3> QED BY <1>1, <3>2
    <2>3. ASSUME NEW i \in 1..m, NEW k \in 1..n, s[i] = r[k] PROVE FALSE
      BY <1>1, <1>4, <2>3 DEF Once
    <2> QED BY <1>1, <2>1, <2>2, <2>3 DEF IsIn
  <1>5. ASSUME Once(s), Once(r), \A j : ~(IsIn(j, s) /\ IsIn(j, r)) PROVE Once(c)
    <2>1. SUFFICES ASSUME NEW i \in 1..(m + n), NEW k \in 1..(m + n), c[i] = c[k] PROVE i = k
      BY <1>1 DEF Once
    <2>2. ASSUME NEW x \in 1..m, NEW y \in 1..n, s[x] = r[y] PROVE FALSE
      BY <1>1, <1>5, <2>2 DEF IsIn
    <2>3. CASE i \in 1..m /\ k \in 1..m
      BY <1>1, <1>5, <2>1, <2>3 DEF Once
    <2>4. CASE i \notin 1..m /\ k \notin 1..m
      <3>1. /\ i - m \in 1..n /\ c[i] = r[i - m]
            /\ k - m \in 1..n /\ c[k] = r[k - m]
        BY <1>1, <1>2, <2>4
      <3>2. i - m = k - m
        BY ZenonT(60), <1>1, <1>5, <2>1, <3>1 DEF Once
      <3> QED BY <1>1, <3>2
    <2>5. CASE i \in 1..m /\ k \notin 1..m
      <3>1. c[i] = s[i] /\ k - m \in 1..n /\ c[k] = r[k - m]
        BY <1>1, <1>2, <2>5
      <3> QED BY <2>1, <2>2, <2>5, <3>1
    <2>6. CASE i \notin 1..m /\ k \in 1..m
      <3>1. c[k] = s[k] /\ i - m \in 1..n /\ c[i] = r[i - m]
        BY <1>1, <1>2, <2>6
      <3> QED BY <2>1, <2>2, <2>6, <3>1
    <2> QED BY <2>3, <2>4, <2>5, <2>6
  <1> QED BY <1>3, <1>4, <1>5 DEF c

LEMMA TakenFirst ==
    ASSUME NEW s \in Seq(PoolTasks), s # <<>>, Once(s)
    PROVE  /\ Head(s) \in PoolTasks /\ IsIn(Head(s), s) /\ Once(Tail(s))
           /\ \A j : IsIn(j, Tail(s)) <=> IsIn(j, s) /\ j # Head(s)
  <1>1. /\ Len(s) \in Nat \ {0} /\ Head(s) = s[1] /\ Head(s) \in PoolTasks
        /\ DOMAIN s = 1..Len(s) /\ DOMAIN Tail(s) = 1..(Len(s) - 1)
        /\ \A i \in 1..(Len(s) - 1) : Tail(s)[i] = s[i + 1]
    OBVIOUS
  <1>2. IsIn(Head(s), s)
    BY <1>1 DEF IsIn
  <1>3. Once(Tail(s))
    BY <1>1 DEF Once
  <1>4. ASSUME NEW j, IsIn(j, Tail(s)) PROVE IsIn(j, s) /\ j # Head(s)
    BY <1>1, <1>4 DEF IsIn, Once
  <1>5. ASSUME NEW j, IsIn(j, s), j # Head(s) PROVE IsIn(j, Tail(s))
    <2>1. PICK i \in 2..Len(s) : s[i] = j
      BY <1>1, <1>5 DEF IsIn
    <2>2. i - 1 \in 1..(Len(s) - 1) /\ Tail(s)[i - 1] = s[i]
      BY <1>1, <2>1
    <2> QED BY <1>1, <2>1, <2>2 DEF IsIn
  <1> QED BY <1>1, <1>2, <1>3, <1>4, <1>5

LEMMA OneTask ==
    ASSUME NEW x \in PoolTasks
    PROVE  <<x>> \in Seq(PoolTasks) /\ Once(<<x>>) /\ \A j : IsIn(j, <<x>>) <=> j = x
  BY DEF Once, IsIn

LEMMA NoTask == Once(<<>>) /\ \A j : ~IsIn(j, <<>>)
  BY DEF Once, IsIn

\* What is at each of the places.
LEMMA ThePlaces ==
    /\ \A p \in Places : \/ p = TheQueue
                         \/ \E w \in Workers : p = With(w)
                         \/ \E t \in PoolThreads : p = By(t)
    /\ TheQueue \in Places /\ \A w \in Workers : With(w) \in Places
    /\ \A t \in PoolThreads : By(t) \in Places
    /\ \A w : With(w) # TheQueue
    /\ \A t : By(t) # TheQueue
    /\ \A w, t : With(w) # By(t)
    /\ \A w, v : With(w) = With(v) => w = v
    /\ \A w, v : By(w) = By(v) => w = v
  BY DEF Places, TheQueue, With, By

LEMMA PlacesAreFinite ==
    /\ IsFiniteSet(Places)
    /\ \A j : IsFiniteSet(At(j)) /\ Cardinality(At(j)) \in Nat
  <1>1. IsFiniteSet(PoolThreads)
    BY WorkersAssumption, PostersAssumption, FS_Union DEF PoolThreads
  <1>2. \A x : IsFiniteSet({x})
    BY FS_Singleton
  <1>3. /\ IsFiniteSet({"queue"} \X {NoThread}) /\ IsFiniteSet({"worker"} \X Workers)
        /\ IsFiniteSet({"post"} \X PoolThreads)
    BY <1>1, <1>2, WorkersAssumption, FS_Product
  <1>4. IsFiniteSet(Places)
    BY <1>3, FS_Union DEF Places
  <1>5. ASSUME NEW j PROVE IsFiniteSet(At(j))
    <2>1. At(j) \in SUBSET Places
      BY DEF At
    <2> QED BY <1>4, <2>1, FS_Subset
  <1> QED BY <1>4, <1>5, FS_CardinalityType

LEMMA WhatIsThere ==
    /\ TasksAt(TheQueue) = poolTasks
    /\ \A w : TasksAt(With(w)) = threadTasks[w] \o taken[w]
    /\ \A t : TasksAt(By(t)) = carried[t]
  BY DEF TasksAt, TheQueue, With, By

Located ==
    \A j : /\ At(j) \subseteq Places
           /\ TheQueue \in At(j) <=> IsIn(j, poolTasks)
           /\ \A w \in Workers :
                 With(w) \in At(j) <=> IsIn(j, threadTasks[w]) \/ IsIn(j, taken[w])
           /\ \A t \in PoolThreads : By(t) \in At(j) <=> IsIn(j, carried[t])

LEMMA AtFacts == PoolTypeOK => Located
  <1> SUFFICES ASSUME PoolTypeOK PROVE Located
    OBVIOUS
  <1>1. ASSUME NEW w \in Workers, NEW j
        PROVE  IsIn(j, TasksAt(With(w))) <=> IsIn(j, threadTasks[w]) \/ IsIn(j, taken[w])
    <2>1. threadTasks[w] \in Seq(PoolTasks) /\ taken[w] \in Seq(PoolTasks)
      BY DEF PoolTypeOK
    <2>2. IsIn(j, threadTasks[w] \o taken[w])
             <=> IsIn(j, threadTasks[w]) \/ IsIn(j, taken[w])
      BY <2>1, ConcatIsIn
    <2> QED BY <2>2, WhatIsThere
  <1> QED BY <1>1, WhatIsThere, ThePlaces DEF At, Located

LEMMA AtNext == PoolTypeOK' => Located'
  BY AtFacts, PTL

LEMMA AccountingFacts ==
    ASSUME PoolTypeOK, Counted, NoneTwice
    PROVE  PoolTaskAccounting
  <1>1. ASSUME NEW p \in Places PROVE Once(TasksAt(p))
    <2>1. ASSUME NEW w \in Workers PROVE Once(TasksAt(With(w)))
      <3>1. threadTasks[w] \in Seq(PoolTasks) /\ taken[w] \in Seq(PoolTasks)
        BY DEF PoolTypeOK
      <3>2. Once(threadTasks[w] \o taken[w])
        BY <3>1, ConcatIsIn DEF NoneTwice
      <3> QED BY <3>2, WhatIsThere
    <2>2. Once(TasksAt(TheQueue)) /\ \A t \in PoolThreads : Once(TasksAt(By(t)))
      BY WhatIsThere DEF NoneTwice
    <2> QED BY <1>1, <2>1, <2>2, ThePlaces
  <1> QED BY <1>1 DEF PoolTaskAccounting, Counted, At, Once

LEMMA OneMoreOrLess ==
    ASSUME NEW S, IsFiniteSet(S), NEW p
    PROVE  /\ Cardinality(S) \in Nat
           /\ p \notin S => Cardinality(S \cup {p}) = Cardinality(S) + 1
           /\ p \in S => Cardinality(S \ {p}) = Cardinality(S) - 1
  BY FS_CardinalityType, FS_AddElement, FS_RemoveElement

\* A task that was posted once is in one place, and was not run.
LEMMA TheOnlyPlace ==
    ASSUME PoolTypeOK, Counted, NEW j \in PoolTasks, posted[j] = 1, NEW p \in At(j)
    PROVE  At(j) = {p} /\ ran[j] = 0
  <1>1. IsFiniteSet(At(j)) /\ Cardinality(At(j)) \in Nat /\ ran[j] \in Nat
    BY PlacesAreFinite DEF PoolTypeOK
  <1>2. Cardinality(At(j)) # 0
    BY <1>1, FS_EmptySet
  <1>3. Cardinality(At(j)) = 1 /\ ran[j] = 0
    BY <1>1, <1>2 DEF Counted
  <1>4. PICK x : At(j) = {x}
    BY <1>1, <1>3, FS_Singleton
  <1> QED BY <1>3, <1>4

LEMMA NotYetPosted ==
    ASSUME PoolTypeOK, Counted, NEW j \in PoolTasks, posted[j] = 0
    PROVE  At(j) = {} /\ ran[j] = 0
  <1>1. IsFiniteSet(At(j)) /\ Cardinality(At(j)) \in Nat /\ ran[j] \in Nat
    BY PlacesAreFinite DEF PoolTypeOK
  <1>2. Cardinality(At(j)) = 0 /\ ran[j] = 0
    BY <1>1 DEF Counted
  <1> QED BY <1>1, <1>2, FS_EmptySet

LEMMA PlacesInitInv == PoolInit => PlacesInv
  <1> SUFFICES ASSUME PoolInit PROVE PlacesInv
    OBVIOUS
  <1>1. Located
    BY PoolInitInv, AtFacts DEF PoolInv
  <1>2. \A j : At(j) = {}
    BY <1>1, NoTask, ThePlaces DEF PoolInit, Located
  <1>3. Counted
    BY SMTT(30), <1>2, FS_EmptySet DEF PoolInit, Counted
  <1>4. NoneTwice /\ PostedOnce /\ HeldByTheBusy
    BY NoTask DEF PoolInit, NoneTwice, PostedOnce, HeldByTheBusy
  <1> QED BY <1>3, <1>4 DEF PlacesInv

\* What moves no task.
LEMMA NoTaskMoves ==
    ASSUME PlacesInv, HeldByTheBusy',
           UNCHANGED <<poolTasks, threadTasks, taken, carried, posted, ran>>
    PROVE  PlacesInv'
  <1>1. \A j : At(j)' = At(j)
    BY DEF At, TasksAt
  <1>2. Counted' /\ NoneTwice' /\ PostedOnce'
    BY <1>1 DEF PlacesInv, Counted, NoneTwice, PostedOnce
  <1> QED BY <1>2 DEF PlacesInv

\* A task that is with whom it was before.
LEMMA UnmovedTask ==
    ASSUME Located, Located', NEW j,
           IsIn(j, poolTasks') <=> IsIn(j, poolTasks),
           \A w \in Workers : IsIn(j, threadTasks'[w]) \/ IsIn(j, taken'[w])
                                  <=> IsIn(j, threadTasks[w]) \/ IsIn(j, taken[w]),
           \A t \in PoolThreads : IsIn(j, carried'[t]) <=> IsIn(j, carried[t])
    PROVE  At(j)' = At(j)
  <1>1. At(j) \subseteq Places /\ At(j)' \subseteq Places
    BY DEF Located
  <1>2. TheQueue \in At(j)' <=> TheQueue \in At(j)
    BY DEF Located
  <1>3. \A w \in Workers : With(w) \in At(j)' <=> With(w) \in At(j)
    BY DEF Located
  <1>4. \A t \in PoolThreads : By(t) \in At(j)' <=> By(t) \in At(j)
    BY DEF Located
  <1>5. \A p \in Places : p \in At(j)' <=> p \in At(j)
    BY <1>2, <1>3, <1>4, ThePlaces
  <1> QED BY <1>1, <1>5

\* Tasks that are counted as before, and one that moves.
LEMMA CountedButOne ==
    ASSUME PoolTypeOK, PoolTypeOK', Counted, NEW j \in PoolTasks,
           \A k \in PoolTasks \ {j} :
              At(k)' = At(k) /\ posted'[k] = posted[k] /\ ran'[k] = ran[k],
           posted'[j] = ran'[j] + Cardinality(At(j)')
    PROVE  Counted'
  <1>1. ASSUME NEW k \in PoolTasks, k # j PROVE posted'[k] = ran'[k] + Cardinality(At(k)')
    <2>1. At(k)' = At(k) /\ posted'[k] = posted[k] /\ ran'[k] = ran[k]
      BY <1>1
    <2>2. posted[k] = ran[k] + Cardinality(At(k))
      BY DEF Counted
    <2> QED BY <2>1, <2>2
  <1> QED BY <1>1 DEF Counted

LEMMA QuietSteps ==
    ASSUME PoolInv, PlacesInv,
           \/ \E t \in PoolThreads : NotifyOne(t) \/ ReleaseLoop(t)
           \/ \E w \in Workers : WaitForWork(w) \/ SpuriousWakeUp(w) \/ LeaveOrGoOn(w)
           \/ TerminateByOwner \/ DropLoop \/ DestructorStep
           \/ UNCHANGED poolVars
    PROVE  PlacesInv'
  <1>1. UNCHANGED <<poolTasks, threadTasks, taken, carried, posted, ran>>
    BY DEF NotifyOne, ReleaseLoop, WaitForWork, SpuriousWakeUp, LeaveOrGoOn, TerminateByOwner,
           DropLoop, DestructorStep, TerminateInDestructor, Terminate, JoinWorkers, poolVars
  <1>2. \A w \in Workers : worker'[w] # "running" => worker[w] # "running" \/ taken[w] = <<>>
    <2>1. CASE \E w \in Workers : WaitForWork(w) \/ SpuriousWakeUp(w) \/ LeaveOrGoOn(w)
      BY <2>1 DEF WaitForWork, SpuriousWakeUp, LeaveOrGoOn, PoolInv, PoolTypeOK
    <2>2. CASE \E t \in PoolThreads : NotifyOne(t)
      BY <2>2 DEF NotifyOne, PoolInv, PoolTypeOK
    <2>3. CASE TerminateByOwner \/ TerminateInDestructor
      BY <2>3 DEF TerminateByOwner, TerminateInDestructor, Terminate, Woken
    <2>4. CASE UNCHANGED worker
      BY <2>4
    <2> QED BY <2>1, <2>2, <2>3, <2>4
            DEF ReleaseLoop, DropLoop, DestructorStep, JoinWorkers, poolVars
  <1>3. \A t \in PoolThreads : posting'[t] # "locked" => posting[t] # "locked"
    <2>1. CASE \E t \in PoolThreads : NotifyOne(t) \/ ReleaseLoop(t)
      BY <2>1 DEF NotifyOne, ReleaseLoop, PoolInv, PoolTypeOK
    <2>2. CASE UNCHANGED posting
      BY <2>2
    <2> QED BY <2>1, <2>2 DEF WaitForWork, SpuriousWakeUp, LeaveOrGoOn, TerminateByOwner,
           DropLoop, DestructorStep, TerminateInDestructor, Terminate, JoinWorkers, poolVars
  <1>4. HeldByTheBusy'
    BY <1>1, <1>2, <1>3 DEF PlacesInv, HeldByTheBusy
  <1> QED BY <1>1, <1>4, NoTaskMoves

LEMMA LockLoopPlaces ==
    ASSUME PoolInv, PoolInv', PlacesInv, NEW t \in PoolThreads, NEW j \in PoolTasks,
           LockLoop(t, j)
    PROVE  PlacesInv'
  <1>1. /\ posting[t] = "none" /\ posted[j] = 0
        /\ posted' = [posted EXCEPT ![j] = 1]
        /\ posting' = [posting EXCEPT ![t] = "locked"]
        /\ carried' = [carried EXCEPT ![t] = <<j>>]
        /\ UNCHANGED <<poolTasks, threadTasks, worker, taken, ran>>
    BY DEF LockLoop, MayPost
  <1>2. Located /\ Located'
    BY AtFacts, AtNext DEF PoolInv
  <1>3. At(j) = {} /\ ran[j] = 0
    BY <1>1, NotYetPosted DEF PoolInv, PlacesInv
  <1>4. carried[t] = <<>> /\ carried'[t] = <<j>> /\ \A u \in PoolThreads \ {t} : carried'[u] = carried[u]
    BY <1>1 DEF PlacesInv, HeldByTheBusy, PoolInv, PoolTypeOK
  <1>5. At(j)' = {By(t)}
    BY <1>1, <1>2, <1>3, <1>4, OneTask, ThePlaces DEF Located
  <1>6. ASSUME NEW k, k # j PROVE At(k)' = At(k)
    <2>1. \A u \in PoolThreads : IsIn(k, carried'[u]) <=> IsIn(k, carried[u])
      BY ZenonT(60), <1>4, <1>6, OneTask, NoTask
    <2> QED BY <1>1, <1>2, <2>1, UnmovedTask
  <1>7. Counted'
    <2>1. posted'[j] = 1 /\ ran'[j] = 0
      BY <1>1, <1>3 DEF PoolInv, PoolTypeOK
    <2>2. Cardinality(At(j)') = 1
      BY <1>5, FS_Singleton, Zenon
    <2>3. posted'[j] = ran'[j] + Cardinality(At(j)')
      BY <2>1, <2>2
    <2>4. \A k \in PoolTasks \ {j} : posted'[k] = posted[k] /\ ran'[k] = ran[k]
      BY <1>1 DEF PoolInv, PoolTypeOK
    <2> QED BY <1>6, <2>3, <2>4, CountedButOne DEF PoolInv, PlacesInv
  <1>8. NoneTwice'
    BY <1>1, <1>4, OneTask DEF PlacesInv, NoneTwice
  <1>9. PostedOnce'
    BY <1>1, <1>4, OneTask DEF PlacesInv, PostedOnce, PoolInv, PoolTypeOK
  <1>10. HeldByTheBusy'
    BY <1>1, <1>4 DEF PlacesInv, HeldByTheBusy, PoolInv, PoolTypeOK
  <1> QED BY <1>7, <1>8, <1>9, <1>10 DEF PlacesInv

LEMMA RunUnpostedPlaces ==
    ASSUME PoolInv, PoolInv', PlacesInv, NEW t \in PoolThreads, NEW j \in PoolTasks,
           RunUnposted(t, j)
    PROVE  PlacesInv'
  <1>1. /\ posted[j] = 0 /\ posted' = [posted EXCEPT ![j] = 1] /\ ran' = [ran EXCEPT ![j] = 1]
        /\ UNCHANGED <<poolTasks, threadTasks, worker, taken, posting, carried>>
    BY DEF RunUnposted
  <1>2. At(j) = {}
    BY <1>1, NotYetPosted DEF PoolInv, PlacesInv
  <1>3. \A k : At(k)' = At(k)
    BY <1>1 DEF At, TasksAt
  <1>4. Counted'
    <2>1. posted'[j] = 1 /\ ran'[j] = 1
      BY <1>1 DEF PoolInv, PoolTypeOK
    <2>2. Cardinality(At(j)') = 0
      BY <1>2, <1>3, FS_EmptySet, Zenon
    <2>3. posted'[j] = ran'[j] + Cardinality(At(j)')
      BY <2>1, <2>2
    <2>4. \A k \in PoolTasks \ {j} : posted'[k] = posted[k] /\ ran'[k] = ran[k]
      BY <1>1 DEF PoolInv, PoolTypeOK
    <2> QED BY <1>3, <2>3, <2>4, CountedButOne DEF PoolInv, PlacesInv
  <1>5. NoneTwice' /\ HeldByTheBusy'
    BY <1>1 DEF PlacesInv, NoneTwice, HeldByTheBusy
  <1>6. PostedOnce'
    BY <1>1 DEF PlacesInv, PostedOnce, PoolInv, PoolTypeOK
  <1> QED BY <1>4, <1>5, <1>6 DEF PlacesInv

\* The task a thread carries is with nobody else.
LEMMA CarriedTask ==
    ASSUME PoolInv, PlacesInv, NEW t \in PoolThreads, posting[t] = "locked"
    PROVE  \E j \in PoolTasks : /\ carried[t] = <<j>> /\ Head(carried[t]) = j
                                /\ posted[j] = 1 /\ ran[j] = 0 /\ At(j) = {By(t)}
                                /\ ~IsIn(j, poolTasks)
  <1>1. carried[t] \in Seq(PoolTasks) /\ Len(carried[t]) = 1
    BY DEF PoolInv, PoolTypeOK, CarriesOne
  <1>2. PICK j \in PoolTasks : carried[t] = <<j>> /\ Head(carried[t]) = j
    BY SMTT(30), <1>1
  <1>3. IsIn(j, carried[t])
    BY <1>2, OneTask
  <1>4. By(t) \in At(j) /\ Located
    BY <1>3, AtFacts DEF PoolInv, Located
  <1>5. posted[j] = 1
    BY <1>3 DEF PlacesInv, PostedOnce
  <1>6. At(j) = {By(t)} /\ ran[j] = 0
    BY <1>4, <1>5, TheOnlyPlace DEF PoolInv, PlacesInv
  <1>7. ~IsIn(j, poolTasks)
    BY <1>4, <1>6, ThePlaces DEF Located
  <1> QED BY <1>2, <1>5, <1>6, <1>7

LEMMA PostTaskPlaces ==
    ASSUME PoolInv, PoolInv', PlacesInv, NEW t \in PoolThreads, PostTask(t)
    PROVE  PlacesInv'
  <1>1. /\ posting[t] = "locked" /\ posting' = [posting EXCEPT ![t] = "pushed"]
        /\ poolTasks' = poolTasks \o carried[t]
        /\ carried' = [carried EXCEPT ![t] = <<>>]
        /\ UNCHANGED <<threadTasks, worker, taken, posted, ran>>
    BY DEF PostTask
  <1>2. PICK j \in PoolTasks : /\ carried[t] = <<j>> /\ posted[j] = 1 /\ ran[j] = 0
                               /\ At(j) = {By(t)} /\ ~IsIn(j, poolTasks)
    BY <1>1, CarriedTask
  <1>3. Located /\ Located'
    BY AtFacts, AtNext DEF PoolInv
  <1>4. carried'[t] = <<>> /\ \A u \in PoolThreads \ {t} : carried'[u] = carried[u]
    BY <1>1 DEF PoolInv, PoolTypeOK
  <1>5. /\ Once(poolTasks')
        /\ \A k : IsIn(k, poolTasks') <=> IsIn(k, poolTasks) \/ k = j
    <2>1. poolTasks' = poolTasks \o <<j>> /\ poolTasks \in Seq(PoolTasks) /\ <<j>> \in Seq(PoolTasks)
      BY <1>1, <1>2, OneTask DEF PoolInv, PoolTypeOK
    <2>2. \A k : IsIn(k, poolTasks \o <<j>>) <=> IsIn(k, poolTasks) \/ IsIn(k, <<j>>)
      BY <2>1, ConcatIsIn
    <2>3. Once(poolTasks \o <<j>>)
      <3>1. Once(poolTasks) /\ Once(<<j>>) /\ \A k : ~(IsIn(k, poolTasks) /\ IsIn(k, <<j>>))
        BY <1>2, OneTask DEF PlacesInv, NoneTwice
      <3> QED BY <2>1, <3>1, ConcatIsIn
    <2> QED BY <2>1, <2>2, <2>3, OneTask
  <1>6. ASSUME NEW k, k # j PROVE At(k)' = At(k)
    <2>1. \A u \in PoolThreads : IsIn(k, carried'[u]) <=> IsIn(k, carried[u])
      <3>1. ~IsIn(k, <<j>>) /\ ~IsIn(k, <<>>)
        BY <1>6, OneTask, NoTask
      <3>2. ~IsIn(k, carried[t]) /\ ~IsIn(k, carried'[t])
        BY <1>2, <1>4, <3>1
      <3> QED BY <1>4, <3>2
    <2> QED BY <1>1, <1>3, <1>5, <1>6, <2>1, UnmovedTask
  <1>7. At(j)' = {TheQueue}
    <2>1. /\ \A w \in Workers : With(w) \notin At(j)
          /\ \A u \in PoolThreads \ {t} : By(u) \notin At(j)
      BY <1>2, ThePlaces
    <2>2. /\ TheQueue \in At(j)' /\ At(j)' \subseteq Places
          /\ \A w \in Workers : With(w) \notin At(j)'
      BY <1>1, <1>3, <1>5, <2>1 DEF Located
    <2>3. \A u \in PoolThreads : By(u) \notin At(j)'
      BY <1>3, <1>4, <2>1, NoTask DEF Located
    <2> QED BY <2>2, <2>3, ThePlaces
  <1>8. Counted'
    <2>1. posted'[j] = 1 /\ ran'[j] = 0
      BY <1>1, <1>2
    <2>2. Cardinality(At(j)') = 1
      BY <1>7, FS_Singleton, Zenon
    <2>3. posted'[j] = ran'[j] + Cardinality(At(j)')
      BY <2>1, <2>2
    <2> QED BY <1>1, <1>6, <2>3, CountedButOne DEF PoolInv, PlacesInv
  <1>9. NoneTwice'
    BY <1>1, <1>4, <1>5, NoTask DEF PlacesInv, NoneTwice
  <1>10. PostedOnce'
    BY <1>1, <1>2, <1>4, <1>5, NoTask DEF PlacesInv, PostedOnce
  <1>11. HeldByTheBusy'
    BY <1>1, <1>4 DEF PlacesInv, HeldByTheBusy, PoolInv, PoolTypeOK
  <1> QED BY <1>8, <1>9, <1>10, <1>11 DEF PlacesInv

LEMMA PostToShutdownPlaces ==
    ASSUME PoolInv, PoolInv', PlacesInv, NEW t \in PoolThreads, PostToShutdown(t)
    PROVE  PlacesInv'
  <1>1. /\ posting[t] = "locked" /\ posting' = [posting EXCEPT ![t] = "returning"]
        /\ ran' = [ran EXCEPT ![Head(carried[t])] = @ + 1]
        /\ carried' = [carried EXCEPT ![t] = <<>>]
        /\ UNCHANGED <<poolTasks, threadTasks, worker, taken, posted>>
    BY DEF PostToShutdown
  <1>2. PICK j \in PoolTasks : /\ carried[t] = <<j>> /\ Head(carried[t]) = j
                               /\ posted[j] = 1 /\ ran[j] = 0 /\ At(j) = {By(t)}
    BY <1>1, CarriedTask
  <1>3. Located /\ Located'
    BY AtFacts, AtNext DEF PoolInv
  <1>4. carried'[t] = <<>> /\ \A u \in PoolThreads \ {t} : carried'[u] = carried[u]
    BY <1>1 DEF PoolInv, PoolTypeOK
  <1>5. ran' = [ran EXCEPT ![j] = 1]
    BY <1>1, <1>2 DEF PoolInv, PoolTypeOK
  <1>6. ASSUME NEW k, k # j PROVE At(k)' = At(k)
    <2>1. \A u \in PoolThreads : IsIn(k, carried'[u]) <=> IsIn(k, carried[u])
      <3>1. ~IsIn(k, <<j>>) /\ ~IsIn(k, <<>>)
        BY <1>6, OneTask, NoTask
      <3>2. ~IsIn(k, carried[t]) /\ ~IsIn(k, carried'[t])
        BY <1>2, <1>4, <3>1
      <3> QED BY <1>4, <3>2
    <2> QED BY <1>1, <1>3, <2>1, UnmovedTask
  <1>7. At(j)' = {}
    <2>1. /\ TheQueue \notin At(j) /\ \A w \in Workers : With(w) \notin At(j)
          /\ \A u \in PoolThreads \ {t} : By(u) \notin At(j)
      BY <1>2, ThePlaces
    <2>2. /\ TheQueue \notin At(j)' /\ At(j)' \subseteq Places
          /\ \A w \in Workers : With(w) \notin At(j)'
      BY <1>1, <1>3, <2>1 DEF Located
    <2>3. \A u \in PoolThreads : By(u) \notin At(j)'
      BY <1>3, <1>4, <2>1, NoTask DEF Located
    <2> QED BY <2>2, <2>3, ThePlaces
  <1>8. Counted'
    <2>1. posted'[j] = 1 /\ ran'[j] = 1
      BY <1>1, <1>2, <1>5 DEF PoolInv, PoolTypeOK
    <2>2. Cardinality(At(j)') = 0
      BY <1>7, FS_EmptySet, Zenon
    <2>3. posted'[j] = ran'[j] + Cardinality(At(j)')
      BY <2>1, <2>2
    <2>4. \A k \in PoolTasks \ {j} : posted'[k] = posted[k] /\ ran'[k] = ran[k]
      BY <1>1, <1>5 DEF PoolInv, PoolTypeOK
    <2> QED BY <1>6, <2>3, <2>4, CountedButOne DEF PoolInv, PlacesInv
  <1>9. NoneTwice' /\ PostedOnce'
    BY <1>1, <1>4, NoTask DEF PlacesInv, NoneTwice, PostedOnce
  <1>10. HeldByTheBusy'
    BY <1>1, <1>4 DEF PlacesInv, HeldByTheBusy, PoolInv, PoolTypeOK
  <1> QED BY <1>8, <1>9, <1>10 DEF PlacesInv

\* The first task of the common queue goes to the worker, in front of its own.
LEMMA TakeTasksPlaces ==
    ASSUME PoolInv, PoolInv', PlacesInv, NEW w \in Workers, TakeTasks(w)
    PROVE  PlacesInv'
  <1>1. /\ worker[w] = "awake" /\ worker' = [worker EXCEPT ![w] = "running"]
        /\ taken' = [taken EXCEPT ![w] = FirstTask \o threadTasks[w]]
        /\ poolTasks' = IF poolTasks = <<>> THEN <<>> ELSE Tail(poolTasks)
        /\ threadTasks' = [threadTasks EXCEPT ![w] = <<>>]
        /\ UNCHANGED <<posting, carried, posted, ran>>
    BY DEF TakeTasks
  <1>2. Located /\ Located'
    BY AtFacts, AtNext DEF PoolInv
  <1>3. /\ taken[w] = <<>> /\ threadTasks'[w] = <<>> /\ taken'[w] = FirstTask \o threadTasks[w]
        /\ \A v \in Workers \ {w} : threadTasks'[v] = threadTasks[v] /\ taken'[v] = taken[v]
        /\ poolTasks \in Seq(PoolTasks) /\ threadTasks[w] \in Seq(PoolTasks)
    BY <1>1 DEF PlacesInv, HeldByTheBusy, PoolInv, PoolTypeOK
  <1>4. /\ Once(poolTasks) /\ Once(threadTasks[w])
    BY DEF PlacesInv, NoneTwice
  <1>5. HeldByTheBusy'
    BY <1>1, <1>3 DEF PlacesInv, HeldByTheBusy, PoolInv, PoolTypeOK
  <1>6. CASE poolTasks = <<>>
    <2>1. poolTasks' = poolTasks /\ taken'[w] = threadTasks[w]
      BY <1>1, <1>3, <1>6 DEF FirstTask
    <2>2. ASSUME NEW k PROVE At(k)' = At(k)
      <3>1. \A v \in Workers : IsIn(k, threadTasks'[v]) \/ IsIn(k, taken'[v])
                                  <=> IsIn(k, threadTasks[v]) \/ IsIn(k, taken[v])
        BY <1>3, <2>1, NoTask
      <3> QED BY <1>1, <1>2, <2>1, <3>1, UnmovedTask
    <2>3. Counted' /\ PostedOnce'
      BY <1>1, <2>1, <2>2 DEF PlacesInv, Counted, PostedOnce
    <2>4. NoneTwice'
      BY ZenonT(60), <1>1, <1>3, <1>4, <2>1, NoTask DEF PlacesInv, NoneTwice
    <2> QED BY <1>5, <2>3, <2>4 DEF PlacesInv
  <1>7. CASE poolTasks # <<>>
    <2>1. PICK j \in PoolTasks :
             /\ j = Head(poolTasks) /\ IsIn(j, poolTasks) /\ Once(poolTasks')
             /\ \A k : IsIn(k, poolTasks') <=> IsIn(k, poolTasks) /\ k # j
      BY <1>1, <1>3, <1>4, <1>7, TakenFirst
    <2>2. posted[j] = 1 /\ ran[j] = 0 /\ At(j) = {TheQueue}
      BY <1>2, <2>1, TheOnlyPlace DEF PlacesInv, PostedOnce, PoolInv, Located
    <2>3. \A v \in Workers : ~IsIn(j, threadTasks[v]) /\ ~IsIn(j, taken[v])
      BY <1>2, <2>2, ThePlaces DEF Located
    <2>4. \A t \in PoolThreads : ~IsIn(j, carried[t])
      BY <1>2, <2>2, ThePlaces DEF Located
    <2>5. /\ Once(taken'[w])
          /\ \A k : IsIn(k, taken'[w]) <=> k = j \/ IsIn(k, threadTasks[w])
      <3>1. taken'[w] = <<j>> \o threadTasks[w] /\ <<j>> \in Seq(PoolTasks)
        BY <1>3, <1>7, <2>1, OneTask DEF FirstTask
      <3>2. \A k : IsIn(k, <<j>> \o threadTasks[w]) <=> IsIn(k, <<j>>) \/ IsIn(k, threadTasks[w])
        BY <1>3, <3>1, ConcatIsIn
      <3>3. Once(<<j>> \o threadTasks[w])
        <4>1. /\ Once(<<j>>) /\ Once(threadTasks[w])
              /\ \A k : ~(IsIn(k, <<j>>) /\ IsIn(k, threadTasks[w]))
          BY <1>4, <2>3, OneTask
        <4> QED BY <1>3, <3>1, <4>1, ConcatIsIn
      <3> QED BY <3>1, <3>2, <3>3, OneTask
    <2>6. ASSUME NEW k, k # j PROVE At(k)' = At(k)
      <3>1. \A v \in Workers : IsIn(k, threadTasks'[v]) \/ IsIn(k, taken'[v])
                                  <=> IsIn(k, threadTasks[v]) \/ IsIn(k, taken[v])
        BY <1>3, <2>5, <2>6, NoTask
      <3> QED BY <1>1, <1>2, <2>1, <2>6, <3>1, UnmovedTask
    <2>7. At(j)' = {With(w)}
      <3>1. /\ With(w) \in At(j)' /\ TheQueue \notin At(j)' /\ At(j)' \subseteq Places
            /\ \A t \in PoolThreads : By(t) \notin At(j)'
        BY <1>1, <1>2, <2>1, <2>4, <2>5 DEF Located
      <3>2. \A v \in Workers \ {w} : With(v) \notin At(j)'
        BY <1>2, <1>3, <2>3 DEF Located
      <3> QED BY <3>1, <3>2, ThePlaces
    <2>8. Counted'
      <3>1. posted'[j] = 1 /\ ran'[j] = 0
        BY <1>1, <2>2
      <3>2. Cardinality(At(j)') = 1
        BY <2>7, FS_Singleton, Zenon
      <3>3. posted'[j] = ran'[j] + Cardinality(At(j)')
        BY <3>1, <3>2
      <3> QED BY <1>1, <2>6, <3>3, CountedButOne DEF PoolInv, PlacesInv
    <2>9. NoneTwice'
      BY ZenonT(60), <1>1, <1>3, <2>1, <2>5, NoTask DEF PlacesInv, NoneTwice
    <2>10. PostedOnce'
      BY <1>1, <2>1 DEF PlacesInv, PostedOnce
    <2> QED BY <1>5, <2>8, <2>9, <2>10 DEF PlacesInv
  <1> QED BY <1>6, <1>7

LEMMA RunPoolTaskPlaces ==
    ASSUME PoolInv, PoolInv', PlacesInv, NEW w \in Workers, RunPoolTask(w)
    PROVE  PlacesInv'
  <1>1. /\ worker[w] = "running" /\ taken[w] # <<>> /\ taken' = [taken EXCEPT ![w] = Tail(@)]
        /\ ran' = [ran EXCEPT ![Head(taken[w])] = @ + 1]
        /\ UNCHANGED <<poolTasks, threadTasks, worker, posting, carried, posted>>
    BY DEF RunPoolTask
  <1>2. Located /\ Located'
    BY AtFacts, AtNext DEF PoolInv
  <1>3. /\ taken[w] \in Seq(PoolTasks) /\ Once(taken[w]) /\ taken'[w] = Tail(taken[w])
        /\ \A v \in Workers \ {w} : taken'[v] = taken[v]
    BY <1>1 DEF PlacesInv, NoneTwice, PoolInv, PoolTypeOK
  <1>4. PICK j \in PoolTasks :
           /\ j = Head(taken[w]) /\ IsIn(j, taken[w]) /\ Once(taken'[w])
           /\ \A k : IsIn(k, taken'[w]) <=> IsIn(k, taken[w]) /\ k # j
    BY <1>1, <1>3, TakenFirst
  <1>5. ~IsIn(j, threadTasks[w])
    BY <1>4 DEF PlacesInv, NoneTwice
  <1>6. ASSUME NEW k, k # j PROVE At(k)' = At(k)
    <2>1. \A v \in Workers : IsIn(k, threadTasks'[v]) \/ IsIn(k, taken'[v])
                                <=> IsIn(k, threadTasks[v]) \/ IsIn(k, taken[v])
      BY <1>1, <1>3, <1>4, <1>6
    <2> QED BY <1>1, <1>2, <2>1, UnmovedTask
  <1>7. With(w) \in At(j) /\ At(j)' = At(j) \ {With(w)}
    <2>1. /\ With(w) \in At(j) /\ With(w) \notin At(j)'
          /\ TheQueue \in At(j)' <=> TheQueue \in At(j)
          /\ \A t \in PoolThreads : By(t) \in At(j)' <=> By(t) \in At(j)
      BY <1>1, <1>2, <1>4, <1>5 DEF Located
    <2>2. \A v \in Workers \ {w} : With(v) \in At(j)' <=> With(v) \in At(j)
      BY <1>1, <1>2, <1>3 DEF Located
    <2>3. At(j) \subseteq Places /\ At(j)' \subseteq Places
      BY <1>2 DEF Located
    <2>4. \A p \in Places : p \in At(j)' <=> p \in At(j) /\ p # With(w)
      BY <2>1, <2>2, ThePlaces
    <2> QED BY <2>1, <2>3, <2>4
  <1>8. Counted'
    <2>1. posted'[j] = posted[j] /\ ran'[j] = ran[j] + 1 /\ ran[j] \in Nat /\ posted[j] \in Nat
      BY <1>1, <1>4 DEF PoolInv, PoolTypeOK
    <2>2. Cardinality(At(j) \ {With(w)}) = Cardinality(At(j)) - 1 /\ Cardinality(At(j)) \in Nat
      BY <1>7, PlacesAreFinite, OneMoreOrLess
    <2>3. posted[j] = ran[j] + Cardinality(At(j))
      BY DEF PlacesInv, Counted
    <2>4. posted'[j] = ran'[j] + Cardinality(At(j)')
      BY <1>7, <2>1, <2>2, <2>3
    <2>5. \A k \in PoolTasks \ {j} : posted'[k] = posted[k] /\ ran'[k] = ran[k]
      BY <1>1, <1>4 DEF PoolInv, PoolTypeOK
    <2> QED BY <1>6, <2>4, <2>5, CountedButOne DEF PoolInv, PlacesInv
  <1>9. NoneTwice'
    BY <1>1, <1>3, <1>4 DEF PlacesInv, NoneTwice
  <1>10. PostedOnce'
    BY <1>1 DEF PlacesInv, PostedOnce
  <1>11. HeldByTheBusy'
    BY <1>1, <1>3 DEF PlacesInv, HeldByTheBusy
  <1> QED BY <1>8, <1>9, <1>10, <1>11 DEF PlacesInv

LEMMA PostToAllPlaces ==
    ASSUME PoolInv, PoolInv', PlacesInv, NEW j \in PoolTasks, PostTaskToAllWorkers(j)
    PROVE  PlacesInv'
  <1>1. /\ posted[j] = 0 /\ posted' = [posted EXCEPT ![j] = Cardinality(Workers)]
        /\ threadTasks' = [w \in Workers |-> Append(threadTasks[w], j)]
        /\ worker' = Woken
        /\ UNCHANGED <<poolTasks, taken, posting, carried, ran>>
    BY DEF PostTaskToAllWorkers
  <1>2. Located /\ Located'
    BY AtFacts, AtNext DEF PoolInv
  <1>3. At(j) = {} /\ ran[j] = 0
    BY <1>1, NotYetPosted DEF PoolInv, PlacesInv
  <1>4. /\ ~IsIn(j, poolTasks) /\ \A t \in PoolThreads : ~IsIn(j, carried[t])
        /\ \A w \in Workers : ~IsIn(j, threadTasks[w]) /\ ~IsIn(j, taken[w])
    BY <1>2, <1>3 DEF Located
  <1>5. ASSUME NEW w \in Workers
        PROVE  /\ Once(threadTasks'[w])
               /\ \A k : IsIn(k, threadTasks'[w]) <=> IsIn(k, threadTasks[w]) \/ k = j
    <2>1. /\ threadTasks'[w] = threadTasks[w] \o <<j>>
          /\ threadTasks[w] \in Seq(PoolTasks) /\ <<j>> \in Seq(PoolTasks)
      BY <1>1, OneTask DEF PoolInv, PoolTypeOK
    <2>2. \A k : IsIn(k, threadTasks[w] \o <<j>>) <=> IsIn(k, threadTasks[w]) \/ IsIn(k, <<j>>)
      BY <2>1, ConcatIsIn
    <2>3. Once(threadTasks[w]) /\ Once(<<j>>) /\ \A k : ~(IsIn(k, threadTasks[w]) /\ IsIn(k, <<j>>))
      BY <1>4, OneTask DEF PlacesInv, NoneTwice
    <2>4. Once(threadTasks[w] \o <<j>>)
      BY <2>1, <2>3, ConcatIsIn
    <2> QED BY <2>1, <2>2, <2>4, OneTask
  <1>6. ASSUME NEW k, k # j PROVE At(k)' = At(k)
    BY <1>1, <1>2, <1>5, <1>6, UnmovedTask
  <1>7. At(j)' = {"worker"} \X Workers
    <2>1. /\ TheQueue \notin At(j)' /\ At(j)' \subseteq Places
          /\ \A t \in PoolThreads : By(t) \notin At(j)'
          /\ \A w \in Workers : With(w) \in At(j)'
      BY <1>1, <1>2, <1>4, <1>5 DEF Located
    <2>2. \A p : p \in At(j)' <=> \E w \in Workers : p = With(w)
      BY <2>1, ThePlaces
    <2> QED BY <2>2 DEF With
  <1>8. Counted'
    <2>1. posted'[j] = Cardinality(Workers) /\ ran'[j] = 0
      BY <1>1, <1>3 DEF PoolInv, PoolTypeOK
    <2>2. /\ IsFiniteSet({"worker"}) /\ Cardinality({"worker"}) = 1
          /\ Cardinality(Workers) \in Nat
      BY FS_Singleton, WorkersAssumption, FS_CardinalityType
    <2>3. Cardinality({"worker"} \X Workers) = Cardinality({"worker"}) * Cardinality(Workers)
      BY <2>2, WorkersAssumption, FS_Product
    <2>4. posted'[j] = ran'[j] + Cardinality(At(j)')
      BY <1>7, <2>1, <2>2, <2>3
    <2>5. \A k \in PoolTasks \ {j} : posted'[k] = posted[k] /\ ran'[k] = ran[k]
      BY <1>1 DEF PoolInv, PoolTypeOK
    <2> QED BY <1>6, <2>4, <2>5, CountedButOne DEF PoolInv, PlacesInv
  <1>9. NoneTwice'
    BY <1>1, <1>4, <1>5 DEF PlacesInv, NoneTwice
  <1>10. PostedOnce'
    BY <1>1, <1>4 DEF PlacesInv, PostedOnce, PoolInv, PoolTypeOK
  <1>11. HeldByTheBusy'
    BY <1>1 DEF PlacesInv, HeldByTheBusy, Woken
  <1> QED BY <1>8, <1>9, <1>10, <1>11 DEF PlacesInv

\* However many workers and posting threads there are, and whenever the pool is
\* shut down or the last reference to it dropped: no task is lost, and none is
\* run more often than it was posted.
THEOREM PoolTasksAccounted == PoolSpec => []PoolTaskAccounting
  <1>1. PoolInv /\ PoolInv' /\ PlacesInv /\ [PoolNext]_poolVars => PlacesInv'
    <2>1. SUFFICES ASSUME PoolInv, PoolInv', PlacesInv, [PoolNext]_poolVars PROVE PlacesInv'
      OBVIOUS
    <2>2. ASSUME NEW w \in Workers, WorkerStep(w) \/ SpuriousWakeUp(w) PROVE PlacesInv'
      BY <2>1, <2>2, QuietSteps, TakeTasksPlaces, RunPoolTaskPlaces DEF WorkerStep
    <2>3. ASSUME NEW t \in PoolThreads, PostStep(t) PROVE PlacesInv'
      BY <2>1, <2>3, QuietSteps, PostTaskPlaces, PostToShutdownPlaces DEF PostStep
    <2>4. ASSUME NEW t \in PoolThreads, NEW j \in PoolTasks, LockLoop(t, j) \/ RunUnposted(t, j)
          PROVE  PlacesInv'
      BY <2>1, <2>4, LockLoopPlaces, RunUnpostedPlaces
    <2>5. ASSUME NEW j \in PoolTasks, PostTaskToAllWorkers(j) PROVE PlacesInv'
      BY <2>1, <2>5, PostToAllPlaces
    <2>6. CASE TerminateByOwner \/ DropLoop \/ DestructorStep \/ UNCHANGED poolVars
      BY <2>1, <2>6, QuietSteps
    <2> QED BY <2>1, <2>2, <2>3, <2>4, <2>5, <2>6 DEF PoolNext
  <1>2. PoolInv /\ PlacesInv => PoolTaskAccounting
    BY AccountingFacts DEF PoolInv, PlacesInv
  <1> QED BY <1>1, <1>2, PlacesInitInv, PoolInvariant, PTL DEF PoolSpec

-----------------------------------------------------------------------------
(***************************************************************************)
(* What holds of the UnrefQueue for every set of objects, whoever drains   *)
(* it and whoever drops its last reference.                                *)
(*                                                                         *)
(* ObjectsAreAccountedFor is not inductive.  The flag drain_pending_ has   *)
(* to stand for a task, also when there is nothing unreffed, or the next   *)
(* object would find the flag set and no task; and a queue without         *)
(* references holds nothing, or a drain could take what its destructor has *)
(* taken.                                                                  *)
(***************************************************************************)
\* The flag stands for a task, as long as there is a thread to run it, and what
\* is unreffed has raised it.
FlagHasATask ==
    /\ ioRunning /\ drainPending => drainTasks > 0
    /\ unreffed # {} => drainPending

\* Only a drain holds a batch, only the destructor the last objects, and after it
\* there is nothing to take.
TakenByOne ==
    /\ drain.for = NotDraining => drain.batch = {}
    /\ lastTask # {} => queueGone
    /\ queueGone => kept = {} /\ unreffed = {} /\ drain.batch = {}

UnrefInv ==
    /\ UnrefTypeOK /\ FlagHasATask /\ TakenByOne
    /\ ReleasedOnce /\ DestructorFindsNothing

USE DEF UnrefInv, UnrefTypeOK, FlagHasATask, TakenByOne, ReleasedOnce, DestructorFindsNothing,
        Drainers, NotDraining, unrefQueueVars, gpuVars

LEMMA UnrefInitInv == UnrefInit => UnrefInv
  <1> SUFFICES ASSUME UnrefInit PROVE UnrefInv
    OBVIOUS
  <1>1. drain.for = NotDraining /\ drain.batch = {}
    BY DEF UnrefInit
  <1>2. gpuDisabled \in BOOLEAN
    BY Zenon DEF UnrefInit
  <1>3. UnrefTypeOK
    <2>1. releases \in [Objects -> Nat]
      BY DEF UnrefInit
    <2>2. drainPending \in BOOLEAN /\ queueGone \in BOOLEAN /\ ioRunning \in BOOLEAN
      BY Zenon DEF UnrefInit
    <2>3. kept \in SUBSET Objects /\ unreffed \in SUBSET Objects /\ lastTask \in SUBSET Objects
      BY DEF UnrefInit
    <2>4. drain \in [for : Drainers \cup {NotDraining}, batch : SUBSET Objects]
      BY DEF UnrefInit
    <2>5. /\ drainTasks \in Nat /\ switches \in 0..MaxSwitches
          /\ ioManager \in {"alive", "draining", "gone"}
          /\ gpuRequest \in {"idle", "flush", "flushed", "teardown"}
      BY MaxSwitchesAssumption DEF UnrefInit
    <2>6. QED BY <1>2, <2>1, <2>2, <2>3, <2>4, <2>5
  <1>4. FlagHasATask /\ TakenByOne /\ ReleasedOnce /\ DestructorFindsNothing
    BY <1>1 DEF UnrefInit
  <1>5. QED BY <1>3, <1>4

\* A drain moves what is unreffed into its batch.
LEMMA TakeInv ==
    ASSUME UnrefInv, NEW drainer \in Drainers, IODrains(drainer),
           UNCHANGED <<kept, queueGone, ioRunning, lastTask, releases>>
    PROVE  /\ drain' \in [for : Drainers \cup {NotDraining}, batch : SUBSET Objects]
           /\ unreffed' = {} /\ drainPending' = FALSE
           /\ TakenByOne' /\ ReleasedOnce'
  <1>1. drain' = [for |-> drainer, batch |-> unreffed] /\ unreffed' = {} /\ drainPending' = FALSE
    BY DEF IODrains, TakeObjects
  <1>2. drain.batch = {} /\ drain'.batch = unreffed /\ drain'.for = drainer
    BY <1>1 DEF IODrains
  <1>3. drain' \in [for : Drainers \cup {NotDraining}, batch : SUBSET Objects]
    BY <1>1
  <1>4. TakenByOne'
    BY <1>1, <1>2
  <1>5. ReleasedOnce'
    BY <1>1, <1>2
  <1>6. QED BY <1>1, <1>3, <1>4, <1>5

\* Objects that are released were released for the first time.
LEMMA ReleasedType ==
    ASSUME UnrefInv, NEW batch \in SUBSET Objects
    PROVE  /\ Released(batch) \in [Objects -> Nat]
           /\ \A o \in Objects :
                 Released(batch)[o] = IF o \in batch THEN releases[o] + 1 ELSE releases[o]
  BY DEF Released

LEMMA UnrefStepInv ==
    ASSUME UnrefInv, UnrefNext PROVE UnrefInv'
  <1>1. ASSUME NEW o \in Objects, Unref(o) PROVE UnrefInv'
    <2>1. /\ o \in kept /\ kept' = kept \ {o} /\ unreffed' = unreffed \cup {o}
          /\ drainPending' = TRUE
          /\ UNCHANGED <<queueGone, drain, ioManager, ioRunning, lastTask, releases, gpuVars>>
      BY <1>1 DEF Unref, ScheduleDrain
    <2>2. drainTasks' \in Nat /\ (ioRunning => drainTasks' > 0)
      BY <1>1 DEF Unref, ScheduleDrain
    <2>3. UnrefTypeOK' /\ FlagHasATask'
      BY <2>1, <2>2
    <2>4. TakenByOne' /\ ReleasedOnce' /\ DestructorFindsNothing'
      BY <2>1
    <2>5. QED BY <2>3, <2>4
  <1>2. CASE RunDelayedDrain
    <2>1. IODrains("delayed") /\ drainTasks' \in Nat
      BY <1>2 DEF RunDelayedDrain
    <2>2. UNCHANGED <<kept, queueGone, ioManager, ioRunning, lastTask, releases, gpuVars>>
      BY <1>2 DEF RunDelayedDrain
    <2>3. QED BY <2>1, <2>2, TakeInv
  <1>3. CASE FinishDrain
    <2>1. /\ releases' = Released(drain.batch) /\ drain.batch \in SUBSET Objects
          /\ drain' = [for |-> NotDraining, batch |-> {}]
          /\ UNCHANGED <<unrefQueueVars, drainTasks, ioRunning, lastTask, gpuDisabled, switches>>
      BY <1>3 DEF FinishDrain
    <2>2. /\ ioManager' \in {"alive", "draining", "gone"}
          /\ gpuRequest' \in {"idle", "flush", "flushed", "teardown"}
      BY <1>3 DEF FinishDrain
    <2>3. drain'.for = NotDraining /\ drain'.batch = {}
      BY <2>1
    <2>4. UnrefTypeOK' /\ FlagHasATask' /\ TakenByOne' /\ DestructorFindsNothing'
      BY <2>1, <2>2, <2>3, ReleasedType
    <2>5. drain.batch # {} => lastTask = {}
      OBVIOUS
    <2>6. ReleasedOnce'
      <3>1. ASSUME NEW o \in Objects
            PROVE  releases'[o] = IF o \in kept \cup unreffed \cup {} \cup lastTask THEN 0 ELSE 1
        <4>1. releases'[o] = IF o \in drain.batch THEN releases[o] + 1 ELSE releases[o]
          BY <2>1, ReleasedType
        <4>2. CASE o \in drain.batch
          BY <4>1, <4>2, <2>5
        <4>3. CASE o \notin drain.batch
          BY <4>1, <4>3
        <4>4. QED BY <4>2, <4>3
      <3>2. QED BY <3>1, <2>1, <2>3
    <2>7. QED BY <2>4, <2>6
  <1>4. CASE DestroyQueue
    <2>1. /\ kept = {} /\ drainTasks = 0 /\ drain.for = NotDraining
          /\ queueGone' = TRUE /\ lastTask' = unreffed /\ unreffed' = {} /\ ~queueGone
          /\ UNCHANGED <<kept, drainPending, drainTasks, drain, ioManager, ioRunning, releases,
                         gpuVars>>
      BY <1>4 DEF DestroyQueue, NoReferences
    <2>2. drain.batch = {} /\ lastTask = {}
      BY <2>1
    <2>3. unreffed # {} => ~ioRunning
      BY <2>1
    <2>4. UnrefTypeOK' /\ FlagHasATask' /\ TakenByOne' /\ DestructorFindsNothing'
      BY <2>1, <2>2, <2>3
    <2>5. ReleasedOnce'
      BY <2>1, <2>2
    <2>6. QED BY <2>4, <2>5
  <1>5. CASE RunLastTask
    BY <1>5 DEF RunLastTask
  <1>6. CASE RunDrainForPlatform
    <2>1. /\ gpuRequest' \in {"idle", gpuRequest}
          /\ UNCHANGED <<kept, queueGone, drainTasks, ioManager, ioRunning, lastTask, releases,
                         gpuDisabled, switches>>
      BY <1>6 DEF RunDrainForPlatform
    <2>2. CASE UNCHANGED <<unreffed, drainPending, drain>>
      BY <2>1, <2>2
    <2>3. CASE IODrains(gpuRequest) /\ gpuRequest \in {"flush", "teardown"}
      BY ZenonT(60), <2>1, <2>3, TakeInv
    <2>4. QED BY <1>6, <2>2, <2>3 DEF RunDrainForPlatform
  <1>7. CASE DestroyIOManager
    <2>1. /\ ioManager' \in {"gone", "draining"}
          /\ UNCHANGED <<kept, drainTasks, queueGone, ioRunning, lastTask, releases, gpuVars>>
      BY <1>7 DEF DestroyIOManager
    <2>2. CASE UNCHANGED <<unreffed, drainPending, drain>>
      BY <2>1, <2>2
    <2>3. CASE IODrains("destructor")
      BY <2>1, <2>3, TakeInv
    <2>4. QED BY <1>7, <2>2, <2>3 DEF DestroyIOManager
  <1>8. CASE EndIOThread
    BY <1>8 DEF EndIOThread
  <1>9. ASSUME NEW disabled \in BOOLEAN, SetGpuAvailability(disabled) PROVE UnrefInv'
    BY <1>9, MaxSwitchesAssumption DEF SetGpuAvailability, SetSwitch
  <1>10. ASSUME NEW reason \in {"flush", "teardown"}, AskForDrain(reason) PROVE UnrefInv'
    BY <1>10, MaxSwitchesAssumption DEF AskForDrain
  <1>11. CASE MakeUnavailable
    BY <1>11 DEF MakeUnavailable, SetSwitch
  <1>12. QED BY <1>1, <1>2, <1>3, <1>4, <1>5, <1>6, <1>7, <1>8, <1>9, <1>10, <1>11
             DEF UnrefNext, IOWork

LEMMA UnrefInvariant == UnrefSpec => []UnrefInv
  <1>1. UnrefInv /\ UNCHANGED unrefVars => UnrefInv'
    BY DEF unrefVars
  <1>2. QED BY <1>1, UnrefInitInv, UnrefStepInv, PTL DEF UnrefSpec

\* No object is forgotten or released twice, and the destructor of the queue finds
\* one only when the IO thread has ended.
THEOREM ObjectsAccounted == UnrefSpec => []ObjectsAreAccountedFor
  <1>1. UnrefInv => ObjectsAreAccountedFor
    BY DEF ObjectsAreAccountedFor, UnreffedHasADrain
  <1>2. QED BY <1>1, UnrefInvariant, PTL

-----------------------------------------------------------------------------
(***************************************************************************)
(* What holds of the PointerDispatcher for every number of packets and     *)
(* vsyncs.                                                                 *)
(*                                                                         *)
(* PacketsAreHeldInOrder is inductive together with the types: a packet is *)
(* appended to what was dispatched only while nothing is held, which is    *)
(* what ProgressHasACallback says of packets that are not in progress.     *)
(***************************************************************************)
DispatcherInv == DispatcherTypeOK /\ PacketsAreHeldInOrder

USE DEF NoPacket

-----------------------------------------------------------------------------
\* What is taken grows by the next number.
LEMMA TakenNext ==
    ASSUME NEW s \in Seq(Packets), s = SentInOrder(Len(s))
    PROVE  Append(s, Len(s) + 1) = SentInOrder(Len(s) + 1)
  BY DEF SentInOrder

\* The tasks of a vsync carry no packet, and one is the dispatcher's if it has
\* registered.
LEMMA VsyncTasksFacts ==
    ASSUME DispatcherTypeOK
    PROVE  /\ VsyncTasks \in Seq([packet : {NoPacket}, vsync : Vsyncs])
           /\ "dispatcher" \in registered =>
                  \E i \in DOMAIN VsyncTasks : VsyncTasks[i].vsync = "dispatcher"
  <1> DEFINE S == [packet : {NoPacket}, vsync : Vsyncs]
             f == IF frameCallback THEN <<VsyncTask("frame")>> ELSE <<>>
             a == IF "animator" \in registered THEN <<VsyncTask("animator")>> ELSE <<>>
             d == IF "dispatcher" \in registered THEN <<VsyncTask("dispatcher")>> ELSE <<>>
  <1>1. \A v \in Vsyncs : VsyncTask(v) \in S
    BY DEF VsyncTask
  <1>2. f \in Seq(S) /\ a \in Seq(S) /\ d \in Seq(S)
    <2>1. <<>> \in Seq(S)
      OBVIOUS
    <2>2. \A v \in Vsyncs : <<VsyncTask(v)>> \in Seq(S)
      BY <1>1
    <2>3. "frame" \in Vsyncs /\ "animator" \in Vsyncs /\ "dispatcher" \in Vsyncs
      BY DEF Vsyncs, Ids
    <2> HIDE DEF S
    <2>4. QED BY <2>1, <2>2, <2>3
  <1>3. VsyncTasks = (f \o a) \o d
    BY DEF VsyncTasks
  <1> HIDE DEF f, a, S
  <1>4. f \o a \in Seq(S)
    BY <1>2
  <1>5. VsyncTasks \in Seq(S)
    BY <1>2, <1>3, <1>4
  <1>6. ASSUME "dispatcher" \in registered
        PROVE  \E i \in DOMAIN VsyncTasks : VsyncTasks[i].vsync = "dispatcher"
    <2>1. d = <<VsyncTask("dispatcher")>>
      BY <1>6
    <2>2. VsyncTasks = Append(f \o a, VsyncTask("dispatcher"))
      BY <1>3, <1>4, <2>1
    <2>3. VsyncTask("dispatcher").vsync = "dispatcher"
      BY DEF VsyncTask
    <2>4. Len(f \o a) + 1 \in DOMAIN VsyncTasks
      BY <1>4, <2>2
    <2>5. VsyncTasks[Len(f \o a) + 1] = VsyncTask("dispatcher")
      BY <1>4, <2>2
    <2>6. QED BY <2>3, <2>4, <2>5
  <1>7. QED BY <1>5, <1>6 DEF S

\* Callbacks are registered, and a vsync is asked for unless one is on its way.
LEMMA ScheduleFacts ==
    ASSUME DispatcherInv, NEW ids \in SUBSET Ids, ids # {},
           ScheduleSecondaryCallbacks(ids), frameCallback' = frameCallback
    PROVE  /\ registered' = registered \cup ids /\ registered' \in SUBSET Ids
           /\ vsyncsAwaited' \in Nat
           /\ OneVsyncForAll'
  BY DEF DispatcherInv, DispatcherTypeOK, PacketsAreHeldInOrder, OneVsyncForAll,
         ScheduleSecondaryCallbacks

-----------------------------------------------------------------------------
LEMMA DispatcherInitInv == DispatcherInit => DispatcherInv
  <1> SUFFICES ASSUME DispatcherInit PROVE DispatcherInv
    OBVIOUS
  <1>1. inProgress \in BOOLEAN /\ frameCallback \in BOOLEAN
    BY Zenon DEF DispatcherInit
  <1>2. DispatcherTypeOK
    BY <1>1, MaxPacketsAssumption DEF DispatcherInit, DispatcherTypeOK
  <1>3. Taken = <<>>
    BY DEF DispatcherInit, Taken, Held
  <1>4. PacketsInOrder
    <2>1. Taken = SentInOrder(Len(Taken)) /\ Len(Taken) = 0
      BY <1>3 DEF SentInOrder
    <2>2. pointerTasks = <<>> /\ sentPackets = 0 /\ DOMAIN pointerTasks = {}
      BY DEF DispatcherInit
    <2>3. WaitingPackets = {} /\ 1..0 = {}
      BY <2>2 DEF WaitingPackets
    <2>4. QED BY <2>1, <2>2, <2>3 DEF PacketsInOrder
  <1>5. ProgressHasACallback /\ OneVsyncForAll
    BY DEF DispatcherInit, ProgressHasACallback, OneVsyncForAll
  <1>6. QED BY <1>2, <1>4, <1>5 DEF DispatcherInv, PacketsAreHeldInOrder

LEMMA SendPacketInv == ASSUME DispatcherInv, SendPacket PROVE DispatcherInv'
  <1> USE DEF DispatcherInv, DispatcherTypeOK, PacketsAreHeldInOrder
  <1>1. /\ sentPackets < MaxPackets /\ sentPackets' = sentPackets + 1
        /\ pointerTasks' = Append(pointerTasks, PacketTask(sentPackets + 1))
        /\ UNCHANGED <<pendingPacket, inProgress, frameCallback, registered, vsyncsAwaited,
                       toFramework>>
    BY DEF SendPacket
  <1> DEFINE task == PacketTask(sentPackets + 1)
             n == Len(pointerTasks)
  <1>2. task \in UITasks /\ task.packet = sentPackets + 1 /\ task.vsync = "none"
    BY <1>1, MaxPacketsAssumption DEF PacketTask, UITasks, Packets
  <1> HIDE DEF task
  <1>3. /\ n \in Nat /\ DOMAIN pointerTasks = 1..n
        /\ pointerTasks' \in Seq(UITasks) /\ DOMAIN pointerTasks' = 1..(n + 1)
        /\ \A i \in 1..n : pointerTasks'[i] = pointerTasks[i]
        /\ pointerTasks'[n + 1] = task
    BY <1>1, <1>2 DEF task
  <1> HIDE DEF n
  <1>4. DispatcherTypeOK'
    BY <1>1, <1>3, MaxPacketsAssumption
  <1>5. PacketsInOrder'
    <2>1. Taken' = Taken /\ Len(Taken) \in Nat /\ sentPackets \in Nat
      BY <1>1, MaxPacketsAssumption DEF Taken, Held
    <2>2. \A i \in 1..n : pointerTasks[i].packet \in Nat
      BY <1>3 DEF UITasks, Packets
    <2>3. \A i \in 1..n : pointerTasks[i].packet < sentPackets + 1
      <3>1. ASSUME NEW i \in 1..n, pointerTasks[i].packet # NoPacket
            PROVE  pointerTasks[i].packet \in (Len(Taken) + 1)..sentPackets
        BY <3>1, <1>3 DEF PacketsInOrder, WaitingPackets
      <3>2. QED BY <3>1, <2>1, <2>2
    <2>4. WaitingPackets' = WaitingPackets \cup {sentPackets + 1}
      <3>1. \A i \in 1..(n + 1) : i \in 1..n \/ i = n + 1
        BY <1>3
      <3>2. \A i \in 1..n : i \in 1..(n + 1) /\ pointerTasks'[i].packet = pointerTasks[i].packet
        BY <1>3
      <3>3. n + 1 \in 1..(n + 1) /\ pointerTasks'[n + 1].packet = sentPackets + 1
        BY <1>2, <1>3
      <3>4. sentPackets + 1 # NoPacket
        BY <2>1
      <3>5. QED BY SMTT(30), <1>3, <3>1, <3>2, <3>3, <3>4 DEF WaitingPackets
    <2>5. WaitingPackets' = (Len(Taken) + 1)..(sentPackets + 1)
      <3>1. WaitingPackets = (Len(Taken) + 1)..sentPackets /\ Len(Taken) <= sentPackets
        BY DEF PacketsInOrder
      <3>2. QED BY <3>1, <2>1, <2>4
    <2>6. ASSUME NEW i \in 1..(n + 1), NEW j \in 1..(n + 1), i < j,
                 pointerTasks'[j].packet # NoPacket
          PROVE  pointerTasks'[i].packet < pointerTasks'[j].packet
      <3>1. i \in 1..n
        BY <1>3, <2>6
      <3>2. CASE j = n + 1
        BY <1>2, <1>3, <2>3, <3>1, <3>2
      <3>3. CASE j \in 1..n
        BY <1>3, <2>6, <3>1, <3>3 DEF PacketsInOrder
      <3>4. QED BY <1>3, <3>2, <3>3
    <2>7. Taken' = SentInOrder(Len(Taken')) /\ Len(Taken') <= sentPackets'
      BY <1>1, <2>1 DEF PacketsInOrder
    <2>8. QED BY <1>1, <1>3, <2>1, <2>5, <2>6, <2>7 DEF PacketsInOrder
  <1>6. ProgressHasACallback' /\ OneVsyncForAll'
    BY <1>1, <1>3 DEF ProgressHasACallback, OneVsyncForAll
  <1>7. QED BY <1>4, <1>5, <1>6

LEMMA AsyncWaitForVsyncInv == ASSUME DispatcherInv, AsyncWaitForVsync PROVE DispatcherInv'
  <1> USE DEF DispatcherInv, DispatcherTypeOK, PacketsAreHeldInOrder, AsyncWaitForVsync
  <1>1. Taken' = Taken
    BY DEF Taken, Held
  <1>2. PacketsInOrder'
    BY <1>1 DEF PacketsInOrder, WaitingPackets
  <1>3. ProgressHasACallback' /\ OneVsyncForAll' /\ DispatcherTypeOK'
    BY DEF ProgressHasACallback, OneVsyncForAll
  <1>4. QED BY <1>2, <1>3

LEMMA FireCallbackInv == ASSUME DispatcherInv, FireCallback PROVE DispatcherInv'
  <1> USE DEF DispatcherInv, DispatcherTypeOK, PacketsAreHeldInOrder
  <1>1. /\ vsyncsAwaited > 0 /\ vsyncsAwaited' = vsyncsAwaited - 1
        /\ frameCallback' = FALSE /\ registered' = {}
        /\ pointerTasks' = pointerTasks \o VsyncTasks
        /\ UNCHANGED <<sentPackets, pendingPacket, inProgress, toFramework>>
    BY DEF FireCallback
  <1> DEFINE n == Len(pointerTasks)
             m == Len(VsyncTasks)
             S == [packet : {NoPacket}, vsync : Vsyncs]
  <1>2. VsyncTasks \in Seq(S) /\ S \subseteq UITasks
    BY VsyncTasksFacts DEF UITasks
  <1>3. \A v \in S : v.packet = NoPacket
    OBVIOUS
  <1> HIDE DEF S
  <1>4. VsyncTasks \in Seq(UITasks)
    BY <1>2
  <1>5. /\ n \in Nat /\ m \in Nat /\ DOMAIN pointerTasks = 1..n /\ DOMAIN VsyncTasks = 1..m
        /\ pointerTasks' \in Seq(UITasks) /\ DOMAIN pointerTasks' = 1..(n + m)
        /\ \A i \in 1..n : pointerTasks'[i] = pointerTasks[i]
        /\ \A i \in 1..m : pointerTasks'[n + i] = VsyncTasks[i]
    BY <1>1, <1>4
  <1>6. \A i \in 1..m : VsyncTasks[i].packet = NoPacket
    BY <1>2, <1>3, <1>5
  <1>7. \A i \in 1..(n + m) : i \in 1..n \/ (i > n /\ i - n \in 1..m /\ i = n + (i - n))
    BY <1>5
  <1>8. ASSUME NEW i \in 1..(n + m), i > n PROVE pointerTasks'[i].packet = NoPacket
    <2>1. i - n \in 1..m /\ i = n + (i - n)
      BY <1>5, <1>8
    <2>2. pointerTasks'[i] = VsyncTasks[i - n]
      BY <2>1, <1>5
    <2>3. QED BY <2>1, <2>2, <1>6
  <1> HIDE DEF n, m
  <1>9. DispatcherTypeOK'
    <2>1. frameCallback' \in BOOLEAN /\ inProgress' \in BOOLEAN
      BY <1>1
    <2>2. vsyncsAwaited' \in Nat /\ registered' \in SUBSET Ids
      BY <1>1
    <2>3. QED BY <1>1, <1>5, <2>1, <2>2
  <1>10. PacketsInOrder'
    <2>1. Taken' = Taken
      BY <1>1 DEF Taken, Held
    <2>2. WaitingPackets' = WaitingPackets
      <3>1. \A i \in 1..n : i \in 1..(n + m)
        BY <1>5
      <3>2. ASSUME NEW x PROVE x \in WaitingPackets' <=> x \in WaitingPackets
        <4>1. x \in WaitingPackets <=> x # NoPacket /\ \E i \in 1..n : x = pointerTasks[i].packet
          BY <1>5 DEF WaitingPackets
        <4>2. x \in WaitingPackets'
                  <=> x # NoPacket /\ \E i \in 1..(n + m) : x = pointerTasks'[i].packet
          BY <1>5 DEF WaitingPackets
        <4>3. \A i \in 1..(n + m) : pointerTasks'[i].packet # NoPacket => i \in 1..n
          BY <1>5, <1>8
        <4>4. QED BY <4>1, <4>2, <4>3, <3>1, <1>5
      <3>3. QED BY <3>2
    <2>3. ASSUME NEW i \in 1..(n + m), NEW j \in 1..(n + m), i < j,
                 pointerTasks'[j].packet # NoPacket
          PROVE  pointerTasks'[i].packet < pointerTasks'[j].packet
      <3>1. i \in 1..n /\ j \in 1..n
        BY <2>3, <1>5, <1>8
      <3>2. QED BY <2>3, <3>1, <1>5 DEF PacketsInOrder
    <2>4. QED BY <1>1, <1>5, <2>1, <2>2, <2>3 DEF PacketsInOrder
  <1>11. ProgressHasACallback'
    <2>1. ASSUME inProgress, "dispatcher" \in registered
          PROVE  \E i \in DOMAIN pointerTasks' : pointerTasks'[i].vsync = "dispatcher"
      <3>1. PICK i \in 1..m : VsyncTasks[i].vsync = "dispatcher"
        BY <2>1, <1>5, VsyncTasksFacts
      <3>2. n + i \in 1..(n + m) /\ pointerTasks'[n + i].vsync = "dispatcher"
        BY <3>1, <1>5
      <3>3. QED BY <3>2, <1>5
    <2>2. ASSUME NEW i \in DOMAIN pointerTasks, pointerTasks[i].vsync = "dispatcher"
          PROVE  \E k \in DOMAIN pointerTasks' : pointerTasks'[k].vsync = "dispatcher"
      <3>1. i \in 1..(n + m) /\ pointerTasks'[i].vsync = "dispatcher"
        BY <2>2, <1>5
      <3>2. QED BY <3>1, <1>5
    <2>3. QED BY <1>1, <2>1, <2>2 DEF ProgressHasACallback
  <1>12. OneVsyncForAll'
    BY <1>1 DEF OneVsyncForAll
  <1>13. QED BY <1>9, <1>10, <1>11, <1>12

-----------------------------------------------------------------------------
\* The first task is taken: a packet is the next one, and the others stay.
LEMMA TailFacts ==
    ASSUME DispatcherInv, pointerTasks # <<>>, pointerTasks' = Tail(pointerTasks),
           sentPackets' = sentPackets
    PROVE  LET task == Head(pointerTasks)
           IN /\ task \in UITasks
              /\ pointerTasks' \in Seq(UITasks)
              /\ task.packet # NoPacket =>
                    /\ task.packet = Len(Taken) + 1 /\ task.packet <= sentPackets
                    /\ WaitingPackets' = (Len(Taken) + 2)..sentPackets
              /\ task.packet = NoPacket => WaitingPackets' = (Len(Taken) + 1)..sentPackets
              /\ \A i, j \in DOMAIN pointerTasks' :
                    i < j /\ pointerTasks'[j].packet # NoPacket
                        => pointerTasks'[i].packet < pointerTasks'[j].packet
              /\ (\E i \in DOMAIN pointerTasks : pointerTasks[i].vsync = "dispatcher")
                    => \/ task.vsync = "dispatcher"
                       \/ \E i \in DOMAIN pointerTasks' : pointerTasks'[i].vsync = "dispatcher"
  <1> USE DEF DispatcherInv, DispatcherTypeOK, PacketsAreHeldInOrder
  <1> DEFINE n == Len(pointerTasks)
             task == Head(pointerTasks)
  <1>1. /\ n \in Nat /\ n > 0 /\ DOMAIN pointerTasks = 1..n
        /\ pointerTasks' \in Seq(UITasks) /\ DOMAIN pointerTasks' = 1..(n - 1)
        /\ \A i \in 1..(n - 1) : i + 1 \in 1..n /\ pointerTasks'[i] = pointerTasks[i + 1]
        /\ task = pointerTasks[1] /\ 1 \in 1..n /\ task \in UITasks
    OBVIOUS
  <1>2. \A i \in 1..n : i = 1 \/ (i - 1 \in 1..(n - 1) /\ pointerTasks'[i - 1] = pointerTasks[i])
    BY <1>1
  <1>3. \A i \in 1..n : pointerTasks[i].packet \in Nat
    BY <1>1 DEF UITasks, Packets
  <1>4. Len(Taken) \in Nat /\ sentPackets \in Nat
    BY MaxPacketsAssumption DEF Taken, Held, Packets
  <1> HIDE DEF n, task
  <1>5. WaitingPackets = ({task.packet} \ {NoPacket}) \cup WaitingPackets'
    <2>1. ASSUME NEW x
          PROVE  x \in WaitingPackets <=> x \in ({task.packet} \ {NoPacket}) \cup WaitingPackets'
      <3>1. x \in WaitingPackets <=> x # NoPacket /\ \E i \in 1..n : x = pointerTasks[i].packet
        BY <1>1 DEF WaitingPackets
      <3>2. x \in WaitingPackets'
                <=> x # NoPacket /\ \E i \in 1..(n - 1) : x = pointerTasks'[i].packet
        BY <1>1 DEF WaitingPackets
      <3>3. QED BY ZenonT(60), <3>1, <3>2, <1>1, <1>2
    <2>2. QED BY <2>1
  <1>6. WaitingPackets = (Len(Taken) + 1)..sentPackets
    BY DEF PacketsInOrder
  <1>7. \A x \in WaitingPackets' : task.packet < x
    <2>1. ASSUME NEW i \in 1..(n - 1), pointerTasks'[i].packet # NoPacket
          PROVE  task.packet < pointerTasks'[i].packet
      <3>1. i + 1 \in 1..n /\ 1 < i + 1 /\ pointerTasks'[i] = pointerTasks[i + 1]
        BY <1>1
      <3>2. QED BY <2>1, <3>1, <1>1 DEF PacketsInOrder
    <2>2. \A x \in WaitingPackets' :
             x # NoPacket /\ \E i \in 1..(n - 1) : x = pointerTasks'[i].packet
      BY <1>1 DEF WaitingPackets
    <2>3. QED BY <2>1, <2>2
  <1>8. WaitingPackets' \subseteq Nat /\ task.packet \in Nat
    BY <1>1, <1>3 DEF WaitingPackets
  <1>9. ASSUME task.packet # NoPacket
        PROVE  /\ task.packet = Len(Taken) + 1 /\ task.packet <= sentPackets
               /\ WaitingPackets' = (Len(Taken) + 2)..sentPackets
    <2>1. task.packet \in WaitingPackets
      BY <1>5, <1>9
    <2>2. task.packet \in Len(Taken) + 1 .. sentPackets
      BY <2>1, <1>6
    <2>3. Len(Taken) + 1 \in WaitingPackets
      BY <2>2, <1>6, <1>4
    <2>4. task.packet = Len(Taken) + 1
      BY <2>2, <2>3, <1>5, <1>7, <1>4, <1>8
    <2>5. WaitingPackets' = WaitingPackets \ {task.packet}
      BY <1>5, <1>7, <1>8
    <2>6. QED BY <2>2, <2>4, <2>5, <1>4, <1>6
  <1>10. task.packet = NoPacket => WaitingPackets' = (Len(Taken) + 1)..sentPackets
    BY <1>5, <1>6
  <1>11. \A i, j \in DOMAIN pointerTasks' :
              i < j /\ pointerTasks'[j].packet # NoPacket
                  => pointerTasks'[i].packet < pointerTasks'[j].packet
    <2> SUFFICES ASSUME NEW i \in 1..(n - 1), NEW j \in 1..(n - 1), i < j,
                        pointerTasks'[j].packet # NoPacket
                 PROVE  pointerTasks'[i].packet < pointerTasks'[j].packet
      BY <1>1
    <2>1. i + 1 \in 1..n /\ j + 1 \in 1..n /\ i + 1 < j + 1
      BY <1>1
    <2>2. QED BY <1>1, <2>1 DEF PacketsInOrder
  <1>12. (\E i \in DOMAIN pointerTasks : pointerTasks[i].vsync = "dispatcher")
             => \/ task.vsync = "dispatcher"
                \/ \E i \in DOMAIN pointerTasks' : pointerTasks'[i].vsync = "dispatcher"
    <2> SUFFICES ASSUME NEW i \in 1..n, pointerTasks[i].vsync = "dispatcher",
                        task.vsync # "dispatcher"
                 PROVE  \E k \in 1..(n - 1) : pointerTasks'[k].vsync = "dispatcher"
      BY <1>1
    <2>1. i - 1 \in 1..(n - 1) /\ pointerTasks'[i - 1] = pointerTasks[i]
      BY <1>1, <1>2
    <2>2. QED BY <2>1
  <1>13. QED BY <1>1, <1>9, <1>10, <1>11, <1>12 DEF task

\* The task of a packet: what is held is dispatched before it.
LEMMA DispatchPacketInv ==
    ASSUME DispatcherInv, pointerTasks # <<>>, pointerTasks' = Tail(pointerTasks),
           Head(pointerTasks).packet # NoPacket, DispatchPacket(Head(pointerTasks).packet),
           UNCHANGED <<sentPackets, frameCallback>>
    PROVE  DispatcherInv'
  <1> USE DEF DispatcherInv, DispatcherTypeOK, PacketsAreHeldInOrder
  <1> DEFINE p == Head(pointerTasks).packet
  <1>1. /\ p = Len(Taken) + 1 /\ p <= sentPackets
        /\ WaitingPackets' = (Len(Taken) + 2)..sentPackets
        /\ \A i, j \in DOMAIN pointerTasks' :
              i < j /\ pointerTasks'[j].packet # NoPacket
                  => pointerTasks'[i].packet < pointerTasks'[j].packet
        /\ pointerTasks' \in Seq(UITasks)
    BY TailFacts
  <1> HIDE DEF p
  <1>2. Taken \in Seq(Packets) /\ Len(Taken) \in Nat
    BY DEF Taken, Held
  <1>3. p \in Packets
    BY <1>1, <1>2, MaxPacketsAssumption DEF Packets
  <1>4. /\ Taken' = Append(Taken, p) /\ toFramework' \in Seq(Packets)
        /\ pendingPacket' \in Packets \cup {NoPacket}
    <2>1. CASE inProgress /\ pendingPacket # NoPacket
      <3>1. toFramework' = Append(toFramework, pendingPacket) /\ pendingPacket' = p
        BY <2>1 DEF DispatchPacket, DoDispatchPacket, p
      <3>2. Taken = Append(toFramework, pendingPacket) /\ p # NoPacket
        BY <2>1, <1>3 DEF Taken, Held, Packets
      <3>3. Held' = <<p>>
        BY <3>1, <3>2 DEF Held
      <3>4. QED BY <3>1, <3>2, <3>3, <1>2, <1>3 DEF Taken
    <2>2. CASE inProgress /\ pendingPacket = NoPacket
      <3>1. toFramework' = toFramework /\ pendingPacket' = p
        BY <2>2 DEF DispatchPacket, p
      <3>2. Taken = toFramework /\ Held' = <<p>>
        BY <2>2, <3>1, <1>3 DEF Taken, Held, Packets
      <3>3. QED BY <3>1, <3>2, <1>2, <1>3 DEF Taken
    <2>3. CASE ~inProgress
      <3>1. pendingPacket = NoPacket
        BY <2>3 DEF ProgressHasACallback
      <3>2. toFramework' = Append(toFramework, p) /\ pendingPacket' = NoPacket
        BY <2>3, <3>1 DEF DispatchPacket, DoDispatchPacket, p
      <3>3. Taken = toFramework /\ Held' = <<>>
        BY <3>1, <3>2 DEF Taken, Held
      <3>4. QED BY <3>2, <3>3, <1>2, <1>3 DEF Taken
    <2>4. QED BY <2>1, <2>2, <2>3
  <1>5. Len(Taken') = Len(Taken) + 1
    BY <1>2, <1>3, <1>4
  <1>6. Taken' = SentInOrder(Len(Taken'))
    <2>1. Taken = SentInOrder(Len(Taken))
      BY DEF PacketsInOrder
    <2>2. QED BY <2>1, <1>1, <1>2, <1>4, <1>5, TakenNext
  <1>7. PacketsInOrder'
    BY <1>1, <1>2, <1>5, <1>6 DEF PacketsInOrder
  <1> DEFINE ids == IF inProgress /\ pendingPacket = NoPacket THEN {"dispatcher"} ELSE Ids
  <1>8. ids \in SUBSET Ids /\ "dispatcher" \in ids /\ ScheduleSecondaryCallbacks(ids)
    BY DEF Ids, DispatchPacket
  <1> HIDE DEF ids
  <1>9. /\ registered' = registered \cup ids /\ registered' \in SUBSET Ids
        /\ vsyncsAwaited' \in Nat /\ OneVsyncForAll'
    BY <1>8, ScheduleFacts
  <1>10. inProgress' = TRUE
    BY DEF DispatchPacket
  <1>11. ProgressHasACallback'
    BY <1>8, <1>9, <1>10 DEF ProgressHasACallback
  <1>12. DispatcherTypeOK'
    BY <1>1, <1>4, <1>9, <1>10
  <1>13. QED BY <1>7, <1>9, <1>11, <1>12

\* The dispatcher's callback: what is held is dispatched, or the progress ends.
LEMMA SecondaryCallbackInv ==
    ASSUME DispatcherInv, pointerTasks # <<>>, pointerTasks' = Tail(pointerTasks),
           Head(pointerTasks).packet = NoPacket, SecondaryCallback,
           UNCHANGED <<sentPackets, frameCallback>>
    PROVE  DispatcherInv'
  <1> USE DEF DispatcherInv, DispatcherTypeOK, PacketsAreHeldInOrder
  <1>1. /\ WaitingPackets' = (Len(Taken) + 1)..sentPackets
        /\ \A i, j \in DOMAIN pointerTasks' :
              i < j /\ pointerTasks'[j].packet # NoPacket
                  => pointerTasks'[i].packet < pointerTasks'[j].packet
        /\ pointerTasks' \in Seq(UITasks)
    BY TailFacts
  <1>2. CASE inProgress /\ pendingPacket # NoPacket
    <2>1. /\ toFramework' = Append(toFramework, pendingPacket) /\ pendingPacket' = NoPacket
          /\ inProgress' = inProgress /\ ScheduleSecondaryCallbacks(Ids)
      BY <1>2 DEF SecondaryCallback, DoDispatchPacket
    <2>2. Taken' = Taken /\ toFramework' \in Seq(Packets)
      <3>1. pendingPacket \in Packets
        BY <1>2
      <3>2. Held = <<pendingPacket>> /\ Held' = <<>>
        BY <1>2, <2>1 DEF Held
      <3>3. toFramework' \in Seq(Packets) /\ Taken = toFramework'
        BY <2>1, <3>1, <3>2 DEF Taken
      <3>4. QED BY <3>2, <3>3 DEF Taken
    <2>3. Ids \in SUBSET Ids /\ Ids # {} /\ "dispatcher" \in Ids
      BY DEF Ids
    <2>4. /\ registered' = registered \cup Ids /\ registered' \in SUBSET Ids
          /\ vsyncsAwaited' \in Nat /\ OneVsyncForAll'
      BY <2>1, <2>3, ScheduleFacts
    <2>5. PacketsInOrder'
      BY <1>1, <2>2 DEF PacketsInOrder
    <2>6. ProgressHasACallback'
      BY <2>1, <2>3, <2>4 DEF ProgressHasACallback
    <2>7. DispatcherTypeOK'
      BY <1>1, <2>1, <2>2, <2>4
    <2>8. QED BY <2>4, <2>5, <2>6, <2>7
  <1>3. CASE ~(inProgress /\ pendingPacket # NoPacket)
    <2>1. /\ inProgress' = FALSE
          /\ UNCHANGED <<toFramework, pendingPacket, registered, vsyncsAwaited>>
      BY <1>3 DEF SecondaryCallback
    <2>2. Taken' = Taken
      BY <2>1 DEF Taken, Held
    <2>3. PacketsInOrder'
      BY <1>1, <2>2 DEF PacketsInOrder
    <2>4. ProgressHasACallback' /\ OneVsyncForAll' /\ DispatcherTypeOK'
      BY <1>1, <1>3, <2>1 DEF ProgressHasACallback, OneVsyncForAll
    <2>5. QED BY <2>3, <2>4
  <1>4. QED BY <1>2, <1>3

LEMMA RunUITaskInv == ASSUME DispatcherInv, RunUITask PROVE DispatcherInv'
  <1> DEFINE task == Head(pointerTasks)
  <1>1. /\ pointerTasks # <<>> /\ pointerTasks' = Tail(pointerTasks)
        /\ UNCHANGED <<sentPackets, frameCallback>>
    BY DEF RunUITask
  <1>2. task \in UITasks
    BY <1>1 DEF DispatcherInv, DispatcherTypeOK
  <1>3. task.vsync # "none" => task.packet = NoPacket
    BY <1>2 DEF UITasks
  <1>4. CASE task.packet # NoPacket /\ DispatchPacket(task.packet)
    BY <1>1, <1>4, DispatchPacketInv
  <1>5. CASE task.vsync = "dispatcher" /\ SecondaryCallback
    BY <1>1, <1>3, <1>5, SecondaryCallbackInv
  <1>6. CASE /\ task.vsync \in {"frame", "animator"}
             /\ UNCHANGED <<pendingPacket, inProgress, registered, vsyncsAwaited, toFramework>>
    <2> USE DEF DispatcherInv, DispatcherTypeOK, PacketsAreHeldInOrder
    <2>1. task.packet = NoPacket
      BY <1>3, <1>6
    <2>2. Taken' = Taken
      BY <1>6 DEF Taken, Held
    <2>3. PacketsInOrder' /\ pointerTasks' \in Seq(UITasks)
      BY <1>1, <2>1, <2>2, TailFacts DEF PacketsInOrder
    <2>4. ProgressHasACallback'
      BY <1>1, <1>6, TailFacts DEF ProgressHasACallback
    <2>5. OneVsyncForAll' /\ DispatcherTypeOK'
      BY <1>1, <1>6, <2>3 DEF OneVsyncForAll
    <2>6. QED BY <2>3, <2>4, <2>5
  <1>7. QED BY <1>4, <1>5, <1>6 DEF RunUITask

LEMMA DispatcherInvariant == DispatcherSpec => []DispatcherInv
  <1>1. ASSUME DispatcherInv, [DispatcherNext]_dispatcherVars PROVE DispatcherInv'
    <2>1. CASE UNCHANGED dispatcherVars
      <3>1. Taken' = Taken
        BY <2>1 DEF dispatcherVars, Taken, Held
      <3>2. QED BY <1>1, <2>1, <3>1 DEF dispatcherVars, DispatcherInv, DispatcherTypeOK,
                PacketsAreHeldInOrder, PacketsInOrder, WaitingPackets, ProgressHasACallback,
                OneVsyncForAll
    <2>2. QED BY <1>1, <2>1, SendPacketInv, AsyncWaitForVsyncInv, FireCallbackInv, RunUITaskInv
              DEF DispatcherNext
  <1>2. QED BY <1>1, DispatcherInitInv, PTL DEF DispatcherSpec

\* Packets stay in order, and a packet that is held has a callback and a vsync that
\* will deliver it.
THEOREM PacketsHeldInOrder == DispatcherSpec => []PacketsAreHeldInOrder
  <1>1. DispatcherInv => PacketsAreHeldInOrder
    BY DEF DispatcherInv
  <1>2. QED BY <1>1, DispatcherInvariant, PTL
=============================================================================
