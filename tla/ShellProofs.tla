------------------------------ MODULE ShellProofs ------------------------------
(***************************************************************************)
(* Safety of ShellLifecycle for any number of shells, and of FirstFrame    *)
(* for any number of frames and any size of a batch.                       *)
(*                                                                         *)
(* The parts of a shell that exist follow from what the platform thread    *)
(* has done with it and from the tasks that wait.  The invariant says      *)
(* which: a part that is to be made, or reset, has exactly one task        *)
(* waiting, in the queue of its thread, and no Setup task of a shell waits *)
(* behind the reset of its rasterizer.  So it has to speak of the order of *)
(* the queues, and the lemmas about queues come first.                     *)
(***************************************************************************)
EXTENDS ShellLifecycle, FirstFrame, TLAPS

(***************************************************************************)
(* The tasks of the threads.                                               *)
(***************************************************************************)
ShellTask(name, s) == [name |-> name, shell |-> s]
Queues == [ShellThreads -> Seq([name : TaskNames, shell : ShellIds])]

In(q, task) == \E i \in 1..Len(q) : q[i] = task
Waits(tasks, name, s) == \E t \in ShellThreads : In(tasks[t], ShellTask(name, s))

\* A task that makes or resets a part, or handles a message, is queued once; and
\* the setups of a shell are queued before the reset of its rasterizer.
Unrepeated == {"makeRasterizer", "makeIOManager", "makeEngine",
               "resetEngine", "resetRasterizer", "resetIOManager", "handle"}
InTurn(q) ==
    /\ \A i, k \in 1..Len(q) : q[i] = q[k] /\ q[i].name \in Unrepeated => i = k
    /\ \A i, k \in 1..Len(q), s \in ShellIds :
          q[i] = ShellTask("setup", s) /\ q[k] = ShellTask("resetRasterizer", s) => i < k

\* The thread whose tasks these are; a handler runs on the thread of its method.
Home(name) == CASE name \in {"makeRasterizer", "setup", "draw", "resetRasterizer"} -> "raster"
                [] name \in {"makeIOManager", "resetIOManager"} -> "io"
                [] name \in {"makeEngine", "launch", "resetEngine"} -> "ui"
                [] name = "addHandler" -> "platform"

\* And all handlers that are queued are one message's.
Ordered(tasks) ==
    /\ tasks \in Queues
    /\ \A t \in ShellThreads : InTurn(tasks[t])
    /\ \A t \in ShellThreads, name \in TaskNames \ {"handle"}, s \in ShellIds :
          In(tasks[t], ShellTask(name, s)) => t = Home(name)
    /\ \A t, u \in ShellThreads, s, r \in ShellIds :
          In(tasks[t], ShellTask("handle", s)) /\ In(tasks[u], ShellTask("handle", r))
             => t = u /\ s = r

\* A queue to which a task was posted, and one from which the first was taken.
LEMMA AppendedTask ==
  ASSUME NEW q \in Seq([name : TaskNames, shell : ShellIds]),
         NEW name \in TaskNames, NEW s \in ShellIds
  PROVE  LET new == Append(q, ShellTask(name, s)) IN
         /\ new \in Seq([name : TaskNames, shell : ShellIds])
         /\ \A task : In(new, task) <=> In(q, task) \/ task = ShellTask(name, s)
         /\ InTurn(q) /\ (name \in Unrepeated => ~In(q, ShellTask(name, s)))
                      /\ (name = "setup" => ~In(q, ShellTask("resetRasterizer", s)))
               => InTurn(new)
<1> DEFINE task == ShellTask(name, s)
           new == Append(q, task)
<1>1. task \in [name : TaskNames, shell : ShellIds] /\ task.name = name
  BY DEF ShellTask
<1>2. new \in Seq([name : TaskNames, shell : ShellIds])
  BY <1>1
<1>3. /\ Len(new) = Len(q) + 1 /\ new[Len(q) + 1] = task /\ Len(q) \in Nat
      /\ \A i \in 1..Len(q) : new[i] = q[i] /\ i \in 1..Len(new)
      /\ \A i \in 1..Len(new) : i \in 1..Len(q) \/ i = Len(q) + 1
  BY <1>1
<1> HIDE DEF task, new
<1>4. ASSUME NEW x PROVE In(new, x) <=> In(q, x) \/ x = task
  <2>1. CASE In(q, x)
    BY <1>3, <2>1 DEF In
  <2>2. CASE x = task
    <3>1. Len(q) + 1 \in 1..Len(new)
      BY <1>3
    <3> QED
      BY <1>3, <2>2, <3>1 DEF In
  <2>3. CASE ~In(q, x) /\ x # task
    BY <1>3, <2>3 DEF In
  <2> QED
    BY <2>1, <2>2, <2>3
<1>5. ASSUME InTurn(q), name \in Unrepeated => ~In(q, task),
             name = "setup" => ~In(q, ShellTask("resetRasterizer", s))
      PROVE  InTurn(new)
  <2>1. ASSUME NEW i \in 1..Len(new), NEW k \in 1..Len(new), new[i] = new[k],
               new[i].name \in Unrepeated
        PROVE  i = k
    <3>1. CASE i \in 1..Len(q) /\ k \in 1..Len(q)
      BY <1>3, <1>5, <2>1, <3>1 DEF InTurn
    <3>2. CASE i \in 1..Len(q) /\ k = Len(q) + 1
      BY <1>1, <1>3, <1>5, <2>1, <3>2 DEF In
    <3>3. CASE i = Len(q) + 1 /\ k \in 1..Len(q)
      BY <1>1, <1>3, <1>5, <2>1, <3>3 DEF In
    <3> QED
      BY <1>3, <3>1, <3>2, <3>3
  <2>2. ASSUME NEW i \in 1..Len(new), NEW k \in 1..Len(new), NEW r \in ShellIds,
               new[i] = ShellTask("setup", r), new[k] = ShellTask("resetRasterizer", r)
        PROVE  i < k
    <3>1. CASE i \in 1..Len(q) /\ k \in 1..Len(q)
      BY <1>3, <1>5, <2>2, <3>1 DEF InTurn
    <3>2. CASE i \in 1..Len(q) /\ k = Len(q) + 1
      BY <1>3, <3>2
    <3>3. CASE i = Len(q) + 1 /\ k \in 1..Len(q)
      <4>1. name = "setup" /\ r = s
        BY <1>3, <2>2, <3>3 DEF task, ShellTask
      <4> QED
        BY <1>3, <1>5, <2>2, <3>3, <4>1 DEF In
    <3>4. CASE i = Len(q) + 1 /\ k = Len(q) + 1
      BY <2>2, <3>4 DEF ShellTask
    <3> QED
      BY <1>3, <3>1, <3>2, <3>3, <3>4
  <2> QED
    BY <2>1, <2>2 DEF InTurn
<1>6. /\ \A x : In(new, x) <=> In(q, x) \/ x = task
      /\ InTurn(q) /\ (name \in Unrepeated => ~In(q, task))
                   /\ (name = "setup" => ~In(q, ShellTask("resetRasterizer", s)))
            => InTurn(new)
  BY <1>4, <1>5
<1> QED
  BY <1>2, <1>6 DEF task, new

LEMMA HeadTailTypes ==
  ASSUME NEW S, NEW q \in Seq(S), q # <<>>
  PROVE  Head(q) \in S /\ Tail(q) \in Seq(S)
OBVIOUS

LEMMA RemovedTask ==
  ASSUME NEW q \in Seq([name : TaskNames, shell : ShellIds]), q # <<>>, InTurn(q)
  PROVE  /\ Tail(q) \in Seq([name : TaskNames, shell : ShellIds])
         /\ InTurn(Tail(q))
         /\ Head(q) \in [name : TaskNames, shell : ShellIds] /\ In(q, Head(q))
         /\ \A task : In(Tail(q), task) => In(q, task)
         /\ \A task : task # Head(q) => (In(q, task) => In(Tail(q), task))
         /\ Head(q).name \in Unrepeated => ~In(Tail(q), Head(q))
         /\ \A s \in ShellIds : Head(q) = ShellTask("resetRasterizer", s)
                                   => ~In(q, ShellTask("setup", s))
<1> DEFINE rest == Tail(q)
<1>1. /\ rest \in Seq([name : TaskNames, shell : ShellIds])
      /\ Len(rest) = Len(q) - 1 /\ Len(q) \in Nat /\ Len(q) > 0
      /\ Head(q) = q[1] /\ 1 \in 1..Len(q)
      /\ \A i \in 1..Len(rest) : rest[i] = q[i + 1] /\ i + 1 \in 1..Len(q)
  OBVIOUS
<1>2. \A i \in 1..Len(q) : i # 1 => i - 1 \in 1..Len(rest) /\ rest[i - 1] = q[i]
  BY <1>1
<1> HIDE DEF rest
<1>3. InTurn(rest)
  <2>1. ASSUME NEW i \in 1..Len(rest), NEW k \in 1..Len(rest), rest[i] = rest[k],
               rest[i].name \in Unrepeated
        PROVE  i = k
    BY SMTT(30), <1>1, <2>1 DEF InTurn
  <2>2. ASSUME NEW i \in 1..Len(rest), NEW k \in 1..Len(rest), NEW r \in ShellIds,
               rest[i] = ShellTask("setup", r), rest[k] = ShellTask("resetRasterizer", r)
        PROVE  i < k
    <3>1. i + 1 < k + 1
      BY SMTT(30), <1>1, <2>2 DEF InTurn
    <3> QED
      BY <3>1
  <2> QED
    BY <2>1, <2>2 DEF InTurn
<1>4. Head(q) \in [name : TaskNames, shell : ShellIds] /\ In(q, Head(q))
  <2>1. Head(q) \in [name : TaskNames, shell : ShellIds]
    BY HeadTailTypes
  <2>2. In(q, Head(q))
    BY <1>1, Zenon DEF In
  <2> QED
    BY <2>1, <2>2
<1>5. \A task : In(rest, task) => In(q, task)
  BY <1>1 DEF In
<1>6. \A task : task # Head(q) => (In(q, task) => In(rest, task))
  BY <1>1, <1>2 DEF In
<1>7. Head(q).name \in Unrepeated => ~In(rest, Head(q))
  <2>1. ASSUME Head(q).name \in Unrepeated, NEW i \in 1..Len(rest), rest[i] = Head(q)
        PROVE  FALSE
    <3>1. i + 1 = 1
      BY <1>1, <2>1 DEF InTurn
    <3> QED
      BY <3>1
  <2> QED
    BY <2>1 DEF In
<1>8. \A s \in ShellIds : Head(q) = ShellTask("resetRasterizer", s)
                             => ~In(q, ShellTask("setup", s))
  <2>1. ASSUME NEW s \in ShellIds, Head(q) = ShellTask("resetRasterizer", s),
               NEW i \in 1..Len(q), q[i] = ShellTask("setup", s)
        PROVE  FALSE
    <3>1. i < 1
      BY <1>1, <2>1 DEF InTurn
    <3> QED
      BY <3>1
  <2> QED
    BY <2>1 DEF In
<1> QED
  BY <1>1, <1>3, <1>4, <1>5, <1>6, <1>7, <1>8 DEF rest

\* The queues of all threads after a task was posted ...
LEMMA PostedTask ==
  ASSUME NEW tasks, Ordered(tasks), NEW thread \in ShellThreads,
         NEW name \in TaskNames, NEW s \in ShellIds,
         name # "handle" => thread = Home(name),
         name = "handle" => \A r \in ShellIds : ~Waits(tasks, "handle", r),
         name \in Unrepeated => ~Waits(tasks, name, s),
         name = "setup" => ~Waits(tasks, "resetRasterizer", s)
  PROVE  /\ Ordered(Post(tasks, thread, name, s))
         /\ \A n \in TaskNames, r \in ShellIds :
               Waits(Post(tasks, thread, name, s), n, r)
                  <=> Waits(tasks, n, r) \/ (n = name /\ r = s)
<1> DEFINE task == ShellTask(name, s)
           new == Post(tasks, thread, name, s)
<1>1. /\ tasks[thread] \in Seq([name : TaskNames, shell : ShellIds])
      /\ InTurn(tasks[thread])
      /\ name \in Unrepeated => ~In(tasks[thread], task)
      /\ name = "setup" => ~In(tasks[thread], ShellTask("resetRasterizer", s))
  BY DEF Ordered, Queues, Waits
<1>2. /\ new[thread] = Append(tasks[thread], task)
      /\ \A t \in ShellThreads : t # thread => new[t] = tasks[t]
      /\ new = [tasks EXCEPT ![thread] = Append(tasks[thread], task)]
  BY DEF Ordered, Queues, Post, ShellTask
<1>3. /\ new[thread] \in Seq([name : TaskNames, shell : ShellIds])
      /\ \A x : In(new[thread], x) <=> In(tasks[thread], x) \/ x = task
      /\ InTurn(new[thread])
  <2> DEFINE q == tasks[thread]
             appended == Append(q, task)
  <2>1. /\ appended \in Seq([name : TaskNames, shell : ShellIds])
        /\ \A x : In(appended, x) <=> In(q, x) \/ x = task
        /\ InTurn(q) /\ (name \in Unrepeated => ~In(q, task))
                     /\ (name = "setup" => ~In(q, ShellTask("resetRasterizer", s)))
              => InTurn(appended)
    BY <1>1, AppendedTask
  <2> HIDE DEF task, new
  <2> QED
    BY <1>1, <1>2, <2>1
<1>4. \A t \in ShellThreads : \A x :
         In(new[t], x) <=> In(tasks[t], x) \/ (t = thread /\ x = task)
  BY <1>2, <1>3
<1>5. new \in Queues /\ \A t \in ShellThreads : InTurn(new[t])
  <2>1. tasks \in Queues /\ \A t \in ShellThreads : InTurn(tasks[t])
    BY DEF Ordered
  <2> HIDE DEF task, new
  <2>2. \A t \in ShellThreads : InTurn(new[t])
    BY <1>2, <1>3, <2>1
  <2>3. Append(tasks[thread], task) \in Seq([name : TaskNames, shell : ShellIds])
    BY <1>2, <1>3
  <2>4. new \in Queues
    BY <1>2, <2>1, <2>3 DEF Queues
  <2> QED
    BY <2>2, <2>4
<1>6. \A n, r : ShellTask(n, r) = task <=> n = name /\ r = s
  BY DEF ShellTask
<1> HIDE DEF task, new
<1>7. \A t \in ShellThreads, n \in TaskNames \ {"handle"}, r \in ShellIds :
         In(new[t], ShellTask(n, r)) => t = Home(n)
  BY <1>4, <1>6 DEF Ordered
<1>8. \A t, u \in ShellThreads, r, p \in ShellIds :
         In(new[t], ShellTask("handle", r)) /\ In(new[u], ShellTask("handle", p))
            => t = u /\ r = p
  <2>1. CASE name = "handle"
    BY <1>4, <1>6, <2>1 DEF Waits
  <2>2. CASE name # "handle"
    BY <1>4, <1>6, <2>2 DEF Ordered
  <2> QED
    BY <2>1, <2>2
<1>9. \A n \in TaskNames, r \in ShellIds :
         Waits(new, n, r) <=> Waits(tasks, n, r) \/ (n = name /\ r = s)
  <2> TAKE n \in TaskNames, r \in ShellIds
  <2>1. CASE n = name /\ r = s
    <3>1. In(new[thread], ShellTask(n, r))
      BY <1>4, <1>6, <2>1
    <3> QED
      BY <2>1, <3>1 DEF Waits
  <2>2. CASE ~(n = name /\ r = s)
    <3>1. \A t \in ShellThreads : In(new[t], ShellTask(n, r)) <=> In(tasks[t], ShellTask(n, r))
      BY <1>4, <1>6, <2>2
    <3> QED
      BY <2>2, <3>1 DEF Waits
  <2> QED
    BY <2>1, <2>2
<1>10. Ordered(new)
  BY <1>5, <1>7, <1>8 DEF Ordered
<1> QED
  BY <1>9, <1>10 DEF new

\* ... and after a thread took its next.
Taken(tasks, thread) == [tasks EXCEPT ![thread] = Tail(@)]

LEMMA TakenTask ==
  ASSUME NEW tasks, Ordered(tasks), NEW thread \in ShellThreads,
         NEW name \in TaskNames, NEW s \in ShellIds,
         tasks[thread] # <<>>, Head(tasks[thread]) = ShellTask(name, s)
  PROVE  /\ Ordered(Taken(tasks, thread))
         /\ Waits(tasks, name, s)
         /\ name \in Unrepeated => ~Waits(Taken(tasks, thread), name, s)
         /\ name = "resetRasterizer" => ~Waits(tasks, "setup", s)
         /\ \A n \in TaskNames, r \in ShellIds :
               /\ Waits(Taken(tasks, thread), n, r) => Waits(tasks, n, r)
               /\ ~(n = name /\ r = s) =>
                     (Waits(Taken(tasks, thread), n, r) <=> Waits(tasks, n, r))
<1> DEFINE task == ShellTask(name, s)
           new == Taken(tasks, thread)
<1>1. /\ tasks[thread] \in Seq([name : TaskNames, shell : ShellIds])
      /\ InTurn(tasks[thread])
      /\ task.name = name
  BY DEF Ordered, Queues, ShellTask
<1>2. /\ new[thread] = Tail(tasks[thread])
      /\ \A t \in ShellThreads : t # thread => new[t] = tasks[t]
      /\ new = [tasks EXCEPT ![thread] = Tail(tasks[thread])]
  BY DEF Ordered, Queues, Taken
<1>3. /\ new[thread] \in Seq([name : TaskNames, shell : ShellIds])
      /\ InTurn(new[thread])
      /\ In(tasks[thread], task)
      /\ \A x : In(new[thread], x) => In(tasks[thread], x)
      /\ \A x : x # task => (In(tasks[thread], x) => In(new[thread], x))
      /\ name \in Unrepeated => ~In(new[thread], task)
      /\ name = "resetRasterizer" => ~In(tasks[thread], ShellTask("setup", s))
  <2> DEFINE q == tasks[thread]
  <2>1. /\ q \in Seq([name : TaskNames, shell : ShellIds]) /\ q # <<>> /\ InTurn(q)
        /\ Head(q) = task /\ task.name = name /\ new[thread] = Tail(q)
    BY <1>1, <1>2
  <2>2. name = "resetRasterizer" => Head(q) = ShellTask("resetRasterizer", s)
    OBVIOUS
  <2> HIDE DEF task, new, q
  <2>3. /\ Tail(q) \in Seq([name : TaskNames, shell : ShellIds])
        /\ InTurn(Tail(q))
        /\ In(q, Head(q))
        /\ \A x : In(Tail(q), x) => In(q, x)
        /\ \A x : x # Head(q) => (In(q, x) => In(Tail(q), x))
        /\ Head(q).name \in Unrepeated => ~In(Tail(q), Head(q))
        /\ name = "resetRasterizer" => ~In(q, ShellTask("setup", s))
    BY <2>1, <2>2, RemovedTask
  <2> QED
    BY <2>1, <2>3 DEF q
<1>4. /\ \A t \in ShellThreads : \A x : In(new[t], x) => In(tasks[t], x)
      /\ \A t \in ShellThreads : \A x : x # task => (In(tasks[t], x) => In(new[t], x))
  BY <1>2, <1>3
<1>5. new \in Queues /\ \A t \in ShellThreads : InTurn(new[t])
  <2>1. tasks \in Queues /\ \A t \in ShellThreads : InTurn(tasks[t])
    BY DEF Ordered
  <2> HIDE DEF task, new
  <2>2. \A t \in ShellThreads : InTurn(new[t])
    BY <1>2, <1>3, <2>1
  <2>3. new \in Queues
    BY <1>2, <1>3, <2>1 DEF Queues
  <2> QED
    BY <2>2, <2>3
<1>6. \A n, r : ShellTask(n, r) = task => n = name /\ r = s
  BY DEF ShellTask
<1> HIDE DEF task, new
<1>7. Ordered(new)
  <2>1. \A t \in ShellThreads, n \in TaskNames \ {"handle"}, r \in ShellIds :
           In(new[t], ShellTask(n, r)) => t = Home(n)
    BY <1>4 DEF Ordered
  <2>2. \A t, u \in ShellThreads, r, p \in ShellIds :
           In(new[t], ShellTask("handle", r)) /\ In(new[u], ShellTask("handle", p))
              => t = u /\ r = p
    BY ZenonT(60), <1>4 DEF Ordered
  <2> QED
    BY <1>5, <2>1, <2>2 DEF Ordered
<1>8. Waits(tasks, name, s)
  BY <1>3 DEF Waits, task
<1>9. name \in Unrepeated => ~Waits(new, name, s)
  <2>1. ASSUME name \in Unrepeated, NEW t \in ShellThreads, In(new[t], task)
        PROVE  FALSE
    <3>1. In(tasks[t], task) /\ In(tasks[thread], task)
      BY <1>3, <1>4, <2>1
    <3>2. t = thread
      BY <3>1 DEF Ordered, task
    <3> QED
      BY <1>3, <2>1, <3>2
  <2> QED
    BY <2>1 DEF Waits, task
<1>10. name = "resetRasterizer" => ~Waits(tasks, "setup", s)
  <2>1. ASSUME name = "resetRasterizer", NEW t \in ShellThreads,
               In(tasks[t], ShellTask("setup", s))
        PROVE  FALSE
    <3>1. "setup" \in TaskNames \ {"handle"} /\ name \in TaskNames \ {"handle"}
      BY <2>1 DEF TaskNames
    <3>2. t = Home("setup") /\ thread = Home(name)
      BY <1>3, <2>1, <3>1 DEF Ordered, task
    <3>3. t = thread
      BY <2>1, <3>2 DEF Home
    <3> QED
      BY <1>3, <2>1, <3>3
  <2> QED
    BY <2>1 DEF Waits
<1>11. \A n \in TaskNames, r \in ShellIds :
          /\ Waits(new, n, r) => Waits(tasks, n, r)
          /\ ~(n = name /\ r = s) => (Waits(new, n, r) <=> Waits(tasks, n, r))
  BY <1>4, <1>6 DEF Waits
<1> QED
  BY <1>7, <1>8, <1>9, <1>10, <1>11 DEF new

-----------------------------------------------------------------------------
(***************************************************************************)
(* The invariant.                                                          *)
(***************************************************************************)
Pending(name, s) == Waits(shellTasks, name, s)

OtherTypes ==
    /\ stage \in [ShellIds -> {"none", "running", "freed"} \cup Creating \cup Destroying]
    /\ alive \subseteq ShellIds \X Parts
    /\ handlers \subseteq ShellIds /\ added \subseteq ShellIds
    /\ call \in Calls \cup {NoCall}
    /\ events \in 0..MaxEvents

\* What the platform thread has done with a shell, and the parts there are of it.
PartsOf(s) ==
    /\ stage[s] \in {"none", "freed"} => \A part \in Parts : ~Exists(s, part)
    /\ stage[s] \in {"running", "removing"} => \A part \in Parts : Exists(s, part)
    /\ stage[s] = "engine" => Exists(s, "rasterizer") /\ Exists(s, "io manager")
    /\ stage[s] = "raster" => ~Exists(s, "engine") /\ Exists(s, "io manager")
    /\ stage[s] = "io" => ~Exists(s, "engine") /\ ~Exists(s, "rasterizer")
    /\ Exists(s, "engine") => Exists(s, "rasterizer") /\ Exists(s, "io manager")

\* A part that is not made yet, or not reset yet, has its task waiting.
TasksOf(s) ==
    /\ Pending("makeRasterizer", s) <=> stage[s] = "starting" /\ ~Exists(s, "rasterizer")
    /\ Pending("makeIOManager", s) <=> stage[s] = "starting" /\ ~Exists(s, "io manager")
    /\ Pending("makeEngine", s) <=> stage[s] = "starting" /\ ~Exists(s, "engine")
    /\ Pending("resetEngine", s) <=> stage[s] = "engine" /\ Exists(s, "engine")
    /\ Pending("resetRasterizer", s) <=> stage[s] = "raster" /\ Exists(s, "rasterizer")
    /\ Pending("resetIOManager", s) <=> stage[s] = "io" /\ Exists(s, "io manager")
    /\ Pending("setup", s) => \/ stage[s] \in {"running", "removing", "engine"}
                              \/ stage[s] = "raster" /\ Exists(s, "rasterizer")
    /\ Pending("launch", s) \/ Pending("addHandler", s) => stage[s] \notin {"none", "starting"}

LifeOf(s) == /\ PartsOf(s)
             /\ TasksOf(s)
             /\ s \in handlers => stage[s] \in {"running", "removing"}

\* The UI thread waits for a shell of the table, and no handler waits but its own.
CallInv == /\ call # NoCall => call.shell \in handlers
           /\ \A s \in ShellIds : Pending("handle", s) => call # NoCall /\ call.shell = s

ShellInv == /\ OtherTypes
            /\ Ordered(shellTasks)
            /\ \A s \in ShellIds : LifeOf(s)
            /\ CallInv

\* What a step does not touch of a shell.
LEMMA LifeGoesOn ==
  ASSUME NEW s \in ShellIds, LifeOf(s), stage'[s] = stage[s],
         \A part \in Parts : Exists(s, part)' <=> Exists(s, part),
         \A name \in TaskNames : Pending(name, s)' <=> Pending(name, s),
         s \in handlers' => s \in handlers
  PROVE  LifeOf(s)'
<1>1. PartsOf(s)'
  BY DEF LifeOf, PartsOf, Parts
<1>2. TasksOf(s)'
  BY DEF LifeOf, TasksOf, Parts, TaskNames
<1> QED
  BY <1>1, <1>2 DEF LifeOf

LEMMA ShellInvSafe == ShellInv => ShellTypeOK /\ ShellSafety
<1>1. SUFFICES ASSUME ShellInv PROVE ShellTypeOK /\ ShellSafety
  OBVIOUS
<1>2. ShellTypeOK
  BY <1>1 DEF ShellInv, OtherTypes, Ordered, Queues, ShellTypeOK
<1>3. EngineFindsItsParts
  BY <1>1 DEF ShellInv, LifeOf, PartsOf, EngineFindsItsParts
<1>4. HandlersFindTheirShell
  BY <1>1 DEF ShellInv, OtherTypes, CallInv, LifeOf, PartsOf, HandlersFindTheirShell
<1>5. \A name, s : Queued(name, s) => Pending(name, s)
  BY <1>2 DEF ShellTypeOK, Queued, Pending, Waits, In, ShellTask
<1>6. ASSUME NEW s \in ShellIds, stage[s] = "freed"
      PROVE  /\ \A part \in Parts : ~Exists(s, part)
             /\ \A name \in {"setup", "handle"} \cup DOMAIN Makes \cup DOMAIN Resets :
                    ~Queued(name, s)
             /\ s \notin handlers
  <2>1. LifeOf(s) /\ CallInv
    BY <1>1 DEF ShellInv
  <2>2. s \notin handlers /\ \A part \in Parts : ~Exists(s, part)
    BY <1>6, <2>1 DEF LifeOf, PartsOf
  <2>3. \A name \in {"setup", "handle"} \cup DOMAIN Makes \cup DOMAIN Resets :
           ~Pending(name, s)
    BY <1>6, <2>1, <2>2 DEF LifeOf, TasksOf, CallInv, Makes, Resets
  <2> QED
    BY <1>5, <2>2, <2>3
<1> QED
  BY <1>2, <1>3, <1>4, <1>6 DEF ShellSafety, NothingOutlivesItsShell

LEMMA ShellInitOK == ShellInit => ShellInv
<1>1. SUFFICES ASSUME ShellInit PROVE ShellInv
  OBVIOUS
<1>2. \A t \in ShellThreads : shellTasks[t] = <<>>
  BY <1>1 DEF ShellInit
<1>3. \A t \in ShellThreads : \A task : ~In(shellTasks[t], task)
  BY <1>2 DEF In
<1>4. \A name, s : ~Pending(name, s)
  BY <1>3 DEF Pending, Waits
<1>5. Ordered(shellTasks)
  <2>1. shellTasks \in Queues
    BY <1>1 DEF ShellInit, Queues
  <2>2. \A t \in ShellThreads : InTurn(shellTasks[t])
    BY <1>2 DEF InTurn
  <2> QED
    BY <1>3, <2>1, <2>2 DEF Ordered
<1>6. OtherTypes
  BY <1>1, EventsAssumption DEF ShellInit, OtherTypes
<1>7. \A s \in ShellIds : LifeOf(s)
  BY <1>1, <1>4 DEF ShellInit, LifeOf, PartsOf, TasksOf, Exists
<1>8. CallInv
  BY <1>1, <1>4 DEF ShellInit, CallInv
<1> QED
  BY <1>5, <1>6, <1>7, <1>8 DEF ShellInv

-----------------------------------------------------------------------------
(***************************************************************************)
(* The steps.  Those of one shell leave the others as they are.            *)
(***************************************************************************)
Untouched(s) == /\ stage'[s] = stage[s]
                /\ \A part \in Parts : Exists(s, part)' <=> Exists(s, part)
                /\ s \in handlers' => s \in handlers

LEMMA OneLifeMoves ==
  ASSUME ShellInv, NEW s \in ShellIds, LifeOf(s)',
         \A r \in ShellIds : r # s =>
            Untouched(r) /\ \A name \in TaskNames : Pending(name, r)' <=> Pending(name, r)
  PROVE  \A r \in ShellIds : LifeOf(r)'
<1>1. ASSUME NEW r \in ShellIds, r # s PROVE LifeOf(r)'
  <2>1. LifeOf(r)
    BY DEF ShellInv
  <2>2. Untouched(r) /\ \A name \in TaskNames : Pending(name, r)' <=> Pending(name, r)
    BY <1>1
  <2> QED
    BY <2>1, <2>2, LifeGoesOn DEF Untouched
<1> QED
  BY <1>1

\* The tasks after a task was posted, and after one was taken.
LEMMA Posting ==
  ASSUME ShellInv, NEW thread \in ShellThreads, NEW name \in TaskNames, NEW s \in ShellIds,
         Posted(thread, name, s),
         name # "handle" => thread = Home(name),
         name = "handle" => call = NoCall,
         name \in Unrepeated \ {"handle"} => ~Pending(name, s),
         name = "setup" => ~Pending("resetRasterizer", s)
  PROVE  /\ Ordered(shellTasks')
         /\ \A n \in TaskNames, r \in ShellIds :
               Pending(n, r)' <=> Pending(n, r) \/ (n = name /\ r = s)
<1>1. Ordered(shellTasks)
  BY DEF ShellInv
<1>2. name = "handle" => \A r \in ShellIds : ~Waits(shellTasks, "handle", r)
  BY DEF ShellInv, CallInv, Pending
<1>3. /\ name \in Unrepeated => ~Waits(shellTasks, name, s)
      /\ name = "setup" => ~Waits(shellTasks, "resetRasterizer", s)
  BY <1>2 DEF Pending
<1>4. shellTasks' = Post(shellTasks, thread, name, s)
  BY DEF Posted
<1>5. /\ Ordered(Post(shellTasks, thread, name, s))
      /\ \A n \in TaskNames, r \in ShellIds :
            Waits(Post(shellTasks, thread, name, s), n, r)
               <=> Waits(shellTasks, n, r) \/ (n = name /\ r = s)
  BY <1>1, <1>2, <1>3, PostedTask
<1> QED
  BY <1>4, <1>5 DEF Pending

LEMMA Taking ==
  ASSUME ShellInv, NEW thread \in ShellThreads, NEW name \in TaskNames, NEW s \in ShellIds,
         RunsNext(thread, name, s)
  PROVE  LET new == Taken(shellTasks, thread) IN
         /\ Ordered(new)
         /\ Pending(name, s)
         /\ name \in Unrepeated => ~Waits(new, name, s)
         /\ name = "resetRasterizer" => ~Pending("setup", s)
         /\ \A n \in TaskNames, r \in ShellIds :
               /\ Waits(new, n, r) => Pending(n, r)
               /\ ~(n = name /\ r = s) => (Waits(new, n, r) <=> Pending(n, r))
<1>1. /\ Ordered(shellTasks) /\ shellTasks[thread] # <<>>
      /\ Head(shellTasks[thread]) = ShellTask(name, s)
  BY DEF ShellInv, RunsNext, ShellTask
<1> QED
  BY <1>1, TakenTask DEF Pending

LEMMA CreateOK ==
  ASSUME ShellInv, NEW s \in ShellIds, CreateShell(s)
  PROVE  ShellInv'
<1> DEFINE first == Post(shellTasks, "raster", "makeRasterizer", s)
           second == Post(first, "io", "makeIOManager", s)
           third == Post(second, "ui", "makeEngine", s)
<1>1. /\ LifeOf(s) /\ stage[s] = "none" /\ Ordered(shellTasks)
      /\ \A part \in Parts : ~Exists(s, part)
      /\ \A name \in {"makeRasterizer", "makeIOManager", "makeEngine"} : ~Pending(name, s)
  BY DEF CreateShell, ShellInv, LifeOf, PartsOf, TasksOf
<1>2. /\ Ordered(first)
      /\ \A n \in TaskNames, r \in ShellIds :
            Waits(first, n, r) <=> Pending(n, r) \/ (n = "makeRasterizer" /\ r = s)
  BY SMTT(30), <1>1, PostedTask DEF Pending, Home, ShellThreads, TaskNames
<1> HIDE DEF first
<1>3. /\ Ordered(second)
      /\ \A n \in TaskNames, r \in ShellIds :
            Waits(second, n, r) <=> Waits(first, n, r) \/ (n = "makeIOManager" /\ r = s)
  BY SMTT(30), <1>1, <1>2, PostedTask DEF Home, ShellThreads, TaskNames
<1> HIDE DEF second
<1>4. /\ Ordered(third)
      /\ \A n \in TaskNames, r \in ShellIds :
            Waits(third, n, r) <=> Waits(second, n, r) \/ (n = "makeEngine" /\ r = s)
  BY <1>1, <1>2, <1>3, PostedTask DEF Home, ShellThreads, TaskNames
<1>5. shellTasks' = third
  BY DEF CreateShell, first, second
<1> HIDE DEF third
<1>6. \A n \in TaskNames, r \in ShellIds :
         Pending(n, r)' <=> \/ Pending(n, r)
                            \/ r = s /\ n \in {"makeRasterizer", "makeIOManager", "makeEngine"}
  BY <1>2, <1>3, <1>4, <1>5 DEF Pending
<1>7. OtherTypes'
  BY DEF CreateShell, ShellInv, OtherTypes, Creating
<1>8. LifeOf(s)'
  <2>1. stage'[s] = "starting" /\ UNCHANGED <<alive, handlers>>
    BY DEF CreateShell, ShellInv, OtherTypes
  <2>2. (PartsOf(s))'
    BY <1>1, <2>1 DEF PartsOf, Exists, Parts
  <2>3. (TasksOf(s))'
    BY <1>1, <1>6, <2>1 DEF TasksOf, Exists, Parts, TaskNames, LifeOf
  <2>4. s \notin handlers
    BY <1>1 DEF LifeOf
  <2> QED
    BY <2>1, <2>2, <2>3, <2>4 DEF LifeOf
<1>9. \A r \in ShellIds : r # s =>
         Untouched(r) /\ \A name \in TaskNames : Pending(name, r)' <=> Pending(name, r)
  BY <1>6 DEF CreateShell, Untouched, Exists, ShellInv, OtherTypes
<1>10. CallInv'
  BY <1>6 DEF CreateShell, ShellInv, CallInv, TaskNames
<1> QED
  BY <1>4, <1>5, <1>7, <1>8, <1>9, <1>10, OneLifeMoves DEF ShellInv
LEMMA SetupOK ==
  ASSUME ShellInv, NEW s \in ShellIds, SetupShell(s)
  PROVE  ShellInv'
<1>1. LifeOf(s) /\ OtherTypes /\ CallInv
  BY DEF ShellInv
<1>2. /\ Ordered(shellTasks')
      /\ \A n \in TaskNames, r \in ShellIds :
            Pending(n, r)' <=> Pending(n, r) \/ (n = "launch" /\ r = s)
  <2>1. /\ "launch" \in TaskNames \ (Unrepeated \cup {"handle", "setup"})
        /\ "ui" \in ShellThreads /\ Home("launch") = "ui"
    BY DEF TaskNames, Unrepeated, ShellThreads, Home
  <2>2. Posted("ui", "launch", s)
    BY DEF SetupShell
  <2> QED
    BY <2>1, <2>2, Posting
<1>3. OtherTypes'
  BY <1>1 DEF SetupShell, OtherTypes, Creating, Destroying, Asked
<1>4. LifeOf(s)'
  <2>1. stage'[s] = "running" /\ UNCHANGED alive /\ handlers' \subseteq handlers
    BY <1>1 DEF SetupShell, OtherTypes
  <2>2. PartsOf(s)'
    BY <1>1, <2>1 DEF SetupShell, LifeOf, PartsOf, Exists, Parts
  <2>3. TasksOf(s)'
    BY <1>1, <1>2, <2>1 DEF SetupShell, LifeOf, PartsOf, TasksOf, Exists, Parts, TaskNames
  <2>4. s \in handlers' => stage'[s] \in {"running", "removing"}
    BY <1>1, <2>1 DEF SetupShell, LifeOf
  <2> QED
    BY <2>2, <2>3, <2>4 DEF LifeOf
<1>5. \A r \in ShellIds : r # s =>
         Untouched(r) /\ \A name \in TaskNames : Pending(name, r)' <=> Pending(name, r)
  BY <1>1, <1>2 DEF SetupShell, Untouched, Exists, OtherTypes
<1>6. CallInv'
  BY <1>1, <1>2 DEF SetupShell, CallInv, TaskNames, HandlersUnlocked
<1> QED
  BY <1>2, <1>3, <1>4, <1>5, <1>6, OneLifeMoves DEF ShellInv

LEMMA PostSetupOK ==
  ASSUME ShellInv, NEW s \in ShellIds, PostSetup(s)
  PROVE  ShellInv'
<1>1. LifeOf(s) /\ OtherTypes /\ CallInv
  BY DEF ShellInv
<1>2. /\ Ordered(shellTasks')
      /\ \A n \in TaskNames, r \in ShellIds :
            Pending(n, r)' <=> Pending(n, r) \/ (n = "setup" /\ r = s)
  BY <1>1, Posting DEF PostSetup, LifeOf, TasksOf, Home, TaskNames, ShellThreads, Unrepeated
<1>3. OtherTypes'
  BY <1>1, EventsAssumption DEF PostSetup, OtherTypes, Creating, Destroying, Asked
<1>4. LifeOf(s)'
  <2>1. stage'[s] = "running" /\ UNCHANGED alive /\ handlers' \subseteq handlers
    BY <1>1 DEF PostSetup, OtherTypes
  <2>2. PartsOf(s)'
    BY <1>1, <2>1 DEF PostSetup, LifeOf, PartsOf, Exists, Parts
  <2>3. TasksOf(s)'
    BY <1>1, <1>2, <2>1 DEF PostSetup, LifeOf, PartsOf, TasksOf, Exists, Parts, TaskNames
  <2>4. s \in handlers' => stage'[s] \in {"running", "removing"}
    BY <1>1, <2>1 DEF PostSetup, LifeOf
  <2> QED
    BY <2>2, <2>3, <2>4 DEF LifeOf
<1>5. \A r \in ShellIds : r # s =>
         Untouched(r) /\ \A name \in TaskNames : Pending(name, r)' <=> Pending(name, r)
  BY <1>1, <1>2 DEF PostSetup, Untouched, Exists, OtherTypes
<1>6. CallInv'
  BY <1>1, <1>2 DEF PostSetup, CallInv, TaskNames, HandlersUnlocked
<1> QED
  BY <1>2, <1>3, <1>4, <1>5, <1>6, OneLifeMoves DEF ShellInv

LEMMA RemoveHandlerOK ==
  ASSUME ShellInv, NEW s \in ShellIds, RemoveHandler(s)
  PROVE  ShellInv'
<1>1. LifeOf(s) /\ OtherTypes /\ CallInv
  BY DEF ShellInv
<1>2. /\ Ordered(shellTasks')
      /\ \A n \in TaskNames, r \in ShellIds :
            Pending(n, r)' <=> Pending(n, r) \/ (n = "resetEngine" /\ r = s)
  BY <1>1, Posting DEF RemoveHandler, LifeOf, TasksOf, Home, TaskNames, ShellThreads, Unrepeated
<1>3. OtherTypes'
  BY <1>1 DEF RemoveHandler, OtherTypes, Creating, Destroying, Asked
<1>4. LifeOf(s)'
  <2>1. stage'[s] = "engine" /\ UNCHANGED alive /\ handlers' \subseteq handlers
    BY <1>1 DEF RemoveHandler, OtherTypes
  <2>2. PartsOf(s)'
    BY <1>1, <2>1 DEF RemoveHandler, LifeOf, PartsOf, Exists, Parts
  <2>3. TasksOf(s)'
    BY <1>1, <1>2, <2>1 DEF RemoveHandler, LifeOf, PartsOf, TasksOf, Exists, Parts, TaskNames
  <2>4. s \in handlers' => stage'[s] \in {"running", "removing"}
    BY <1>1, <2>1 DEF RemoveHandler, LifeOf
  <2> QED
    BY <2>2, <2>3, <2>4 DEF LifeOf
<1>5. \A r \in ShellIds : r # s =>
         Untouched(r) /\ \A name \in TaskNames : Pending(name, r)' <=> Pending(name, r)
  BY <1>1, <1>2 DEF RemoveHandler, Untouched, Exists, OtherTypes
<1>6. CallInv'
  BY <1>1, <1>2 DEF RemoveHandler, CallInv, TaskNames, HandlersUnlocked
<1> QED
  BY <1>2, <1>3, <1>4, <1>5, <1>6, OneLifeMoves DEF ShellInv

LEMMA PostRasterizerResetOK ==
  ASSUME ShellInv, NEW s \in ShellIds, PostRasterizerReset(s)
  PROVE  ShellInv'
<1>1. LifeOf(s) /\ OtherTypes /\ CallInv
  BY DEF ShellInv
<1>2. /\ Ordered(shellTasks')
      /\ \A n \in TaskNames, r \in ShellIds :
            Pending(n, r)' <=> Pending(n, r) \/ (n = "resetRasterizer" /\ r = s)
  BY <1>1, Posting DEF PostRasterizerReset, LifeOf, TasksOf, Home, TaskNames, ShellThreads, Unrepeated
<1>3. OtherTypes'
  BY <1>1 DEF PostRasterizerReset, OtherTypes, Creating, Destroying, Asked
<1>4. LifeOf(s)'
  <2>1. stage'[s] = "raster" /\ UNCHANGED alive /\ handlers' \subseteq handlers
    BY <1>1 DEF PostRasterizerReset, OtherTypes
  <2>2. PartsOf(s)'
    BY <1>1, <2>1 DEF PostRasterizerReset, LifeOf, PartsOf, Exists, Parts
  <2>3. TasksOf(s)'
    BY <1>1, <1>2, <2>1 DEF PostRasterizerReset, LifeOf, PartsOf, TasksOf, Exists, Parts, TaskNames
  <2>4. s \in handlers' => stage'[s] \in {"running", "removing"}
    BY <1>1, <2>1 DEF PostRasterizerReset, LifeOf
  <2> QED
    BY <2>2, <2>3, <2>4 DEF LifeOf
<1>5. \A r \in ShellIds : r # s =>
         Untouched(r) /\ \A name \in TaskNames : Pending(name, r)' <=> Pending(name, r)
  BY <1>1, <1>2 DEF PostRasterizerReset, Untouched, Exists, OtherTypes
<1>6. CallInv'
  BY <1>1, <1>2 DEF PostRasterizerReset, CallInv, TaskNames, HandlersUnlocked
<1> QED
  BY <1>2, <1>3, <1>4, <1>5, <1>6, OneLifeMoves DEF ShellInv

LEMMA PostIOManagerResetOK ==
  ASSUME ShellInv, NEW s \in ShellIds, PostIOManagerReset(s)
  PROVE  ShellInv'
<1>1. LifeOf(s) /\ OtherTypes /\ CallInv
  BY DEF ShellInv
<1>2. /\ Ordered(shellTasks')
      /\ \A n \in TaskNames, r \in ShellIds :
            Pending(n, r)' <=> Pending(n, r) \/ (n = "resetIOManager" /\ r = s)
  BY <1>1, Posting DEF PostIOManagerReset, LifeOf, TasksOf, Home, TaskNames, ShellThreads, Unrepeated
<1>3. OtherTypes'
  BY <1>1 DEF PostIOManagerReset, OtherTypes, Creating, Destroying, Asked
<1>4. LifeOf(s)'
  <2>1. stage'[s] = "io" /\ UNCHANGED alive /\ handlers' \subseteq handlers
    BY <1>1 DEF PostIOManagerReset, OtherTypes
  <2>2. PartsOf(s)'
    BY <1>1, <2>1 DEF PostIOManagerReset, LifeOf, PartsOf, Exists, Parts
  <2>3. TasksOf(s)'
    BY <1>1, <1>2, <2>1 DEF PostIOManagerReset, LifeOf, PartsOf, TasksOf, Exists, Parts, TaskNames
  <2>4. s \in handlers' => stage'[s] \in {"running", "removing"}
    BY <1>1, <2>1 DEF PostIOManagerReset, LifeOf
  <2> QED
    BY <2>2, <2>3, <2>4 DEF LifeOf
<1>5. \A r \in ShellIds : r # s =>
         Untouched(r) /\ \A name \in TaskNames : Pending(name, r)' <=> Pending(name, r)
  BY <1>1, <1>2 DEF PostIOManagerReset, Untouched, Exists, OtherTypes
<1>6. CallInv'
  BY <1>1, <1>2 DEF PostIOManagerReset, CallInv, TaskNames, HandlersUnlocked
<1> QED
  BY <1>2, <1>3, <1>4, <1>5, <1>6, OneLifeMoves DEF ShellInv

LEMMA PostDrawOK ==
  ASSUME ShellInv, NEW s \in ShellIds, PostDraw(s)
  PROVE  ShellInv'
<1>1. LifeOf(s) /\ OtherTypes /\ CallInv
  BY DEF ShellInv
<1>2. /\ Ordered(shellTasks')
      /\ \A n \in TaskNames, r \in ShellIds :
            Pending(n, r)' <=> Pending(n, r) \/ (n = "draw" /\ r = s)
  <2>1. /\ "draw" \in TaskNames \ (Unrepeated \cup {"handle", "setup"})
        /\ "raster" \in ShellThreads /\ Home("draw") = "raster"
    BY DEF TaskNames, Unrepeated, ShellThreads, Home
  <2>2. Posted("raster", "draw", s)
    BY DEF PostDraw
  <2> QED
    BY <2>1, <2>2, Posting
<1>3. OtherTypes'
  BY <1>1, EventsAssumption DEF PostDraw, OtherTypes, Creating, Destroying, Asked
<1>4. LifeOf(s)'
  <2>1. stage'[s] = stage[s] /\ UNCHANGED alive /\ handlers' \subseteq handlers
    BY <1>1 DEF PostDraw, OtherTypes
  <2>2. PartsOf(s)'
    BY <1>1, <2>1 DEF PostDraw, LifeOf, PartsOf, Exists, Parts
  <2>3. TasksOf(s)'
    BY <1>1, <1>2, <2>1 DEF PostDraw, LifeOf, PartsOf, TasksOf, Exists, Parts, TaskNames
  <2>4. s \in handlers' => stage'[s] \in {"running", "removing"}
    BY <1>1, <2>1 DEF PostDraw, LifeOf
  <2> QED
    BY <2>2, <2>3, <2>4 DEF LifeOf
<1>5. \A r \in ShellIds : r # s =>
         Untouched(r) /\ \A name \in TaskNames : Pending(name, r)' <=> Pending(name, r)
  BY <1>1, <1>2 DEF PostDraw, Untouched, Exists, OtherTypes
<1>6. CallInv'
  BY <1>1, <1>2 DEF PostDraw, CallInv, TaskNames, HandlersUnlocked
<1> QED
  BY <1>2, <1>3, <1>4, <1>5, <1>6, OneLifeMoves DEF ShellInv

LEMMA DestroyOK ==
  ASSUME ShellInv, NEW s \in ShellIds, DestroyShell(s)
  PROVE  ShellInv'
<1>1. LifeOf(s) /\ OtherTypes /\ CallInv /\ Ordered(shellTasks)
  BY DEF ShellInv
<1>2. \A n, r : Pending(n, r)' <=> Pending(n, r)
  BY DEF DestroyShell, Pending
<1>3. OtherTypes' /\ Ordered(shellTasks')
  BY <1>1 DEF DestroyShell, OtherTypes, Creating, Destroying
<1>4. LifeOf(s)'
  <2>1. stage'[s] = "removing" /\ UNCHANGED <<alive, handlers>>
    BY <1>1 DEF DestroyShell, OtherTypes
  <2>2. PartsOf(s)'
    BY <1>1, <2>1 DEF DestroyShell, LifeOf, PartsOf, Exists, Parts
  <2>3. TasksOf(s)'
    BY <1>1, <1>2, <2>1 DEF DestroyShell, LifeOf, PartsOf, TasksOf, Exists, Parts
  <2>4. s \in handlers' => stage'[s] \in {"running", "removing"}
    BY <1>1, <2>1 DEF DestroyShell, LifeOf
  <2> QED
    BY <2>2, <2>3, <2>4 DEF LifeOf
<1>5. \A r \in ShellIds : r # s =>
         Untouched(r) /\ \A name \in TaskNames : Pending(name, r)' <=> Pending(name, r)
  BY <1>1, <1>2 DEF DestroyShell, Untouched, Exists, OtherTypes
<1>6. CallInv'
  BY <1>1, <1>2 DEF DestroyShell, CallInv
<1> QED
  BY <1>3, <1>4, <1>5, <1>6, OneLifeMoves DEF ShellInv

LEMMA FreeOK ==
  ASSUME ShellInv, NEW s \in ShellIds, FreeShell(s)
  PROVE  ShellInv'
<1>1. LifeOf(s) /\ OtherTypes /\ CallInv /\ Ordered(shellTasks)
  BY DEF ShellInv
<1>2. \A n, r : Pending(n, r)' <=> Pending(n, r)
  BY DEF FreeShell, Pending
<1>3. OtherTypes' /\ Ordered(shellTasks')
  BY <1>1 DEF FreeShell, OtherTypes, Creating, Destroying
<1>4. LifeOf(s)'
  <2>1. stage'[s] = "freed" /\ UNCHANGED <<alive, handlers>>
    BY <1>1 DEF FreeShell, OtherTypes
  <2>2. PartsOf(s)'
    BY <1>1, <2>1 DEF FreeShell, LifeOf, PartsOf, Exists, Parts
  <2>3. TasksOf(s)'
    BY <1>1, <1>2, <2>1 DEF FreeShell, LifeOf, PartsOf, TasksOf, Exists, Parts
  <2>4. s \in handlers' => stage'[s] \in {"running", "removing"}
    BY <1>1, <2>1 DEF FreeShell, LifeOf
  <2> QED
    BY <2>2, <2>3, <2>4 DEF LifeOf
<1>5. \A r \in ShellIds : r # s =>
         Untouched(r) /\ \A name \in TaskNames : Pending(name, r)' <=> Pending(name, r)
  BY <1>1, <1>2 DEF FreeShell, Untouched, Exists, OtherTypes
<1>6. CallInv'
  BY <1>1, <1>2 DEF FreeShell, CallInv
<1> QED
  BY <1>3, <1>4, <1>5, <1>6, OneLifeMoves DEF ShellInv

LEMMA HandleMessageOK ==
  ASSUME ShellInv, NEW s \in ShellIds, NEW method \in Methods, HandleMessage(s, method)
  PROVE  ShellInv'
<1>1. LifeOf(s) /\ OtherTypes /\ CallInv
  BY DEF ShellInv
<1>2. HandlerThread[method] \in ShellThreads /\ method # "none"
  BY MethodsAssumption DEF HandlerThread, ShellThreads
<1>3. /\ Ordered(shellTasks')
      /\ \A n \in TaskNames, r \in ShellIds :
            Pending(n, r)' <=> Pending(n, r) \/ (n = "handle" /\ r = s)
  BY <1>1, <1>2, Posting DEF HandleMessage, UiIdle, TaskNames
<1>4. call' # NoCall /\ call'.shell = s /\ call' \in Calls
  BY <1>2 DEF HandleMessage, NoCall, Calls
<1>5. OtherTypes'
  BY <1>1, <1>4, EventsAssumption DEF HandleMessage, OtherTypes, Asked
<1>6. \A name \in TaskNames, r \in ShellIds :
         name # "handle" => (Pending(name, r)' <=> Pending(name, r))
  BY <1>3
<1>7. LifeOf(s)'
  <2>1. PartsOf(s)'
    BY <1>1 DEF HandleMessage, LifeOf, PartsOf, Exists
  <2>2. TasksOf(s)'
    BY <1>1, <1>6 DEF HandleMessage, LifeOf, TasksOf, Exists, TaskNames
  <2> QED
    BY <1>1, <2>1, <2>2 DEF HandleMessage, LifeOf
<1>8. \A r \in ShellIds : r # s =>
         Untouched(r) /\ \A name \in TaskNames : Pending(name, r)' <=> Pending(name, r)
  BY <1>3 DEF HandleMessage, Untouched, Exists
<1>9. CallInv'
  <2>1. \A r \in ShellIds : Pending("handle", r)' => r = s
    BY <1>1, <1>3 DEF HandleMessage, UiIdle, CallInv, TaskNames
  <2> QED
    BY <1>4, <2>1 DEF HandleMessage, CallInv
<1> QED
  BY <1>3, <1>5, <1>7, <1>8, <1>9, OneLifeMoves DEF ShellInv

-----------------------------------------------------------------------------
(***************************************************************************)
(* The tasks.                                                              *)
(***************************************************************************)
\* A task that leaves the stages, the table and the call as they are.
LEMMA TaskDone ==
  ASSUME ShellInv, NEW thread \in ShellThreads, NEW name \in TaskNames \ {"handle"},
         NEW s \in ShellIds,
         RunsNext(thread, name, s), Finished(thread),
         UNCHANGED <<stage, handlers, added, call, events>>,
         alive' \subseteq ShellIds \X Parts,
         \A r \in ShellIds, part \in Parts : r # s => (Exists(r, part)' <=> Exists(r, part)),
         PartsOf(s)', TasksOf(s)'
  PROVE  ShellInv'
<1>1. shellTasks' = Taken(shellTasks, thread)
  BY DEF Finished, Taken
<1>2. /\ Ordered(shellTasks')
      /\ \A n \in TaskNames, r \in ShellIds :
            ~(n = name /\ r = s) => (Pending(n, r)' <=> Pending(n, r))
  BY <1>1, Taking DEF Pending
<1>3. OtherTypes'
  BY DEF ShellInv, OtherTypes
<1>4. LifeOf(s)'
  BY DEF ShellInv, LifeOf
<1>5. \A r \in ShellIds : r # s =>
         Untouched(r) /\ \A n \in TaskNames : Pending(n, r)' <=> Pending(n, r)
  BY <1>2 DEF Untouched
<1>6. CallInv'
  BY <1>2 DEF ShellInv, CallInv, TaskNames
<1> QED
  BY <1>2, <1>3, <1>4, <1>5, <1>6, OneLifeMoves DEF ShellInv

LEMMA RunMakeOK ==
  ASSUME ShellInv, NEW s \in ShellIds, NEW name \in DOMAIN Makes, RunMake(name, s)
  PROVE  ShellInv'
<1> DEFINE thread == Makes[name][1]
           part == Makes[name][2]
<1>1. \/ name = "makeRasterizer" /\ thread = "raster" /\ part = "rasterizer"
      \/ name = "makeIOManager" /\ thread = "io" /\ part = "io manager"
      \/ name = "makeEngine" /\ thread = "ui" /\ part = "engine"
  <2>1. name \in {"makeRasterizer", "makeIOManager", "makeEngine"}
    BY DEF Makes
  <2>2. CASE name = "makeRasterizer"
    BY <2>2 DEF Makes
  <2>3. CASE name = "makeIOManager"
    BY <2>3 DEF Makes
  <2>4. CASE name = "makeEngine"
    BY <2>4 DEF Makes
  <2> QED
    BY <2>1, <2>2, <2>3, <2>4
<1>2. /\ RunsNext(thread, name, s) /\ Finished(thread)
      /\ thread = "ui" => Exists(s, "rasterizer") /\ Exists(s, "io manager")
      /\ alive' = alive \cup {<<s, part>>}
      /\ UNCHANGED <<stage, handlers, added, call, events>>
  BY DEF RunMake
<1> HIDE DEF thread, part
<1>3. /\ thread \in ShellThreads /\ name \in TaskNames \ {"handle"}
      /\ name \in Unrepeated /\ part \in Parts
  BY <1>1 DEF ShellThreads, TaskNames, Unrepeated, Parts
<1>4. shellTasks' = Taken(shellTasks, thread)
  BY <1>2 DEF Finished, Taken
<1>5. /\ Pending(name, s) /\ ~Pending(name, s)'
      /\ \A n \in TaskNames : n # name => (Pending(n, s)' <=> Pending(n, s))
  BY <1>2, <1>3, <1>4, Taking DEF Pending
<1>6. LifeOf(s) /\ stage[s] = "starting" /\ ~Exists(s, part)
  BY <1>1, <1>5 DEF ShellInv, LifeOf, TasksOf
<1>7. Exists(s, part)' /\ \A p \in Parts : p # part => (Exists(s, p)' <=> Exists(s, p))
  BY <1>2 DEF Exists
<1>8. PartsOf(s)'
  BY <1>1, <1>2, <1>6, <1>7 DEF LifeOf, PartsOf, Parts
<1>9. TasksOf(s)'
  BY <1>1, <1>2, <1>5, <1>6, <1>7 DEF LifeOf, TasksOf, Parts, TaskNames
<1>10. /\ alive' \subseteq ShellIds \X Parts
       /\ \A r \in ShellIds, p \in Parts : r # s => (Exists(r, p)' <=> Exists(r, p))
  <2>1. alive \subseteq ShellIds \X Parts /\ <<s, part>> \in ShellIds \X Parts
    BY <1>3 DEF ShellInv, OtherTypes
  <2>2. \A r \in ShellIds, p \in Parts : r # s => <<r, p>> # <<s, part>>
    OBVIOUS
  <2> QED
    BY <1>2, <2>1, <2>2 DEF Exists
<1> QED
  BY <1>2, <1>3, <1>8, <1>9, <1>10, TaskDone

LEMMA RunResetOK ==
  ASSUME ShellInv, NEW s \in ShellIds, NEW name \in DOMAIN Resets, RunReset(name, s)
  PROVE  ShellInv'
<1> DEFINE thread == Resets[name][1]
           part == Resets[name][2]
<1>1. \/ name = "resetRasterizer" /\ thread = "raster" /\ part = "rasterizer"
      \/ name = "resetIOManager" /\ thread = "io" /\ part = "io manager"
      \/ name = "resetEngine" /\ thread = "ui" /\ part = "engine"
  <2>1. name \in {"resetRasterizer", "resetIOManager", "resetEngine"}
    BY DEF Resets
  <2>2. CASE name = "resetRasterizer"
    BY <2>2 DEF Resets
  <2>3. CASE name = "resetIOManager"
    BY <2>3 DEF Resets
  <2>4. CASE name = "resetEngine"
    BY <2>4 DEF Resets
  <2> QED
    BY <2>1, <2>2, <2>3, <2>4
<1>2. /\ RunsNext(thread, name, s) /\ Finished(thread)
      /\ alive' = alive \ {<<s, part>>}
      /\ UNCHANGED <<stage, handlers, added, call, events>>
  BY DEF RunReset
<1> HIDE DEF thread, part
<1>3. /\ thread \in ShellThreads /\ name \in TaskNames \ {"handle"}
      /\ name \in Unrepeated /\ part \in Parts
  BY <1>1 DEF ShellThreads, TaskNames, Unrepeated, Parts
<1>4. shellTasks' = Taken(shellTasks, thread)
  BY <1>2 DEF Finished, Taken
<1>5. /\ Pending(name, s) /\ ~Pending(name, s)'
      /\ name = "resetRasterizer" => ~Pending("setup", s)
      /\ \A n \in TaskNames : n # name => (Pending(n, s)' <=> Pending(n, s))
  BY <1>2, <1>3, <1>4, Taking DEF Pending
<1>6. /\ LifeOf(s) /\ Exists(s, part)
      /\ name = "resetEngine" => stage[s] = "engine"
      /\ name = "resetRasterizer" => stage[s] = "raster"
      /\ name = "resetIOManager" => stage[s] = "io"
  BY <1>1, <1>5 DEF ShellInv, LifeOf, TasksOf
<1>7. ~Exists(s, part)' /\ \A p \in Parts : p # part => (Exists(s, p)' <=> Exists(s, p))
  BY <1>2 DEF Exists
<1>8. PartsOf(s)'
  BY <1>1, <1>2, <1>6, <1>7 DEF LifeOf, PartsOf, Parts
<1>9. TasksOf(s)'
  BY <1>1, <1>2, <1>5, <1>6, <1>7 DEF LifeOf, TasksOf, Parts, TaskNames
<1>10. /\ alive' \subseteq ShellIds \X Parts
       /\ \A r \in ShellIds, p \in Parts : r # s => (Exists(r, p)' <=> Exists(r, p))
  BY <1>2 DEF ShellInv, OtherTypes, Exists
<1> QED
  BY <1>2, <1>3, <1>8, <1>9, <1>10, TaskDone

LEMMA RunDrawOK ==
  ASSUME ShellInv, NEW s \in ShellIds, NEW name \in {"setup", "draw"}, RunDraw(name, s)
  PROVE  ShellInv'
<1>1. /\ RunsNext("raster", name, s) /\ Finished("raster")
      /\ UNCHANGED <<stage, alive, handlers, added, call, events>>
  BY DEF RunDraw
<1>2. "raster" \in ShellThreads /\ name \in TaskNames \ {"handle"}
  BY DEF ShellThreads, TaskNames
<1>3. shellTasks' = Taken(shellTasks, "raster")
  BY <1>1 DEF Finished, Taken
<1>4. \A n \in TaskNames : /\ Pending(n, s)' => Pending(n, s)
                           /\ n # name => (Pending(n, s)' <=> Pending(n, s))
  BY <1>1, <1>2, <1>3, Taking DEF Pending
<1>5. LifeOf(s)
  BY DEF ShellInv
<1>6. PartsOf(s)'
  BY <1>1, <1>5 DEF LifeOf, PartsOf, Exists
<1>7. TasksOf(s)'
  BY <1>1, <1>4, <1>5 DEF LifeOf, TasksOf, Exists, TaskNames
<1>8. /\ alive' \subseteq ShellIds \X Parts
      /\ \A r \in ShellIds, p \in Parts : Exists(r, p)' <=> Exists(r, p)
  BY <1>1 DEF ShellInv, OtherTypes, Exists
<1> QED
  BY <1>1, <1>2, <1>6, <1>7, <1>8, TaskDone

LEMMA RunLaunchOK ==
  ASSUME ShellInv, NEW s \in ShellIds, RunLaunch(s)
  PROVE  ShellInv'
<1> DEFINE taken == Taken(shellTasks, "ui")
           posted == Post(taken, "platform", "addHandler", s)
<1>1. /\ LifeOf(s) /\ OtherTypes /\ CallInv
      /\ RunsNext("ui", "launch", s) /\ UNCHANGED <<stage, alive, handlers, call, events>>
  BY DEF ShellInv, RunLaunch
<1>2. /\ {"launch", "addHandler"} \subseteq TaskNames \ (Unrepeated \cup {"handle", "setup"})
      /\ {"ui", "platform"} \subseteq ShellThreads /\ Home("addHandler") = "platform"
  BY DEF TaskNames, Unrepeated, ShellThreads, Home
<1>3. /\ Ordered(taken) /\ Pending("launch", s)
      /\ \A n \in TaskNames, r \in ShellIds :
            /\ Waits(taken, n, r) => Pending(n, r)
            /\ ~(n = "launch" /\ r = s) => (Waits(taken, n, r) <=> Pending(n, r))
  BY <1>1, <1>2, Taking
<1> HIDE DEF taken
<1>4. /\ Ordered(posted)
      /\ \A n \in TaskNames, r \in ShellIds :
            Waits(posted, n, r) <=> Waits(taken, n, r) \/ (n = "addHandler" /\ r = s)
  BY <1>2, <1>3, PostedTask
<1>5. shellTasks' \in {taken, posted}
  BY DEF RunLaunch, Finished, Taken, taken
<1> HIDE DEF posted
<1>6. /\ Ordered(shellTasks')
      /\ \A n \in TaskNames, r \in ShellIds :
            /\ Pending(n, r)' => Pending(n, r) \/ (n = "addHandler" /\ r = s)
            /\ r # s \/ n \notin {"launch", "addHandler"} => (Pending(n, r)' <=> Pending(n, r))
  BY <1>3, <1>4, <1>5 DEF Pending
<1>7. OtherTypes'
  BY <1>1 DEF RunLaunch, OtherTypes
<1>8. LifeOf(s)'
  <2>1. PartsOf(s)'
    BY <1>1 DEF LifeOf, PartsOf, Exists
  <2>2. TasksOf(s)'
    BY <1>1, <1>3, <1>6 DEF LifeOf, TasksOf, Exists, TaskNames
  <2> QED
    BY <1>1, <2>1, <2>2 DEF LifeOf
<1>9. \A r \in ShellIds : r # s =>
         Untouched(r) /\ \A n \in TaskNames : Pending(n, r)' <=> Pending(n, r)
  BY <1>1, <1>6 DEF Untouched, Exists
<1>10. CallInv'
  BY <1>1, <1>6 DEF CallInv, TaskNames
<1> QED
  BY <1>6, <1>7, <1>8, <1>9, <1>10, OneLifeMoves DEF ShellInv

LEMMA AddHandlerOK ==
  ASSUME ShellInv, NEW s \in ShellIds, AddHandler(s)
  PROVE  ShellInv'
<1>1. /\ LifeOf(s) /\ OtherTypes /\ CallInv
      /\ RunsNext("platform", "addHandler", s) /\ Finished("platform")
      /\ UNCHANGED <<stage, alive, added, call, events>>
  BY DEF ShellInv, AddHandler
<1>2. "addHandler" \in TaskNames \ {"handle"} /\ "platform" \in ShellThreads
  BY DEF TaskNames, ShellThreads
<1>3. shellTasks' = Taken(shellTasks, "platform")
  BY <1>1 DEF Finished, Taken
<1>4. /\ Ordered(shellTasks') /\ Pending("addHandler", s)
      /\ \A n \in TaskNames, r \in ShellIds :
            /\ Pending(n, r)' => Pending(n, r)
            /\ n # "addHandler" \/ r # s => (Pending(n, r)' <=> Pending(n, r))
  BY <1>1, <1>2, <1>3, Taking DEF Pending
<1>5. stage[s] \in {"running", "freed"}
  <2>1. /\ stage[s] \in {"none", "running", "freed"} \cup Creating \cup Destroying
        /\ stage[s] \notin Creating \cup Destroying /\ stage[s] # "none"
    BY <1>1, <1>4 DEF AddHandler, PlatformIdle, OtherTypes, LifeOf, TasksOf
  <2> QED
    BY <2>1
<1>6. /\ handlers \subseteq handlers' /\ handlers' \subseteq handlers \cup {s}
      /\ s \in handlers' => s \in handlers \/ stage[s] = "running"
  BY <1>5 DEF AddHandler
<1>7. OtherTypes'
  BY <1>1, <1>6 DEF OtherTypes
<1>8. LifeOf(s)'
  <2>1. PartsOf(s)'
    BY <1>1 DEF LifeOf, PartsOf, Exists
  <2>2. TasksOf(s)'
    BY <1>1, <1>4 DEF LifeOf, TasksOf, Exists, TaskNames
  <2> QED
    BY <1>1, <1>6, <2>1, <2>2 DEF LifeOf
<1>9. \A r \in ShellIds : r # s =>
         Untouched(r) /\ \A n \in TaskNames : Pending(n, r)' <=> Pending(n, r)
  BY <1>1, <1>4, <1>6 DEF Untouched, Exists
<1>10. CallInv'
  BY <1>1, <1>4, <1>6 DEF CallInv, TaskNames
<1> QED
  BY <1>4, <1>7, <1>8, <1>9, <1>10, OneLifeMoves DEF ShellInv

LEMMA RunServiceHandlerOK ==
  ASSUME ShellInv, NEW thread \in ShellThreads, NEW s \in ShellIds,
         RunServiceHandler(thread, s)
  PROVE  ShellInv'
<1>1. /\ LifeOf(s) /\ OtherTypes /\ CallInv
      /\ RunsNext(thread, "handle", s) /\ Finished(thread)
      /\ call' = NoCall /\ UNCHANGED <<stage, alive, handlers, added, events>>
  BY DEF ShellInv, RunServiceHandler
<1>2. "handle" \in TaskNames /\ "handle" \in Unrepeated
  BY DEF TaskNames, Unrepeated
<1>3. shellTasks' = Taken(shellTasks, thread)
  BY <1>1 DEF Finished, Taken
<1>4. /\ Ordered(shellTasks') /\ Pending("handle", s) /\ ~Pending("handle", s)'
      /\ \A n \in TaskNames, r \in ShellIds :
            /\ Pending(n, r)' => Pending(n, r)
            /\ n # "handle" \/ r # s => (Pending(n, r)' <=> Pending(n, r))
  BY <1>1, <1>2, <1>3, Taking DEF Pending
<1>5. OtherTypes'
  BY <1>1 DEF OtherTypes
<1>6. LifeOf(s)'
  <2>1. PartsOf(s)'
    BY <1>1 DEF LifeOf, PartsOf, Exists
  <2>2. TasksOf(s)'
    BY <1>1, <1>4 DEF LifeOf, TasksOf, Exists, TaskNames
  <2> QED
    BY <1>1, <2>1, <2>2 DEF LifeOf
<1>7. \A r \in ShellIds : r # s =>
         Untouched(r) /\ \A n \in TaskNames : Pending(n, r)' <=> Pending(n, r)
  BY <1>1, <1>4 DEF Untouched, Exists
\* All handlers are for the one call.
<1>8. CallInv'
  <2>1. ASSUME NEW r \in ShellIds, Pending("handle", r)' PROVE FALSE
    BY <1>1, <1>2, <1>4, <2>1 DEF CallInv
  <2> QED
    BY <1>1, <2>1 DEF CallInv
<1> QED
  BY <1>4, <1>5, <1>6, <1>7, <1>8, OneLifeMoves DEF ShellInv

LEMMA ShellStutterOK == ShellInv /\ UNCHANGED shellVars => ShellInv'
<1>1. SUFFICES ASSUME ShellInv, UNCHANGED shellVars PROVE ShellInv'
  OBVIOUS
<1>2. OtherTypes' /\ Ordered(shellTasks')
  BY <1>1 DEF ShellInv, shellVars, OtherTypes
<1>3. \A n, r : Pending(n, r)' <=> Pending(n, r)
  BY <1>1 DEF shellVars, Pending
<1>4. ASSUME NEW s \in ShellIds PROVE LifeOf(s)'
  <2>1. LifeOf(s)
    BY <1>1 DEF ShellInv
  <2>2. PartsOf(s)'
    BY <1>1, <2>1 DEF shellVars, LifeOf, PartsOf, Exists
  <2>3. TasksOf(s)'
    BY <1>1, <1>3, <2>1 DEF shellVars, LifeOf, TasksOf, Exists
  <2> QED
    BY <1>1, <2>1, <2>2, <2>3 DEF shellVars, LifeOf
<1>5. CallInv'
  BY <1>1, <1>3 DEF ShellInv, shellVars, CallInv
<1> QED
  BY <1>2, <1>4, <1>5 DEF ShellInv

LEMMA ShellStepOK == ShellInv /\ [ShellNext]_shellVars => ShellInv'
<1>1. SUFFICES ASSUME ShellInv, [ShellNext]_shellVars PROVE ShellInv'
  OBVIOUS
<1>2. ASSUME NEW s \in ShellIds,
             \/ CreateShell(s) \/ DestroyShell(s) \/ PostSetup(s) \/ PostDraw(s)
             \/ \E method \in Methods : HandleMessage(s, method)
      PROVE  ShellInv'
  BY <1>1, <1>2, CreateOK, DestroyOK, PostSetupOK, PostDrawOK, HandleMessageOK
<1>3. ASSUME NEW thread \in ShellThreads, ShellThreadStep(thread) PROVE ShellInv'
  <2>1. PICK s \in ShellIds :
           \/ RunServiceHandler(thread, s)
           \/ \E name \in DOMAIN Makes : RunMake(name, s)
           \/ \E name \in DOMAIN Resets : RunReset(name, s)
    BY <1>3, Zenon DEF ShellThreadStep
  <2>2. CASE RunServiceHandler(thread, s)
    BY <1>1, <2>2, RunServiceHandlerOK
  <2>3. CASE \E name \in DOMAIN Makes : RunMake(name, s)
    BY <1>1, <2>3, RunMakeOK
  <2>4. CASE \E name \in DOMAIN Resets : RunReset(name, s)
    BY <1>1, <2>4, RunResetOK
  <2> QED
    BY <2>1, <2>2, <2>3, <2>4
<1>4. CASE PlatformStep
  <2>1. ASSUME NEW s \in ShellIds,
               \/ SetupShell(s) \/ AddHandler(s) \/ RemoveHandler(s)
               \/ PostRasterizerReset(s) \/ PostIOManagerReset(s) \/ FreeShell(s)
        PROVE  ShellInv'
    BY <1>1, <2>1, SetupOK, AddHandlerOK, RemoveHandlerOK, PostRasterizerResetOK,
       PostIOManagerResetOK, FreeOK
  <2> QED
    BY <1>3, <1>4, <2>1 DEF PlatformStep, ShellThreads
<1>5. CASE UiStep
  BY <1>1, <1>3, <1>5, RunLaunchOK DEF UiStep, ShellThreads
<1>6. CASE RasterStep
  BY <1>1, <1>3, <1>6, RunDrawOK DEF RasterStep, ShellThreads
<1>7. CASE IoStep
  BY <1>3, <1>7 DEF IoStep, ShellThreads
<1>8. CASE UNCHANGED shellVars
  BY <1>1, <1>8, ShellStutterOK
<1> QED
  BY <1>1, <1>2, <1>4, <1>5, <1>6, <1>7, <1>8 DEF ShellNext

\* Whatever the order in which shells that share their threads are created, are
\* asked by the tools, and are destroyed: nothing that has a plain pointer to a
\* shell outlives it, a message finds all parts of its shell, and an engine finds
\* the rasterizer and the IO manager that it refers to.
THEOREM NobodyFindsLess == ShellSpec => []ShellSafety
<1>1. ShellInv => ShellSafety
  BY ShellInvSafe
<1> QED
  BY ShellInitOK, ShellStepOK, <1>1, PTL DEF ShellSpec

\* The type invariant of ShellLifecycle.
THEOREM ShellTypeCorrect == ShellSpec => []ShellTypeOK
<1>1. ShellInv => ShellTypeOK
  BY ShellInvSafe
<1> QED
  BY ShellInitOK, ShellStepOK, <1>1, PTL DEF ShellSpec

-----------------------------------------------------------------------------
(***************************************************************************)
(* The first frame and the timings of frames.                              *)
(*                                                                         *)
(* The timings are in order because the frames are drawn in order: every   *)
(* frame whose Draw task waits is later than all whose timings were kept.  *)
(***************************************************************************)
(***************************************************************************)
(* Sequences of timings.                                                   *)
(***************************************************************************)
\* The frames of a sequence that grows.
LEMMA FramesOfAppended ==
  ASSUME NEW S, NEW s \in Seq(S), NEW x \in S
  PROVE  FramesOf(Append(s, x)) = FramesOf(s) \cup {x}
<1> DEFINE new == Append(s, x)
<1>1. /\ Len(new) = Len(s) + 1 /\ Len(s) \in Nat /\ new[Len(s) + 1] = x
      /\ \A i \in 1..Len(s) : new[i] = s[i] /\ i \in 1..Len(new)
      /\ \A i \in 1..Len(new) : i \in 1..Len(s) \/ i = Len(s) + 1
      /\ Len(s) + 1 \in 1..Len(new)
  OBVIOUS
<1> HIDE DEF new
<1>2. FramesOf(new) \subseteq FramesOf(s) \cup {x}
  BY <1>1 DEF FramesOf
<1>3. FramesOf(s) \subseteq FramesOf(new) /\ x \in FramesOf(new)
  BY <1>1 DEF FramesOf
<1> QED
  BY <1>2, <1>3 DEF new

LEMMA FramesOfJoined ==
  ASSUME NEW S, NEW s \in Seq(S), NEW t \in Seq(S)
  PROVE  FramesOf(s \o t) = FramesOf(s) \cup FramesOf(t)
<1> DEFINE new == s \o t
<1>1. /\ Len(new) = Len(s) + Len(t) /\ Len(s) \in Nat /\ Len(t) \in Nat
      /\ \A i \in 1..Len(s) : new[i] = s[i] /\ i \in 1..Len(new)
      /\ \A i \in 1..Len(t) : new[Len(s) + i] = t[i] /\ Len(s) + i \in 1..Len(new)
      /\ \A i \in 1..Len(new) : i \in 1..Len(s) \/ (i - Len(s) \in 1..Len(t)
                                                   /\ new[i] = t[i - Len(s)])
  OBVIOUS
<1> HIDE DEF new
<1>2. \A i \in 1..Len(new) :
         \/ new[i] \in FramesOf(s)
         \/ i - Len(s) \in 1..Len(t) /\ new[i] = t[i - Len(s)]
  BY <1>1 DEF FramesOf
<1>3. FramesOf(new) \subseteq FramesOf(s) \cup FramesOf(t)
  BY Zenon, <1>2 DEF FramesOf
<1>4. FramesOf(s) \subseteq FramesOf(new)
  BY ZenonT(60), <1>1 DEF FramesOf
<1>5. FramesOf(t) \subseteq FramesOf(new)
  <2>1. \A i \in 1..Len(t) : t[i] = new[Len(s) + i] /\ Len(s) + i \in 1..Len(new)
    BY <1>1
  <2> QED
    BY Zenon, <2>1 DEF FramesOf
<1> QED
  BY <1>3, <1>4, <1>5 DEF new

LEMMA FramesOfNone == FramesOf(<<>>) = {} /\ Ascending(<<>>)
  BY DEF FramesOf, Ascending

LEMMA FramesAreTyped ==
  ASSUME NEW S, NEW s \in Seq(S)
  PROVE  FramesOf(s) \subseteq S
BY DEF FramesOf

\* A sequence that ascends, with a later frame or with later frames at its end.
LEMMA AppendedAscends ==
  ASSUME NEW s \in Seq(Frames), NEW x \in Frames, Ascending(s),
         \A f \in FramesOf(s) : f < x
  PROVE  Ascending(Append(s, x))
<1> DEFINE new == Append(s, x)
<1>1. /\ Len(new) = Len(s) + 1 /\ Len(s) \in Nat /\ new[Len(s) + 1] = x
      /\ \A i \in 1..Len(s) : new[i] = s[i] /\ s[i] < x
      /\ \A i \in 1..Len(new) : i \in 1..Len(s) \/ i = Len(s) + 1
  BY DEF FramesOf
<1> HIDE DEF new
<1>2. ASSUME NEW i \in 1..Len(new), NEW k \in 1..Len(new), i < k
      PROVE  new[i] < new[k]
  <2>1. i \in 1..Len(s)
    BY <1>1, <1>2
  <2>2. CASE k \in 1..Len(s)
    BY <1>1, <1>2, <2>1, <2>2 DEF Ascending
  <2>3. CASE k = Len(s) + 1
    BY <1>1, <2>1, <2>3
  <2> QED
    BY <1>1, <2>2, <2>3
<1> QED
  BY <1>2 DEF Ascending, new

LEMMA JoinedAscends ==
  ASSUME NEW s \in Seq(Frames), NEW t \in Seq(Frames), Ascending(s), Ascending(t), Before(s, t)
  PROVE  Ascending(s \o t)
<1> DEFINE new == s \o t
<1>1. /\ Len(new) = Len(s) + Len(t) /\ Len(s) \in Nat /\ Len(t) \in Nat
      /\ \A i \in 1..Len(s) : new[i] = s[i]
      /\ \A i \in 1..Len(new) : i \in 1..Len(s) \/ (i - Len(s) \in 1..Len(t)
                                                   /\ new[i] = t[i - Len(s)])
  OBVIOUS
<1>2. \A i \in 1..Len(s), k \in 1..Len(t) : s[i] < t[k]
  BY DEF Before, FramesOf
<1> HIDE DEF new
<1>3. ASSUME NEW i \in 1..Len(new), NEW k \in 1..Len(new), i < k
      PROVE  new[i] < new[k]
  <2>1. CASE i \in 1..Len(s) /\ k \in 1..Len(s)
    BY <1>1, <1>3, <2>1 DEF Ascending
  <2>2. CASE i \in 1..Len(s) /\ k \notin 1..Len(s)
    BY <1>1, <1>2, <2>2
  <2>3. CASE i \notin 1..Len(s)
    <3>1. k \notin 1..Len(s) /\ i - Len(s) < k - Len(s)
      BY <1>1, <1>3, <2>3
    <3> QED
      BY <1>1, <2>3, <3>1 DEF Ascending
  <2> QED
    BY <2>1, <2>2, <2>3
<1> QED
  BY <1>3 DEF Ascending, new

-----------------------------------------------------------------------------
(***************************************************************************)
(* Timings on their way: given to the engine, in batches, and kept back.   *)
(***************************************************************************)
FramesOfBatches(bs) == UNION {FramesOf(bs[i]) : i \in 1..Len(bs)}

InOrder(first, bs, last, all) ==
    /\ Ascending(all) /\ Ascending(first) /\ Ascending(last)
    /\ Before(first, last)
    /\ \A i \in 1..Len(bs) :
          /\ Ascending(bs[i])
          /\ Before(first, bs[i]) /\ Before(bs[i], last)
          /\ \A k \in 1..Len(bs) : i < k => Before(bs[i], bs[k])
    /\ FramesOf(all) = FramesOf(first) \cup FramesOf(last) \cup FramesOfBatches(bs)

TimingTypes(first, bs, last, all) ==
    /\ first \in Seq(Frames) /\ last \in Seq(Frames) /\ all \in Seq(Frames)
    /\ bs \in Seq(Seq(Frames))

LEMMA BatchesOfAll ==
  ASSUME NEW first, NEW bs, NEW last, NEW all, InOrder(first, bs, last, all)
  PROVE  /\ FramesOf(first) \subseteq FramesOf(all) /\ FramesOf(last) \subseteq FramesOf(all)
         /\ \A i \in 1..Len(bs) : FramesOf(bs[i]) \subseteq FramesOf(all)
BY DEF InOrder, FramesOfBatches

\* One more frame is kept back.
LEMMA KeptInOrder ==
  ASSUME NEW first, NEW bs, NEW last, NEW all, NEW frame \in Frames,
         TimingTypes(first, bs, last, all), InOrder(first, bs, last, all),
         \A f \in FramesOf(all) : f < frame
  PROVE  InOrder(first, bs, Append(last, frame), Append(all, frame))
<1>1. /\ FramesOf(first) \subseteq FramesOf(all) /\ FramesOf(last) \subseteq FramesOf(all)
      /\ \A i \in 1..Len(bs) : FramesOf(bs[i]) \subseteq FramesOf(all)
  BY BatchesOfAll
<1>2. /\ FramesOf(Append(last, frame)) = FramesOf(last) \cup {frame}
      /\ FramesOf(Append(all, frame)) = FramesOf(all) \cup {frame}
  BY FramesOfAppended DEF TimingTypes
<1>3. Ascending(Append(last, frame)) /\ Ascending(Append(all, frame))
  BY <1>1, AppendedAscends DEF TimingTypes, InOrder
<1>4. Before(first, Append(last, frame))
  BY <1>1, <1>2 DEF InOrder, Before
<1>5. \A i \in 1..Len(bs) : Before(bs[i], Append(last, frame))
  BY <1>1, <1>2 DEF InOrder, Before
<1> QED
  BY <1>2, <1>3, <1>4, <1>5 DEF InOrder

\* What was kept back becomes a batch.
LEMMA BatchInOrder ==
  ASSUME NEW first, NEW bs, NEW last, NEW all,
         TimingTypes(first, bs, last, all), InOrder(first, bs, last, all)
  PROVE  InOrder(first, Append(bs, last), <<>>, all)
<1> DEFINE new == Append(bs, last)
<1>1. /\ Len(new) = Len(bs) + 1 /\ Len(bs) \in Nat /\ new[Len(bs) + 1] = last
      /\ \A i \in 1..Len(bs) : new[i] = bs[i] /\ i \in 1..Len(new)
      /\ \A i \in 1..Len(new) : i \in 1..Len(bs) \/ i = Len(bs) + 1
      /\ Len(bs) + 1 \in 1..Len(new)
  BY DEF TimingTypes
<1> HIDE DEF new
<1>2. \A s : Before(s, <<>>)
  BY FramesOfNone DEF Before
<1>3. \A i \in 1..Len(new) : Ascending(new[i]) /\ Before(first, new[i])
  BY <1>1 DEF InOrder
<1>4. ASSUME NEW i \in 1..Len(new), NEW k \in 1..Len(new), i < k
      PROVE  Before(new[i], new[k])
  <2>1. i \in 1..Len(bs)
    BY <1>1, <1>4
  <2>2. CASE k \in 1..Len(bs)
    BY <1>1, <1>4, <2>1, <2>2 DEF InOrder
  <2>3. CASE k = Len(bs) + 1
    BY <1>1, <2>1, <2>3 DEF InOrder
  <2> QED
    BY <1>1, <2>2, <2>3
<1>5. FramesOfBatches(new) = FramesOfBatches(bs) \cup FramesOf(last)
  <2>1. FramesOfBatches(new) \subseteq FramesOfBatches(bs) \cup FramesOf(last)
    BY <1>1 DEF FramesOfBatches
  <2>2. FramesOfBatches(bs) \subseteq FramesOfBatches(new)
    BY <1>1 DEF FramesOfBatches
  <2>3. FramesOf(last) \subseteq FramesOfBatches(new)
    BY <1>1 DEF FramesOfBatches
  <2> QED
    BY <2>1, <2>2, <2>3
<1>6. FramesOf(all) = FramesOf(first) \cup FramesOf(<<>>) \cup FramesOfBatches(new)
  BY <1>5, FramesOfNone DEF InOrder
<1> QED
  BY <1>2, <1>3, <1>4, <1>6, FramesOfNone DEF InOrder, new

\* The first batch is delivered.
LEMMA DeliveredInOrder ==
  ASSUME NEW first, NEW bs, NEW last, NEW all, bs # <<>>,
         TimingTypes(first, bs, last, all), InOrder(first, bs, last, all)
  PROVE  InOrder(first \o Head(bs), Tail(bs), last, all)
<1> DEFINE rest == Tail(bs)
           given == first \o Head(bs)
<1>1. /\ Len(rest) = Len(bs) - 1 /\ Len(bs) \in Nat /\ Head(bs) = bs[1] /\ 1 \in 1..Len(bs)
      /\ \A i \in 1..Len(rest) : rest[i] = bs[i + 1] /\ i + 1 \in 1..Len(bs)
      /\ \A i \in 1..Len(bs) : i # 1 => i - 1 \in 1..Len(rest) /\ rest[i - 1] = bs[i]
  BY DEF TimingTypes
<1>2. first \in Seq(Frames) /\ Head(bs) \in Seq(Frames)
  <2>1. bs[1] \in Seq(Frames)
    BY <1>1 DEF TimingTypes
  <2> QED
    BY <1>1, <2>1 DEF TimingTypes
<1>3. FramesOf(given) = FramesOf(first) \cup FramesOf(bs[1])
  BY <1>1, <1>2, FramesOfJoined
<1>4. Ascending(given)
  BY <1>1, <1>2, JoinedAscends DEF InOrder
<1> HIDE DEF rest, given
<1>5. Before(given, last)
  BY <1>1, <1>3 DEF InOrder, Before
<1>6. ASSUME NEW i \in 1..Len(rest)
      PROVE  /\ Ascending(rest[i]) /\ Before(given, rest[i]) /\ Before(rest[i], last)
             /\ \A k \in 1..Len(rest) : i < k => Before(rest[i], rest[k])
  <2>1. rest[i] = bs[i + 1] /\ i + 1 \in 1..Len(bs) /\ 1 < i + 1
    BY <1>1
  <2>2. Ascending(rest[i]) /\ Before(rest[i], last)
    BY <2>1 DEF InOrder
  <2>3. Before(first, bs[i + 1]) /\ Before(bs[1], bs[i + 1])
    BY <1>1, <2>1 DEF InOrder
  <2>4. Before(given, rest[i])
    BY <1>3, <2>1, <2>3 DEF Before
  <2>5. ASSUME NEW k \in 1..Len(rest), i < k PROVE Before(rest[i], rest[k])
    <3>1. rest[k] = bs[k + 1] /\ k + 1 \in 1..Len(bs) /\ i + 1 < k + 1
      BY <1>1, <2>5
    <3> QED
      BY <2>1, <3>1 DEF InOrder
  <2> QED
    BY <2>2, <2>4, <2>5
<1>7. FramesOfBatches(bs) = FramesOf(bs[1]) \cup FramesOfBatches(rest)
  <2>1. FramesOfBatches(rest) \subseteq FramesOfBatches(bs)
    BY ZenonT(60), <1>1 DEF FramesOfBatches
  <2>2. FramesOf(bs[1]) \subseteq FramesOfBatches(bs)
    BY <1>1 DEF FramesOfBatches
  <2>3. FramesOfBatches(bs) \subseteq FramesOf(bs[1]) \cup FramesOfBatches(rest)
    BY <1>1 DEF FramesOfBatches
  <2> QED
    BY <2>1, <2>2, <2>3
<1>8. FramesOf(all) = FramesOf(given) \cup FramesOf(last) \cup FramesOfBatches(rest)
  BY <1>3, <1>7 DEF InOrder
<1>9. Ascending(all) /\ Ascending(last)
  BY DEF InOrder
<1> QED
  BY <1>4, <1>5, <1>6, <1>8, <1>9 DEF InOrder, rest, given

-----------------------------------------------------------------------------
(***************************************************************************)
(* The invariant.                                                          *)
(***************************************************************************)
\* The frames whose timings were kept come before those that are not drawn yet.
TasksFollow ==
    /\ \A f \in FramesOf(rasterized) : f <= drawn
    /\ \A i \in 1..Len(drawTasks) :
          /\ drawTasks[i].frame <= drawn
          /\ drawTasks[i] # SetupTask => \A f \in FramesOf(rasterized) : f < drawTasks[i].frame
          /\ \A k \in 1..Len(drawTasks) :
                i < k /\ drawTasks[k] # SetupTask => drawTasks[i].frame < drawTasks[k].frame

\* The flag is cleared by a Draw task.
DrewBeforeClear == ~waitingForFirst => drewSinceSetup

FirstFrameInv ==
    /\ FirstFrameTypeOK
    /\ InOrder(reported, batches, unreported, rasterized)
    /\ KeptTimingsAreScheduled
    /\ TasksFollow
    /\ DrewBeforeClear

LEMMA InvKept == FirstFrameInv => TimingsAreKept
  BY DEF FirstFrameInv, InOrder, FramesOfBatches, TimingsAreKept, TimingsInOrder

LEMMA FirstInitOK == FirstFrameInit => FirstFrameInv
<1>1. SUFFICES ASSUME FirstFrameInit PROVE FirstFrameInv
  OBVIOUS
<1>2. FirstFrameTypeOK
  <2>1. <<SetupTask>> \in Seq(Draws \cup {SetupTask})
    OBVIOUS
  <2>2. <<>> \in Seq(Frames) /\ <<>> \in Seq(Seq(Frames)) /\ 0 \in 0..MaxDraws /\ 0 \in Nat
    BY MaxDrawsAssumption
  <2> QED
    BY <1>1, <2>1, <2>2, Zenon DEF FirstFrameInit, FirstFrameTypeOK
<1>3. InOrder(reported, batches, unreported, rasterized)
  <2>1. FramesOfBatches(<<>>) = {}
    BY DEF FramesOfBatches
  <2> QED
    BY <1>1, <2>1, FramesOfNone DEF FirstFrameInit, InOrder, Before
<1>4. KeptTimingsAreScheduled
  BY <1>1, BatchLimitAssumption DEF FirstFrameInit, KeptTimingsAreScheduled
<1>5. TasksFollow
  BY <1>1, FramesOfNone DEF FirstFrameInit, TasksFollow, SetupTask
<1>6. DrewBeforeClear
  BY <1>1 DEF FirstFrameInit, DrewBeforeClear
<1> QED
  BY <1>2, <1>3, <1>4, <1>5, <1>6 DEF FirstFrameInv

-----------------------------------------------------------------------------
(***************************************************************************)
(* The steps.                                                              *)
(***************************************************************************)
LEMMA TimingsStutter ==
  ASSUME FirstFrameInv, UNCHANGED timingVars
  PROVE  /\ InOrder(reported, batches, unreported, rasterized)'
         /\ KeptTimingsAreScheduled'
BY DEF FirstFrameInv, timingVars, KeptTimingsAreScheduled

LEMMA PostSetupTaskOK ==
  ASSUME FirstFrameInv, PostSetupTask
  PROVE  FirstFrameInv'
<1>1. drawTasks' = Append(drawTasks, SetupTask) /\ UNCHANGED <<waitVars, timingVars>>
  BY DEF PostSetupTask
<1>2. FirstFrameTypeOK'
  <2>1. drawTasks' \in Seq(Draws \cup {SetupTask})
    BY <1>1 DEF FirstFrameInv, FirstFrameTypeOK
  <2> QED
    BY <1>1, <2>1 DEF FirstFrameInv, FirstFrameTypeOK, waitVars, timingVars
<1>3. TasksFollow'
  <2>1. /\ Len(drawTasks') = Len(drawTasks) + 1 /\ Len(drawTasks) \in Nat
        /\ drawTasks'[Len(drawTasks) + 1] = SetupTask
        /\ \A i \in 1..Len(drawTasks) : drawTasks'[i] = drawTasks[i]
        /\ \A i \in 1..Len(drawTasks') : i \in 1..Len(drawTasks) \/ i = Len(drawTasks) + 1
    BY <1>1 DEF FirstFrameInv, FirstFrameTypeOK
  <2>2. UNCHANGED <<rasterized, drawn>> /\ SetupTask.frame <= drawn
    BY <1>1 DEF waitVars, timingVars, SetupTask, FirstFrameInv, FirstFrameTypeOK
  <2>3. \A i \in 1..Len(drawTasks') : drawTasks'[i] # SetupTask => i \in 1..Len(drawTasks)
    BY <2>1
  <2>4. \A i \in 1..Len(drawTasks'), k \in 1..Len(drawTasks') :
           i < k /\ drawTasks'[k] # SetupTask => i \in 1..Len(drawTasks)
    BY <2>1, <2>3
  <2> QED
    BY <2>1, <2>2, <2>3, <2>4 DEF FirstFrameInv, TasksFollow
<1>4. DrewBeforeClear'
  BY <1>1 DEF FirstFrameInv, DrewBeforeClear, waitVars
<1> QED
  BY <1>1, <1>2, <1>3, <1>4, TimingsStutter DEF FirstFrameInv

LEMMA PostDrawTaskOK ==
  ASSUME FirstFrameInv, NEW drawable \in BOOLEAN, PostDrawTask(drawable)
  PROVE  FirstFrameInv'
<1> DEFINE task == [frame |-> drawn + 1, drawable |-> drawable]
<1>1. /\ drawTasks' = Append(drawTasks, task) /\ drawn' = drawn + 1
      /\ UNCHANGED <<waitingForFirst, notifying, waiter, deadline, missed, drewSinceSetup,
                     presented, timingVars>>
  BY DEF PostDrawTask
<1>2. drawn \in Nat /\ drawn' \in 0..MaxDraws /\ drawn + 1 \in Frames
  BY MaxDrawsAssumption DEF PostDrawTask, FirstFrameInv, FirstFrameTypeOK, Frames
<1>3. FirstFrameTypeOK'
  <2>1. task \in Draws
    BY <1>2 DEF Draws
  <2>2. drawTasks' \in Seq(Draws \cup {SetupTask})
    BY <1>1, <2>1 DEF FirstFrameInv, FirstFrameTypeOK
  <2> QED
    BY <1>1, <1>2, <2>2 DEF FirstFrameInv, FirstFrameTypeOK, timingVars
<1>4. TasksFollow'
  <2>1. /\ Len(drawTasks') = Len(drawTasks) + 1 /\ Len(drawTasks) \in Nat
        /\ drawTasks'[Len(drawTasks) + 1].frame = drawn + 1
        /\ \A i \in 1..Len(drawTasks) : drawTasks'[i] = drawTasks[i]
        /\ \A i \in 1..Len(drawTasks') : i \in 1..Len(drawTasks) \/ i = Len(drawTasks) + 1
    BY <1>1 DEF FirstFrameInv, FirstFrameTypeOK
  <2>2. rasterized' = rasterized /\ FramesOf(rasterized) \subseteq Int
    <3>1. rasterized' = rasterized /\ rasterized \in Seq(Frames)
      BY <1>1 DEF timingVars, FirstFrameInv, FirstFrameTypeOK
    <3>2. FramesOf(rasterized) \subseteq Frames
      BY <3>1, FramesAreTyped
    <3> QED
      BY <3>1, <3>2 DEF Frames
  <2>3. \A i \in 1..Len(drawTasks) : drawTasks[i].frame \in Int
    BY DEF FirstFrameInv, FirstFrameTypeOK, Draws, SetupTask, Frames
  <2>4. \A f \in FramesOf(rasterized) : f <= drawn' /\ f < drawn + 1
    BY <1>1, <1>2, <2>2 DEF FirstFrameInv, TasksFollow
  <2>5. \A i \in 1..Len(drawTasks) : drawTasks[i].frame <= drawn' /\ drawTasks[i].frame < drawn + 1
    BY <1>1, <1>2, <2>3 DEF FirstFrameInv, TasksFollow
  <2>6. \A i \in 1..Len(drawTasks), k \in 1..Len(drawTasks) :
           i < k /\ drawTasks[k] # SetupTask => drawTasks[i].frame < drawTasks[k].frame
    BY DEF FirstFrameInv, TasksFollow
  <2>7. \A i \in 1..Len(drawTasks) :
           drawTasks[i] # SetupTask => \A f \in FramesOf(rasterized) : f < drawTasks[i].frame
    BY DEF FirstFrameInv, TasksFollow
  <2>8. ASSUME NEW i \in 1..Len(drawTasks'), NEW k \in 1..Len(drawTasks'),
               i < k, drawTasks'[k] # SetupTask
        PROVE  drawTasks'[i].frame < drawTasks'[k].frame
    <3>1. i \in 1..Len(drawTasks)
      BY <2>1, <2>8
    <3>2. CASE k \in 1..Len(drawTasks)
      BY <2>1, <2>6, <2>8, <3>1, <3>2
    <3>3. CASE k = Len(drawTasks) + 1
      BY <2>1, <2>5, <3>1, <3>3
    <3> QED
      BY <2>1, <3>2, <3>3
  <2>9. \A i \in 1..Len(drawTasks') :
           /\ drawTasks'[i].frame <= drawn'
           /\ drawTasks'[i] # SetupTask => \A f \in FramesOf(rasterized) : f < drawTasks'[i].frame
    BY <1>1, <1>2, <2>1, <2>4, <2>5, <2>7
  <2> QED
    BY <2>2, <2>4, <2>8, <2>9 DEF TasksFollow
<1>5. DrewBeforeClear'
  BY <1>1 DEF FirstFrameInv, DrewBeforeClear
<1> QED
  BY <1>1, <1>3, <1>4, <1>5, TimingsStutter DEF FirstFrameInv

\* The raster thread goes on to its next task.
LEMMA NextTask ==
  ASSUME FirstFrameInv, drawTasks # <<>>, drawTasks' = Tail(drawTasks), drawn' = drawn,
         \/ rasterized' = rasterized
         \/ /\ rasterized' = Append(rasterized, Head(drawTasks).frame)
            /\ Head(drawTasks) # SetupTask
  PROVE  /\ TasksFollow' /\ drawTasks' \in Seq(Draws \cup {SetupTask})
         /\ Head(drawTasks) # SetupTask =>
               /\ Head(drawTasks) \in Draws
               /\ \A f \in FramesOf(rasterized) : f < Head(drawTasks).frame
<1> DEFINE head == Head(drawTasks)
<1>1. drawTasks \in Seq(Draws \cup {SetupTask}) /\ TasksFollow
  BY DEF FirstFrameInv, FirstFrameTypeOK
<1>2. /\ Len(drawTasks') = Len(drawTasks) - 1 /\ Len(drawTasks) \in Nat
      /\ head = drawTasks[1] /\ 1 \in 1..Len(drawTasks)
      /\ \A i \in 1..Len(drawTasks') :
            drawTasks'[i] = drawTasks[i + 1] /\ i + 1 \in 1..Len(drawTasks) /\ 1 < i + 1
      /\ drawTasks' \in Seq(Draws \cup {SetupTask})
      /\ head \in Draws \cup {SetupTask}
  BY <1>1
<1> HIDE DEF head
<1>3. head # SetupTask => /\ head \in Draws /\ head.frame \in Frames
                          /\ \A f \in FramesOf(rasterized) : f < head.frame
  BY <1>1, <1>2 DEF TasksFollow, Draws
<1>4. \A i \in 1..Len(drawTasks') :
         /\ drawTasks'[i].frame <= drawn
         /\ drawTasks'[i] # SetupTask =>
               /\ \A f \in FramesOf(rasterized) : f < drawTasks'[i].frame
               /\ head.frame < drawTasks'[i].frame
  BY <1>1, <1>2 DEF TasksFollow
<1>5. ASSUME NEW i \in 1..Len(drawTasks'), NEW k \in 1..Len(drawTasks'),
             i < k, drawTasks'[k] # SetupTask
      PROVE  drawTasks'[i].frame < drawTasks'[k].frame
  <2>1. i + 1 < k + 1 /\ drawTasks[k + 1] # SetupTask
    BY <1>2, <1>5
  <2> QED
    BY <1>1, <1>2, <2>1 DEF TasksFollow
<1>6. \/ FramesOf(rasterized') = FramesOf(rasterized)
      \/ head # SetupTask /\ FramesOf(rasterized') = FramesOf(rasterized) \cup {head.frame}
  <2>1. CASE rasterized' = rasterized
    BY <2>1
  <2>2. CASE rasterized' = Append(rasterized, head.frame) /\ head # SetupTask
    <3>1. rasterized \in Seq(Frames)
      BY DEF FirstFrameInv, FirstFrameTypeOK
    <3> QED
      BY <1>3, <2>2, <3>1, FramesOfAppended
  <2> QED
    BY <2>1, <2>2 DEF head
<1>7. \A f \in FramesOf(rasterized') : f <= drawn
  BY <1>1, <1>2, <1>6 DEF TasksFollow
<1>8. \A i \in 1..Len(drawTasks') :
         drawTasks'[i] # SetupTask => \A f \in FramesOf(rasterized') : f < drawTasks'[i].frame
  BY <1>4, <1>6
<1>9. TasksFollow'
  BY <1>4, <1>5, <1>7, <1>8 DEF TasksFollow
<1> QED
  BY <1>2, <1>3, <1>9 DEF head

LEMMA RunSetupTaskOK ==
  ASSUME FirstFrameInv, RunSetupTask
  PROVE  FirstFrameInv'
<1>1. /\ drawTasks # <<>> /\ drawTasks' = Tail(drawTasks)
      /\ waitingForFirst' = TRUE /\ drewSinceSetup' = FALSE /\ presented' = FALSE
      /\ UNCHANGED <<drawn, notifying, waiter, deadline, missed, timingVars>>
  BY DEF RunSetupTask
<1>2. rasterized' = rasterized
  BY <1>1 DEF timingVars
<1>3. TasksFollow' /\ drawTasks' \in Seq(Draws \cup {SetupTask})
  BY <1>1, <1>2, NextTask
<1>4. FirstFrameTypeOK'
  BY <1>1, <1>3 DEF FirstFrameInv, FirstFrameTypeOK, timingVars
<1> QED
  BY <1>1, <1>3, <1>4, TimingsStutter DEF FirstFrameInv, DrewBeforeClear

\* A frame is rasterized.
LEMMA OnFrameRasterizedOK ==
  ASSUME FirstFrameInv, NEW frame \in Frames, OnFrameRasterized(frame),
         \A f \in FramesOf(rasterized) : f < frame
  PROVE  /\ InOrder(reported, batches, unreported, rasterized)'
         /\ KeptTimingsAreScheduled'
         /\ rasterized' \in {rasterized, Append(rasterized, frame)}
         /\ needsReport' \in BOOLEAN /\ reportScheduled' \in BOOLEAN
         /\ delayedReports' \in Nat /\ firstRasterized' \in BOOLEAN
         /\ TimingTypes(reported, batches, unreported, rasterized)'
<1> DEFINE timings == Append(unreported, frame)
<1>1. /\ FirstFrameTypeOK /\ KeptTimingsAreScheduled
      /\ InOrder(reported, batches, unreported, rasterized)
      /\ TimingTypes(reported, batches, unreported, rasterized)
  BY DEF FirstFrameInv, FirstFrameTypeOK, TimingTypes
<1>2. CASE ~needsReport
  <2>1. UNCHANGED timingVars
    BY <1>2 DEF OnFrameRasterized
  <2> QED
    BY <1>1, <2>1, TimingsStutter DEF timingVars, FirstFrameTypeOK, TimingTypes
<1>3. CASE needsReport
  <2>1. /\ timings \in Seq(Frames) /\ timings # <<>>
        /\ Append(rasterized, frame) \in Seq(Frames)
        /\ Append(batches, timings) \in Seq(Seq(Frames))
        /\ Len(timings) \in Nat
    <3>1. /\ timings \in Seq(Frames) /\ Len(timings) > 0 /\ Len(timings) \in Nat
          /\ Append(rasterized, frame) \in Seq(Frames)
      BY <1>1 DEF TimingTypes
    <3> HIDE DEF timings
    <3>2. timings # <<>>
      BY <3>1
    <3>3. Append(batches, timings) \in Seq(Seq(Frames))
      BY <1>1, <3>1 DEF TimingTypes
    <3> QED
      BY <3>1, <3>2, <3>3
  <2>2. /\ InOrder(reported, batches, timings, Append(rasterized, frame))
        /\ TimingTypes(reported, batches, timings, Append(rasterized, frame))
    BY <1>1, <2>1, KeptInOrder DEF TimingTypes
  <2>3. InOrder(reported, Append(batches, timings), <<>>, Append(rasterized, frame))
    BY <2>2, BatchInOrder
  <2> HIDE DEF timings
  <2>4. CASE ~firstRasterized \/ Len(timings) >= BatchLimit
    <3>1. /\ rasterized' = Append(rasterized, frame) /\ firstRasterized' = TRUE
          /\ batches' = Append(batches, timings) /\ unreported' = <<>>
          /\ UNCHANGED <<reportScheduled, delayedReports, needsReport, reported>>
      BY <1>3, <2>4 DEF OnFrameRasterized, ReportTimings, timings
    <3>2. KeptTimingsAreScheduled'
      BY <1>1, <3>1, BatchLimitAssumption DEF KeptTimingsAreScheduled
    <3>3. InOrder(reported, batches, unreported, rasterized)'
      BY <2>3, <3>1
    <3>4. TimingTypes(reported, batches, unreported, rasterized)'
      BY <1>1, <2>1, <3>1 DEF TimingTypes
    <3> QED
      BY <1>1, <3>1, <3>2, <3>3, <3>4 DEF FirstFrameTypeOK
  <2>5. CASE ~(~firstRasterized \/ Len(timings) >= BatchLimit)
    <3>1. /\ rasterized' = Append(rasterized, frame) /\ reportScheduled' = TRUE
          /\ delayedReports' = IF reportScheduled THEN delayedReports ELSE delayedReports + 1
          /\ unreported' = timings
          /\ UNCHANGED <<firstRasterized, batches, needsReport, reported>>
      BY <1>3, <2>5 DEF OnFrameRasterized, ScheduleReport, timings
    <3>2. delayedReports' = 1
      BY <1>1, <3>1 DEF KeptTimingsAreScheduled
    <3>3. KeptTimingsAreScheduled'
      BY <2>1, <2>5, <3>1, <3>2, BatchLimitAssumption DEF KeptTimingsAreScheduled
    <3>4. InOrder(reported, batches, unreported, rasterized)'
      BY <2>2, <3>1
    <3>5. TimingTypes(reported, batches, unreported, rasterized)'
      BY <1>1, <2>1, <3>1 DEF TimingTypes
    <3> QED
      BY <1>1, <3>1, <3>2, <3>3, <3>4, <3>5 DEF FirstFrameTypeOK
  <2> QED
    BY <2>4, <2>5
<1> QED
  BY <1>2, <1>3

LEMMA RunDrawTaskOK ==
  ASSUME FirstFrameInv, RunDrawTask
  PROVE  FirstFrameInv'
<1> DEFINE head == Head(drawTasks)
<1>1. /\ drawTasks # <<>> /\ head # SetupTask /\ drawTasks' = Tail(drawTasks)
      /\ drewSinceSetup' = TRUE /\ notifying' = waitingForFirst /\ waitingForFirst' = FALSE
      /\ UNCHANGED <<drawn, waiter, deadline, missed>>
  BY DEF RunDrawTask
<1>2. head \in Draws /\ TasksFollow
  BY <1>1 DEF FirstFrameInv, FirstFrameTypeOK
<1>3. \A f \in FramesOf(rasterized) : f < head.frame
  <2>1. head = drawTasks[1] /\ 1 \in 1..Len(drawTasks)
    BY <1>1 DEF FirstFrameInv, FirstFrameTypeOK
  <2> QED
    BY <1>1, <1>2, <2>1 DEF TasksFollow
<1>4. /\ InOrder(reported, batches, unreported, rasterized)'
      /\ KeptTimingsAreScheduled'
      /\ rasterized' \in {rasterized, Append(rasterized, head.frame)}
      /\ needsReport' \in BOOLEAN /\ reportScheduled' \in BOOLEAN
      /\ delayedReports' \in Nat /\ firstRasterized' \in BOOLEAN /\ presented' \in BOOLEAN
      /\ TimingTypes(reported, batches, unreported, rasterized)'
  <2>1. CASE head.drawable
    <3>1. OnFrameRasterized(head.frame) /\ presented' = TRUE
      BY <2>1 DEF RunDrawTask
    <3>2. head.frame \in Frames
      BY <1>2 DEF Draws
    <3> HIDE DEF head
    <3> QED
      BY <1>3, <3>1, <3>2, OnFrameRasterizedOK
  <2>2. CASE ~head.drawable
    <3>1. UNCHANGED <<timingVars, presented>>
      BY <2>2 DEF RunDrawTask
    <3> QED
      BY <3>1, TimingsStutter DEF FirstFrameInv, FirstFrameTypeOK, timingVars, TimingTypes
  <2> QED
    BY <2>1, <2>2
<1>5. TasksFollow' /\ drawTasks' \in Seq(Draws \cup {SetupTask})
  BY <1>1, <1>4, NextTask
<1>6. FirstFrameTypeOK'
  BY <1>1, <1>4, <1>5 DEF FirstFrameInv, FirstFrameTypeOK, TimingTypes
<1> QED
  BY <1>1, <1>4, <1>5, <1>6 DEF FirstFrameInv, DrewBeforeClear

LEMMA RunDelayedReportOK ==
  ASSUME FirstFrameInv, RunDelayedReport
  PROVE  FirstFrameInv'
<1>1. /\ delayedReports > 0 /\ delayedReports' = delayedReports - 1
      /\ reportScheduled' = FALSE
      /\ UNCHANGED <<drawTasks, waitVars, needsReport, firstRasterized, reported, rasterized>>
  BY DEF RunDelayedReport
<1>2. /\ FirstFrameTypeOK /\ KeptTimingsAreScheduled
      /\ InOrder(reported, batches, unreported, rasterized)
      /\ TimingTypes(reported, batches, unreported, rasterized)
  BY DEF FirstFrameInv, FirstFrameTypeOK, TimingTypes
<1>3. delayedReports' = 0
  BY <1>1, <1>2 DEF KeptTimingsAreScheduled
<1>4. /\ InOrder(reported, batches, unreported, rasterized)'
      /\ unreported' = <<>> /\ batches' \in Seq(Seq(Frames))
  <2>1. CASE unreported # <<>>
    <3>1. batches' = Append(batches, unreported) /\ unreported' = <<>>
      BY <2>1 DEF RunDelayedReport, ReportTimings
    <3>2. InOrder(reported, Append(batches, unreported), <<>>, rasterized)
      BY <1>2, BatchInOrder
    <3>3. InOrder(reported, batches, unreported, rasterized)'
      BY <1>1, <3>1, <3>2
    <3> QED
      BY <1>2, <3>1, <3>3 DEF TimingTypes
  <2>2. CASE unreported = <<>>
    BY <1>1, <1>2, <2>2 DEF RunDelayedReport, TimingTypes
  <2> QED
    BY <2>1, <2>2
<1>5. KeptTimingsAreScheduled'
  <2>1. ~reportScheduled'
    BY <1>1
  <2>2. Len(unreported') < BatchLimit
    BY <1>4, BatchLimitAssumption
  <2> QED
    BY <1>3, <1>4, <2>1, <2>2 DEF KeptTimingsAreScheduled
<1>6. FirstFrameTypeOK'
  <2>1. unreported' \in Seq(Frames) /\ delayedReports' \in Nat
    BY <1>3, <1>4
  <2> QED
    BY ZenonT(60), <1>1, <1>2, <1>4, <2>1 DEF FirstFrameTypeOK, waitVars
<1>7. TasksFollow' /\ DrewBeforeClear'
  BY <1>1 DEF FirstFrameInv, TasksFollow, DrewBeforeClear, waitVars
<1> QED
  BY <1>4, <1>5, <1>6, <1>7 DEF FirstFrameInv

LEMMA DeliverTimingsOK ==
  ASSUME FirstFrameInv, DeliverTimings
  PROVE  FirstFrameInv'
<1>1. /\ batches # <<>> /\ batches' = Tail(batches) /\ reported' = reported \o Head(batches)
      /\ UNCHANGED <<drawTasks, waitVars, needsReport, unreported, reportScheduled,
                     delayedReports, firstRasterized, rasterized>>
  BY DEF DeliverTimings
<1>2. /\ FirstFrameTypeOK
      /\ InOrder(reported, batches, unreported, rasterized)
      /\ TimingTypes(reported, batches, unreported, rasterized)
  BY DEF FirstFrameInv, FirstFrameTypeOK, TimingTypes
<1>3. InOrder(reported \o Head(batches), Tail(batches), unreported, rasterized)
  BY <1>1, <1>2, DeliveredInOrder
<1>4. InOrder(reported, batches, unreported, rasterized)'
  BY <1>1, <1>3
<1>5. FirstFrameTypeOK'
  <2>1. Tail(batches) \in Seq(Seq(Frames)) /\ Head(batches) \in Seq(Frames)
    BY <1>1, <1>2 DEF TimingTypes
  <2>2. reported' \in Seq(Frames)
    BY <1>1, <1>2, <2>1 DEF TimingTypes
  <2> QED
    BY <1>1, <1>2, <2>1, <2>2 DEF FirstFrameTypeOK, waitVars
<1>6. KeptTimingsAreScheduled' /\ TasksFollow' /\ DrewBeforeClear'
  BY <1>1 DEF FirstFrameInv, KeptTimingsAreScheduled, TasksFollow, DrewBeforeClear, waitVars
<1> QED
  BY <1>4, <1>5, <1>6 DEF FirstFrameInv

\* A step of those who wait or ask.
LEMMA WaitingOK ==
  ASSUME FirstFrameInv, FirstFrameTypeOK',
         UNCHANGED <<drawTasks, drawn, waitingForFirst, drewSinceSetup, unreported,
                     reportScheduled, delayedReports, batches, reported, rasterized>>
  PROVE  FirstFrameInv'
BY DEF FirstFrameInv, KeptTimingsAreScheduled, TasksFollow, DrewBeforeClear

LEMMA FirstStepOK == FirstFrameInv /\ [FirstFrameNext]_firstFrameVars => FirstFrameInv'
<1>1. SUFFICES ASSUME FirstFrameInv, [FirstFrameNext]_firstFrameVars PROVE FirstFrameInv'
  OBVIOUS
<1>2. FirstFrameTypeOK
  BY <1>1 DEF FirstFrameInv
<1>3. CASE NotifyAll
  BY <1>1, <1>2, <1>3, WaitingOK DEF NotifyAll, FirstFrameTypeOK, timingVars
<1>4. CASE SetNeedsReportTimings
  BY <1>1, <1>2, <1>4, WaitingOK DEF SetNeedsReportTimings, FirstFrameTypeOK, waitVars
<1>5. CASE WaitForFirstFrame \/ WaiterStep
  <2>1. /\ waiter' \in {"out", "testing", "blocking", "blocked", "timedOut", "kOk",
                        "kDeadlineExceeded"}
        /\ deadline' \in BOOLEAN
        /\ UNCHANGED <<drawTasks, drawn, waitingForFirst, notifying, missed, drewSinceSetup,
                       presented, timingVars>>
    BY <1>2, <1>5 DEF FirstFrameTypeOK, WaitForFirstFrame, WaiterStep, TestFlag, Block, TimeOut, TestFlagAgain, WaiterAt
  <2> QED
    BY <1>1, <1>2, <2>1, WaitingOK DEF FirstFrameTypeOK, timingVars
<1>6. CASE UNCHANGED firstFrameVars
  BY <1>1, <1>2, <1>6, WaitingOK
     DEF firstFrameVars, waitVars, timingVars, FirstFrameTypeOK
<1> QED
  BY <1>1, <1>3, <1>4, <1>5, <1>6, PostSetupTaskOK, PostDrawTaskOK, RunSetupTaskOK,
     RunDrawTaskOK, RunDelayedReportOK, DeliverTimingsOK
     DEF FirstFrameNext, FirstFrameRasterStep

\* Whatever the framework switches on and off meanwhile, and whether they are
\* reported at once, in a full batch or by the delayed task: the timings of frames
\* are neither lost nor repeated nor reordered, and those that are kept back have
\* exactly one task that will report them.
THEOREM NoTimingIsLost == FirstFrameSpec => []TimingsAreKept
BY FirstInitOK, FirstStepOK, InvKept, PTL DEF FirstFrameSpec

\* A wait for the first frame succeeds only after a Draw task that followed the
\* last Setup, however waits, timeouts, stores and notifications interleave.
THEOREM WaitEndsAfterDraw == FirstFrameSpec => OkAfterDraw
<1>1. FirstFrameInv /\ [FirstFrameNext]_firstFrameVars
         => [waiter # "kOk" /\ waiter' = "kOk" => drewSinceSetup]_firstFrameVars
  <2>1. SUFFICES ASSUME FirstFrameInv, [FirstFrameNext]_firstFrameVars,
                        waiter # "kOk", waiter' = "kOk"
                 PROVE  drewSinceSetup
    OBVIOUS
  <2>2. ~waitingForFirst
    BY <2>1 DEF FirstFrameNext, FirstFrameRasterStep, firstFrameVars, waitVars, PostSetupTask,
                PostDrawTask, RunSetupTask, RunDrawTask, NotifyAll, RunDelayedReport,
                SetNeedsReportTimings, DeliverTimings, WaitForFirstFrame, WaiterStep, TestFlag,
                Block, TimeOut, TestFlagAgain, WaiterAt
  <2> QED
    BY <2>1, <2>2 DEF FirstFrameInv, DrewBeforeClear
<1> QED
  BY FirstInitOK, FirstStepOK, <1>1, PTL DEF FirstFrameSpec, OkAfterDraw

\* No interleaving of draws, new surfaces, timeouts and the wait leaves a waiter
\* with a cleared flag and nobody about to notify it, but for the notification
\* that comes between its test and its wait.
THEOREM WaiterGetsItsNotification == FirstFrameSpec => []WaiterIsNotified
<1>1. FirstFrameInit => WaiterIsNotified
  BY DEF FirstFrameInit, WaiterIsNotified
<1>2. FirstFrameInv /\ WaiterIsNotified /\ [FirstFrameNext]_firstFrameVars => WaiterIsNotified'
  <2>1. SUFFICES ASSUME FirstFrameInv, WaiterIsNotified, [FirstFrameNext]_firstFrameVars
                 PROVE  WaiterIsNotified'
    OBVIOUS
  <2>2. waitingForFirst \in BOOLEAN /\ notifying \in BOOLEAN /\ missed \in BOOLEAN
    BY <2>1 DEF FirstFrameInv, FirstFrameTypeOK
  <2>3. CASE UNCHANGED <<waitingForFirst, notifying, missed, waiter>>
    BY <2>1, <2>3 DEF WaiterIsNotified
  <2>4. CASE RunSetupTask
    BY <2>4 DEF RunSetupTask, WaiterIsNotified
  <2>5. CASE RunDrawTask
    BY <2>1, <2>2, <2>5 DEF RunDrawTask, WaiterIsNotified
  <2>6. CASE NotifyAll
    BY <2>1, <2>2, <2>6 DEF NotifyAll, WaiterIsNotified
  <2>7. CASE WaitForFirstFrame \/ WaiterStep
    BY <2>1, <2>7 DEF WaitForFirstFrame, WaiterStep, TestFlag, Block, TimeOut,
                      TestFlagAgain, WaiterAt, WaiterIsNotified
  <2> QED
    BY <2>1, <2>3, <2>4, <2>5, <2>6, <2>7
       DEF FirstFrameNext, FirstFrameRasterStep, firstFrameVars, waitVars, PostSetupTask,
           PostDrawTask, RunDelayedReport, SetNeedsReportTimings, DeliverTimings
<1> QED
  BY FirstInitOK, FirstStepOK, <1>1, <1>2, PTL DEF FirstFrameSpec

\* The type invariant of FirstFrame.
THEOREM FirstFrameTypeCorrect == FirstFrameSpec => []FirstFrameTypeOK
<1>1. FirstFrameInv => FirstFrameTypeOK
  BY DEF FirstFrameInv
<1> QED
  BY FirstInitOK, FirstStepOK, <1>1, PTL DEF FirstFrameSpec
=============================================================================
