--------------------------- MODULE TaskQueuesProofs ---------------------------
(* Theorems about TaskQueues, for every set of queues, posters and pairs and   *)
(* every bound.                                                                *)
EXTENDS TaskQueues, TLAPS

(***************************************************************************)
(* What the queries return                                                 *)
(***************************************************************************)

\* The tasks a loop sees are tasks of the queues it reads.
LEMMA VisibleTasks ==
    ASSUME NEW e \in [Queues -> Entry], NEW q \in Queues
    PROVE  /\ Visible(e, q) \subseteq Task
           /\ \A t \in Visible(e, q) : \E s \in Sources(e, q) : t \in e[s].tasks
           /\ Sources(e, q) \subseteq Queues
  BY DEF Visible, Available, Sources, Entry

\* WakeUp arms a timer for a point in time or leaves it alone.
LEMMA WakeTimesType ==
    ASSUME NEW e \in [Queues -> Entry], NEW q \in Queues,
           timer \in [Queues -> Nat \cup {Disarmed}]
    PROVE  WakeTimes(e, q) \subseteq Nat \cup {Disarmed}
  BY VisibleTasks DEF WakeTimes, NextTasks, Task

\* The timer of a loop that was woken is due by the time of its first task.
LEMMA WakeTimesCover ==
    ASSUME NEW e \in [Queues -> Entry], NEW q \in Queues,
           NEW w \in WakeTimes(e, q), NEW t \in Visible(e, q)
    PROVE  w # Disarmed /\ w <= t.target
  <1>1. PICK u \in NextTasks(e, q) : w = u.target
    BY DEF WakeTimes, HasPendingTasks
  <1>2. u \in Task /\ t \in Task /\ ~After(u, t)
    BY <1>1, VisibleTasks DEF NextTasks
  <1> QED
    BY <1>1, <1>2 DEF After, Task, Disarmed

(***************************************************************************)
(* Type correctness                                                        *)
(***************************************************************************)

LEMMA TypeInit == Init => TypeOK
  <1> USE QueuesAssumption
  <1>1. NewEntry \in Entry
    BY DEF NewEntry, Entry
  <1> QED
    BY <1>1 DEF Init, TypeOK, Pcs

LEMMA RegisterTaskType ==
    ASSUME TypeOK, NEW q \in Queues, NEW target \in Nat, NEW grade \in Grades,
           RegisterTask(q, target, grade)
    PROVE  /\ entries' \in [Queues -> Entry]
           /\ timer' \in [Queues -> Nat \cup {Disarmed}]
           /\ order' \in Nat
  <1> DEFINE t == [order |-> order, target |-> target, grade |-> grade]
             e == [entries EXCEPT ![q].tasks = @ \cup {t}]
             wake == LoopToWake(e, q)
  <1>1. t \in Task
    BY DEF TypeOK, Task
  <1>2. e \in [Queues -> Entry]
    BY SMTT(30), <1>1 DEF TypeOK, Entry
  <1>3. wake \in Queues
    BY <1>2 DEF Entry, LoopToWake
  <1>4. /\ entries' = e
        /\ order' = order + 1
        /\ \E w \in WakeTimes(e, wake) : timer' = [timer EXCEPT ![wake] = w]
    BY Zenon DEF RegisterTask
  <1>5. WakeTimes(e, wake) \subseteq Nat \cup {Disarmed}
    <2> HIDE DEF e, wake
    <2> QED BY <1>2, <1>3, WakeTimesType DEF TypeOK
  <1> HIDE DEF e, wake
  <1> QED
    BY <1>2, <1>3, <1>4, <1>5 DEF TypeOK

LEMMA TypeNext == TypeOK /\ [Next]_vars => TypeOK'
  <1> SUFFICES ASSUME TypeOK, [Next]_vars PROVE TypeOK'
    OBVIOUS
  <1> USE QueuesAssumption, BoundsAssumption
  <1>1. CASE UNCHANGED vars
    BY <1>1 DEF vars, TypeOK
  <1>2. ASSUME NEW p \in Posters, NEW q \in Queues, NEW target \in Times,
               PostTask(p, q, target)
        PROVE  TypeOK'
    BY <1>2 DEF PostTask, TypeOK, Times
  <1>3. ASSUME NEW p \in Posters, FinishPost(p) PROVE TypeOK'
    <2>1. posts[p].queue \in Queues /\ posts[p].target \in Nat
      BY <1>3 DEF FinishPost, TypeOK
    <2>2. RegisterTask(posts[p].queue, posts[p].target, "kUnspecified")
      BY <1>3 DEF FinishPost
    <2> QED
      BY ZenonT(60), <1>3, <2>1, <2>2, RegisterTaskType
         DEF FinishPost, TypeOK, RegisterTask, Grades
  <1>4. ASSUME NEW q \in Queues, PostMicroTask(q) \/ PostUserInteraction(q)
        PROVE  TypeOK'
    <2>1. PICK grade \in Grades : RegisterTask(q, clock, grade)
      BY <1>4, Zenon DEF PostMicroTask, PostUserInteraction, Grades
    <2>2. clock \in Nat /\ posts' = posts
      BY <1>4 DEF PostMicroTask, PostUserInteraction, TypeOK
    <2> QED
      BY ZenonT(60), <2>1, <2>2, RegisterTaskType DEF TypeOK, RegisterTask
  <1>5. ASSUME NEW q \in Queues, PauseSecondarySource(q) PROVE TypeOK'
    BY SMTT(30), <1>5 DEF PauseSecondarySource, TypeOK, Entry
  <1>6. ASSUME NEW q \in Queues, ResumeSecondarySource(q) PROVE TypeOK'
    <2> DEFINE e == [entries EXCEPT ![q].pauses = @ - 1]
    <2>1. e \in [Queues -> Entry]
      BY SMTT(30), <1>6 DEF ResumeSecondarySource, TypeOK, Entry
    <2>2. entries' = e /\ \E w \in WakeTimes(e, q) : timer' = [timer EXCEPT ![q] = w]
      BY <1>6 DEF ResumeSecondarySource
    <2>3. WakeTimes(e, q) \subseteq Nat \cup {Disarmed}
      <3> HIDE DEF e
      <3> QED BY <2>1, WakeTimesType DEF TypeOK
    <2>4. UNCHANGED <<pc, flushNow, cur, terminated, posts, order, clock, ran, dropped>> /\ ops' \in Nat
      BY <1>6 DEF ResumeSecondarySource, TypeOK
    <2> HIDE DEF e
    <2> QED
      BY <2>1, <2>2, <2>3, <2>4 DEF TypeOK
  <1>7. ASSUME NEW o \in Queues, NEW s \in Queues, Merge(o, s) PROVE TypeOK'
    <2> DEFINE e == [entries EXCEPT ![o].ownerOf = @ \cup {s},
                                    ![s].subsumedBy = o]
    <2>1. e \in [Queues -> Entry]
      BY SMTT(30) DEF TypeOK, Entry
    <2>2. entries' = e /\ \E w \in WakeTimes(e, o) : timer' = [timer EXCEPT ![o] = w]
      BY <1>7 DEF Merge
    <2>3. WakeTimes(e, o) \subseteq Nat \cup {Disarmed}
      <3> HIDE DEF e
      <3> QED BY <2>1, WakeTimesType DEF TypeOK
    <2>4. UNCHANGED <<pc, flushNow, cur, terminated, posts, order, clock, ran, dropped>> /\ ops' \in Nat
      BY <1>7 DEF Merge, TypeOK
    <2> HIDE DEF e
    <2> QED
      BY <2>1, <2>2, <2>3, <2>4 DEF TypeOK
  <1>8. ASSUME NEW o \in Queues, NEW s \in Queues, Unmerge(o, s) PROVE TypeOK'
    <2> DEFINE e == [entries EXCEPT ![o].ownerOf = @ \ {s},
                                    ![s].subsumedBy = Unmerged]
    <2>1. e \in [Queues -> Entry]
      BY SMTT(30) DEF TypeOK, Entry
    <2>2. entries' = e /\ \E w \in WakeTimes(e, o), v \in WakeTimes(e, s) :
                             timer' = [timer EXCEPT ![o] = w, ![s] = v]
      BY <1>8 DEF Unmerge
    <2>3. /\ WakeTimes(e, o) \subseteq Nat \cup {Disarmed}
          /\ WakeTimes(e, s) \subseteq Nat \cup {Disarmed}
      <3> HIDE DEF e
      <3> QED BY <2>1, WakeTimesType DEF TypeOK
    <2>4. UNCHANGED <<pc, flushNow, cur, terminated, posts, order, clock, ran, dropped>> /\ ops' \in Nat
      BY <1>8 DEF Unmerge, TypeOK
    <2> HIDE DEF e
    <2> QED
      BY <2>1, <2>2, <2>3, <2>4 DEF TypeOK
  <1>9. ASSUME NEW q \in Queues, CreateLoop(q) \/ Run(q) \/ EpollReturns(q)
        PROVE  TypeOK'
    BY ZenonT(60), <1>9 DEF CreateLoop, Run, EpollReturns, TypeOK, Pcs
  <1>10. ASSUME NEW q \in Queues, OnEventFired(q) PROVE TypeOK'
    BY <1>10 DEF OnEventFired, TypeOK, Pcs
  <1>11. ASSUME NEW q \in Queues, GetNextTaskToRun(q) PROVE TypeOK'
    <2>1. ASSUME EndFlush(q) PROVE pc' \in [Queues -> Pcs]
      BY <2>1 DEF EndFlush, TypeOK, Pcs
    <2>2. CASE ~HasPendingTasks(entries, q) /\ EndFlush(q)
               /\ UNCHANGED <<entries, timer, cur, ran>>
      BY <1>11, <2>1, <2>2 DEF GetNextTaskToRun, TypeOK
    <2>3. ASSUME NEW t \in NextTasks(entries, q),
                 timer' = [timer EXCEPT ![q] = t.target],
                 EndFlush(q),
                 UNCHANGED <<entries, cur, ran>>
          PROVE  TypeOK'
      <3>1. t \in Task
        BY VisibleTasks DEF NextTasks, TypeOK
      <3> QED
        BY <1>11, <2>1, <2>3, <3>1 DEF GetNextTaskToRun, TypeOK, Task
    <2>4. ASSUME NEW t \in NextTasks(entries, q),
                 timer' = [timer EXCEPT ![q] = t.target],
                 NEW home \in Sources(entries, q), t \in entries[home].tasks,
                 entries' = [entries EXCEPT ![home].tasks = @ \ {t}],
                 NEW g \in GradesRead(entries', home, t),
                 cur' = [cur EXCEPT ![q] =
                           [home |-> home, task |-> t, tlsGrade |-> g]],
                 ran' = ran \cup {t.order},
                 pc' = [pc EXCEPT ![q] = IF @ = "flush" THEN "task" ELSE "lasttask"]
          PROVE  TypeOK'
      <3>1. t \in Task /\ home \in Queues
        BY VisibleTasks DEF NextTasks, TypeOK
      <3>2. entries' \in [Queues -> Entry]
        BY SMTT(30), <2>4, <3>1 DEF TypeOK, Entry
      <3>3. g \in Grades
        BY <2>4, <3>1, <3>2 DEF GradesRead, Task, Entry
      <3>4. cur' \in [Queues -> Invocation \cup {NoTask}]
        BY <2>4, <3>1, <3>3 DEF TypeOK, Invocation
      <3>5. pc' \in [Queues -> Pcs]
        BY <2>4 DEF TypeOK, Pcs
      <3>6. timer' \in [Queues -> Nat \cup {Disarmed}] /\ ran' \subseteq Nat
        BY <2>4, <3>1 DEF TypeOK, Task
      <3> QED
        BY <1>11, <3>2, <3>4, <3>5, <3>6 DEF GetNextTaskToRun, TypeOK
    <2> QED
      BY <1>11, <2>2, <2>3, <2>4, Zenon DEF GetNextTaskToRun, PopTask, Due
  <1>12. ASSUME NEW q \in Queues, FinishTask(q) PROVE TypeOK'
    BY <1>12 DEF FinishTask, TypeOK, Pcs
  <1>13. ASSUME NEW q \in Queues, Terminate(q) PROVE TypeOK'
    BY <1>13 DEF Terminate, TypeOK, Pcs
  <1>14. ASSUME NEW q \in Queues, RunExpiredTasksNow(q) PROVE TypeOK'
    BY <1>14 DEF RunExpiredTasksNow, TypeOK, Pcs
  <1>15. ASSUME NEW q \in Queues, DisposeTasks(q) PROVE TypeOK'
    <2>1. PendingOrders(entries, Sources(entries, q)) \subseteq Nat
      BY VisibleTasks DEF PendingOrders, TypeOK, Entry, Task
    <2>2. entries' \in [Queues -> Entry]
      BY SMTT(30), <1>15 DEF DisposeTasks, TypeOK, Entry
    <2> QED
      BY <1>15, <2>1, <2>2 DEF DisposeTasks, TypeOK, Pcs
  <1>16. ASSUME NEW q \in Queues, Dispose(q) PROVE TypeOK'
    <2>1. PendingOrders(entries, {q}) \subseteq Nat
      BY DEF PendingOrders, TypeOK, Entry, Task
    <2>2. NewEntry \in Entry
      BY DEF NewEntry, Entry
    <2> QED
      BY <1>16, <2>1, <2>2 DEF Dispose, TypeOK, Pcs
  <1>17. ASSUME Tick PROVE TypeOK'
    BY <1>17 DEF Tick, TypeOK
  <1> QED
    BY <1>1, <1>2, <1>3, <1>4, <1>5, <1>6, <1>7, <1>8, <1>9, <1>10, <1>11,
       <1>12, <1>13, <1>14, <1>15, <1>16, <1>17 DEF Next, Callers, Loop

\* Every variable of every reachable state has its type.
THEOREM TypeCorrect == Spec => []TypeOK
  BY TypeInit, TypeNext, PTL DEF Spec

(***************************************************************************)
(* The merge relation                                                      *)
(***************************************************************************)

\* Only what callers ask for is merged, and a loop not created owns nothing.
PairsInv ==
    /\ \A q, r \in Queues : r \in entries[q].ownerOf => <<q, r>> \in MergePairs
    /\ \A q \in Queues : pc[q] = "none" => entries[q] = NewEntry
    /\ \A q \in Queues : entries[q].pauses > 0 => q \in UiQueues

RelationInv == TypeOK /\ MergeInv /\ PairsInv

\* A step that leaves the three fields alone.
SameRelation ==
    \A q \in Queues : /\ entries'[q].ownerOf = entries[q].ownerOf
                      /\ entries'[q].subsumedBy = entries[q].subsumedBy

LEMMA SameRelationPreserves ==
    ASSUME RelationInv, SameRelation,
           \A q \in Queues : pc'[q] = "none" => pc[q] = "none" /\ entries'[q] = entries[q],
           \A q \in Queues : entries'[q].pauses > 0 =>
                                entries[q].pauses > 0 \/ q \in UiQueues
    PROVE  MergeInv' /\ PairsInv'
  <1>1. MergeInv'
    BY DEF RelationInv, SameRelation, MergeInv
  <1>2. PairsInv'
    BY DEF RelationInv, SameRelation, PairsInv
  <1> QED
    BY <1>1, <1>2

LEMMA RelationInit == Init => RelationInv
  BY TypeInit, QueuesAssumption DEF Init, RelationInv, MergeInv, PairsInv, NewEntry

LEMMA RelationNext == RelationInv /\ [Next]_vars => RelationInv'
  <1> SUFFICES ASSUME RelationInv, [Next]_vars PROVE MergeInv' /\ PairsInv'
    BY TypeNext DEF RelationInv
  <1> USE DEF RelationInv
  <1>1. ASSUME UNCHANGED <<entries, pc>> PROVE MergeInv' /\ PairsInv'
    BY <1>1 DEF MergeInv, PairsInv
  <1>2. ASSUME NEW q \in Queues, NEW target, NEW grade,
               RegisterTask(q, target, grade)
        PROVE  MergeInv' /\ PairsInv'
    <2> DEFINE t == [order |-> order, target |-> target, grade |-> grade]
    <2>1. entries' = [entries EXCEPT ![q].tasks = @ \cup {t}] /\ pc' = pc /\ Alive(q)
      BY <1>2 DEF RegisterTask
    <2>2. SameRelation /\ \A r \in Queues : entries'[r].pauses = entries[r].pauses
      BY <2>1 DEF SameRelation, TypeOK, Entry
    <2>3. \A r \in Queues : pc'[r] = "none" => entries'[r] = entries[r]
      BY <2>1 DEF Alive, TypeOK
    <2> QED
      BY <2>1, <2>2, <2>3, SameRelationPreserves
  <1>3. ASSUME NEW q \in Queues, PauseSecondarySource(q) PROVE MergeInv' /\ PairsInv'
    <2>1. SameRelation /\ \A r \in Queues : r # q => entries'[r] = entries[r]
      BY <1>3 DEF PauseSecondarySource, SameRelation, TypeOK, Entry
    <2> QED
      BY <1>3, <2>1, SameRelationPreserves DEF PauseSecondarySource, Alive
  <1>4. ASSUME NEW q \in Queues, ResumeSecondarySource(q) PROVE MergeInv' /\ PairsInv'
    <2>1. entries' = [entries EXCEPT ![q].pauses = @ - 1]
      BY <1>4 DEF ResumeSecondarySource
    <2>2. SameRelation /\ \A r \in Queues : r # q => entries'[r] = entries[r]
      BY <2>1 DEF SameRelation, TypeOK, Entry
    <2>3. pc' = pc /\ Alive(q) /\ entries[q].pauses > 0
      BY <1>4 DEF ResumeSecondarySource
    <2> QED
      BY <2>2, <2>3, SameRelationPreserves DEF Alive
  <1>5. ASSUME NEW pair \in MergePairs, Merge(pair[1], pair[2])
        PROVE  MergeInv' /\ PairsInv'
    <2> DEFINE o == pair[1]
               s == pair[2]
    <2>1. o \in Queues /\ s \in Queues /\ o # s /\ <<o, s>> \in MergePairs
      BY QueuesAssumption
    <2>2. /\ entries' = [entries EXCEPT ![o].ownerOf = @ \cup {s},
                                        ![s].subsumedBy = o]
      BY <1>5 DEF Merge
    <2>6. /\ entries[o].subsumedBy = Unmerged
          /\ entries[s].ownerOf = {} /\ entries[s].subsumedBy = Unmerged
          /\ pc' = pc /\ Alive(o) /\ Alive(s)
      BY <1>5 DEF Merge, CanMerge
    <2> HIDE DEF o, s
    <2>3. /\ \A q \in Queues : entries'[q].ownerOf =
                 IF q = o THEN entries[o].ownerOf \cup {s} ELSE entries[q].ownerOf
          /\ \A q \in Queues : entries'[q].subsumedBy =
                 IF q = s THEN o ELSE entries[q].subsumedBy
          /\ \A q \in Queues : entries'[q].pauses = entries[q].pauses
          /\ \A q \in Queues \ {o, s} : entries'[q] = entries[q]
      <3>1. entries'[o] = [entries[o] EXCEPT !.ownerOf = entries[o].ownerOf \cup {s}]
        BY <2>1, <2>2 DEF TypeOK
      <3>2. entries'[s] = [entries[s] EXCEPT !.subsumedBy = o]
        BY <2>1, <2>2 DEF TypeOK
      <3>3. \A q \in Queues \ {o, s} : entries'[q] = entries[q]
        BY <2>1, <2>2 DEF TypeOK
      <3>4. entries[o] \in Entry /\ entries[s] \in Entry
        BY <2>1 DEF TypeOK
      <3> QED
        BY ZenonT(60), <2>1, <3>1, <3>2, <3>3, <3>4 DEF Entry
    <2>4. MergeInv'
      BY <2>1, <2>6, <2>3, QueuesAssumption DEF MergeInv
    <2>5. PairsInv'
      BY <2>1, <2>6, <2>3 DEF PairsInv, Alive
    <2> QED
      BY <2>4, <2>5
  <1>6. ASSUME NEW pair \in MergePairs, Unmerge(pair[1], pair[2])
        PROVE  MergeInv' /\ PairsInv'
    <2> DEFINE o == pair[1]
               s == pair[2]
    <2>1. o \in Queues /\ s \in Queues /\ o # s
      BY QueuesAssumption
    <2>2. /\ entries' = [entries EXCEPT ![o].ownerOf = @ \ {s},
                                        ![s].subsumedBy = Unmerged]
      BY <1>6 DEF Unmerge
    <2>6. /\ s \in entries[o].ownerOf
          /\ pc' = pc /\ Alive(o) /\ Alive(s)
      BY <1>6 DEF Unmerge
    <2> HIDE DEF o, s
    <2>3. /\ \A q \in Queues : entries'[q].ownerOf =
                 IF q = o THEN entries[o].ownerOf \ {s} ELSE entries[q].ownerOf
          /\ \A q \in Queues : entries'[q].subsumedBy =
                 IF q = s THEN Unmerged ELSE entries[q].subsumedBy
          /\ \A q \in Queues : entries'[q].pauses = entries[q].pauses
          /\ \A q \in Queues \ {o, s} : entries'[q] = entries[q]
      <3>1. entries'[o] = [entries[o] EXCEPT !.ownerOf = entries[o].ownerOf \ {s}]
        BY <2>1, <2>2 DEF TypeOK
      <3>2. entries'[s] = [entries[s] EXCEPT !.subsumedBy = Unmerged]
        BY <2>1, <2>2 DEF TypeOK
      <3>3. \A q \in Queues \ {o, s} : entries'[q] = entries[q]
        BY <2>1, <2>2 DEF TypeOK
      <3>4. entries[o] \in Entry /\ entries[s] \in Entry
        BY <2>1 DEF TypeOK
      <3> QED
        BY SMTT(30), <2>1, <3>1, <3>2, <3>3, <3>4 DEF Entry
    <2>4. MergeInv'
      BY <2>1, <2>6, <2>3, QueuesAssumption DEF MergeInv
    <2>5. PairsInv'
      BY <2>1, <2>6, <2>3 DEF PairsInv, Alive
    <2> QED
      BY <2>4, <2>5
  <1>7. ASSUME NEW q \in Queues, GetNextTaskToRun(q) PROVE MergeInv' /\ PairsInv'
    <2>1. \/ entries' = entries
          \/ \E home \in Sources(entries, q), t \in NextTasks(entries, q) :
                entries' = [entries EXCEPT ![home].tasks = @ \ {t}]
      BY <1>7, Zenon DEF GetNextTaskToRun, PopTask, Due
    <2>2. SameRelation /\ \A r \in Queues : entries'[r].pauses = entries[r].pauses
      BY SMTT(30), <2>1 DEF SameRelation, TypeOK, Entry
    <2>3. \A r \in Queues : pc'[r] = "none" => pc[r] = "none"
      BY <1>7 DEF GetNextTaskToRun, EndFlush, TypeOK, Pcs
    <2>4. \A r \in Queues : pc[r] = "none" => entries'[r] = entries[r]
      <3> SUFFICES ASSUME NEW r \in Queues, pc[r] = "none" PROVE entries'[r] = entries[r]
        OBVIOUS
      <3>1. entries[r].tasks = {}
        BY DEF PairsInv, NewEntry
      <3>2. CASE entries' = entries
        BY <3>2
      <3>3. ASSUME NEW home \in Sources(entries, q), NEW t,
                   entries' = [entries EXCEPT ![home].tasks = @ \ {t}]
            PROVE  entries'[r] = entries[r]
        <4>1. CASE r = home
          <5>1. entries'[r] = [entries[r] EXCEPT !.tasks = entries[r].tasks \ {t}]
            BY <3>3, <4>1 DEF TypeOK
          <5> QED
            BY <5>1, <3>1 DEF TypeOK, Entry
        <4>2. CASE r # home
          BY <3>3, <4>2 DEF TypeOK
        <4> QED
          BY <4>1, <4>2
      <3> QED
        BY <2>1, <3>2, <3>3
    <2> QED
      BY <2>2, <2>3, <2>4, SameRelationPreserves
  <1>8. ASSUME NEW q \in Queues, DisposeTasks(q) PROVE MergeInv' /\ PairsInv'
    <2>1. SameRelation /\ \A r \in Queues : entries'[r].pauses = entries[r].pauses
      BY <1>8 DEF DisposeTasks, SameRelation, TypeOK, Entry
    <2>2. \A r \in Queues : pc'[r] = "none" => pc[r] = "none"
      BY <1>8 DEF DisposeTasks, TypeOK
    <2>3. \A r \in Queues : pc[r] = "none" => entries'[r] = entries[r]
      <3> SUFFICES ASSUME NEW r \in Queues, pc[r] = "none" PROVE entries'[r] = entries[r]
        OBVIOUS
      <3>1. entries[r] = NewEntry
        BY DEF PairsInv
      <3>2. entries'[r] \in {entries[r], [entries[r] EXCEPT !.tasks = {}]}
        BY <1>8 DEF DisposeTasks
      <3> QED
        BY <3>1, <3>2 DEF NewEntry
    <2> QED
      BY <2>1, <2>2, <2>3, SameRelationPreserves
  <1>9. ASSUME NEW q \in Queues, Dispose(q) PROVE MergeInv' /\ PairsInv'
    <2>1. /\ \A r \in Queues : entries'[r].ownerOf = entries[r].ownerOf
          /\ \A r \in Queues : entries'[r].subsumedBy = entries[r].subsumedBy
          /\ \A r \in Queues : entries'[r] = entries[r] \/ (r = q /\ entries'[r] = NewEntry)
      <3>1. /\ entries' = [entries EXCEPT ![q] = NewEntry]
            /\ entries[q].subsumedBy = Unmerged /\ entries[q].ownerOf = {}
        BY <1>9 DEF Dispose
      <3>2. NewEntry.ownerOf = {} /\ NewEntry.subsumedBy = Unmerged
        BY DEF NewEntry
      <3>3. \A r \in Queues : entries'[r] = IF r = q THEN NewEntry ELSE entries[r]
        BY <3>1 DEF TypeOK
      <3>4. entries[q].subsumedBy = Unmerged /\ entries[q].ownerOf = {}
        BY <3>1
      <3>5. \A r \in Queues : entries'[r].ownerOf = entries[r].ownerOf
        BY <3>2, <3>3, <3>4
      <3>6. \A r \in Queues : entries'[r].subsumedBy = entries[r].subsumedBy
        BY <3>2, <3>3, <3>4
      <3>7. \A r \in Queues : entries'[r] = entries[r] \/ (r = q /\ entries'[r] = NewEntry)
        BY <3>3, Zenon
      <3> QED
        BY <3>5, <3>6, <3>7, Zenon
    <2>2. \A r \in Queues : pc'[r] = "none" => pc[r] = "none" /\ r # q
      BY <1>9 DEF Dispose, TypeOK
    <2> QED
      BY <2>1, <2>2, SameRelationPreserves DEF SameRelation, NewEntry
  <1>10. ASSUME UNCHANGED entries, \A r \in Queues : pc'[r] = "none" => pc[r] = "none"
         PROVE  MergeInv' /\ PairsInv'
    BY <1>10, SameRelationPreserves DEF SameRelation
  <1>11. ASSUME NEW q \in Queues,
                \/ CreateLoop(q) \/ Run(q) \/ EpollReturns(q) \/ OnEventFired(q)
                \/ FinishTask(q) \/ Terminate(q) \/ RunExpiredTasksNow(q)
         PROVE  MergeInv' /\ PairsInv'
    BY <1>10, <1>11 DEF CreateLoop, Run, EpollReturns, OnEventFired, FinishTask,
                        Terminate, RunExpiredTasksNow, TypeOK
  <1>12. CASE UNCHANGED vars
    BY <1>1, <1>12 DEF vars
  <1>13. CASE Callers
    BY <1>1, <1>2, <1>3, <1>4, <1>5, <1>6, <1>13
       DEF Callers, PostTask, FinishPost, PostMicroTask, PostUserInteraction, TypeOK
  <1>14. CASE Tick
    BY <1>1, <1>14 DEF Tick
  <1> QED
    BY <1>7, <1>8, <1>9, <1>11, <1>12, <1>13, <1>14 DEF Next, Loop

\* The merge relation is consistent: header invariant 3.
THEOREM MergeRelation == Spec => []MergeInv
  <1>1. RelationInv => MergeInv
    BY DEF RelationInv
  <1> QED
    BY RelationInit, RelationNext, <1>1, PTL DEF Spec

(***************************************************************************)
(* No wake-up is lost                                                      *)
(***************************************************************************)

WakeUpInv == RelationInv /\ NoLostWakeUp

\* _kUnmerged names no queue.
LEMMA QueuesAreNotUnmerged == \A q \in Queues : q # Unmerged
  BY QueuesAssumption

\* A loop woken in this step is covered after it.
LEMMA WokenIsCovered ==
    ASSUME TypeOK', NEW q \in Queues, NEW w \in WakeTimes(entries', q),
           timer'[q] = w
    PROVE  Covered(q)'
  <1>1. entries' \in [Queues -> Entry]
    BY DEF TypeOK
  <1> QED
    BY <1>1, WakeTimesCover DEF Covered

\* A loop that sees no more tasks, has the same timer and does not leave
\* FlushTasks stays covered.
LEMMA QuietIsCovered ==
    ASSUME NEW q \in Queues, Covered(q),
           Visible(entries', q) \subseteq Visible(entries, q),
           timer'[q] = timer[q],
           pc'[q] \in {"new", "poll", "ready"} => pc[q] \in {"new", "poll", "ready"}
    PROVE  Covered(q)'
  BY DEF Covered

\* What a loop sees depends on its own entry and on those of the queues it owns.
LEMMA SameVisible ==
    ASSUME NEW q \in Queues,
           entries'[q].subsumedBy = entries[q].subsumedBy,
           entries'[q].ownerOf \subseteq entries[q].ownerOf,
           entries[q].subsumedBy = Unmerged =>
              \A s \in Sources(entries, q) :
                 /\ entries'[s].tasks \subseteq entries[s].tasks
                 /\ entries'[s].pauses = 0 => entries[s].pauses = 0
    PROVE  Visible(entries', q) \subseteq Visible(entries, q)
  <1>1. CASE entries[q].subsumedBy # Unmerged
    BY <1>1 DEF Visible
  <1>2. CASE entries[q].subsumedBy = Unmerged
    <2>1. \A s \in Sources(entries', q) : s \in Sources(entries, q)
      BY DEF Sources
    <2>2. \A s \in Sources(entries, q) : Available(entries', s) \subseteq Available(entries, s)
      BY <1>2 DEF Available
    <2> QED
      BY <1>2, <2>1, <2>2 DEF Visible
  <1> QED
    BY <1>1, <1>2

\* Only the loop that RegisterTask wakes sees the new task.
LEMMA RegisterTaskCovers ==
    ASSUME WakeUpInv, TypeOK', NEW q \in Queues, NEW target, NEW grade,
           RegisterTask(q, target, grade)
    PROVE  NoLostWakeUp'
  <1> DEFINE t == [order |-> order, target |-> target, grade |-> grade]
             e == [entries EXCEPT ![q].tasks = @ \cup {t}]
             wake == LoopToWake(e, q)
  <1>1. /\ entries' = e
        /\ \E w \in WakeTimes(e, wake) : timer' = [timer EXCEPT ![wake] = w]
        /\ pc' = pc
    BY Zenon DEF RegisterTask
  <1>2. /\ \A r \in Queues : r # q => entries'[r] = entries[r]
        /\ entries'[q].subsumedBy = entries[q].subsumedBy
        /\ entries'[q].ownerOf = entries[q].ownerOf
    <2>1. entries \in [Queues -> Entry] /\ entries[q] \in Entry
      BY DEF WakeUpInv, RelationInv, TypeOK
    <2>2. entries'[q] = [entries[q] EXCEPT !.tasks = entries[q].tasks \cup {t}]
      BY <1>1, <2>1
    <2> QED
      BY <1>1, <2>1, <2>2 DEF Entry
  <1>3. wake \in Queues
    BY <1>1 DEF TypeOK, Entry, LoopToWake
  <1>4. PICK k \in Queues : k = wake
    BY <1>3
  <1>5. PICK w \in WakeTimes(entries', k) : timer' = [timer EXCEPT ![k] = w]
    BY <1>1, <1>4
  <1>6. timer'[k] = w /\ \A r \in Queues : (r # k) => (timer'[r] = timer[r])
    BY <1>5 DEF WakeUpInv, RelationInv, TypeOK
  <1>7. Covered(k)'
    BY <1>6, WokenIsCovered
  <1>9. k = IF entries[q].subsumedBy # Unmerged THEN entries[q].subsumedBy ELSE q
    BY <1>1, <1>2, <1>4 DEF LoopToWake
  <1> HIDE DEF wake, e
  <1>8. ASSUME NEW r \in Queues, r # k PROVE Covered(r)'
    <2>1. /\ entries'[r].subsumedBy = entries[r].subsumedBy
          /\ entries'[r].ownerOf = entries[r].ownerOf
      BY <1>2
    <2>2. ASSUME entries[r].subsumedBy = Unmerged PROVE q \notin Sources(entries, r)
      <3>1. r # q
        BY <1>8, <1>9, <2>2
      <3>2. q \in entries[r].ownerOf => entries[q].subsumedBy = r
        BY DEF WakeUpInv, RelationInv, MergeInv
      <3>3. entries[q].subsumedBy # r
        BY <1>8, <1>9, QueuesAssumption
      <3> QED
        BY <3>1, <3>2, <3>3 DEF Sources
    <2>3. entries[r].subsumedBy = Unmerged =>
             \A s \in Sources(entries, r) : entries'[s] = entries[s]
      <3>1. Sources(entries, r) \subseteq Queues
        BY VisibleTasks DEF WakeUpInv, RelationInv, TypeOK
      <3> QED
        BY <1>2, <2>2, <3>1
    <2>4. Visible(entries', r) \subseteq Visible(entries, r)
      BY <2>1, <2>3, SameVisible
    <2> QED
      BY <1>1, <1>6, <1>8, <2>4, QuietIsCovered DEF WakeUpInv, NoLostWakeUp
  <1> QED
    BY <1>7, <1>8, Zenon DEF NoLostWakeUp

LEMMA WakeUpNext ==
    ASSUME UiNeverSubsumed, WakeUpInv, [Next]_vars
    PROVE  NoLostWakeUp'
  <1>1. TypeOK' /\ RelationInv'
    BY RelationNext DEF WakeUpInv, RelationInv
  <1> USE DEF WakeUpInv, RelationInv
  <1>0. entries \in [Queues -> Entry] /\ timer \in [Queues -> Nat \cup {Disarmed}]
    BY DEF TypeOK
  \* Steps that move neither tasks nor timers, and bring no loop out of a flush.
  <1>2. ASSUME UNCHANGED <<entries, timer>>,
               \A r \in Queues : \/ pc'[r] \in {"new", "poll", "ready"} =>
                                       pc[r] \in {"new", "poll", "ready"}
                                 \/ Visible(entries, r) = {}
        PROVE  NoLostWakeUp'
    BY <1>2 DEF NoLostWakeUp, Covered
  <1>3. ASSUME NEW q \in Queues, NEW target, NEW grade, RegisterTask(q, target, grade)
        PROVE  NoLostWakeUp'
    BY <1>1, <1>3, RegisterTaskCovers
  <1>4. ASSUME NEW q \in Queues, PauseSecondarySource(q) PROVE NoLostWakeUp'
    <2>1. entries' = [entries EXCEPT ![q].pauses = @ + 1] /\ timer' = timer /\ pc' = pc
      BY <1>4 DEF PauseSecondarySource
    <2>2. /\ \A r \in Queues : r # q => entries'[r] = entries[r]
          /\ entries'[q].subsumedBy = entries[q].subsumedBy
          /\ entries'[q].ownerOf = entries[q].ownerOf
          /\ entries'[q].tasks = entries[q].tasks
          /\ entries'[q].pauses # 0
      BY <1>0, <2>1 DEF Entry
    <2>3. ASSUME NEW r \in Queues PROVE Visible(entries', r) \subseteq Visible(entries, r)
      <3>1. Sources(entries, r) \subseteq Queues
        BY <1>0, VisibleTasks
      <3> QED
        BY <2>2, <3>1, SameVisible
    <2> QED
      BY <2>1, <2>3, QuietIsCovered DEF NoLostWakeUp
  <1>5. ASSUME NEW q \in Queues, ResumeSecondarySource(q) PROVE NoLostWakeUp'
    <2>1. entries' = [entries EXCEPT ![q].pauses = @ - 1] /\ pc' = pc
      BY <1>5 DEF ResumeSecondarySource
    <2>2. /\ \A r \in Queues : r # q => entries'[r] = entries[r]
          /\ entries'[q].subsumedBy = entries[q].subsumedBy
          /\ entries'[q].ownerOf = entries[q].ownerOf
      BY <1>0, <2>1 DEF Entry
    <2>3. PICK w \in WakeTimes(entries', q) : timer' = [timer EXCEPT ![q] = w]
      BY <1>5 DEF ResumeSecondarySource
    <2>4. timer'[q] = w /\ \A r \in Queues : r # q => timer'[r] = timer[r]
      BY <1>0, <2>3
    <2>5. Covered(q)'
      BY <1>1, <2>4, WokenIsCovered
    <2>6. \A r \in Queues : q \notin entries[r].ownerOf
      <3>1. q \in UiQueues
        BY <1>5, <1>0 DEF ResumeSecondarySource, PairsInv
      <3> QED
        BY <3>1 DEF PairsInv, UiNeverSubsumed
    <2>7. ASSUME NEW r \in Queues, r # q PROVE Covered(r)'
      <3>1. \A s \in Sources(entries, r) : entries'[s] = entries[s]
        BY <1>0, <2>2, <2>6, <2>7, VisibleTasks DEF Sources
      <3>2. Visible(entries', r) \subseteq Visible(entries, r)
        BY <2>2, <2>7, <3>1, SameVisible
      <3> QED
        BY <2>1, <2>4, <2>7, <3>2, QuietIsCovered DEF NoLostWakeUp
    <2> QED
      BY <2>5, <2>7 DEF NoLostWakeUp
  <1>6. ASSUME NEW o \in Queues, NEW s \in Queues, o # s, Merge(o, s)
        PROVE  NoLostWakeUp'
    <2>1. entries' = [entries EXCEPT ![o].ownerOf = @ \cup {s},
                                     ![s].subsumedBy = o]
      BY <1>6 DEF Merge
    <2>2. /\ entries'[o] = [entries[o] EXCEPT !.ownerOf = entries[o].ownerOf \cup {s}]
          /\ entries'[s] = [entries[s] EXCEPT !.subsumedBy = o]
          /\ \A r \in Queues \ {o, s} : entries'[r] = entries[r]
      BY <1>0, <1>6, <2>1
    <2>3. entries[o] \in Entry /\ entries[s] \in Entry
      BY <1>0
    <2>4. /\ \A r \in Queues : entries'[r].tasks = entries[r].tasks
                               /\ entries'[r].pauses = entries[r].pauses
          /\ entries'[s].subsumedBy = o
      BY <2>2, <2>3 DEF Entry
    <2>5. pc' = pc
      BY <1>6 DEF Merge
    <2>6. PICK w \in WakeTimes(entries', o) : timer' = [timer EXCEPT ![o] = w]
      BY <1>6 DEF Merge
    <2>7. timer'[o] = w /\ \A r \in Queues : r # o => timer'[r] = timer[r]
      BY <1>0, <2>6
    <2>8. Covered(o)'
      BY <1>1, <2>7, WokenIsCovered
    <2>9. Covered(s)'
      <3>1. Visible(entries', s) = {}
        BY <2>4, QueuesAreNotUnmerged DEF Visible
      <3> QED
        BY <3>1 DEF Covered
    <2>10. ASSUME NEW r \in Queues \ {o, s} PROVE Covered(r)'
      <3>1. Visible(entries', r) \subseteq Visible(entries, r)
        BY <1>0, <2>2, <2>4, SameVisible, VisibleTasks
      <3> QED
        BY <2>5, <2>7, <2>10, <3>1, QuietIsCovered DEF NoLostWakeUp
    <2> QED
      BY <2>8, <2>9, <2>10 DEF NoLostWakeUp
  <1>7. ASSUME NEW o \in Queues, NEW s \in Queues, o # s, Unmerge(o, s)
        PROVE  NoLostWakeUp'
    <2>1. entries' = [entries EXCEPT ![o].ownerOf = @ \ {s},
                                     ![s].subsumedBy = Unmerged]
      BY <1>7 DEF Unmerge
    <2>2. \A r \in Queues \ {o, s} : entries'[r] = entries[r]
      BY <1>0, <1>7, <2>1
    <2>3. /\ entries'[o] = [entries[o] EXCEPT !.ownerOf = entries[o].ownerOf \ {s}]
          /\ entries'[s] = [entries[s] EXCEPT !.subsumedBy = Unmerged]
          /\ entries[o] \in Entry /\ entries[s] \in Entry
      BY <1>0, <1>7, <2>1
    <2>4. \A r \in Queues : entries'[r].tasks = entries[r].tasks
                            /\ entries'[r].pauses = entries[r].pauses
      BY <2>2, <2>3 DEF Entry
    <2>5. pc' = pc
      BY <1>7 DEF Unmerge
    <2>6. PICK w \in WakeTimes(entries', o), v \in WakeTimes(entries', s) :
             timer' = [timer EXCEPT ![o] = w, ![s] = v]
      BY <1>7 DEF Unmerge
    <2>7. /\ timer'[o] = w /\ timer'[s] = v
          /\ \A r \in Queues \ {o, s} : timer'[r] = timer[r]
      BY <1>0, <1>7, <2>6
    <2>8. Covered(o)' /\ Covered(s)'
      BY <1>1, <2>7, WokenIsCovered
    <2>9. ASSUME NEW r \in Queues \ {o, s} PROVE Covered(r)'
      <3>1. Visible(entries', r) \subseteq Visible(entries, r)
        BY <1>0, <2>2, <2>4, SameVisible, VisibleTasks
      <3> QED
        BY <2>5, <2>7, <2>9, <3>1, QuietIsCovered DEF NoLostWakeUp
    <2> QED
      BY <2>8, <2>9 DEF NoLostWakeUp
  \* Steps of the loop q that leave it inside a flush, or past it.
  <1>8. ASSUME NEW q \in Queues, pc'[q] \notin {"new", "poll", "ready"},
               \A r \in Queues : r # q => pc'[r] = pc[r] /\ timer'[r] = timer[r],
               \A r \in Queues : r # q => Visible(entries', r) \subseteq Visible(entries, r)
        PROVE  NoLostWakeUp'
    <2>1. Covered(q)'
      BY <1>8 DEF Covered
    <2>2. \A r \in Queues : r # q => Covered(r)'
      BY <1>8, QuietIsCovered DEF NoLostWakeUp
    <2> QED
      BY <2>1, <2>2 DEF NoLostWakeUp
  <1>9. ASSUME NEW q \in Queues, OnEventFired(q) PROVE NoLostWakeUp'
    <2>1. CASE ~Expired(q)
      BY <1>2, <1>9, <2>1 DEF OnEventFired, TypeOK
    <2>2. CASE Expired(q)
      BY <1>8, <1>9, <2>2 DEF OnEventFired, TypeOK
    <2> QED
      BY <2>1, <2>2
  <1>10. ASSUME NEW q \in Queues, GetNextTaskToRun(q) PROVE NoLostWakeUp'
    <2>1. ASSUME EndFlush(q)
          PROVE  \A r \in Queues : r # q => pc'[r] = pc[r]
      BY <2>1 DEF EndFlush, TypeOK
    <2>2. CASE ~HasPendingTasks(entries, q) /\ EndFlush(q)
               /\ UNCHANGED <<entries, timer, cur, ran>>
      BY <1>2, <2>1, <2>2 DEF HasPendingTasks
    <2>3. ASSUME NEW t \in NextTasks(entries, q),
                 timer' = [timer EXCEPT ![q] = t.target],
                 EndFlush(q), UNCHANGED <<entries, cur, ran>>
          PROVE  NoLostWakeUp'
      <3>1. t.target \in WakeTimes(entries', q)
        BY <2>3 DEF WakeTimes, HasPendingTasks, NextTasks
      <3>2. timer'[q] = t.target /\ \A r \in Queues : r # q => timer'[r] = timer[r]
        BY <1>0, <2>3
      <3>3. Covered(q)'
        BY <1>1, <3>1, <3>2, WokenIsCovered
      <3>4. \A r \in Queues : r # q => Covered(r)'
        BY <2>1, <2>3, <3>2, QuietIsCovered DEF NoLostWakeUp
      <3> QED
        BY <3>3, <3>4 DEF NoLostWakeUp
    <2>4. ASSUME NEW t \in NextTasks(entries, q),
                 timer' = [timer EXCEPT ![q] = t.target],
                 NEW home \in Sources(entries, q),
                 entries' = [entries EXCEPT ![home].tasks = @ \ {t}],
                 pc' = [pc EXCEPT ![q] = IF @ = "flush" THEN "task" ELSE "lasttask"]
          PROVE  NoLostWakeUp'
      <3>1. home \in Queues /\ entries[home] \in Entry
        BY <1>0, VisibleTasks
      <3>2. entries'[home] = [entries[home] EXCEPT !.tasks = entries[home].tasks \ {t}]
        BY <1>0, <2>4, <3>1
      <3>3. \A r \in Queues : r # home => entries'[r] = entries[r]
        BY <1>0, <2>4, <3>1
      <3>4. \A r \in Queues : /\ entries'[r].subsumedBy = entries[r].subsumedBy
                              /\ entries'[r].ownerOf = entries[r].ownerOf
                              /\ entries'[r].pauses = entries[r].pauses
                              /\ entries'[r].tasks \subseteq entries[r].tasks
        BY <3>1, <3>2, <3>3 DEF Entry
      <3>5. \A r \in Queues : Visible(entries', r) \subseteq Visible(entries, r)
        <4> SUFFICES ASSUME NEW r \in Queues
                     PROVE  Visible(entries', r) \subseteq Visible(entries, r)
          OBVIOUS
        <4>1. Sources(entries, r) \subseteq Queues
          BY <1>0, VisibleTasks
        <4> QED
          BY <3>4, <4>1, SameVisible
      <3>6. pc'[q] \notin {"new", "poll", "ready"}
        BY <2>4 DEF TypeOK
      <3>7. \A r \in Queues : r # q => pc'[r] = pc[r] /\ timer'[r] = timer[r]
        BY <2>4 DEF TypeOK
      <3> QED
        BY <1>8, <3>5, <3>6, <3>7
    <2> QED
      BY <1>10, <2>2, <2>3, <2>4, Zenon DEF GetNextTaskToRun, PopTask, Due
  <1>11. ASSUME NEW q \in Queues, DisposeTasks(q) PROVE NoLostWakeUp'
    <2>1. pc' = [pc EXCEPT ![q] = "done"] /\ timer' = timer
      BY <1>11 DEF DisposeTasks
    <2>2. \A r \in Queues :
             entries'[r] \in {entries[r], [entries[r] EXCEPT !.tasks = {}]}
      BY <1>11 DEF DisposeTasks
    <2>3. \A r \in Queues : /\ entries'[r].subsumedBy = entries[r].subsumedBy
                            /\ entries'[r].ownerOf = entries[r].ownerOf
                            /\ entries'[r].pauses = entries[r].pauses
                            /\ entries'[r].tasks \subseteq entries[r].tasks
      BY <1>0, <2>2 DEF Entry
    <2>4. \A r \in Queues : Visible(entries', r) \subseteq Visible(entries, r)
      <3> SUFFICES ASSUME NEW r \in Queues
                   PROVE  Visible(entries', r) \subseteq Visible(entries, r)
        OBVIOUS
      <3>1. Sources(entries, r) \subseteq Queues
        BY <1>0, VisibleTasks
      <3> QED
        BY <2>3, <3>1, SameVisible
    <2> QED
      BY <1>8, <2>1, <2>4 DEF TypeOK
  <1>12. ASSUME NEW q \in Queues, Dispose(q) PROVE NoLostWakeUp'
    <2>1. /\ pc' = [pc EXCEPT ![q] = "gone"] /\ timer' = timer
          /\ entries' = [entries EXCEPT ![q] = NewEntry]
          /\ entries[q].subsumedBy = Unmerged
      BY <1>12 DEF Dispose
    <2>2. \A r \in Queues : q \notin entries[r].ownerOf
      BY <2>1, QueuesAreNotUnmerged DEF MergeInv
    <2>3. ASSUME NEW r \in Queues, r # q
          PROVE  Visible(entries', r) \subseteq Visible(entries, r)
      <3>1. \A s \in Sources(entries, r) : entries'[s] = entries[s]
        BY <1>0, <2>1, <2>2, <2>3, VisibleTasks DEF Sources
      <3>2. entries'[r] = entries[r]
        BY <1>0, <2>1, <2>3
      <3> QED
        BY <3>1, <3>2, SameVisible
    <2> QED
      BY <1>8, <2>1, <2>3 DEF TypeOK
  <1>13. ASSUME NEW q \in Queues, Terminate(q) PROVE NoLostWakeUp'
    BY <1>8, <1>13, <1>0 DEF Terminate, TypeOK, Visible, Available, Sources
  <1>14. ASSUME NEW q \in Queues, CreateLoop(q) PROVE NoLostWakeUp'
    <2>1. Visible(entries, q) = {}
      BY <1>14 DEF CreateLoop, PairsInv, NewEntry, Visible, Available, Sources
    <2> QED
      BY <1>2, <1>14, <2>1 DEF CreateLoop, TypeOK
  <1>15. ASSUME NEW q \in Queues,
                Run(q) \/ EpollReturns(q) \/ FinishTask(q) \/ RunExpiredTasksNow(q)
         PROVE  NoLostWakeUp'
    BY <1>2, <1>15 DEF Run, EpollReturns, FinishTask, RunExpiredTasksNow, TypeOK
  <1>16. CASE UNCHANGED <<entries, timer, pc>>
    BY <1>2, <1>16
  <1>17. CASE Callers
    <2>1. ASSUME NEW p \in Posters, NEW q \in Queues, NEW target \in Times,
                 PostTask(p, q, target)
          PROVE  NoLostWakeUp'
      BY <1>16, <2>1 DEF PostTask
    <2>2. ASSUME NEW p \in Posters, FinishPost(p) PROVE NoLostWakeUp'
      BY <1>3, <2>2 DEF FinishPost, TypeOK
    <2>3. ASSUME NEW q \in Queues, PostMicroTask(q) \/ PostUserInteraction(q)
          PROVE  NoLostWakeUp'
      BY <1>3, <2>3 DEF PostMicroTask, PostUserInteraction
    <2>4. ASSUME NEW pair \in MergePairs,
                 Merge(pair[1], pair[2]) \/ Unmerge(pair[1], pair[2])
          PROVE  NoLostWakeUp'
      <3>1. pair[1] \in Queues /\ pair[2] \in Queues /\ pair[1] # pair[2]
        BY QueuesAssumption
      <3> QED
        BY <1>6, <1>7, <2>4, <3>1
    <2> QED
      BY <1>4, <1>5, <1>17, <2>1, <2>2, <2>3, <2>4 DEF Callers
  <1> QED
    BY <1>9, <1>10, <1>11, <1>12, <1>13, <1>14, <1>15, <1>16, <1>17
       DEF Next, Loop, Tick, vars

\* As long as the UI queue is not the one that is merged into another, no step
\* of any thread loses the wake-up of a loop with tasks to run.
THEOREM WakeUps ==
    ASSUME UiNeverSubsumed
    PROVE  Spec => []NoLostWakeUp
  <1>1. Init => NoLostWakeUp
    BY DEF Init, NoLostWakeUp, Covered
  <1>2. WakeUpInv /\ [Next]_vars => WakeUpInv'
    BY WakeUpNext, RelationNext DEF WakeUpInv
  <1>3. WakeUpInv => NoLostWakeUp
    BY DEF WakeUpInv
  <1>4. Init => WakeUpInv
    BY <1>1, RelationInit DEF WakeUpInv
  <1> QED
    BY <1>2, <1>3, <1>4, PTL DEF Spec

(***************************************************************************)
(* Where the tasks are                                                     *)
(***************************************************************************)

\* The sources of the queues without their merge state.
pending == [q \in Queues |-> entries[q].tasks]

\* What a step may do to the tasks: one is registered in the source of a queue,
\* one that is due is taken out of a source and handed to a loop, the sources
\* of some queues are emptied, the clock ticks, or nothing.
Registers ==
    \E q \in Queues, t \in Task :
        /\ t.order = order /\ t.target \in Times
        /\ order < MaxTasks /\ order' = order + 1
        /\ pending' = [pending EXCEPT ![q] = @ \cup {t}]
        /\ UNCHANGED <<ran, dropped, clock>>

HandsOver ==
    \E q \in Queues : \E t \in pending[q] :
        /\ t.target <= clock
        /\ pending' = [pending EXCEPT ![q] = @ \ {t}]
        /\ ran' = ran \cup {t.order}
        /\ UNCHANGED <<dropped, order, clock>>

Destructs ==
    \E S \in SUBSET Queues :
        /\ pending' = [q \in Queues |-> IF q \in S THEN {} ELSE pending[q]]
        /\ dropped' = dropped \cup PendingOrders(entries, S)
        /\ UNCHANGED <<ran, order, clock>>

Ticks ==
    /\ clock < MaxTime /\ clock' = clock + 1
    /\ UNCHANGED <<pending, ran, dropped, order>>

LeavesTasks == UNCHANGED <<pending, ran, dropped, order, clock>>

\* Time is bounded, a flush reads the clock, and tasks are posted for the
\* times there are.
TimeInv ==
    /\ clock <= MaxTime
    /\ \A q \in Queues : flushNow[q] <= clock
    /\ \A p \in Posters : posts[p] # NoPost => posts[p].target \in Times

LEMMA TimeInit == Init => TimeInv
  BY BoundsAssumption DEF Init, TimeInv

LEMMA TimeNext == TypeOK /\ TimeInv /\ [Next]_vars => TimeInv'
  <1> SUFFICES ASSUME TypeOK, TimeInv, [Next]_vars PROVE TimeInv'
    OBVIOUS
  <1> USE BoundsAssumption DEF TypeOK, TimeInv
  <1>1. CASE UNCHANGED vars
    BY <1>1 DEF vars
  <1>2. ASSUME NEW p \in Posters, NEW q \in Queues, NEW target \in Times,
               PostTask(p, q, target)
        PROVE  TimeInv'
    BY <1>2 DEF PostTask
  <1>3. ASSUME NEW p \in Posters, FinishPost(p) PROVE TimeInv'
    <2>1. UNCHANGED <<flushNow, clock>> /\ posts' = [posts EXCEPT ![p] = NoPost]
      BY <1>3 DEF FinishPost, RegisterTask
    <2> QED BY <2>1
  <1>4. CASE UNCHANGED <<flushNow, clock, posts>>
    BY <1>4
  <1>5. CASE Callers
    BY ZenonT(60), <1>2, <1>3, <1>4, <1>5
       DEF Callers, PostMicroTask, PostUserInteraction, RegisterTask,
           PauseSecondarySource, ResumeSecondarySource, Merge, Unmerge
  <1>6. ASSUME NEW q \in Queues, OnEventFired(q) \/ RunExpiredTasksNow(q)
        PROVE  TimeInv'
    BY <1>6 DEF OnEventFired, RunExpiredTasksNow
  <1>7. ASSUME NEW q \in Queues, Loop(q) PROVE TimeInv'
    BY <1>4, <1>6, <1>7, Zenon
       DEF Loop, CreateLoop, Run, EpollReturns, GetNextTaskToRun, FinishTask,
           Terminate, DisposeTasks, Dispose
  <1>8. CASE Tick
    BY <1>8 DEF Tick
  <1> QED
    BY <1>1, <1>5, <1>7, <1>8 DEF Next

\* A change of the tasks of one entry is a change of one set of pending tasks.
LEMMA OneSourceChanges ==
    ASSUME TypeOK, NEW q \in Queues, NEW T,
           entries' = [entries EXCEPT ![q] = [entries[q] EXCEPT !.tasks = T]]
    PROVE  pending' = [pending EXCEPT ![q] = T]
  <1>1. entries[q] \in Entry /\ entries \in [Queues -> Entry]
    BY DEF TypeOK
  <1>2. entries'[q].tasks = T
    BY <1>1 DEF Entry
  <1>3. \A r \in Queues : r # q => entries'[r] = entries[r]
    BY <1>1
  <1>4. pending' = [r \in Queues |-> IF r = q THEN T ELSE entries[r].tasks]
    BY <1>2, <1>3 DEF pending
  <1> QED
    BY <1>4 DEF pending

\* A registration puts a task with the next order into the source of a queue.
LEMMA RegisterTaskRegisters ==
    ASSUME TypeOK, NEW q \in Queues, NEW target \in Times, NEW grade \in Grades,
           RegisterTask(q, target, grade)
    PROVE  Registers
  <1> DEFINE t == [order |-> order, target |-> target, grade |-> grade]
  <1>1. /\ entries' = [entries EXCEPT ![q] =
                           [entries[q] EXCEPT !.tasks = entries[q].tasks \cup {t}]]
        /\ order < MaxTasks /\ order' = order + 1
        /\ UNCHANGED <<ran, dropped, clock>>
    BY DEF RegisterTask
  <1>2. t \in Task /\ t.order = order /\ t.target \in Times
    BY DEF TypeOK, Task, Times
  <1> HIDE DEF t
  <1>3. pending' = [pending EXCEPT ![q] = @ \cup {t}]
    <2>1. pending' = [pending EXCEPT ![q] = entries[q].tasks \cup {t}]
      BY <1>1, OneSourceChanges
    <2> QED BY <2>1 DEF pending
  <1> QED
    BY <1>1, <1>2, <1>3 DEF Registers

\* A step that leaves the sources' tasks alone.
LEMMA SameTasks ==
    ASSUME \A q \in Queues : entries'[q].tasks = entries[q].tasks,
           UNCHANGED <<ran, dropped, order, clock>>
    PROVE  LeavesTasks
  BY DEF LeavesTasks, pending

\* Every step of every thread does one of the five.
LEMMA StepsOfTasks ==
    ASSUME TypeOK, TimeInv, [Next]_vars
    PROVE  Registers \/ HandsOver \/ Destructs \/ Ticks \/ LeavesTasks
  <1> USE QueuesAssumption, BoundsAssumption
  <1>1. ASSUME UNCHANGED <<entries, ran, dropped, order, clock>>
        PROVE  LeavesTasks
    BY <1>1, SameTasks
  <1>2. ASSUME NEW p \in Posters, FinishPost(p) PROVE Registers
    <2>1. /\ RegisterTask(posts[p].queue, posts[p].target, "kUnspecified")
          /\ posts[p] # NoPost
      BY <1>2 DEF FinishPost
    <2>2. posts[p].queue \in Queues /\ posts[p].target \in Times
      BY <2>1 DEF TypeOK, TimeInv
    <2> QED
      BY <2>1, <2>2, RegisterTaskRegisters DEF Grades
  <1>3. ASSUME NEW q \in Queues, PostMicroTask(q) \/ PostUserInteraction(q)
        PROVE  Registers
    <2>1. PICK grade \in Grades : RegisterTask(q, clock, grade)
      BY <1>3, Zenon DEF PostMicroTask, PostUserInteraction, Grades
    <2>2. clock \in Times
      BY DEF TypeOK, TimeInv, Times
    <2> QED
      BY <2>1, <2>2, RegisterTaskRegisters
  <1>4. ASSUME NEW q \in Queues, PauseSecondarySource(q) \/ ResumeSecondarySource(q)
        PROVE  LeavesTasks
    <2>1. /\ \/ entries' = [entries EXCEPT ![q].pauses = @ + 1]
             \/ entries' = [entries EXCEPT ![q].pauses = @ - 1]
          /\ UNCHANGED <<ran, dropped, order, clock>>
      BY <1>4 DEF PauseSecondarySource, ResumeSecondarySource
    <2>2. \A r \in Queues : entries'[r].tasks = entries[r].tasks
      BY <2>1 DEF TypeOK, Entry
    <2> QED
      BY <2>1, <2>2, SameTasks
  <1>5. ASSUME NEW pair \in MergePairs, Merge(pair[1], pair[2]) \/ Unmerge(pair[1], pair[2])
        PROVE  LeavesTasks
    <2> DEFINE o == pair[1]
               s == pair[2]
    <2>1. o \in Queues /\ s \in Queues /\ o # s
      BY SMTT(30)
    <2>2. /\ \E own, by : entries' = [entries EXCEPT ![o].ownerOf = own,
                                                     ![s].subsumedBy = by]
          /\ UNCHANGED <<ran, dropped, order, clock>>
      BY ZenonT(60), <1>5 DEF Merge, Unmerge
    <2> HIDE DEF o, s
    <2>3. PICK own, by : entries' = [entries EXCEPT ![o].ownerOf = own,
                                                    ![s].subsumedBy = by]
      BY <2>2
    <2>4. /\ entries'[o] = [entries[o] EXCEPT !.ownerOf = own]
          /\ entries'[s] = [entries[s] EXCEPT !.subsumedBy = by]
          /\ \A q \in Queues \ {o, s} : entries'[q] = entries[q]
      BY <2>1, <2>3 DEF TypeOK
    <2>5. \A q \in Queues : entries'[q].tasks = entries[q].tasks
      BY <2>1, <2>4 DEF TypeOK, Entry
    <2> QED
      BY <2>2, <2>5, SameTasks
  <1>6. ASSUME NEW q \in Queues, GetNextTaskToRun(q) PROVE HandsOver \/ LeavesTasks
    <2>1. UNCHANGED <<dropped, order, clock>>
      BY <1>6 DEF GetNextTaskToRun
    <2>2. CASE UNCHANGED <<entries, ran>>
      BY <1>1, <2>1, <2>2
    <2>3. ASSUME NEW t, NEW home \in Sources(entries, q),
                 t \in entries[home].tasks, Due(q, t),
                 entries' = PopTask(entries, home, t),
                 ran' = ran \cup {t.order}
          PROVE  HandsOver
      <3>1. home \in Queues
        BY VisibleTasks DEF TypeOK
      <3>2. t \in pending[home] /\ t \in Task
        BY <2>3, <3>1 DEF pending, TypeOK, Entry
      <3>3. t.target <= clock
        BY <2>3, <3>2 DEF Due, TimeInv, TypeOK, Task
      <3>4. pending' = [pending EXCEPT ![home] = @ \ {t}]
        <4>1. entries' = [entries EXCEPT ![home] =
                            [entries[home] EXCEPT !.tasks = entries[home].tasks \ {t}]]
          BY <2>3 DEF PopTask
        <4>2. pending' = [pending EXCEPT ![home] = entries[home].tasks \ {t}]
          BY <3>1, <4>1, OneSourceChanges
        <4> QED BY <3>1, <4>2 DEF pending
      <3> QED
        BY <2>1, <2>3, <3>1, <3>2, <3>3, <3>4 DEF HandsOver
    <2> QED
      BY <1>6, <2>2, <2>3, Zenon DEF GetNextTaskToRun
  <1>7. ASSUME NEW q \in Queues, DisposeTasks(q) PROVE Destructs
    <2>1. Sources(entries, q) \in SUBSET Queues
      BY VisibleTasks DEF TypeOK
    <2> DEFINE S == Sources(entries, q)
    <2>2. /\ entries' = [s \in Queues |-> IF s \in S
                                          THEN [entries[s] EXCEPT !.tasks = {}]
                                          ELSE entries[s]]
          /\ dropped' = dropped \cup PendingOrders(entries, S)
          /\ UNCHANGED <<ran, order, clock>>
      BY <1>7 DEF DisposeTasks
    <2> HIDE DEF S
    <2>3. pending' = [s \in Queues |-> IF s \in S THEN {} ELSE pending[s]]
      BY <2>2 DEF pending, TypeOK, Entry
    <2> QED
      BY <2>1, <2>2, <2>3 DEF Destructs, S
  <1>8. ASSUME NEW q \in Queues, Dispose(q) PROVE Destructs
    <2>1. /\ entries' = [entries EXCEPT ![q] = NewEntry]
          /\ dropped' = dropped \cup PendingOrders(entries, {q})
          /\ UNCHANGED <<ran, order, clock>>
      BY <1>8 DEF Dispose
    <2>2. pending' = [s \in Queues |-> IF s \in {q} THEN {} ELSE pending[s]]
      BY <2>1 DEF pending, TypeOK, NewEntry
    <2> QED
      BY <2>1, <2>2 DEF Destructs
  <1>9. CASE Tick
    BY <1>9 DEF Tick, Ticks, pending
  <1>10. CASE Callers
    BY <1>1, <1>2, <1>3, <1>4, <1>5, <1>10, Zenon DEF Callers, PostTask
  <1>11. ASSUME NEW q \in Queues, Loop(q) PROVE Destructs \/ HandsOver \/ LeavesTasks
    BY <1>1, <1>6, <1>7, <1>8, <1>11, Zenon
       DEF Loop, CreateLoop, Run, EpollReturns, OnEventFired, FinishTask,
           Terminate, RunExpiredTasksNow
  <1> QED
    BY <1>1, <1>9, <1>10, <1>11 DEF Next, vars

(***************************************************************************)
(* Accounting for the tasks                                                *)
(***************************************************************************)

\* The part of TypeOK that the accounting needs, and the accounting task by
\* task: a number below order_ belongs to one task, which is in one source, or
\* was handed over, or was destructed.
NumbersInv ==
    /\ order \in Nat /\ order <= MaxTasks
    /\ \A n \in ran \cup dropped : n \in Nat /\ n < order
    /\ ran \cap dropped = {}

PendingInv ==
    \A q \in Queues : \A t \in pending[q] :
        t \in Task /\ t.target \in Times /\ t.order < order /\ t.order \notin ran \cup dropped

UniqueInv ==
    \A q, r \in Queues : \A t \in pending[q], u \in pending[r] :
        t.order = u.order => q = r /\ t = u

NoneLostInv ==
    \A n \in Nat : n < order => \/ n \in ran \cup dropped
                                \/ \E q \in Queues : \E t \in pending[q] : t.order = n

AccountInv == NumbersInv /\ PendingInv /\ UniqueInv /\ NoneLostInv

LEMMA AccountInit == Init => AccountInv
  BY BoundsAssumption
     DEF Init, AccountInv, NumbersInv, PendingInv, UniqueInv, NoneLostInv, pending, NewEntry

\* The numbers of the tasks in the sources of some queues.
LEMMA PendingOrdersOf ==
    ASSUME NEW S \in SUBSET Queues
    PROVE  \A n : n \in PendingOrders(entries, S)
                     <=> \E q \in S : \E t \in pending[q] : t.order = n
  BY DEF PendingOrders, pending

LEMMA AccountRegisters == ASSUME AccountInv, Registers PROVE AccountInv'
  <1>1. PICK q \in Queues, t \in Task :
            /\ t.order = order /\ t.target \in Times
            /\ order < MaxTasks /\ order' = order + 1
            /\ pending' = [pending EXCEPT ![q] = @ \cup {t}]
            /\ UNCHANGED <<ran, dropped, clock>>
    BY DEF Registers
  <1>2. \A r \in Queues : pending'[r] = IF r = q THEN pending[q] \cup {t} ELSE pending[r]
    BY <1>1 DEF pending
  <1> HIDE DEF pending
  <1>3. NumbersInv'
    BY <1>1, BoundsAssumption DEF AccountInv, NumbersInv
  <1>4. PendingInv'
    <2> SUFFICES ASSUME NEW r \in Queues, NEW u \in pending'[r]
                 PROVE  /\ u \in Task /\ u.target \in Times
                        /\ u.order < order + 1 /\ u.order \notin ran \cup dropped
      BY <1>1 DEF PendingInv
    <2>1. CASE r = q /\ u = t
      BY <1>1, <2>1 DEF AccountInv, NumbersInv
    <2>2. CASE u \in pending[r]
      BY <2>2 DEF AccountInv, NumbersInv, PendingInv, Task
    <2> QED
      BY <1>2, <2>1, <2>2
  <1>5. UniqueInv'
    <2>1. \A r \in Queues : \A u \in pending[r] : u.order # t.order
      BY <1>1 DEF AccountInv, NumbersInv, PendingInv, Task
    <2> SUFFICES ASSUME NEW r \in Queues, NEW s \in Queues, NEW u \in pending'[r],
                        NEW v \in pending'[s], u.order = v.order
                 PROVE  r = s /\ u = v
      BY Zenon DEF UniqueInv
    <2>2. (u \in pending[r] \/ (r = q /\ u = t)) /\ (v \in pending[s] \/ (s = q /\ v = t))
      BY <1>2
    <2> QED
      BY <2>1, <2>2 DEF AccountInv, UniqueInv
  <1>6. NoneLostInv'
    <2> SUFFICES ASSUME NEW n \in Nat, n < order + 1
                 PROVE  \/ n \in ran \cup dropped
                        \/ \E r \in Queues : \E u \in pending'[r] : u.order = n
      BY <1>1 DEF NoneLostInv
    <2>1. CASE n = order
      BY <1>1, <1>2, <2>1
    <2>2. CASE n < order
      BY <1>2, <2>2 DEF AccountInv, NoneLostInv
    <2> QED
      BY <2>1, <2>2 DEF AccountInv, NumbersInv
  <1> QED
    BY <1>3, <1>4, <1>5, <1>6 DEF AccountInv

LEMMA AccountHandsOver == ASSUME AccountInv, HandsOver PROVE AccountInv'
  <1>0. PICK q \in Queues : \E t \in pending[q] :
            /\ pending' = [pending EXCEPT ![q] = @ \ {t}]
            /\ ran' = ran \cup {t.order}
            /\ UNCHANGED <<dropped, order, clock>>
    BY DEF HandsOver
  <1>1. PICK t \in pending[q] :
            /\ pending' = [pending EXCEPT ![q] = @ \ {t}]
            /\ ran' = ran \cup {t.order}
            /\ UNCHANGED <<dropped, order, clock>>
    BY <1>0
  <1>2. \A r \in Queues : pending'[r] = IF r = q THEN pending[q] \ {t} ELSE pending[r]
    BY <1>1 DEF pending
  <1> HIDE DEF pending
  <1>3. t \in Task /\ t.order < order /\ t.order \notin ran \cup dropped
    BY DEF AccountInv, PendingInv
  <1>4. \A r \in Queues : \A u \in pending'[r] : u.order # t.order /\ u \in pending[r]
    <2> SUFFICES ASSUME NEW r \in Queues, NEW u \in pending'[r]
                 PROVE  u.order # t.order /\ u \in pending[r]
      OBVIOUS
    <2>1. u \in pending[r] /\ (r = q => u # t)
      BY <1>2
    <2> QED
      BY <2>1 DEF AccountInv, UniqueInv
  <1>5. NumbersInv'
    BY <1>1, <1>3 DEF AccountInv, NumbersInv, Task
  <1>6. PendingInv'
    BY <1>1, <1>4 DEF AccountInv, PendingInv
  <1>7. UniqueInv'
    <2> SUFFICES ASSUME NEW p \in Queues, NEW r \in Queues,
                        NEW u \in pending'[p], NEW v \in pending'[r], u.order = v.order
                 PROVE  p = r /\ u = v
      BY DEF UniqueInv
    <2> QED
      BY <1>4 DEF AccountInv, UniqueInv
  <1>8. NoneLostInv'
    BY <1>1, <1>2 DEF AccountInv, NoneLostInv
  <1> QED
    BY <1>5, <1>6, <1>7, <1>8 DEF AccountInv

LEMMA AccountDestructs == ASSUME AccountInv, Destructs PROVE AccountInv'
  <1>1. PICK S \in SUBSET Queues :
            /\ pending' = [q \in Queues |-> IF q \in S THEN {} ELSE pending[q]]
            /\ dropped' = dropped \cup PendingOrders(entries, S)
            /\ UNCHANGED <<ran, order, clock>>
    BY DEF Destructs
  <1>2. \A n : n \in dropped' <=> n \in dropped \/ \E q \in S : \E t \in pending[q] : t.order = n
    BY <1>1, PendingOrdersOf
  <1>3. \A q \in Queues : pending'[q] = IF q \in S THEN {} ELSE pending[q]
    BY <1>1
  <1> HIDE DEF pending
  <1>4. NumbersInv'
    BY <1>1, <1>2 DEF AccountInv, NumbersInv, PendingInv, Task
  <1>5. PendingInv'
    <2> SUFFICES ASSUME NEW q \in Queues, NEW t \in pending[q], q \notin S
                 PROVE  /\ t \in Task /\ t.target \in Times
                        /\ t.order < order /\ t.order \notin ran \cup dropped'
      BY <1>1, <1>3 DEF PendingInv
    <2>1. \A r \in S : \A u \in pending[r] : u.order # t.order
      BY DEF AccountInv, UniqueInv
    <2> QED
      BY <1>2, <2>1 DEF AccountInv, PendingInv
  <1>6. UniqueInv'
    BY ZenonT(60), <1>3 DEF AccountInv, UniqueInv
  <1>7. NoneLostInv'
    <2> SUFFICES ASSUME NEW n \in Nat, n < order
                 PROVE  \/ n \in ran \cup dropped'
                        \/ \E q \in Queues : \E t \in pending'[q] : t.order = n
      BY <1>1 DEF NoneLostInv
    <2>1. CASE n \in ran \cup dropped
      BY <1>2, <2>1
    <2>2. ASSUME NEW q \in Queues, NEW t \in pending[q], t.order = n
          PROVE  n \in dropped' \/ t \in pending'[q]
      BY <1>2, <1>3, <2>2
    <2> QED
      BY <2>1, <2>2 DEF AccountInv, NoneLostInv
  <1> QED
    BY <1>4, <1>5, <1>6, <1>7 DEF AccountInv

LEMMA AccountNext == TypeOK /\ TimeInv /\ AccountInv /\ [Next]_vars => AccountInv'
  <1> SUFFICES ASSUME TypeOK, TimeInv, AccountInv, [Next]_vars PROVE AccountInv'
    OBVIOUS
  <1>1. CASE Ticks \/ LeavesTasks
    BY <1>1 DEF Ticks, LeavesTasks, AccountInv, NumbersInv, PendingInv, UniqueInv,
                NoneLostInv
  <1> QED
    BY <1>1, StepsOfTasks, AccountRegisters, AccountHandsOver, AccountDestructs

LEMMA AccountInvariant == Spec => [](TypeOK /\ TimeInv /\ AccountInv)
  BY TypeInit, TypeNext, TimeInit, TimeNext, AccountInit, AccountNext, PTL DEF Spec

\* No merge, unmerge, terminating loop or pop loses a task or gets it twice: the
\* numbers handed out so far are those of the tasks that were handed to a loop,
\* that were destructed, and that are in one source, and no two of the three
\* share one.
THEOREM TasksAccountedFor == Spec => []TaskAccounting
  <1>1. TypeOK /\ AccountInv => TaskAccounting
    <2> SUFFICES ASSUME TypeOK, AccountInv PROVE TaskAccounting
      OBVIOUS
    <2> DEFINE orders(S) == PendingOrders(entries, S)
    <2>1. \A S \in SUBSET Queues : \A n : n \in orders(S)
                     <=> \E q \in S : \E t \in pending[q] : t.order = n
      BY PendingOrdersOf
    <2> HIDE DEF orders, pending
    <2>2. \A q \in Queues : \A n : n \in orders({q}) <=> \E t \in pending[q] : t.order = n
      BY <2>1
    <2>3. \A n : n \in orders(Queues) <=> \E q \in Queues : \E t \in pending[q] : t.order = n
      BY <2>1
    <2>4. 0..(order - 1) = ran \cup dropped \cup orders(Queues)
      BY <2>3 DEF AccountInv, NumbersInv, PendingInv, NoneLostInv, Task
    <2>5. \A q \in Queues : orders({q}) \cap (ran \cup dropped) = {}
      BY <2>2 DEF AccountInv, PendingInv
    <2>6. \A q, r \in Queues : q # r => orders({q}) \cap orders({r}) = {}
      <3> SUFFICES ASSUME NEW q \in Queues, NEW r \in Queues, q # r,
                          NEW n \in orders({q}) \cap orders({r})
                   PROVE  FALSE
        BY Zenon
      <3> QED
        BY <2>2 DEF AccountInv, UniqueInv
    <2> QED
      BY <2>4, <2>5, <2>6 DEF TaskAccounting, orders, AccountInv, NumbersInv
  <1> QED
    BY <1>1, AccountInvariant, PTL

(***************************************************************************)
(* The queues implement TaskDelivery                                       *)
(***************************************************************************)

\* What the refinement mapping makes of a pending task.
Delivered(t) == [order |-> t.order, target |-> t.target]

\* The abstract queue: what waits in any source, without its grade.
waitingTasks == {Delivered(t) : t \in UNION {entries[q].tasks : q \in Queues}}

LEMMA WaitingTasks ==
    \A w : w \in waitingTasks
              <=> \E q \in Queues : \E t \in pending[q] : w = Delivered(t)
  BY DEF waitingTasks, pending

\* A number not handed out yet is free in the abstract queue.
LEMMA RegistersDelivers ==
    ASSUME AccountInv, Registers
    PROVE  Delivery!Register
  <1>1. PICK q \in Queues, t \in Task :
            /\ t.order = order /\ t.target \in Times
            /\ order < MaxTasks /\ order' = order + 1
            /\ pending' = [pending EXCEPT ![q] = @ \cup {t}]
            /\ UNCHANGED <<ran, dropped, clock>>
    BY DEF Registers
  <1>2. \A r \in Queues : pending'[r] = IF r = q THEN pending[q] \cup {t} ELSE pending[r]
    BY <1>1 DEF pending
  <1>3. \A w : w \in waitingTasks'
                 <=> \E r \in Queues : \E u \in pending'[r] : w = Delivered(u)
    BY DEF waitingTasks, pending, Delivered
  <1> HIDE DEF pending
  <1>4. waitingTasks' = waitingTasks \cup {Delivered(t)}
    BY <1>2, <1>3, WaitingTasks
  <1>5. order \in 0..(MaxTasks - 1) /\ t.target \in 0..MaxTime
    BY <1>1, BoundsAssumption DEF AccountInv, NumbersInv, Times
  <1>6. order \notin ran \cup dropped
    BY DEF AccountInv, NumbersInv
  <1>7. \A w \in waitingTasks : w.order # order
    BY WaitingTasks DEF AccountInv, PendingInv, NumbersInv, Delivered, Task
  <1>8. Delivered(t) = [order |-> order, target |-> t.target]
    BY <1>1 DEF Delivered
  <1>9. /\ order \notin ran \cup dropped \cup {w.order : w \in waitingTasks}
        /\ waitingTasks' = waitingTasks \cup {[order |-> order, target |-> t.target]}
    BY <1>4, <1>6, <1>7, <1>8
  <1> QED
    BY <1>1, <1>5, <1>9 DEF Delivery!Register, Delivery!Orders, waitingTasks, Delivered

\* What is handed over is due, and waits no more.
LEMMA HandsOverDelivers ==
    ASSUME AccountInv, HandsOver
    PROVE  Delivery!Run
  <1>0. PICK q \in Queues : \E t \in pending[q] :
            /\ t.target <= clock
            /\ pending' = [pending EXCEPT ![q] = @ \ {t}]
            /\ ran' = ran \cup {t.order}
            /\ UNCHANGED <<dropped, order, clock>>
    BY DEF HandsOver
  <1>1. PICK t \in pending[q] :
            /\ t.target <= clock
            /\ pending' = [pending EXCEPT ![q] = @ \ {t}]
            /\ ran' = ran \cup {t.order}
            /\ UNCHANGED <<dropped, order, clock>>
    BY <1>0
  <1>2. \A r \in Queues : pending'[r] = IF r = q THEN pending[q] \ {t} ELSE pending[r]
    BY <1>1 DEF pending
  <1>3. \A w : w \in waitingTasks'
                 <=> \E r \in Queues : \E u \in pending'[r] : w = Delivered(u)
    BY DEF waitingTasks, pending, Delivered
  <1> HIDE DEF pending
  <1>4. \A r \in Queues : \A u \in pending[r] :
            Delivered(u) = Delivered(t) => r = q /\ u = t
    BY DEF AccountInv, UniqueInv, Delivered
  <1>5. waitingTasks' = waitingTasks \ {Delivered(t)}
    BY <1>2, <1>3, <1>4, WaitingTasks
  <1>6. /\ Delivered(t) \in waitingTasks
        /\ Delivered(t).target = t.target /\ Delivered(t).order = t.order
    BY WaitingTasks DEF Delivered
  <1> QED
    BY <1>1, <1>5, <1>6 DEF Delivery!Run, waitingTasks, Delivered

\* What a loop destructs waits no more, in all the queues it emptied.
LEMMA DestructsDelivers ==
    ASSUME AccountInv, Destructs
    PROVE  Delivery!Drop
  <1>1. PICK S \in SUBSET Queues :
            /\ pending' = [q \in Queues |-> IF q \in S THEN {} ELSE pending[q]]
            /\ dropped' = dropped \cup PendingOrders(entries, S)
            /\ UNCHANGED <<ran, order, clock>>
    BY DEF Destructs
  <1>2. \A n : n \in PendingOrders(entries, S)
                  <=> \E q \in S : \E t \in pending[q] : t.order = n
    BY PendingOrdersOf
  <1>3. \A q \in Queues : pending'[q] = IF q \in S THEN {} ELSE pending[q]
    BY <1>1
  <1>4. \A w : w \in waitingTasks'
                 <=> \E r \in Queues : \E u \in pending'[r] : w = Delivered(u)
    BY DEF waitingTasks, pending, Delivered
  <1> HIDE DEF pending
  <1> DEFINE gone == {w \in waitingTasks : \E q \in S : \E t \in pending[q] : w = Delivered(t)}
  <1>5. waitingTasks' = waitingTasks \ gone
    <2>1. \A q, r \in Queues : \A t \in pending[q], u \in pending[r] :
             Delivered(t) = Delivered(u) => q = r
      BY DEF AccountInv, UniqueInv, Delivered
    <2> QED
      BY <1>3, <1>4, <2>1, WaitingTasks
  <1>6. PendingOrders(entries, S) = {w.order : w \in gone}
    <2>1. \A t : Delivered(t).order = t.order
      BY DEF Delivered
    <2> HIDE DEF gone
    <2>2. \A w : w \in gone <=> \E q \in S : \E t \in pending[q] : w = Delivered(t)
      BY WaitingTasks DEF gone
    <2>3. \A n : n \in {w.order : w \in gone} <=> \E q \in S : \E t \in pending[q] : t.order = n
      BY <2>1, <2>2
    <2> HIDE DEF Delivered
    <2> QED
      BY <1>2, <2>3
  <1>7. gone \in SUBSET waitingTasks
    OBVIOUS
  <1> HIDE DEF gone
  <1> QED
    BY <1>1, <1>5, <1>6, <1>7 DEF Delivery!Drop, Delivery!Orders, waitingTasks, Delivered

\* Whatever thread acts, the code that posts tasks sees a registration, a task
\* run once and not early, tasks destructed unrun, the passing of time, or
\* nothing: merges, unmerges, pauses and timers do not show.
THEOREM QueuesImplementDelivery == Spec => ImplementsDelivery
  <1>1. Init => Delivery!Init
    BY DEF Init, Delivery!Init, NewEntry
  <1>2. TypeOK /\ TimeInv /\ AccountInv /\ [Next]_vars
            => [Delivery!Next]_(Delivery!vars)
    <2> SUFFICES ASSUME TypeOK, TimeInv, AccountInv, [Next]_vars
                 PROVE  Delivery!Next \/ UNCHANGED Delivery!vars
      BY Zenon
    <2>1. CASE Ticks
      <3>1. waitingTasks' = waitingTasks
        BY <2>1 DEF Ticks, waitingTasks, pending
      <3> QED
        BY <2>1, <3>1 DEF Ticks, Delivery!Next, Delivery!Tick, waitingTasks, Delivered
    <2>2. CASE LeavesTasks
      <3>1. waitingTasks' = waitingTasks
        BY <2>2 DEF LeavesTasks, waitingTasks, pending
      <3> QED
        BY <2>2, <3>1 DEF LeavesTasks, Delivery!vars, waitingTasks, Delivered
    <2> QED
      BY <2>1, <2>2, StepsOfTasks, RegistersDelivers, HandsOverDelivers,
         DestructsDelivers, Zenon DEF Delivery!Next
  <1> QED
    BY <1>1, <1>2, AccountInvariant, PTL DEF Spec, ImplementsDelivery, Delivery!Spec

(***************************************************************************)
(* The order in which the tasks of a queue are taken                       *)
(***************************************************************************)

\* What a loop is running was registered, and took no other task's turn.
RunningInv(q) ==
    cur[q] # NoTask =>
        /\ cur[q].task.order < order
        /\ \A t \in pending[cur[q].home] : ~Overtook(cur[q].task, t)

OrderInv == \A q \in Queues : RunningInv(q)

\* No step puts a task into a source but the one that registers it.
LEMMA OldTasksOrNew ==
    ASSUME TypeOK, TimeInv, AccountInv, [Next]_vars
    PROVE  /\ order' \in Nat /\ order <= order'
           /\ \A s \in Queues : \A t \in pending'[s] : t \in pending[s] \/ t.order = order
  <1>1. order \in Nat /\ pending \in [Queues -> SUBSET Task]
    BY DEF TypeOK, Entry, pending
  <1>2. CASE Registers
    BY SMTT(30), <1>1, <1>2 DEF Registers
  <1>3. CASE HandsOver
    BY SMTT(30), <1>1, <1>3 DEF HandsOver
  <1>4. CASE Destructs
    BY SMTT(30), <1>1, <1>4 DEF Destructs
  <1>5. CASE Ticks \/ LeavesTasks
    BY <1>1, <1>5 DEF Ticks, LeavesTasks
  <1> QED
    BY <1>2, <1>3, <1>4, <1>5, StepsOfTasks

\* What runs keeps running in order: it was registered before what is new.
LEMMA KeepsRunning ==
    ASSUME TypeOK, TimeInv, AccountInv, [Next]_vars,
           NEW q \in Queues, RunningInv(q), cur'[q] = cur[q]
    PROVE  RunningInv(q)'
  <1> SUFFICES ASSUME cur[q] # NoTask PROVE RunningInv(q)'
    BY DEF RunningInv
  <1>1. cur[q].home \in Queues /\ cur[q].task.order \in Nat /\ order \in Nat
    BY DEF TypeOK, Invocation, Task
  <1>2. order' \in Nat /\ cur[q].task.order < order'
    BY <1>1, OldTasksOrNew DEF RunningInv
  <1>3. ASSUME NEW t \in pending'[cur[q].home] PROVE ~Overtook(cur[q].task, t)
    BY <1>1, OldTasksOrNew DEF RunningInv, Overtook
  <1> QED
    BY <1>2, <1>3 DEF RunningInv

\* The task a flush takes is the first of those the loop sees, and it sees all
\* that the task could have overtaken: they are in the same source, and that
\* source is not paused if the task itself is of the secondary heap.
LEMMA FirstIsTaken ==
    ASSUME TypeOK, AccountInv, NEW q \in Queues, NEW t \in NextTasks(entries, q),
           NEW home \in Sources(entries, q), t \in entries[home].tasks,
           NEW u \in entries[home].tasks
    PROVE  ~Overtook(t, u)
  <1> SUFFICES ASSUME Overtook(t, u) PROVE FALSE
    OBVIOUS
  <1>1. Sources(entries, q) \subseteq Queues /\ t \in Visible(entries, q)
    BY VisibleTasks DEF TypeOK, NextTasks
  <1>2. entries[q].subsumedBy = Unmerged
    BY <1>1 DEF Visible
  <1>3. PICK s \in Sources(entries, q) : t \in Available(entries, s)
    BY <1>1, <1>2, Zenon DEF Visible
  <1>4. s = home
    <2>1. t \in pending[s] /\ t \in pending[home]
      BY <1>1, <1>3 DEF Available, pending
    <2> QED
      BY <1>1, <2>1 DEF AccountInv, UniqueInv
  <1>5. u \in Available(entries, home)
    BY <1>3, <1>4 DEF Available, Overtook
  <1>6. u \in Visible(entries, q)
    BY <1>2, <1>5, Zenon DEF Visible
  <1>7. t \in Task /\ u \in Task
    BY <1>1 DEF TypeOK, Entry
  <1> QED
    BY <1>6, <1>7 DEF NextTasks, After, Overtook, Task

LEMMA TakesInOrder ==
    ASSUME TypeOK, TimeInv, AccountInv, OrderInv, [Next]_vars,
           NEW q \in Queues, GetNextTaskToRun(q)
    PROVE  OrderInv'
  <1>1. ASSUME UNCHANGED cur PROVE OrderInv'
    BY <1>1, KeepsRunning DEF OrderInv
  <1>2. ASSUME NEW t \in NextTasks(entries, q),
               NEW home \in Sources(entries, q), t \in entries[home].tasks, NEW g,
               entries' = PopTask(entries, home, t),
               cur' = [cur EXCEPT ![q] = [home |-> home, task |-> t, tlsGrade |-> g]]
        PROVE  OrderInv'
    <2>1. home \in Queues /\ t \in Task
      BY VisibleTasks DEF NextTasks, TypeOK
    <2>2. cur'[q].home = home /\ cur'[q].task = t
      BY <1>2 DEF TypeOK
    <2>3. \A u \in pending'[home] : u \in entries[home].tasks
      BY <1>2, <2>1 DEF PopTask, pending, TypeOK, Entry
    <2>4. t.order < order /\ order' = order
      BY <1>2, <2>1 DEF AccountInv, PendingInv, pending, GetNextTaskToRun
    <2>5. RunningInv(q)'
      BY <1>2, <2>2, <2>3, <2>4, FirstIsTaken DEF RunningInv
    <2>6. \A r \in Queues \ {q} : cur'[r] = cur[r]
      BY <1>2 DEF TypeOK
    <2> QED
      BY <2>5, <2>6, KeepsRunning DEF OrderInv
  <1> QED
    BY <1>1, <1>2, Zenon DEF GetNextTaskToRun

LEMMA OrderNext ==
    TypeOK /\ TimeInv /\ AccountInv /\ OrderInv /\ [Next]_vars => OrderInv'
  <1> SUFFICES ASSUME TypeOK, TimeInv, AccountInv, OrderInv, [Next]_vars
               PROVE  OrderInv'
    OBVIOUS
  <1>1. ASSUME UNCHANGED cur PROVE OrderInv'
    BY <1>1, KeepsRunning DEF OrderInv
  <1>2. ASSUME NEW q \in Queues, FinishTask(q) PROVE OrderInv'
    <2>1. cur'[q] = NoTask /\ \A r \in Queues \ {q} : cur'[r] = cur[r]
      BY <1>2 DEF FinishTask, TypeOK
    <2>2. RunningInv(q)'
      BY <2>1 DEF RunningInv
    <2> QED
      BY <2>1, <2>2, KeepsRunning DEF OrderInv
  <1>3. ASSUME NEW q \in Queues, Loop(q) PROVE OrderInv'
    BY <1>1, <1>2, <1>3, TakesInOrder, Zenon
       DEF Loop, CreateLoop, Run, EpollReturns, OnEventFired, Terminate,
           RunExpiredTasksNow, DisposeTasks, Dispose
  <1>4. CASE Callers
    BY ZenonT(60), <1>1, <1>4
       DEF Callers, PostTask, FinishPost, PostMicroTask, PostUserInteraction,
           RegisterTask, Merge, Unmerge, PauseSecondarySource, ResumeSecondarySource
  <1> QED
    BY <1>1, <1>3, <1>4 DEF Next, Tick, vars

\* The tasks of a queue are taken in the order they were registered in, those
\* that are due as early and can be taken: through two heaps, pauses, and the
\* loops that read the queue one after the other as it is merged and unmerged.
THEOREM TasksInOrder == Spec => []TasksKeepTheirOrder
  <1>1. Init => OrderInv
    BY DEF Init, OrderInv, RunningInv
  <1>2. TypeOK /\ OrderInv => TasksKeepTheirOrder
    BY DEF TypeOK, Invocation, OrderInv, RunningInv, TasksKeepTheirOrder, pending
  <1> QED
    BY <1>1, <1>2, OrderNext, AccountInvariant, PTL DEF Spec
===============================================================================
