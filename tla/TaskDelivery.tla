----------------------------- MODULE TaskDelivery -----------------------------
(***************************************************************************)
(* What fml::TaskRunner promises to the code that posts a task, whatever   *)
(* queues, merges, timers and threads are behind it: a task is run at most *)
(* once, not before its target time, and not after it was destructed; and  *)
(* until one of the two happens to it, it waits.                           *)
(***************************************************************************)
EXTENDS Naturals

CONSTANTS MaxTasks, MaxTime   \* bounds on the tasks and on the clock

VARIABLES waiting,   \* registered tasks, as [order, target] records
          ran,       \* orders of the tasks handed to a thread
          dropped,   \* orders of the tasks destructed unrun
          clock

vars == <<waiting, ran, dropped, clock>>

Orders(S) == {t.order : t \in S}

Init == waiting = {} /\ ran = {} /\ dropped = {} /\ clock = 0

Register ==
    \E n \in 0..(MaxTasks - 1), target \in 0..MaxTime :
        /\ n \notin ran \cup dropped \cup Orders(waiting)
        /\ waiting' = waiting \cup {[order |-> n, target |-> target]}
        /\ UNCHANGED <<ran, dropped, clock>>

Run ==
    \E t \in waiting :
        /\ t.target <= clock
        /\ waiting' = waiting \ {t}
        /\ ran' = ran \cup {t.order}
        /\ UNCHANGED <<dropped, clock>>

Drop ==
    \E S \in SUBSET waiting :
        /\ waiting' = waiting \ S
        /\ dropped' = dropped \cup Orders(S)
        /\ UNCHANGED <<ran, clock>>

Tick == clock' = clock + 1 /\ UNCHANGED <<waiting, ran, dropped>>

Next == Register \/ Run \/ Drop \/ Tick

Spec == Init /\ [][Next]_vars
===============================================================================
