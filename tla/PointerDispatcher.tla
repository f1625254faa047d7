--------------------------- MODULE PointerDispatcher ---------------------------
(***************************************************************************)
(* Pointer data on the UI thread, in step with the display                 *)
(* (shell/common/pointer_data_dispatcher.cc), and the part of the vsync    *)
(* waiter it needs (shell/common/vsync_waiter.cc): the callback for a      *)
(* frame and the secondary callbacks, which share one request for a vsync. *)
(*                                                                         *)
(* A packet that comes while another one is in progress is held until the  *)
(* callback of the next vsync, or until the packet after it.  The callback *)
(* of a vsync is a task: packets and vsyncs may come before it runs.       *)
(***************************************************************************)
EXTENDS Integers, Sequences

CONSTANTS
    MaxPackets,    \* bound on the packets of the platform
    MaxVsyncTasks  \* bound on the tasks of one vsync that wait to be run

ASSUME MaxPacketsAssumption == MaxPackets \in Nat
ASSUME MaxVsyncTasksAssumption == MaxVsyncTasks \in Nat \ {0}

VARIABLES
    pointerTasks,   \* tasks of the UI thread: a packet, "frame", or a secondary callback
    sentPackets,    \* packets the platform has sent
    pendingPacket,  \* pending_packet_, 0 for none
    inProgress,     \* is_pointer_data_in_progress_
    frameCallback,  \* callback_ of the waiter is set
    registered,     \* secondary_callbacks_, by id
    vsyncsAwaited,  \* calls of AwaitVSync that were not answered yet
    toFramework     \* history: the packets given to the framework

dispatcherVars == <<pointerTasks, sentPackets, pendingPacket, inProgress, frameCallback,
                    registered, vsyncsAwaited, toFramework>>

Ids == {"dispatcher", "animator"}
Packets == 1..MaxPackets
NoPacket == 0
Vsyncs == {"frame"} \cup Ids
UITasks == [packet : {NoPacket}, vsync : Vsyncs] \cup [packet : Packets, vsync : {"none"}]

PacketTask(p) == [packet |-> p, vsync |-> "none"]
VsyncTask(v) == [packet |-> NoPacket, vsync |-> v]

\* Every variable has its type.
DispatcherTypeOK ==
    /\ pointerTasks \in Seq(UITasks)
    /\ sentPackets \in 0..MaxPackets
    /\ pendingPacket \in Packets \cup {NoPacket}
    /\ inProgress \in BOOLEAN /\ frameCallback \in BOOLEAN
    /\ registered \in SUBSET Ids
    /\ vsyncsAwaited \in Nat
    /\ toFramework \in Seq(Packets)

DispatcherInit ==
    /\ pointerTasks = <<>> /\ sentPackets = 0
    /\ pendingPacket = NoPacket /\ inProgress = FALSE
    /\ frameCallback = FALSE /\ registered = {} /\ vsyncsAwaited = 0
    /\ toFramework = <<>>

(***************************************************************************)
(* The vsync waiter.                                                       *)
(***************************************************************************)
ScheduleSecondaryCallbacks_Never(ids) ==    \* mutant: the frame's vsync will do
    /\ registered' = registered \cup ids
    /\ vsyncsAwaited' = vsyncsAwaited
\* ScheduleSecondaryCallback of each of these ids.
ScheduleSecondaryCallbacks(ids) ==
    /\ registered' = registered \cup ids
    /\ vsyncsAwaited' = IF frameCallback \/ registered # {} \/ ids = {} THEN vsyncsAwaited
                        ELSE vsyncsAwaited + 1

AsyncWaitForVsync ==
    /\ frameCallback' = TRUE
    /\ vsyncsAwaited' = IF frameCallback \/ registered # {} THEN vsyncsAwaited
                        ELSE vsyncsAwaited + 1
    /\ UNCHANGED <<pointerTasks, sentPackets, pendingPacket, inProgress, registered,
                   toFramework>>

VsyncTasks ==
    (IF frameCallback THEN <<VsyncTask("frame")>> ELSE <<>>)
        \o (IF "animator" \in registered THEN <<VsyncTask("animator")>> ELSE <<>>)
        \o (IF "dispatcher" \in registered THEN <<VsyncTask("dispatcher")>> ELSE <<>>)

\* At most MaxVsyncTasks tasks of former vsyncs wait.
FireCallback ==
    /\ vsyncsAwaited > 0
    /\ Len(SelectSeq(pointerTasks, LAMBDA t : t.packet = NoPacket)) < MaxVsyncTasks
    /\ vsyncsAwaited' = vsyncsAwaited - 1
    /\ frameCallback' = FALSE /\ registered' = {}
    /\ pointerTasks' = pointerTasks \o VsyncTasks
    /\ UNCHANGED <<sentPackets, pendingPacket, inProgress, toFramework>>

(***************************************************************************)
(* The dispatcher.                                                         *)
(***************************************************************************)
\* The platform sends a packet.
SendPacket ==
    /\ sentPackets < MaxPackets
    /\ sentPackets' = sentPackets + 1
    /\ pointerTasks' = Append(pointerTasks, PacketTask(sentPackets + 1))
    /\ UNCHANGED <<pendingPacket, inProgress, frameCallback, registered, vsyncsAwaited,
                   toFramework>>

\* DoDispatchPacket; the animator's callback ends the trace of the packet.
DoDispatchPacket(packet) == toFramework' = Append(toFramework, packet)

DispatchPacket_Replace(packet) ==   \* mutant: the newest packet replaces the one held
    /\ IF inProgress
       THEN /\ toFramework' = toFramework
            /\ pendingPacket' = packet
       ELSE /\ DoDispatchPacket(packet)
            /\ pendingPacket' = pendingPacket
    /\ inProgress' = TRUE
    /\ ScheduleSecondaryCallbacks(IF inProgress /\ pendingPacket = NoPacket THEN {"dispatcher"}
                                  ELSE Ids)
DispatchPacket(packet) ==
    /\ IF inProgress
       THEN /\ IF pendingPacket # NoPacket THEN DoDispatchPacket(pendingPacket)
               ELSE toFramework' = toFramework
            /\ pendingPacket' = packet
       ELSE /\ DoDispatchPacket(packet)
            /\ pendingPacket' = pendingPacket
    /\ inProgress' = TRUE
    /\ ScheduleSecondaryCallbacks(IF inProgress /\ pendingPacket = NoPacket THEN {"dispatcher"}
                                  ELSE Ids)

\* The callback of a vsync; DispatchPendingPacket waits for the next one.
SecondaryCallback ==
    IF inProgress /\ pendingPacket # NoPacket
    THEN /\ DoDispatchPacket(pendingPacket)
         /\ pendingPacket' = NoPacket
         /\ inProgress' = inProgress
         /\ ScheduleSecondaryCallbacks(Ids)
    ELSE /\ inProgress' = FALSE
         /\ UNCHANGED <<toFramework, pendingPacket, registered, vsyncsAwaited>>

\* The next task of the UI thread; a frame and the animator's callback leave the
\* dispatcher alone.
RunUITask ==
    /\ pointerTasks # <<>>
    /\ pointerTasks' = Tail(pointerTasks)
    /\ \/ Head(pointerTasks).packet # NoPacket /\ DispatchPacket(Head(pointerTasks).packet)
       \/ Head(pointerTasks).vsync = "dispatcher" /\ SecondaryCallback
       \/ /\ Head(pointerTasks).vsync \in {"frame", "animator"}
          /\ UNCHANGED <<pendingPacket, inProgress, registered, vsyncsAwaited, toFramework>>
    /\ UNCHANGED <<sentPackets, frameCallback>>

-----------------------------------------------------------------------------
DispatcherNext == SendPacket \/ AsyncWaitForVsync \/ FireCallback \/ RunUITask

DispatcherSpec == DispatcherInit /\ [][DispatcherNext]_dispatcherVars

\* The UI thread runs its tasks, and a vsync that is awaited comes.
DispatcherFairness == WF_dispatcherVars(RunUITask) /\ WF_dispatcherVars(FireCallback)

DispatcherFairSpec == DispatcherSpec /\ DispatcherFairness

-----------------------------------------------------------------------------
SentInOrder(n) == [i \in 1..n |-> i]

Held == IF pendingPacket = NoPacket THEN <<>> ELSE <<pendingPacket>>
Taken == toFramework \o Held
WaitingPackets == {pointerTasks[i].packet : i \in DOMAIN pointerTasks} \ {NoPacket}

\* No packet is lost, repeated or overtaken: what was dispatched and the packet that
\* is held are the first packets that were sent, in order, and the others wait in
\* order.
PacketsInOrder ==
    /\ Taken = SentInOrder(Len(Taken)) /\ Len(Taken) <= sentPackets
    /\ WaitingPackets = (Len(Taken) + 1)..sentPackets
    /\ \A i, j \in DOMAIN pointerTasks :
          i < j /\ pointerTasks[j].packet # NoPacket
              => pointerTasks[i].packet < pointerTasks[j].packet

\* As long as a packet is in progress, a callback is registered or on its way that
\* will deliver what is held and end the progress; nothing is held otherwise.
ProgressHasACallback ==
    /\ inProgress => \/ "dispatcher" \in registered
                     \/ \E i \in DOMAIN pointerTasks : pointerTasks[i].vsync = "dispatcher"
    /\ pendingPacket # NoPacket => inProgress

\* A frame's callback and the secondary ones share one request: there is one if
\* any callback is registered, and never two.
OneVsyncForAll == vsyncsAwaited = IF frameCallback \/ registered # {} THEN 1 ELSE 0

\* Every packet is dispatched, the last one too.
PacketsAreDispatched == []<>(Len(toFramework) = sentPackets)

\* When packets stop, the progress ends, so that the next packet is not held.
ProgressEnds ==
    []<>(~inProgress \/ \E i \in DOMAIN pointerTasks : pointerTasks[i].packet # NoPacket)

\* Packets stay in order, and what is held has its vsync.
PacketsAreHeldInOrder == PacketsInOrder /\ ProgressHasACallback /\ OneVsyncForAll

\* The last packet is not held for good, nor the first one of the next gesture.
PacketsGoOn == PacketsAreDispatched /\ ProgressEnds
=============================================================================
