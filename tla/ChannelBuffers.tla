----------------------------- MODULE ChannelBuffers -----------------------------
(***************************************************************************)
(* One channel of the buffers that dart:ui keeps for platform messages     *)
(* (lib/ui/channel_buffers.dart).  Messages go to the listener at once, or *)
(* wait in a queue of bounded length for a listener; a listener that is    *)
(* set is given what waits, one message per microtask.                     *)
(*                                                                         *)
(* The isolate runs one thing at a time: a message of the engine, a        *)
(* microtask, or a call of the program.  A handler may set and clear       *)
(* listeners and change the capacity while it runs, and it may throw.      *)
(***************************************************************************)
EXTENDS Integers, Sequences, Functions

CONSTANTS
    MaxPushes,  \* bound on the messages of the engine
    Capacities  \* the capacities that are used, 1 is the default

ASSUME MaxPushesAssumption == MaxPushes \in Nat
ASSUME CapacitiesAssumption == Capacities \subseteq Nat /\ 1 \in Capacities

VARIABLES
    queue,       \* _queue, the numbers of the messages
    capacity,    \* _capacity
    listener,    \* _channelCallbackRecord is set
    draining,    \* _draining
    drainSteps,  \* microtasks that will call _drainStep
    handler,     \* which call runs the listener: none, push or _drainStep
    oldDrain,    \* a call of the deprecated drain() has not come to its end
    received,    \* messages the engine has sent
    delivered,   \* history: messages in the order they were given to a listener
    refused,     \* history: messages discarded with an empty reply
    ignored,     \* history: messages discarded without any
    threw        \* history: a listener has thrown in _drainStep

channelVars == <<queue, capacity, listener, draining, drainSteps, handler, oldDrain,
                 received, delivered, refused, ignored, threw>>

EngineMessages == 1..MaxPushes

\* Every variable has its type.
ChannelTypeOK ==
    /\ queue \in Seq(EngineMessages) /\ delivered \in Seq(EngineMessages)
    /\ capacity \in Capacities
    /\ listener \in BOOLEAN /\ draining \in BOOLEAN
    /\ drainSteps \in Nat
    /\ handler \in {"none", "push", "drainStep"}
    /\ oldDrain \in BOOLEAN /\ threw \in BOOLEAN
    /\ received \in 0..MaxPushes
    /\ refused \in SUBSET EngineMessages /\ ignored \in SUBSET EngineMessages

ChannelInit ==
    /\ queue = <<>> /\ capacity = 1 /\ listener = FALSE
    /\ draining = FALSE /\ drainSteps = 0 /\ handler = "none" /\ oldDrain = FALSE
    /\ received = 0 /\ delivered = <<>> /\ refused = {} /\ ignored = {} /\ threw = FALSE

\* _dropOverflowMessages: the oldest messages of q beyond the limit are refused.
Overflow(q, limit) == IF Len(q) > limit THEN Len(q) - limit ELSE 0
Refused(q, limit) == refused \cup {q[i] : i \in 1..Overflow(q, limit)}
Remaining(q, limit) == SubSeq(q, Overflow(q, limit) + 1, Len(q))

(***************************************************************************)
(* The engine's message, _Channel.push.                                    *)
(***************************************************************************)
HandedOver == ~draining /\ listener

Push ==
    LET message == received + 1 IN
    /\ handler = "none" /\ received < MaxPushes
    /\ received' = message
    /\ IF HandedOver
       THEN /\ handler' = "push"
            /\ delivered' = Append(delivered, message)
            /\ UNCHANGED <<queue, refused, ignored>>
       ELSE /\ IF capacity = 0
               THEN ignored' = ignored \cup {message} /\ UNCHANGED <<queue, refused>>
               ELSE /\ queue' = Append(Remaining(queue, capacity - 1), message)
                    /\ refused' = Refused(queue, capacity - 1)
                    /\ UNCHANGED ignored
            /\ UNCHANGED <<handler, delivered>>
    /\ UNCHANGED <<capacity, listener, draining, drainSteps, oldDrain, threw>>

(***************************************************************************)
(* What the program does, in a handler or elsewhere.                       *)
(***************************************************************************)
\* The capacity of the channel is set.
SetCapacity(size) ==
    /\ capacity' = size
    /\ queue' = Remaining(queue, size)
    /\ refused' = Refused(queue, size)
    /\ UNCHANGED <<listener, draining, drainSteps, handler, oldDrain, received, delivered,
                   ignored, threw>>

NeedsDrain_Always == ~listener            \* mutant: a second drain starts
NeedsDrain == ~listener /\ ~draining

SetListener ==
    /\ listener' = TRUE
    /\ draining' = (draining \/ NeedsDrain)
    /\ drainSteps' = IF NeedsDrain THEN drainSteps + 1 ELSE drainSteps
    /\ UNCHANGED <<queue, capacity, handler, oldDrain, received, delivered, refused,
                   ignored, threw>>

ClearListener ==
    /\ listener' = FALSE
    /\ UNCHANGED <<queue, capacity, draining, drainSteps, handler, oldDrain, received, delivered,
                   refused, ignored, threw>>

\* The deprecated drain(): its callback takes the messages, awaited one by one.
Drain ==
    /\ ~oldDrain /\ oldDrain' = TRUE
    /\ UNCHANGED <<queue, capacity, listener, draining, drainSteps, handler, received, delivered,
                   refused, ignored, threw>>

ContinueDrain ==
    /\ oldDrain /\ handler = "none"
    /\ IF queue # <<>>
       THEN /\ delivered' = Append(delivered, Head(queue)) /\ queue' = Tail(queue)
            /\ UNCHANGED oldDrain
       ELSE oldDrain' = FALSE /\ UNCHANGED <<queue, delivered>>
    /\ UNCHANGED <<capacity, listener, draining, drainSteps, handler, received, refused,
                   ignored, threw>>

(***************************************************************************)
(* _drainStep, up to the call of the listener and after it.                *)
(***************************************************************************)
DrainStep ==
    /\ drainSteps > 0 /\ handler = "none"
    /\ drainSteps' = drainSteps - 1
    /\ IF queue # <<>> /\ listener
       THEN /\ delivered' = Append(delivered, Head(queue)) /\ queue' = Tail(queue)
            /\ handler' = "drainStep"
            /\ UNCHANGED draining
       ELSE draining' = FALSE /\ UNCHANGED <<queue, delivered, handler>>
    /\ UNCHANGED <<capacity, listener, oldDrain, received, refused, ignored, threw>>

HandlerReturns_Once ==   \* mutant: one message per drain
    /\ handler # "none"
    /\ handler' = "none"
    /\ draining' = FALSE
    /\ UNCHANGED <<queue, capacity, listener, drainSteps, oldDrain, received, delivered, refused,
                   ignored, threw>>
HandlerReturns ==
    /\ handler # "none"
    /\ handler' = "none"
    /\ drainSteps' = IF handler = "drainStep" THEN drainSteps + 1 ELSE drainSteps
    /\ UNCHANGED <<queue, capacity, listener, draining, oldDrain, received, delivered, refused,
                   ignored, threw>>

\* In the zone of the listener: whoever called it is left as well.
HandlerThrows ==
    /\ handler # "none"
    /\ handler' = "none"
    /\ threw' = (threw \/ handler = "drainStep")
    /\ UNCHANGED <<queue, capacity, listener, draining, drainSteps, oldDrain, received, delivered,
                   refused, ignored>>

-----------------------------------------------------------------------------
ChannelNext ==
    \/ Push \/ \E size \in Capacities : SetCapacity(size)
    \/ SetListener \/ ClearListener
    \/ Drain \/ ContinueDrain \/ DrainStep \/ HandlerReturns \/ HandlerThrows

ChannelSpec == ChannelInit /\ [][ChannelNext]_channelVars

\* Microtasks run, the deprecated drain goes on, and a handler comes to its end.
HandlerEnds == HandlerReturns \/ HandlerThrows
ChannelFairness ==
    WF_channelVars(DrainStep) /\ WF_channelVars(ContinueDrain) /\ WF_channelVars(HandlerEnds)

-----------------------------------------------------------------------------
\* A listener never finds messages that wait while no drain will give them to it:
\* the assertion of push, whatever was set, cleared and resized before.
ListenerHasNoBacklog == listener /\ ~draining => queue = <<>>

\* There is one drain at a time: its flag, its microtask and its handler agree, up
\* to a listener that throws.
OneDrainAtATime ==
    LET running == drainSteps + (IF handler = "drainStep" THEN 1 ELSE 0)
    IN  running = (IF draining /\ ~threw THEN 1 ELSE 0)

\* Messages are delivered in the order they came, those that wait come after those
\* that were delivered, and no more wait than the capacity allows.
DeliveredInOrder ==
    LET all == delivered \o queue
    IN  /\ \A i, j \in DOMAIN all : i < j => all[i] < all[j]
        /\ Len(queue) <= capacity

\* Each message is delivered, waits, or was discarded.
NoMessageVanishes ==
    1..received = Range(delivered) \cup Range(queue) \cup refused \cup ignored

\* While there is a listener that does not throw, what waits is given to it.
BacklogIsDrained == []<>(queue = <<>> \/ ~listener \/ threw)

\* The messages of a channel are delivered in order, each of them once or not at
\* all, and none waits behind the back of a listener.
ChannelSafety ==
    ListenerHasNoBacklog /\ OneDrainAtATime /\ DeliveredInOrder /\ NoMessageVanishes

(***************************************************************************)
(* What the code says of itself and does not keep.                         *)
(***************************************************************************)
\* "Whether a microtask is queued to call [_drainStep]" (channel_buffers.dart:107);
\* its listener runs just before it is queued again.
DrainingHasAMicrotask == draining => drainSteps > 0 \/ handler = "drainStep"
=============================================================================
