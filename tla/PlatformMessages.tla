--------------------------- MODULE PlatformMessages ---------------------------
(***************************************************************************)
(* Messages of the framework to handlers of the Android embedder, on one   *)
(* channel: the routing of shell/common/shell.cc, the table of responses   *)
(* of platform_message_handler_android.cc, and DartMessenger.java with its *)
(* SerialTaskQueue.                                                        *)
(*                                                                         *)
(* The UI thread sends.  While the shell is being set up, it routes every  *)
(* message through the platform thread and back.  The platform thread sets *)
(* and removes the handler of the channel; while there is none, messages   *)
(* may be buffered.  A handler runs on a pool of threads, one message at a *)
(* time; without a handler, the platform thread gives the empty answer.    *)
(***************************************************************************)
EXTENDS Integers, Sequences

CONSTANTS
    MaxMessages,  \* bound on the messages sent
    Pool          \* the threads of the executor service

ASSUME MessagesAssumption == MaxMessages \in Nat

Messages == 1..MaxMessages
Nothing == 0    \* no message

VARIABLES
    routed,         \* route_messages_through_platform_thread_
    sent,           \* messages sent so far
    uiMessages,     \* messages on their way back to the UI thread
    platformTasks,  \* tasks posted to the platform thread
    pending,        \* pending_responses_
    handlerSet,     \* messageHandlers has the channel
    buffering,      \* enableBufferingIncomingMessages
    buffered,       \* bufferedMessages of the channel
    handing,        \* what the UI thread is dispatching, and how far it is
    unbuffering,    \* messages the platform thread is dispatching, and to whom
    serialQueue,    \* queue of SerialTaskQueue
    isRunning,      \* isRunning of SerialTaskQueue
    flushes,        \* flushes the executor service has yet to run
    pool,           \* where the threads of the pool are in flush
    running,        \* the message a thread of the pool has polled
    dispatched,     \* history: messages in the order the serial queue got them
    handled,        \* history: messages in the order the handler got them
    answers         \* history: how often a message was answered

routeVars == <<routed, sent, uiMessages, pending, answers>>
handlerVars == <<handlerSet, buffering, buffered>>
queueVars == <<serialQueue, isRunning, flushes, pool, running, dispatched, handled>>
messageVars == <<routeVars, platformTasks, handlerVars, handing, unbuffering, queueVars>>

NotHanding == [message |-> Nothing, to |-> "nobody", at |-> "idle"]
StopRouting == [name |-> "stopRouting", message |-> Nothing]
ReturnToUi(x) == [name |-> "return", message |-> x]
AnswerEmpty(x) == [name |-> "answerEmpty", message |-> x]

PlatformTasks == {StopRouting} \cup {ReturnToUi(x) : x \in Messages}
                 \cup {AnswerEmpty(x) : x \in Messages}
Receivers == {"nobody", "handler"}

\* Every variable has its type.
MessageTypeOK ==
    /\ routed \in BOOLEAN /\ sent \in 0..MaxMessages
    /\ pending \in SUBSET Messages /\ answers \in [Messages -> Nat]
    /\ uiMessages \in Seq(Messages) /\ platformTasks \in Seq(PlatformTasks)
    /\ handlerSet \in BOOLEAN /\ buffering \in BOOLEAN /\ buffered \in Seq(Messages)
    /\ handing \in {NotHanding} \cup [message : Messages, to : Receivers,
                                      at : {"found", "added"}]
    /\ unbuffering \in [messages : Seq(Messages), to : Receivers, added : BOOLEAN]
    /\ serialQueue \in Seq(Messages) /\ isRunning \in BOOLEAN /\ flushes \in Nat
    /\ pool \in [Pool -> {"idle", "polling", "running", "releasing", "looking"}]
    /\ running \in [Pool -> Messages \cup {Nothing}]
    /\ dispatched \in Seq(Messages) /\ handled \in Seq(Messages)

MessageInit ==
    /\ routed = TRUE /\ sent = 0 /\ uiMessages = <<>>
    /\ platformTasks = <<StopRouting>>
    /\ pending = {}
    /\ handlerSet = FALSE /\ buffering \in BOOLEAN /\ buffered = <<>>
    /\ handing = NotHanding
    /\ unbuffering = [messages |-> <<>>, to |-> "nobody", added |-> FALSE]
    /\ serialQueue = <<>> /\ isRunning = FALSE /\ flushes = 0
    /\ pool = [p \in Pool |-> "idle"] /\ running = [p \in Pool |-> Nothing]
    /\ dispatched = <<>> /\ handled = <<>>
    /\ answers = [x \in Messages |-> 0]

\* InvokePlatformMessage(Empty)ResponseCallback.
Complete(x) ==
    /\ pending' = pending \ {x}
    /\ answers' = IF x \in pending THEN [answers EXCEPT ![x] = @ + 1] ELSE answers

(***************************************************************************)
(* The UI thread.                                                          *)
(***************************************************************************)
\* PlatformMessageHandlerAndroid::HandlePlatformMessage, and the synchronized
\* part of handleMessageFromDart.
HandleMessageFromDart_Drop(x) ==   \* mutant: buffered only when nobody handles the channel
    /\ pending' = pending \cup {x}
    /\ IF buffering
       THEN /\ buffered' = IF handlerSet THEN buffered ELSE Append(buffered, x)
            /\ UNCHANGED handing
       ELSE /\ handing' = [message |-> x, to |-> IF handlerSet THEN "handler" ELSE "nobody",
                           at |-> "found"]
            /\ UNCHANGED buffered
    /\ UNCHANGED <<handlerSet, buffering, answers>>
HandleMessageFromDart(x) ==
    /\ pending' = pending \cup {x}
    /\ IF buffering /\ ~handlerSet
       THEN buffered' = Append(buffered, x) /\ UNCHANGED handing
       ELSE /\ handing' = [message |-> x, to |-> IF handlerSet THEN "handler" ELSE "nobody",
                           at |-> "found"]
            /\ UNCHANGED buffered
    /\ UNCHANGED <<handlerSet, buffering, answers>>

\* Shell::OnEngineHandlePlatformMessage
SendMessage ==
    /\ handing = NotHanding /\ sent < MaxMessages
    /\ sent' = sent + 1
    /\ IF routed
       THEN /\ platformTasks' = Append(platformTasks, ReturnToUi(sent + 1))
            /\ UNCHANGED <<pending, answers, handlerVars, handing>>
       ELSE HandleMessageFromDart(sent + 1) /\ UNCHANGED platformTasks
    /\ UNCHANGED <<routed, uiMessages, unbuffering, queueVars>>

HandleReturned ==
    /\ handing = NotHanding /\ uiMessages # <<>>
    /\ uiMessages' = Tail(uiMessages)
    /\ HandleMessageFromDart(Head(uiMessages))
    /\ UNCHANGED <<routed, sent, platformTasks, unbuffering, queueVars>>

\* dispatchMessageToQueue to the platform task queue, or the first half of
\* SerialTaskQueue.dispatch.
AddRunnable(x, to) ==
    IF to = "handler"
    THEN /\ serialQueue' = Append(serialQueue, x)
         /\ dispatched' = Append(dispatched, x)
         /\ UNCHANGED platformTasks
    ELSE /\ platformTasks' = Append(platformTasks, AnswerEmpty(x))
         /\ UNCHANGED <<serialQueue, dispatched>>

DispatchHanding ==
    /\ handing.at = "found"
    /\ AddRunnable(handing.message, handing.to)
    /\ handing' = IF handing.to = "handler" THEN [handing EXCEPT !.at = "added"] ELSE NotHanding
    /\ UNCHANGED <<routeVars, handlerVars, unbuffering, isRunning, flushes, pool, running,
                   handled>>

ExecuteHanding ==
    /\ handing.at = "added"
    /\ flushes' = flushes + 1
    /\ handing' = NotHanding
    /\ UNCHANGED <<routeVars, platformTasks, handlerVars, unbuffering, serialQueue, isRunning,
                   pool, running, dispatched, handled>>

(***************************************************************************)
(* The platform thread.                                                    *)
(***************************************************************************)
NotUnbuffering == unbuffering.messages = <<>> /\ ~unbuffering.added

RunPlatformTask ==
    /\ NotUnbuffering /\ platformTasks # <<>>
    /\ platformTasks' = Tail(platformTasks)
    /\ LET task == Head(platformTasks) IN
       \/ /\ task.name = "stopRouting"
          /\ routed' = FALSE
          /\ UNCHANGED <<uiMessages, pending, answers>>
       \/ /\ task.name = "return"
          /\ uiMessages' = Append(uiMessages, task.message)
          /\ UNCHANGED <<routed, pending, answers>>
       \/ /\ task.name = "answerEmpty"
          /\ Complete(task.message)
          /\ UNCHANGED <<routed, uiMessages>>
    /\ UNCHANGED <<sent, handlerVars, handing, unbuffering, queueVars>>

SetMessageHandler ==
    /\ NotUnbuffering /\ ~handlerSet
    /\ handlerSet' = TRUE
    /\ unbuffering' = [messages |-> buffered, to |-> "handler", added |-> FALSE]
    /\ buffered' = <<>>
    /\ UNCHANGED <<routeVars, platformTasks, buffering, handing, queueVars>>

\* setMessageHandler with null.
RemoveMessageHandler ==
    /\ NotUnbuffering /\ handlerSet
    /\ handlerSet' = FALSE
    /\ UNCHANGED <<routeVars, platformTasks, buffering, buffered, handing, unbuffering,
                   queueVars>>

DisableBuffering ==
    /\ NotUnbuffering /\ buffering
    /\ buffering' = FALSE
    /\ unbuffering' = [messages |-> buffered, to |-> "nobody", added |-> FALSE]
    /\ buffered' = <<>>
    /\ UNCHANGED <<routeVars, platformTasks, handlerSet, handing, queueVars>>

DispatchBuffered ==
    /\ unbuffering.messages # <<>> /\ ~unbuffering.added
    /\ AddRunnable(Head(unbuffering.messages), unbuffering.to)
    /\ unbuffering' = [unbuffering EXCEPT !.messages = Tail(@),
                                          !.added = (unbuffering.to = "handler")]
    /\ UNCHANGED <<routeVars, handlerVars, handing, isRunning, flushes, pool, running,
                   handled>>

ExecuteBuffered ==
    /\ unbuffering.added
    /\ flushes' = flushes + 1
    /\ unbuffering' = [unbuffering EXCEPT !.added = FALSE]
    /\ UNCHANGED <<routeVars, platformTasks, handlerVars, handing, serialQueue, isRunning,
                   pool, running, dispatched, handled>>

(***************************************************************************)
(* SerialTaskQueue.flush, on the pool.                                     *)
(***************************************************************************)
PoolAt(p, from, to) == pool[p] = from /\ pool' = [pool EXCEPT ![p] = to]

\* isRunning.compareAndSet(false, true)
CompareAndSet(p) ==
    /\ flushes > 0
    /\ PoolAt(p, "idle", IF isRunning THEN "idle" ELSE "polling")
    /\ flushes' = flushes - 1
    /\ isRunning' = TRUE
    /\ UNCHANGED <<routeVars, platformTasks, handlerVars, handing, unbuffering, serialQueue,
                   running, dispatched, handled>>

Poll(p) ==
    /\ PoolAt(p, "polling", IF serialQueue = <<>> THEN "releasing" ELSE "running")
    /\ IF serialQueue = <<>>
       THEN UNCHANGED <<serialQueue, running>>
       ELSE /\ serialQueue' = Tail(serialQueue)
            /\ running' = [running EXCEPT ![p] = Head(serialQueue)]
    /\ UNCHANGED <<routeVars, platformTasks, handlerVars, handing, unbuffering, isRunning,
                   flushes, dispatched, handled>>

\* The handler answers, at once or when it likes, once.
RunHandler(p) ==
    /\ PoolAt(p, "running", "releasing")
    /\ handled' = Append(handled, running[p])
    /\ running' = [running EXCEPT ![p] = Nothing]
    /\ Complete(running[p])
    /\ UNCHANGED <<routed, sent, uiMessages, platformTasks, handlerVars, handing, unbuffering,
                   serialQueue, isRunning, flushes, dispatched>>

Release(p) ==
    /\ PoolAt(p, "releasing", "looking")
    /\ isRunning' = FALSE
    /\ UNCHANGED <<routeVars, platformTasks, handlerVars, handing, unbuffering, serialQueue,
                   flushes, running, dispatched, handled>>

LookAgain_No(p) ==   \* mutant: every dispatch schedules a flush, that should do
    /\ PoolAt(p, "looking", "idle")
    /\ UNCHANGED <<routeVars, platformTasks, handlerVars, handing, unbuffering, serialQueue,
                   isRunning, flushes, running, dispatched, handled>>
LookAgain(p) ==
    /\ PoolAt(p, "looking", "idle")
    /\ flushes' = IF serialQueue = <<>> THEN flushes ELSE flushes + 1
    /\ UNCHANGED <<routeVars, platformTasks, handlerVars, handing, unbuffering, serialQueue,
                   isRunning, running, dispatched, handled>>

-----------------------------------------------------------------------------
UiSide == HandleReturned \/ DispatchHanding \/ ExecuteHanding
PlatformSide == RunPlatformTask \/ DispatchBuffered \/ ExecuteBuffered
PoolSide == \E p \in Pool : \/ CompareAndSet(p) \/ Poll(p) \/ RunHandler(p)
                            \/ Release(p) \/ LookAgain(p)

MessageNext ==
    \/ SendMessage \/ UiSide
    \/ SetMessageHandler \/ RemoveMessageHandler \/ DisableBuffering \/ PlatformSide
    \/ PoolSide

MessageSpec == MessageInit /\ [][MessageNext]_messageVars

\* Threads go on, the pool included.  Nobody has to send, to set a handler or to
\* end the buffering.
MessageFairness ==
    /\ WF_messageVars(UiSide) /\ WF_messageVars(PlatformSide) /\ WF_messageVars(PoolSide)

-----------------------------------------------------------------------------
InFlush == {p \in Pool : pool[p] \in {"polling", "running", "releasing"}}

\* One message at a time, and in the order of dispatch, whichever threads run
\* the flushes and however many flushes were scheduled for a message.
OneAtATime ==
    /\ isRunning <=> InFlush # {}
    /\ \A p, q \in InFlush : p = q
    /\ \A p \in Pool : pool[p] = "running" => dispatched = handled \o <<running[p]>> \o serialQueue
    /\ (\A p \in Pool : pool[p] # "running") => dispatched = handled \o serialQueue

\* As long as messages are queued, somebody will look: a scheduled flush, a
\* thread that is in one, or the thread that has just added one.
NoMessageIsStuck ==
    serialQueue # <<>> =>
        \/ flushes > 0
        \/ \E p \in Pool : pool[p] # "idle"
        \/ handing.at = "added" \/ unbuffering.added

\* No message is answered twice, and the answer ends the wait for it.
AnsweredOnce ==
    \A x \in Messages : answers[x] <= 1 /\ (answers[x] = 1 => x \notin pending)

\* Every message is answered, with or without a handler, unless it is buffered
\* for good.
SentMessagesAreAnswered ==
    []<>(\A x \in 1..sent : answers[x] = 1 \/ \E i \in DOMAIN buffered : buffered[i] = x)

\* The messages of a channel take turns, and no turn is left out.
MessagesTakeTurns == OneAtATime /\ NoMessageIsStuck

\* Each message is answered, once.
EachMessageIsAnswered == []AnsweredOnce /\ SentMessagesAreAnswered
=============================================================================
