---------------------------- MODULE EmbeddingProofs ----------------------------
(***************************************************************************)
(* What holds between the engine and those who embed it: of the messages   *)
(* of a channel for every number of messages and every pool of threads, of *)
(* the channel buffers for every capacity, and of the resizing of a window *)
(* for every number of sizes.  The three components share no state, and    *)
(* each has its own part.                                                  *)
(***************************************************************************)
EXTENDS PlatformMessages, ChannelBuffers, WindowsResize, SequenceTheorems, TLAPS

(***************************************************************************)
(* PlatformMessages.                                                       *)
(*                                                                         *)
(* MessagesTakeTurns is inductive together with the types: a thread that   *)
(* is in flush is the one that has set isRunning, and whoever empties the  *)
(* places where a message could be noticed is one of these places itself.  *)
(***************************************************************************)
MessageInv == MessageTypeOK /\ MessagesTakeTurns

\* What MessagesTakeTurns speaks of, but for who has just added a message.
turnVars == <<serialQueue, isRunning, pool, running, dispatched, handled>>

-----------------------------------------------------------------------------
\* The first message of the second part may be written at the end of the first.
LEMMA ConcatHead ==
    ASSUME NEW S, NEW s \in Seq(S), NEW t \in Seq(S), t # <<>>
    PROVE  s \o t = (s \o <<Head(t)>>) \o Tail(t)
  <1>1. Head(t) \in S /\ Tail(t) \in Seq(S) /\ <<Head(t)>> \in Seq(S)
    OBVIOUS
  <1>2. t = <<Head(t)>> \o Tail(t)
    OBVIOUS
  <1>3. QED BY SMTT(30), <1>1, <1>2, ConcatAssociative

LEMMA AppendConcat ==
    ASSUME NEW S, NEW s \in Seq(S), NEW x \in S
    PROVE  Append(s, x) = s \o <<x>>
  OBVIOUS

LEMMA MessageInitInv == MessageInit => MessageInv
  <1> SUFFICES ASSUME MessageInit PROVE MessageInv
    OBVIOUS
  <1>1. /\ routed \in BOOLEAN /\ handlerSet \in BOOLEAN /\ buffering \in BOOLEAN
        /\ isRunning \in BOOLEAN
    BY Zenon DEF MessageInit
  <1>2. /\ sent \in 0..MaxMessages /\ pending \in SUBSET Messages /\ answers \in [Messages -> Nat]
        /\ uiMessages \in Seq(Messages) /\ buffered \in Seq(Messages)
        /\ serialQueue \in Seq(Messages) /\ dispatched \in Seq(Messages) /\ handled \in Seq(Messages)
        /\ flushes \in Nat
    BY MessagesAssumption DEF MessageInit
  <1>3. platformTasks \in Seq(PlatformTasks)
    BY DEF MessageInit, PlatformTasks
  <1>4. unbuffering \in [messages : Seq(Messages), to : Receivers, added : BOOLEAN]
    BY DEF MessageInit, Receivers
  <1>5. handing \in {NotHanding} \cup [message : Messages, to : Receivers, at : {"found", "added"}]
    BY Zenon DEF MessageInit
  <1>6. /\ pool \in [Pool -> {"idle", "polling", "running", "releasing", "looking"}]
        /\ running \in [Pool -> Messages \cup {Nothing}]
    BY DEF MessageInit
  <1>7. MessageTypeOK
    BY <1>1, <1>2, <1>3, <1>4, <1>5, <1>6 DEF MessageTypeOK
  <1>8. \A p \in Pool : pool[p] = "idle"
    BY DEF MessageInit
  <1>9. InFlush = {}
    BY <1>8 DEF InFlush
  <1>10. OneAtATime /\ NoMessageIsStuck
    BY <1>8, <1>9 DEF MessageInit, OneAtATime, NoMessageIsStuck
  <1>11. QED BY <1>7, <1>10 DEF MessageInv, MessagesTakeTurns

\* Steps that leave the serial queue and the pool alone.
LEMMA OthersKeepTurns ==
    ASSUME MessageInv, UNCHANGED turnVars, flushes' = flushes,
           handing.at = "added" => handing'.at = "added",
           unbuffering.added => unbuffering'.added
    PROVE  MessagesTakeTurns'
  BY DEF MessageInv, MessagesTakeTurns, OneAtATime, NoMessageIsStuck, InFlush, turnVars

\* The empty answer, or the handler's.
LEMMA CompleteFacts ==
    ASSUME MessageTypeOK, NEW x \in Messages, Complete(x)
    PROVE  pending' \in SUBSET Messages /\ answers' \in [Messages -> Nat]
  BY SMTT(30) DEF MessageTypeOK, Complete

\* A message is buffered, or is about to be dispatched.
LEMMA HandleFacts ==
    ASSUME MessageTypeOK, NEW x \in Messages, HandleMessageFromDart(x)
    PROVE  /\ pending' \in SUBSET Messages /\ buffered' \in Seq(Messages)
           /\ \/ handing' = handing
              \/ handing' \in [message : Messages, to : Receivers, at : {"found", "added"}]
           /\ UNCHANGED <<handlerSet, buffering, answers>>
  <1>1. \/ handing' = handing
        \/ handing' = [message |-> x, to |-> IF handlerSet THEN "handler" ELSE "nobody",
                       at |-> "found"]
    BY DEF HandleMessageFromDart
  <1>2. buffered' = buffered \/ buffered' = Append(buffered, x)
    BY DEF HandleMessageFromDart
  <1>3. pending' = pending \cup {x} /\ UNCHANGED <<handlerSet, buffering, answers>>
    BY DEF HandleMessageFromDart
  <1>4. \A to \in Receivers : [message |-> x, to |-> to, at |-> "found"]
              \in [message : Messages, to : Receivers, at : {"found", "added"}]
    OBVIOUS
  <1>5. "handler" \in Receivers /\ "nobody" \in Receivers
    BY DEF Receivers
  <1>6. pending' \in SUBSET Messages /\ buffered' \in Seq(Messages)
    <2>1. buffered \in Seq(Messages) /\ Append(buffered, x) \in Seq(Messages)
      BY DEF MessageTypeOK
    <2>2. buffered' \in Seq(Messages)
      BY <1>2, <2>1, Zenon
    <2>3. QED BY <1>3, <2>2 DEF MessageTypeOK
  <1>7. QED BY <1>1, <1>3, <1>4, <1>5, <1>6

-----------------------------------------------------------------------------
LEMMA UiInv ==
    ASSUME MessageInv, SendMessage \/ HandleReturned PROVE MessageInv'
  <1> USE DEF MessageInv, routeVars, handlerVars, queueVars
  <1>1. handing = NotHanding /\ handing.at = "idle"
    BY DEF SendMessage, HandleReturned, NotHanding
  <1>2. UNCHANGED <<routed, unbuffering, queueVars>>
    BY DEF SendMessage, HandleReturned
  <1>3. MessagesTakeTurns'
    BY <1>1, <1>2, OthersKeepTurns DEF turnVars
  <1>4. ASSUME SendMessage PROVE MessageTypeOK'
    <2>1. sent + 1 \in Messages /\ sent' = sent + 1 /\ sent' \in 0..MaxMessages
      BY <1>4, MessagesAssumption DEF SendMessage, Messages, MessageTypeOK
    <2>2. uiMessages' = uiMessages
      BY <1>4 DEF SendMessage
    <2>3. CASE routed
      <3>1. /\ platformTasks' = Append(platformTasks, ReturnToUi(sent + 1))
            /\ UNCHANGED <<pending, answers, handlerVars, handing>>
        BY <1>4, <2>3 DEF SendMessage
      <3>2. ReturnToUi(sent + 1) \in PlatformTasks
        BY <2>1 DEF PlatformTasks
      <3>3. QED BY SMTT(30), <3>1, <3>2, <2>1, <2>2, <1>2 DEF MessageTypeOK
    <2>4. CASE ~routed
      <3>1. HandleMessageFromDart(sent + 1) /\ UNCHANGED platformTasks
        BY <1>4, <2>4 DEF SendMessage
      <3>2. QED BY <3>1, <2>1, <2>2, <1>2, HandleFacts DEF MessageTypeOK
    <2>5. QED BY <2>3, <2>4
  <1>5. ASSUME HandleReturned PROVE MessageTypeOK'
    <2>1. /\ uiMessages # <<>> /\ uiMessages' = Tail(uiMessages)
          /\ HandleMessageFromDart(Head(uiMessages))
          /\ UNCHANGED <<routed, sent, platformTasks, unbuffering, queueVars>>
      BY <1>5 DEF HandleReturned
    <2>2. Head(uiMessages) \in Messages /\ uiMessages' \in Seq(Messages)
      BY <2>1 DEF MessageTypeOK
    <2>3. QED BY <2>1, <2>2, HandleFacts DEF MessageTypeOK
  <1>6. QED BY <1>3, <1>4, <1>5

\* A message is added to the serial queue.
LEMMA AddKeepsTurns ==
    ASSUME MessageInv, NEW x \in Messages,
           serialQueue' = serialQueue \o <<x>>, dispatched' = dispatched \o <<x>>,
           UNCHANGED <<isRunning, pool, running, handled, flushes>>,
           handing'.at = "added" \/ unbuffering'.added
    PROVE  /\ MessagesTakeTurns'
           /\ serialQueue' \in Seq(Messages) /\ dispatched' \in Seq(Messages)
  <1> DEFINE S == Messages \cup {Nothing}
  <1>1. /\ serialQueue \in Seq(Messages) /\ dispatched \in Seq(Messages) /\ handled \in Seq(Messages)
        /\ running \in [Pool -> S] /\ OneAtATime
    BY DEF MessageInv, MessageTypeOK, MessagesTakeTurns
  <1>2. <<x>> \in Seq(Messages) /\ <<x>> \in Seq(S)
    OBVIOUS
  <1>3. serialQueue' \in Seq(Messages) /\ dispatched' \in Seq(Messages)
    BY <1>1, <1>2
  <1>4. handled \in Seq(S) /\ serialQueue \in Seq(S)
    BY <1>1, SeqMonotonic
  <1>5. InFlush' = InFlush
    BY DEF InFlush
  <1>6. ASSUME NEW p \in Pool, pool'[p] = "running"
        PROVE  dispatched' = handled' \o <<running'[p]>> \o serialQueue'
    <2>1. dispatched = (handled \o <<running[p]>>) \o serialQueue
      BY <1>1, <1>6 DEF OneAtATime
    <2>2. handled \o <<running[p]>> \in Seq(S)
      BY <1>1, <1>4
    <2> HIDE DEF S
    <2>3. ((handled \o <<running[p]>>) \o serialQueue) \o <<x>>
             = (handled \o <<running[p]>>) \o (serialQueue \o <<x>>)
      BY SMTT(30), <1>2, <1>4, <2>2, ConcatAssociative
    <2>4. QED BY <2>1, <2>3
  <1>7. ASSUME \A p \in Pool : pool'[p] # "running"
        PROVE  dispatched' = handled' \o serialQueue'
    <2>1. dispatched = handled \o serialQueue
      BY <1>1, <1>7 DEF OneAtATime
    <2>2. (handled \o serialQueue) \o <<x>> = handled \o (serialQueue \o <<x>>)
      BY SMTT(30), <1>1, <1>2, ConcatAssociative
    <2>3. QED BY <2>1, <2>2
  <1>8. OneAtATime'
    BY <1>1, <1>5, <1>6, <1>7 DEF OneAtATime
  <1>9. NoMessageIsStuck'
    BY DEF NoMessageIsStuck
  <1>10. QED BY <1>3, <1>8, <1>9 DEF MessagesTakeTurns

LEMMA DispatchHandingInv == ASSUME MessageInv, DispatchHanding PROVE MessageInv'
  <1> USE DEF MessageInv, routeVars, handlerVars, queueVars
  <1>1. /\ handing.at = "found" /\ AddRunnable(handing.message, handing.to)
        /\ handing' = IF handing.to = "handler" THEN [handing EXCEPT !.at = "added"] ELSE NotHanding
        /\ UNCHANGED <<routeVars, handlerVars, unbuffering, isRunning, flushes, pool, running,
                       handled>>
    BY DEF DispatchHanding
  <1>2. /\ handing \in [message : Messages, to : Receivers, at : {"found", "added"}]
        /\ handing.message \in Messages
    BY <1>1 DEF MessageTypeOK, NotHanding
  <1>3. CASE handing.to = "handler"
    <2>0. /\ serialQueue' = Append(serialQueue, handing.message)
          /\ dispatched' = Append(dispatched, handing.message) /\ UNCHANGED platformTasks
      BY <1>1, <1>3 DEF AddRunnable
    <2>1. /\ serialQueue' = serialQueue \o <<handing.message>>
          /\ dispatched' = dispatched \o <<handing.message>> /\ UNCHANGED platformTasks
      BY SMTT(30), <2>0, <1>2, AppendConcat DEF MessageTypeOK
    <2>2. /\ handing' \in [message : Messages, to : Receivers, at : {"found", "added"}]
          /\ handing'.at = "added"
      BY <1>1, <1>2, <1>3
    <2>3. /\ MessagesTakeTurns' /\ serialQueue' \in Seq(Messages) /\ dispatched' \in Seq(Messages)
      BY <1>1, <1>2, <2>1, <2>2, AddKeepsTurns
    <2>4. QED BY <1>1, <2>1, <2>2, <2>3 DEF MessageTypeOK
  <1>4. CASE handing.to # "handler"
    <2>1. /\ platformTasks' = Append(platformTasks, AnswerEmpty(handing.message))
          /\ UNCHANGED <<serialQueue, dispatched>> /\ handing' = NotHanding
      BY <1>1, <1>4 DEF AddRunnable
    <2>2. AnswerEmpty(handing.message) \in PlatformTasks
      BY <1>2 DEF PlatformTasks
    <2>3. MessageTypeOK'
      BY SMTT(30), <1>1, <2>1, <2>2 DEF MessageTypeOK
    <2>4. MessagesTakeTurns'
      BY <1>1, <2>1, OthersKeepTurns DEF turnVars
    <2>5. QED BY <2>3, <2>4
  <1>5. QED BY <1>3, <1>4

LEMMA DispatchBufferedInv == ASSUME MessageInv, DispatchBuffered PROVE MessageInv'
  <1> USE DEF MessageInv, routeVars, handlerVars, queueVars
  <1> DEFINE x == Head(unbuffering.messages)
  <1>1. /\ unbuffering.messages # <<>> /\ ~unbuffering.added /\ AddRunnable(x, unbuffering.to)
        /\ unbuffering' = [unbuffering EXCEPT !.messages = Tail(@),
                                              !.added = (unbuffering.to = "handler")]
        /\ UNCHANGED <<routeVars, handlerVars, handing, isRunning, flushes, pool, running, handled>>
    BY DEF DispatchBuffered
  <1>2. /\ unbuffering \in [messages : Seq(Messages), to : Receivers, added : BOOLEAN]
        /\ unbuffering.messages \in Seq(Messages)
    BY DEF MessageTypeOK
  <1>3. x \in Messages /\ Tail(unbuffering.messages) \in Seq(Messages)
    BY <1>1, <1>2
  <1> HIDE DEF x
  <1>4. /\ unbuffering' \in [messages : Seq(Messages), to : Receivers, added : BOOLEAN]
        /\ unbuffering'.added = (unbuffering.to = "handler")
    BY <1>1, <1>2, <1>3
  <1>5. CASE unbuffering.to = "handler"
    <2>0. /\ serialQueue' = Append(serialQueue, x) /\ dispatched' = Append(dispatched, x)
          /\ UNCHANGED platformTasks
      BY <1>1, <1>5 DEF AddRunnable
    <2>1. /\ serialQueue' = serialQueue \o <<x>> /\ dispatched' = dispatched \o <<x>>
          /\ UNCHANGED platformTasks
      BY <2>0, <1>3, AppendConcat DEF MessageTypeOK
    <2>2. /\ MessagesTakeTurns' /\ serialQueue' \in Seq(Messages) /\ dispatched' \in Seq(Messages)
      BY <1>1, <1>3, <1>4, <1>5, <2>1, AddKeepsTurns
    <2>3. QED BY <1>1, <1>4, <2>1, <2>2 DEF MessageTypeOK
  <1>6. CASE unbuffering.to # "handler"
    <2>1. /\ platformTasks' = Append(platformTasks, AnswerEmpty(x))
          /\ UNCHANGED <<serialQueue, dispatched>>
      BY <1>1, <1>6 DEF AddRunnable
    <2>2. AnswerEmpty(x) \in PlatformTasks
      BY <1>3 DEF PlatformTasks
    <2>3. MessageTypeOK'
      BY SMTT(30), <1>1, <1>4, <2>1, <2>2 DEF MessageTypeOK
    <2>4. MessagesTakeTurns'
      BY <1>1, <2>1, OthersKeepTurns DEF turnVars
    <2>5. QED BY <2>3, <2>4
  <1>7. QED BY <1>5, <1>6

\* A flush is scheduled for what was added.
LEMMA ExecuteInv == ASSUME MessageInv, ExecuteHanding \/ ExecuteBuffered PROVE MessageInv'
  <1> USE DEF MessageInv, routeVars, handlerVars, queueVars
  <1>1. /\ flushes' = flushes + 1
        /\ UNCHANGED <<routeVars, platformTasks, handlerVars, serialQueue, isRunning, pool,
                       running, dispatched, handled>>
    BY DEF ExecuteHanding, ExecuteBuffered
  <1>2. \/ handing' = NotHanding /\ unbuffering' = unbuffering
        \/ handing' = handing /\ unbuffering' = [unbuffering EXCEPT !.added = FALSE]
    BY DEF ExecuteHanding, ExecuteBuffered
  <1>3. MessageTypeOK'
    <2>1. handing' \in {NotHanding} \cup [message : Messages, to : Receivers,
                                         at : {"found", "added"}]
      BY <1>2 DEF MessageTypeOK
    <2>2. unbuffering \in [messages : Seq(Messages), to : Receivers, added : BOOLEAN]
      BY DEF MessageTypeOK
    <2>3. [unbuffering EXCEPT !.added = FALSE]
              \in [messages : Seq(Messages), to : Receivers, added : BOOLEAN]
      BY <2>2
    <2>4. unbuffering' \in [messages : Seq(Messages), to : Receivers, added : BOOLEAN]
      BY <1>2, <2>2, <2>3, Zenon
    <2>5. QED BY <1>1, <2>1, <2>4 DEF MessageTypeOK
  <1>4. flushes' > 0
    BY <1>1 DEF MessageTypeOK
  <1>5. MessagesTakeTurns'
    BY <1>1, <1>4 DEF MessagesTakeTurns, OneAtATime, NoMessageIsStuck, InFlush
  <1>6. QED BY <1>3, <1>5

-----------------------------------------------------------------------------
LEMMA RunPlatformTaskInv == ASSUME MessageInv, RunPlatformTask PROVE MessageInv'
  <1> USE DEF MessageInv, routeVars, handlerVars, queueVars
  <1> DEFINE task == Head(platformTasks)
  <1>1. /\ platformTasks # <<>> /\ platformTasks' = Tail(platformTasks)
        /\ UNCHANGED <<sent, handlerVars, handing, unbuffering, queueVars>>
    BY DEF RunPlatformTask
  <1>2. task \in PlatformTasks /\ platformTasks' \in Seq(PlatformTasks)
    BY <1>1 DEF MessageTypeOK
  <1>3. task.name # "stopRouting" => task.message \in Messages
    BY <1>2 DEF PlatformTasks, StopRouting, ReturnToUi, AnswerEmpty
  <1>4. /\ routed' \in BOOLEAN /\ uiMessages' \in Seq(Messages)
        /\ pending' \in SUBSET Messages /\ answers' \in [Messages -> Nat]
    <2>1. CASE routed' = FALSE /\ UNCHANGED <<uiMessages, pending, answers>>
      BY <2>1 DEF MessageTypeOK
    <2>2. CASE /\ task.name = "return" /\ uiMessages' = Append(uiMessages, task.message)
               /\ UNCHANGED <<routed, pending, answers>>
      BY <2>2, <1>3 DEF MessageTypeOK
    <2>3. CASE /\ task.name = "answerEmpty" /\ Complete(task.message)
               /\ UNCHANGED <<routed, uiMessages>>
      <3>1. task.message \in Messages
        BY <2>3, <1>3
      <3>2. pending' \in SUBSET Messages /\ answers' \in [Messages -> Nat]
        BY <2>3, <3>1, CompleteFacts
      <3>3. QED BY <2>3, <3>2 DEF MessageTypeOK
    <2>4. QED BY <2>1, <2>2, <2>3 DEF RunPlatformTask
  <1>5. MessageTypeOK'
    BY <1>1, <1>2, <1>4 DEF MessageTypeOK
  <1>6. MessagesTakeTurns'
    BY <1>1, OthersKeepTurns DEF turnVars
  <1>7. QED BY <1>5, <1>6

LEMMA HandlerInv ==
    ASSUME MessageInv, SetMessageHandler \/ RemoveMessageHandler \/ DisableBuffering
    PROVE  MessageInv'
  <1> USE DEF MessageInv, routeVars, handlerVars, queueVars
  <1>1. /\ UNCHANGED <<routeVars, platformTasks, handing, queueVars>>
        /\ ~unbuffering.added
    BY DEF SetMessageHandler, RemoveMessageHandler, DisableBuffering, NotUnbuffering
  <1>2. handlerSet' \in BOOLEAN /\ buffering' \in BOOLEAN
    <2>1. handlerSet' = TRUE \/ handlerSet' = FALSE \/ handlerSet' = handlerSet
      BY DEF SetMessageHandler, RemoveMessageHandler, DisableBuffering
    <2>2. buffering' = FALSE \/ buffering' = buffering
      BY DEF SetMessageHandler, RemoveMessageHandler, DisableBuffering
    <2>3. QED BY <2>1, <2>2 DEF MessageTypeOK
  <1>3. buffered' = <<>> \/ buffered' = buffered
    BY DEF SetMessageHandler, RemoveMessageHandler, DisableBuffering
  <1>4. \/ unbuffering' = unbuffering
        \/ unbuffering' = [messages |-> buffered, to |-> "handler", added |-> FALSE]
        \/ unbuffering' = [messages |-> buffered, to |-> "nobody", added |-> FALSE]
    BY DEF SetMessageHandler, RemoveMessageHandler, DisableBuffering
  <1>5. unbuffering' \in [messages : Seq(Messages), to : Receivers, added : BOOLEAN]
    <2>1. buffered \in Seq(Messages) /\ {"handler", "nobody"} \subseteq Receivers
      BY DEF MessageTypeOK, Receivers
    <2>2. \A to \in Receivers : [messages |-> buffered, to |-> to, added |-> FALSE]
                 \in [messages : Seq(Messages), to : Receivers, added : BOOLEAN]
      BY <2>1
    <2>3. unbuffering \in [messages : Seq(Messages), to : Receivers, added : BOOLEAN]
      BY DEF MessageTypeOK
    <2>4. QED BY <1>4, <2>1, <2>2, <2>3
  <1>6. MessageTypeOK'
    <2>1. buffered \in Seq(Messages) /\ <<>> \in Seq(Messages)
      BY DEF MessageTypeOK
    <2>2. buffered' \in Seq(Messages)
      BY <1>3, <2>1, Zenon
    <2>3. QED BY <1>1, <1>2, <1>5, <2>2 DEF MessageTypeOK
  <1>7. MessagesTakeTurns'
    BY <1>1, OthersKeepTurns DEF turnVars
  <1>8. QED BY <1>6, <1>7

-----------------------------------------------------------------------------
\* A thread of the pool that is not in flush, or stays in it, leaves the turn to
\* the one that has it.
LEMMA PoolAtFacts ==
    ASSUME MessageTypeOK, NEW p \in Pool, NEW from, 
           NEW to \in {"idle", "polling", "running", "releasing", "looking"},
           PoolAt(p, from, to)
    PROVE  /\ pool[p] = from /\ pool'[p] = to
           /\ \A q \in Pool : q # p => pool'[q] = pool[q]
           /\ pool' \in [Pool -> {"idle", "polling", "running", "releasing", "looking"}]
  BY DEF PoolAt, MessageTypeOK

LEMMA CompareAndSetInv ==
    ASSUME MessageInv, NEW p \in Pool, CompareAndSet(p) PROVE MessageInv'
  <1> USE DEF MessageInv, routeVars, handlerVars, queueVars
  <1>1. /\ flushes > 0 /\ flushes' = flushes - 1 /\ isRunning' = TRUE
        /\ PoolAt(p, "idle", IF isRunning THEN "idle" ELSE "polling")
        /\ UNCHANGED <<routeVars, platformTasks, handlerVars, handing, unbuffering, serialQueue,
                       running, dispatched, handled>>
    BY DEF CompareAndSet
  <1>2. /\ pool[p] = "idle" /\ pool'[p] = IF isRunning THEN "idle" ELSE "polling"
        /\ \A q \in Pool : q # p => pool'[q] = pool[q]
        /\ pool' \in [Pool -> {"idle", "polling", "running", "releasing", "looking"}]
    BY <1>1, PoolAtFacts
  <1>3. MessageTypeOK'
    BY <1>1, <1>2 DEF MessageTypeOK
  <1>4. OneAtATime /\ NoMessageIsStuck
    BY DEF MessagesTakeTurns
  <1>5. InFlush' = IF isRunning THEN InFlush ELSE {p}
    BY <1>2, <1>4 DEF InFlush, OneAtATime
  <1>6. \A q \in Pool : pool'[q] = "running" <=> pool[q] = "running"
    BY <1>2
  <1>7. OneAtATime'
    BY <1>1, <1>4, <1>5, <1>6 DEF OneAtATime
  <1>8. \E q \in Pool : pool'[q] # "idle"
    BY <1>4, <1>5 DEF OneAtATime, InFlush
  <1>9. NoMessageIsStuck'
    BY <1>8 DEF NoMessageIsStuck
  <1>10. QED BY <1>3, <1>7, <1>9 DEF MessagesTakeTurns

LEMMA PollInv == ASSUME MessageInv, NEW p \in Pool, Poll(p) PROVE MessageInv'
  <1> USE DEF MessageInv, routeVars, handlerVars, queueVars
  <1>1. /\ PoolAt(p, "polling", IF serialQueue = <<>> THEN "releasing" ELSE "running")
        /\ UNCHANGED <<routeVars, platformTasks, handlerVars, handing, unbuffering, isRunning,
                       flushes, dispatched, handled>>
    BY DEF Poll
  <1>2. /\ pool[p] = "polling"
        /\ pool'[p] = IF serialQueue = <<>> THEN "releasing" ELSE "running"
        /\ \A q \in Pool : q # p => pool'[q] = pool[q]
        /\ pool' \in [Pool -> {"idle", "polling", "running", "releasing", "looking"}]
    BY <1>1, PoolAtFacts
  <1>3. OneAtATime /\ p \in InFlush
    BY <1>2 DEF MessagesTakeTurns, InFlush
  <1>4. InFlush' = InFlush /\ InFlush = {p}
    BY <1>2, <1>3 DEF OneAtATime, InFlush
  <1>5. \A q \in Pool : q # p => pool[q] # "running"
    BY <1>4 DEF InFlush
  <1>6. dispatched = handled \o serialQueue
    BY <1>2, <1>3, <1>5 DEF OneAtATime
  <1>7. NoMessageIsStuck'
    BY <1>2 DEF NoMessageIsStuck
  <1>8. CASE serialQueue = <<>>
    <2>1. UNCHANGED <<serialQueue, running>>
      BY <1>8 DEF Poll
    <2>2. \A q \in Pool : pool'[q] # "running"
      BY <1>2, <1>5, <1>8
    <2>3. OneAtATime'
      BY <1>1, <1>3, <1>4, <1>6, <2>1, <2>2 DEF OneAtATime
    <2>4. MessageTypeOK'
      BY <1>1, <1>2, <2>1 DEF MessageTypeOK
    <2>5. QED BY <1>7, <2>3, <2>4 DEF MessagesTakeTurns
  <1>9. CASE serialQueue # <<>>
    <2>1. /\ serialQueue' = Tail(serialQueue)
          /\ running' = [running EXCEPT ![p] = Head(serialQueue)]
      BY <1>9 DEF Poll
    <2>2. Head(serialQueue) \in Messages /\ serialQueue' \in Seq(Messages)
      BY <1>9, <2>1 DEF MessageTypeOK
    <2>3. running'[p] = Head(serialQueue) /\ running' \in [Pool -> Messages \cup {Nothing}]
      BY <2>1, <2>2 DEF MessageTypeOK
    <2>4. handled \in Seq(Messages) /\ serialQueue \in Seq(Messages)
      BY DEF MessageTypeOK
    <2>5. dispatched = (handled \o <<running'[p]>>) \o serialQueue'
      BY ZenonT(60), <1>6, <1>9, <2>1, <2>3, <2>4, ConcatHead
    <2>6. \A q \in Pool : pool'[q] = "running" <=> q = p
      BY <1>2, <1>5, <1>9
    <2>7. OneAtATime'
      BY <1>1, <1>3, <1>4, <2>5, <2>6 DEF OneAtATime
    <2>8. MessageTypeOK'
      BY <1>1, <1>2, <2>2, <2>3 DEF MessageTypeOK
    <2>9. QED BY <1>7, <2>7, <2>8 DEF MessagesTakeTurns
  <1>10. QED BY <1>8, <1>9

LEMMA RunHandlerInv == ASSUME MessageInv, NEW p \in Pool, RunHandler(p) PROVE MessageInv'
  <1> USE DEF MessageInv, handlerVars
  <1>1. /\ PoolAt(p, "running", "releasing") /\ handled' = Append(handled, running[p])
        /\ running' = [running EXCEPT ![p] = Nothing] /\ Complete(running[p])
        /\ UNCHANGED <<routed, sent, uiMessages, platformTasks, handlerVars, handing, unbuffering,
                       serialQueue, isRunning, flushes, dispatched>>
    BY DEF RunHandler
  <1>2. /\ pool[p] = "running" /\ pool'[p] = "releasing"
        /\ \A q \in Pool : q # p => pool'[q] = pool[q]
        /\ pool' \in [Pool -> {"idle", "polling", "running", "releasing", "looking"}]
    BY <1>1, PoolAtFacts
  <1>3. OneAtATime /\ p \in InFlush
    BY <1>2 DEF MessagesTakeTurns, InFlush
  <1>4. InFlush' = InFlush /\ InFlush = {p}
    BY <1>2, <1>3 DEF OneAtATime, InFlush
  <1>5. dispatched = (handled \o <<running[p]>>) \o serialQueue
    BY <1>2, <1>3 DEF OneAtATime
  <1>6. running[p] \in Messages
    <2>1. running[p] \in Messages \cup {Nothing} /\ dispatched \in Seq(Messages)
          /\ handled \in Seq(Messages) /\ serialQueue \in Seq(Messages)
      BY DEF MessageTypeOK
    <2> DEFINE k == Len(handled) + 1
    <2>2. k \in DOMAIN dispatched /\ dispatched[k] = running[p]
      BY <2>1, <1>5
    <2>3. QED BY <2>1, <2>2
  <1>7. pending' \in SUBSET Messages /\ answers' \in [Messages -> Nat]
    BY <1>1, <1>6, CompleteFacts
  <1>8. MessageTypeOK'
    <2>1. handled' \in Seq(Messages) /\ running' \in [Pool -> Messages \cup {Nothing}]
      BY <1>1, <1>6 DEF MessageTypeOK
    <2>2. QED BY <1>1, <1>2, <1>7, <2>1 DEF MessageTypeOK
  <1>9. \A q \in Pool : pool'[q] # "running"
    BY <1>2, <1>4 DEF InFlush
  <1>10. dispatched' = handled' \o serialQueue'
    <2>1. handled \in Seq(Messages)
      BY DEF MessageTypeOK
    <2>2. handled' = handled \o <<running[p]>>
      BY <1>1, <1>6, <2>1, AppendConcat
    <2>3. QED BY <1>1, <1>5, <2>2
  <1>11. OneAtATime'
    BY <1>1, <1>3, <1>4, <1>9, <1>10 DEF OneAtATime
  <1>12. NoMessageIsStuck'
    BY <1>2 DEF NoMessageIsStuck
  <1>13. QED BY <1>8, <1>11, <1>12 DEF MessagesTakeTurns

LEMMA ReleaseInv == ASSUME MessageInv, NEW p \in Pool, Release(p) PROVE MessageInv'
  <1> USE DEF MessageInv, routeVars, handlerVars
  <1>1. /\ PoolAt(p, "releasing", "looking") /\ isRunning' = FALSE
        /\ UNCHANGED <<routeVars, platformTasks, handlerVars, handing, unbuffering, serialQueue,
                       flushes, running, dispatched, handled>>
    BY DEF Release
  <1>2. /\ pool[p] = "releasing" /\ pool'[p] = "looking"
        /\ \A q \in Pool : q # p => pool'[q] = pool[q]
        /\ pool' \in [Pool -> {"idle", "polling", "running", "releasing", "looking"}]
    BY <1>1, PoolAtFacts
  <1>3. OneAtATime /\ p \in InFlush
    BY <1>2 DEF MessagesTakeTurns, InFlush
  <1>4. InFlush' = {} /\ \A q \in Pool : pool'[q] # "running" /\ pool[q] # "running"
    BY <1>2, <1>3 DEF OneAtATime, InFlush
  <1>5. OneAtATime'
    BY <1>1, <1>3, <1>4 DEF OneAtATime
  <1>6. NoMessageIsStuck'
    BY <1>2 DEF NoMessageIsStuck
  <1>7. MessageTypeOK'
    BY <1>1, <1>2 DEF MessageTypeOK
  <1>8. QED BY <1>5, <1>6, <1>7 DEF MessagesTakeTurns

LEMMA LookAgainInv == ASSUME MessageInv, NEW p \in Pool, LookAgain(p) PROVE MessageInv'
  <1> USE DEF MessageInv, routeVars, handlerVars
  <1>1. /\ PoolAt(p, "looking", "idle")
        /\ flushes' = IF serialQueue = <<>> THEN flushes ELSE flushes + 1
        /\ UNCHANGED <<routeVars, platformTasks, handlerVars, handing, unbuffering, serialQueue,
                       isRunning, running, dispatched, handled>>
    BY DEF LookAgain
  <1>2. /\ pool[p] = "looking" /\ pool'[p] = "idle"
        /\ \A q \in Pool : q # p => pool'[q] = pool[q]
        /\ pool' \in [Pool -> {"idle", "polling", "running", "releasing", "looking"}]
    BY <1>1, PoolAtFacts
  <1>3. InFlush' = InFlush
    BY <1>2 DEF InFlush
  <1>4. \A q \in Pool : pool'[q] = "running" <=> pool[q] = "running"
    BY <1>2
  <1>5. OneAtATime'
    BY <1>1, <1>3, <1>4 DEF MessagesTakeTurns, OneAtATime
  <1>6. MessageTypeOK'
    BY SMTT(30), <1>1, <1>2 DEF MessageTypeOK
  <1>7. NoMessageIsStuck'
    BY <1>1 DEF NoMessageIsStuck, MessageTypeOK
  <1>8. QED BY <1>5, <1>6, <1>7 DEF MessagesTakeTurns

-----------------------------------------------------------------------------
LEMMA MessageInvariant == MessageSpec => []MessageInv
  <1>1. ASSUME MessageInv, [MessageNext]_messageVars PROVE MessageInv'
    <2>1. CASE SendMessage \/ UiSide
      BY <1>1, <2>1, UiInv, DispatchHandingInv, ExecuteInv DEF UiSide
    <2>2. CASE SetMessageHandler \/ RemoveMessageHandler \/ DisableBuffering \/ PlatformSide
      BY <1>1, <2>2, HandlerInv, RunPlatformTaskInv, DispatchBufferedInv, ExecuteInv
         DEF PlatformSide
    <2>3. CASE PoolSide
      BY <1>1, <2>3, CompareAndSetInv, PollInv, RunHandlerInv, ReleaseInv, LookAgainInv
         DEF PoolSide
    <2>4. CASE UNCHANGED messageVars
      BY ZenonT(60), <1>1, <2>4
         DEF messageVars, routeVars, handlerVars, queueVars, MessageInv, MessageTypeOK,
         MessagesTakeTurns, OneAtATime, NoMessageIsStuck, InFlush
    <2>5. QED BY <1>1, <2>1, <2>2, <2>3, <2>4 DEF MessageNext
  <1>2. QED BY <1>1, MessageInitInv, PTL DEF MessageSpec

\* Whatever the pool, the messages of a channel reach its handler one at a time and
\* in the order of their dispatch, and none is left where nobody looks.
THEOREM MessagesInTurn == MessageSpec => []MessagesTakeTurns
  <1>1. MessageInv => MessagesTakeTurns
    BY DEF MessageInv
  <1>2. QED BY <1>1, MessageInvariant, PTL

-----------------------------------------------------------------------------
(***************************************************************************)
(* ChannelBuffers.                                                         *)
(*                                                                         *)
(* The order is kept as a fact of each of the two sequences and one of     *)
(* both, so that a step that drops the oldest messages or moves one over   *)
(* needs no more than the indices it shifts.  The drain is apart from it:  *)
(* a listener that threw leaves the flag set, and no microtask.            *)
(***************************************************************************)
Ascending(s) == \A i, j \in 1..Len(s) : i < j => s[i] < s[j]
Before(s, t) == \A i \in 1..Len(s), j \in 1..Len(t) : s[i] < t[j]
NoLater(s, n) == \A i \in 1..Len(s) : s[i] <= n

\* What DeliveredInOrder says of the two sequences joined, said of each of them.
InTheirOrder ==
    /\ Ascending(delivered) /\ Ascending(queue) /\ Before(delivered, queue)
    /\ NoLater(delivered, received) /\ NoLater(queue, received)
    /\ Len(queue) <= capacity

ChannelInv ==
    /\ ChannelTypeOK
    /\ ListenerHasNoBacklog /\ OneDrainAtATime /\ NoMessageVanishes
    /\ InTheirOrder
    /\ threw => draining

-----------------------------------------------------------------------------
\* The facts of the two sequences are those of the sequence they form.
LEMMA JoinedInOrder ==
    ASSUME ChannelTypeOK, InTheirOrder PROVE DeliveredInOrder
  <1> DEFINE d == delivered
             q == queue
             all == d \o q
  <1>1. d \in Seq(EngineMessages) /\ q \in Seq(EngineMessages)
    BY DEF ChannelTypeOK
  <1> HIDE DEF d, q
  <1>2. Len(d) \in Nat /\ Len(q) \in Nat
    BY <1>1
  <1>3. /\ Len(all) = Len(d) + Len(q) /\ DOMAIN all = 1..Len(all)
        /\ \A i \in 1..Len(all) : all[i] = IF i <= Len(d) THEN d[i] ELSE q[i - Len(d)]
    BY <1>1
  <1>4. Ascending(d) /\ Ascending(q) /\ Before(d, q)
    BY DEF InTheirOrder, d, q
  <1>5. \A i, j \in DOMAIN all : i < j => all[i] < all[j]
    <2> HIDE DEF all
    <2> TAKE i, j \in DOMAIN all
    <2> HAVE i < j
    <2>1. CASE j <= Len(d)
      BY <1>2, <1>3, <1>4, <2>1 DEF Ascending
    <2>2. CASE i > Len(d)
      <3>1. i - Len(d) \in 1..Len(q) /\ j - Len(d) \in 1..Len(q) /\ i - Len(d) < j - Len(d)
        BY <1>2, <1>3, <2>2
      <3>2. all[i] = q[i - Len(d)] /\ all[j] = q[j - Len(d)]
        BY <1>2, <1>3, <2>2
      <3>3. QED BY <1>4, <3>1, <3>2 DEF Ascending
    <2>3. CASE i <= Len(d) /\ j > Len(d)
      <3>1. i \in 1..Len(d) /\ j - Len(d) \in 1..Len(q)
        BY <1>2, <1>3, <2>3
      <3>2. all[i] = d[i] /\ all[j] = q[j - Len(d)]
        BY <1>2, <1>3, <2>3
      <3>3. QED BY <1>4, <3>1, <3>2 DEF Before
    <2>4. QED BY <1>2, <1>3, <2>1, <2>2, <2>3
  <1>6. QED BY <1>5 DEF DeliveredInOrder, InTheirOrder, d, q

\* What an Append adds: the indices it keeps, the last one, and the range.
LEMMA Appended ==
    ASSUME NEW S, NEW s \in Seq(S), NEW x \in S
    PROVE  /\ Append(s, x) \in Seq(S) /\ Len(Append(s, x)) = Len(s) + 1
           /\ \A i \in 1..Len(s) : Append(s, x)[i] = s[i]
           /\ Append(s, x)[Len(s) + 1] = x
           /\ Range(Append(s, x)) = Range(s) \cup {x}
  <1>1. /\ Append(s, x) \in Seq(S) /\ Len(Append(s, x)) = Len(s) + 1 /\ Len(s) \in Nat
        /\ \A i \in 1..Len(s) : Append(s, x)[i] = s[i]
        /\ Append(s, x)[Len(s) + 1] = x
    OBVIOUS
  <1>2. DOMAIN s = 1..Len(s) /\ DOMAIN Append(s, x) = 1..(Len(s) + 1)
    BY <1>1
  <1> DEFINE r == Append(s, x)
  <1> HIDE DEF r
  <1>3. Range(r) = Range(s) \cup {x}
    <2>1. ASSUME NEW y \in Range(r) PROVE y \in Range(s) \cup {x}
      BY <2>1, <1>1, <1>2 DEF Range, r
    <2>2. ASSUME NEW y \in Range(s) PROVE y \in Range(r)
      BY <2>2, <1>1, <1>2 DEF Range, r
    <2>3. x \in Range(r)
      BY <1>1, <1>2 DEF Range, r
    <2>4. QED BY <2>1, <2>2, <2>3
  <1>4. QED BY <1>1, <1>3 DEF r

\* What is left of a sequence without its head.
LEMMA Taken ==
    ASSUME NEW S, NEW s \in Seq(S), s # <<>>
    PROVE  /\ Head(s) \in S /\ Head(s) = s[1] /\ Len(s) > 0
           /\ Tail(s) \in Seq(S) /\ Len(Tail(s)) = Len(s) - 1
           /\ \A i \in 1..Len(Tail(s)) : Tail(s)[i] = s[i + 1]
           /\ Range(s) = {Head(s)} \cup Range(Tail(s))
  <1>1. /\ Head(s) \in S /\ Head(s) = s[1] /\ Len(s) > 0 /\ Len(s) \in Nat
        /\ Tail(s) \in Seq(S) /\ Len(Tail(s)) = Len(s) - 1
        /\ \A i \in 1..Len(Tail(s)) : Tail(s)[i] = s[i + 1]
    OBVIOUS
  <1>2. DOMAIN s = 1..Len(s) /\ DOMAIN Tail(s) = 1..(Len(s) - 1)
    BY <1>1
  <1> DEFINE t == Tail(s)
             h == Head(s)
  <1> HIDE DEF t, h
  <1>3. Range(s) = {h} \cup Range(t)
    <2>1. ASSUME NEW i \in 1..Len(s) PROVE s[i] \in {h} \cup Range(t)
      <3>1. CASE i = 1
        BY <3>1, <1>1 DEF h
      <3>2. CASE i # 1
        <4>1. i - 1 \in DOMAIN t /\ s[i] = t[i - 1]
          BY <3>2, <1>1, <1>2 DEF t
        <4>2. QED BY <4>1 DEF Range
      <3>3. QED BY <3>1, <3>2
    <2>2. ASSUME NEW y \in Range(t) PROVE y \in Range(s)
      <3>1. PICK i \in DOMAIN t : y = t[i]
        BY <2>2 DEF Range
      <3>2. i + 1 \in DOMAIN s /\ y = s[i + 1]
        BY <3>1, <1>1, <1>2 DEF t
      <3>3. QED BY <3>2 DEF Range
    <2>3. h \in Range(s)
      BY <1>1, <1>2 DEF Range, h
    <2>4. QED BY <1>2, <2>1, <2>2, <2>3 DEF Range
  <1>4. QED BY <1>1, <1>3 DEF h, t

\* What _dropOverflowMessages leaves, and what it takes.
LEMMA Dropped ==
    ASSUME NEW S, NEW s \in Seq(S), NEW n \in Nat
    PROVE  /\ Overflow(s, n) \in 0..Len(s)
           /\ Remaining(s, n) \in Seq(S)
           /\ Len(Remaining(s, n)) = Len(s) - Overflow(s, n)
           /\ Len(Remaining(s, n)) <= n
           /\ \A i \in 1..Len(Remaining(s, n)) : Remaining(s, n)[i] = s[i + Overflow(s, n)]
           /\ Range(s) = {s[i] : i \in 1..Overflow(s, n)} \cup Range(Remaining(s, n))
  <1> DEFINE o == Overflow(s, n)
             r == Remaining(s, n)
  <1>1. Len(s) \in Nat /\ DOMAIN s = 1..Len(s)
    OBVIOUS
  <1>2. o \in 0..Len(s) /\ Len(s) - o <= n
    BY <1>1 DEF Overflow
  <1>3. r = SubSeq(s, o + 1, Len(s))
    BY DEF Remaining
  <1> HIDE DEF o, r
  <1>4. /\ r \in Seq(S) /\ Len(r) = Len(s) - o
        /\ \A i \in 1..Len(r) : r[i] = s[i + o]
    <2>1. \A i \in (o + 1)..Len(s) : s[i] \in S
      BY <1>1, <1>2
    <2>2. /\ r \in Seq(S)
          /\ Len(r) = IF o + 1 <= Len(s) THEN Len(s) - (o + 1) + 1 ELSE 0
          /\ \A i \in 1..(Len(s) - (o + 1) + 1) : r[i] = s[(o + 1) + i - 1]
      BY <1>1, <1>2, <1>3, <2>1, SubSeqProperties
    <2>3. Len(r) = Len(s) - o
      <3>1. CASE o = Len(s)
        <4>1. ~(o + 1 <= Len(s)) /\ Len(s) - o = 0
          BY <1>1, <1>2, <3>1
        <4>2. QED BY <2>2, <4>1
      <3>2. CASE o # Len(s)
        <4>1. o \in Int /\ Len(s) \in Int /\ o < Len(s)
          <5>1. ASSUME NEW l \in Nat, o \in 0..l, o # l PROVE o \in Int /\ l \in Int /\ o < l
            BY <5>1
          <5>2. QED BY <1>1, <1>2, <3>2, <5>1, Zenon
        <4>2. o + 1 <= Len(s) /\ Len(s) - (o + 1) + 1 = Len(s) - o
          BY <4>1
        <4>3. QED BY <2>2, <4>2
      <3>3. QED BY <3>1, <3>2
    <2>4. ASSUME NEW i \in 1..Len(r) PROVE r[i] = s[i + o]
      <3>1. i \in 1..(Len(s) - (o + 1) + 1) /\ (o + 1) + i - 1 = i + o
        BY <1>1, <1>2, <2>3
      <3>2. QED BY <2>2, <3>1
    <2>5. QED BY <2>2, <2>3, <2>4
  <1>5. Range(s) = {s[i] : i \in 1..o} \cup Range(r)
    <2>1. DOMAIN r = 1..Len(r)
      BY <1>4
    <2>2. ASSUME NEW i \in 1..Len(s) PROVE s[i] \in {s[k] : k \in 1..o} \cup Range(r)
      <3>1. CASE i <= o
        BY <1>1, <1>2, <3>1
      <3>2. CASE i > o
        <4>1. i - o \in DOMAIN r /\ r[i - o] = s[(i - o) + o] /\ (i - o) + o = i
          BY <1>1, <1>2, <1>4, <2>1, <3>2
        <4>2. QED BY <4>1 DEF Range
      <3>3. QED BY <1>1, <1>2, <3>1, <3>2
    <2>3. ASSUME NEW y \in Range(r) PROVE y \in Range(s)
      <3>1. PICK i \in 1..Len(r) : y = r[i]
        BY <2>1, <2>3 DEF Range
      <3>2. i + o \in DOMAIN s /\ y = s[i + o]
        BY <1>1, <1>2, <1>4, <3>1
      <3>3. QED BY <3>2 DEF Range
    <2>4. ASSUME NEW i \in 1..o PROVE s[i] \in Range(s)
      BY <1>1, <1>2 DEF Range
    <2>5. QED BY <1>1, <2>2, <2>3, <2>4 DEF Range
  <1>6. QED BY <1>2, <1>4, <1>5 DEF o, r

-----------------------------------------------------------------------------
\* Nothing is dropped where nothing waits.
LEMMA EmptyRemains ==
    ASSUME NEW n \in Nat PROVE Remaining(<<>>, n) = <<>>
  BY DEF Remaining, Overflow

\* The channel starts without messages and without a drain.
LEMMA ChannelInitInv == ChannelInit => ChannelInv
  <1> SUFFICES ASSUME ChannelInit PROVE ChannelInv
    OBVIOUS
  <1>1. /\ queue = <<>> /\ delivered = <<>> /\ Len(queue) = 0 /\ Len(delivered) = 0
        /\ queue \in Seq(EngineMessages) /\ delivered \in Seq(EngineMessages)
    BY SMT DEF ChannelInit
  <1>2. capacity \in Capacities /\ capacity \in Nat
    BY CapacitiesAssumption DEF ChannelInit
  <1>3. /\ listener \in BOOLEAN /\ draining \in BOOLEAN /\ oldDrain \in BOOLEAN /\ threw \in BOOLEAN
        /\ handler \in {"none", "push", "drainStep"} /\ drainSteps \in Nat
        /\ refused \in SUBSET EngineMessages /\ ignored \in SUBSET EngineMessages
    BY DEF ChannelInit
  <1>4. received \in 0..MaxPushes
    BY MaxPushesAssumption DEF ChannelInit
  <1>5. ChannelTypeOK
    BY <1>1, <1>2, <1>3, <1>4 DEF ChannelTypeOK
  <1>6. NoMessageVanishes
    <2>1. Range(queue) = {} /\ Range(delivered) = {}
      BY <1>1 DEF Range
    <2>2. QED BY <2>1 DEF NoMessageVanishes, ChannelInit
  <1>7. InTheirOrder
    BY <1>1, <1>2 DEF InTheirOrder, Ascending, Before, NoLater
  <1>8. ListenerHasNoBacklog /\ OneDrainAtATime /\ (threw => draining)
    BY DEF ChannelInit, ListenerHasNoBacklog, OneDrainAtATime
  <1>9. QED BY <1>5, <1>6, <1>7, <1>8 DEF ChannelInv

\* The messages alone: what each step does to the two sequences and the discarded.
SequencesInv ==
    /\ queue \in Seq(EngineMessages) /\ delivered \in Seq(EngineMessages)
    /\ refused \in SUBSET EngineMessages /\ ignored \in SUBSET EngineMessages
    /\ received \in 0..MaxPushes /\ capacity \in Capacities
    /\ NoMessageVanishes /\ InTheirOrder

\* The first message that waits is given to a listener.
LEMMA HandOver ==
    ASSUME SequencesInv, queue # <<>>, delivered' = Append(delivered, Head(queue)),
           queue' = Tail(queue), UNCHANGED <<capacity, received, refused, ignored>>
    PROVE  SequencesInv'
  <1> DEFINE h == Head(queue)
             d == delivered
             q == queue
  <1>1. d \in Seq(EngineMessages) /\ q \in Seq(EngineMessages) /\ q # <<>>
    BY DEF SequencesInv
  <1>a. Len(d) \in Nat /\ Len(q) \in Nat /\ capacity \in Nat
    BY <1>1, CapacitiesAssumption DEF SequencesInv
  <1>2. /\ h \in EngineMessages /\ h = q[1] /\ Len(q) > 0
        /\ queue' \in Seq(EngineMessages) /\ Len(queue') = Len(q) - 1
        /\ \A i \in 1..Len(queue') : queue'[i] = q[i + 1]
        /\ Range(q) = {h} \cup Range(queue')
    BY <1>1, Taken
  <1>3. /\ delivered' \in Seq(EngineMessages) /\ Len(delivered') = Len(d) + 1
        /\ \A i \in 1..Len(d) : delivered'[i] = d[i]
        /\ delivered'[Len(d) + 1] = h
        /\ Range(delivered') = Range(d) \cup {h}
    BY <1>1, <1>2, Appended
  <1>4. NoMessageVanishes'
    BY <1>2, <1>3 DEF SequencesInv, NoMessageVanishes
  <1>o. /\ Ascending(d) /\ Ascending(q) /\ Before(d, q) /\ NoLater(d, received)
        /\ NoLater(q, received) /\ Len(q) <= capacity
    BY DEF SequencesInv, InTheirOrder
  <1>5. Ascending(delivered')
    BY SMTT(30), <1>a, <1>2, <1>3, <1>o DEF Ascending, Before
  <1>6. Ascending(queue')
    BY <1>a, <1>2, <1>o DEF Ascending
  <1>7. Before(delivered', queue')
    <2>1. ASSUME NEW i \in 1..Len(delivered'), NEW j \in 1..Len(queue')
          PROVE  delivered'[i] < queue'[j]
      <3>1. j + 1 \in 1..Len(q) /\ queue'[j] = q[j + 1]
        BY <1>a, <1>2
      <3>2. CASE i \in 1..Len(d)
        BY <3>1, <3>2, <1>3, <1>o DEF Before
      <3>3. CASE i = Len(d) + 1
        <4>1. 1 \in 1..Len(q) /\ 1 < j + 1 /\ delivered'[i] = q[1]
          BY <1>a, <1>2, <1>3, <3>3
        <4>2. QED BY <3>1, <4>1, <1>o DEF Ascending
      <3>4. QED BY <1>a, <1>3, <3>2, <3>3
    <2>2. QED BY <2>1 DEF Before
  <1>8. NoLater(delivered', received) /\ NoLater(queue', received)
    BY <1>a, <1>2, <1>3, <1>o DEF NoLater
  <1>9. Len(queue') <= capacity
    BY <1>a, <1>2, <1>o
  <1>10. QED
    BY <1>2, <1>3, <1>4, <1>5, <1>6, <1>7, <1>8, <1>9 DEF SequencesInv, InTheirOrder

\* The capacity is set, and the oldest messages beyond it are refused.
LEMMA Resized ==
    ASSUME SequencesInv, NEW size \in Capacities, capacity' = size,
           queue' = Remaining(queue, size), refused' = Refused(queue, size),
           UNCHANGED <<delivered, received, ignored>>
    PROVE  SequencesInv'
  <1> DEFINE q == queue
             o == Overflow(queue, size)
  <1>1. q \in Seq(EngineMessages) /\ size \in Nat /\ Len(q) \in Nat /\ Len(delivered) \in Nat
    BY CapacitiesAssumption DEF SequencesInv
  <1>2. /\ o \in 0..Len(q) /\ queue' \in Seq(EngineMessages)
        /\ Len(queue') = Len(q) - o /\ Len(queue') <= size
        /\ \A i \in 1..Len(queue') : queue'[i] = q[i + o]
        /\ Range(q) = {q[i] : i \in 1..o} \cup Range(queue')
    BY <1>1, Dropped
  <1>3. refused' = refused \cup {q[i] : i \in 1..o}
    BY DEF Refused
  <1>4. refused' \in SUBSET EngineMessages
    BY <1>1, <1>2, <1>3 DEF SequencesInv
  <1>o. /\ Ascending(delivered) /\ Ascending(q) /\ Before(delivered, q)
        /\ NoLater(delivered, received) /\ NoLater(q, received)
    BY DEF SequencesInv, InTheirOrder
  <1> HIDE DEF o, q
  <1>5. NoMessageVanishes'
    BY <1>2, <1>3 DEF SequencesInv, NoMessageVanishes, q
  <1>6. \A i \in 1..Len(queue') : i + o \in 1..Len(q)
    BY <1>1, <1>2
  <1>7. Ascending(queue')
    <2>1. ASSUME NEW i \in 1..Len(queue'), NEW j \in 1..Len(queue'), i < j
          PROVE  queue'[i] < queue'[j]
      <3>1. i + o < j + o
        BY <1>1, <1>2, <2>1
      <3>2. QED BY <1>2, <1>6, <1>o, <3>1 DEF Ascending
    <2>2. QED BY <2>1 DEF Ascending
  <1>8. Before(delivered, queue') /\ NoLater(queue', received)
    BY <1>2, <1>6, <1>o DEF Before, NoLater
  <1>9. QED
    BY <1>2, <1>4, <1>5, <1>7, <1>8, <1>o DEF SequencesInv, InTheirOrder

\* A message of the engine is delivered, discarded, or joins the queue.
LEMMA Arrives ==
    ASSUME SequencesInv, received < MaxPushes, received' = received + 1, UNCHANGED capacity,
           \/ /\ queue = <<>> /\ delivered' = Append(delivered, received + 1)
              /\ UNCHANGED <<queue, refused, ignored>>
           \/ /\ ignored' = ignored \cup {received + 1}
              /\ UNCHANGED <<queue, delivered, refused>>
           \/ /\ capacity # 0
              /\ queue' = Append(Remaining(queue, capacity - 1), received + 1)
              /\ refused' = Refused(queue, capacity - 1)
              /\ UNCHANGED <<delivered, ignored>>
    PROVE  SequencesInv'
  <1> DEFINE m == received + 1
  <1>1. /\ delivered \in Seq(EngineMessages) /\ queue \in Seq(EngineMessages)
        /\ Len(delivered) \in Nat /\ Len(queue) \in Nat /\ capacity \in Nat
        /\ received \in Nat
    BY CapacitiesAssumption, MaxPushesAssumption DEF SequencesInv
  <1>2. m \in EngineMessages /\ received' \in 0..MaxPushes /\ m > received /\ m = received'
    BY <1>1, MaxPushesAssumption DEF SequencesInv, EngineMessages
  <1>3. 1..received' = (1..received) \cup {m}
    BY <1>1
  <1>o. /\ Ascending(delivered) /\ Ascending(queue) /\ Before(delivered, queue)
        /\ NoLater(delivered, received) /\ NoLater(queue, received) /\ Len(queue) <= capacity
    BY DEF SequencesInv, InTheirOrder
  <1>v. 1..received = Range(delivered) \cup Range(queue) \cup refused \cup ignored
    BY DEF SequencesInv, NoMessageVanishes
  <1>s. EngineMessages \subseteq Int
    BY DEF EngineMessages
  <1>e. \A i \in 1..Len(delivered) : delivered[i] \in Int
    <2>1. \A i \in 1..Len(delivered) : delivered[i] \in EngineMessages
      BY <1>1
    <2>2. QED BY <1>s, <2>1
  <1>f. \A i \in 1..Len(queue) : queue[i] \in Int
    <2>1. \A i \in 1..Len(queue) : queue[i] \in EngineMessages
      BY <1>1
    <2>2. QED BY <1>s, <2>1
  <1> HIDE DEF m
  <1>4. CASE /\ queue = <<>> /\ delivered' = Append(delivered, m)
             /\ UNCHANGED <<queue, refused, ignored>>
    <2>1. /\ delivered' \in Seq(EngineMessages) /\ Len(delivered') = Len(delivered) + 1
          /\ \A i \in 1..Len(delivered) : delivered'[i] = delivered[i]
          /\ delivered'[Len(delivered) + 1] = m
          /\ Range(delivered') = Range(delivered) \cup {m}
      BY <1>1, <1>2, <1>4, Appended
    <2>i. \A i \in 1..Len(delivered') :
              \/ i \in 1..Len(delivered) /\ delivered'[i] = delivered[i]
              \/ i = Len(delivered) + 1 /\ delivered'[i] = m
      BY <1>1, <2>1
    <2>n. \A i \in 1..Len(delivered) : delivered[i] <= received /\ delivered[i] < m
      BY <1>1, <1>2, <1>o, <1>e DEF NoLater
    <2>2. Ascending(delivered') /\ NoLater(delivered', received')
      <3>1. ASSUME NEW i \in 1..Len(delivered'), NEW j \in 1..Len(delivered'), i < j
            PROVE  delivered'[i] < delivered'[j]
        <4>1. i \in 1..Len(delivered) /\ delivered'[i] = delivered[i]
          BY <1>1, <2>1, <2>i, <3>1
        <4>2. CASE j \in 1..Len(delivered) /\ delivered'[j] = delivered[j]
          BY <1>o, <3>1, <4>1, <4>2 DEF Ascending
        <4>3. CASE delivered'[j] = m
          BY <2>n, <4>1, <4>3
        <4>4. QED BY <2>i, <4>2, <4>3
      <3>2. ASSUME NEW i \in 1..Len(delivered') PROVE delivered'[i] <= received'
        BY SMTT(30), <1>1, <1>2, <1>e, <2>i, <2>n
      <3>3. QED BY <3>1, <3>2 DEF Ascending, NoLater
    <2>3. Before(delivered', queue') /\ NoLater(queue', received') /\ Len(queue') <= capacity
      BY <1>1, <1>4 DEF Before, NoLater
    <2>4. NoMessageVanishes'
      BY <1>3, <1>v, <1>4, <2>1 DEF NoMessageVanishes
    <2>5. QED
      BY <1>2, <1>4, <1>o, <2>1, <2>2, <2>3, <2>4 DEF SequencesInv, InTheirOrder
  <1>5. CASE ignored' = ignored \cup {m} /\ UNCHANGED <<queue, delivered, refused>>
    <2>1. NoLater(delivered, received') /\ NoLater(queue, received')
      BY SMTT(30), <1>1, <1>2, <1>o, <1>e, <1>f DEF NoLater
    <2>2. NoMessageVanishes'
      BY <1>3, <1>v, <1>5 DEF NoMessageVanishes
    <2>3. QED
      BY <1>2, <1>5, <1>o, <2>1, <2>2 DEF SequencesInv, InTheirOrder
  <1>6. CASE /\ capacity # 0 /\ queue' = Append(Remaining(queue, capacity - 1), m)
             /\ refused' = Refused(queue, capacity - 1) /\ UNCHANGED <<delivered, ignored>>
    <2> DEFINE n == capacity - 1
               o == Overflow(queue, n)
               r == Remaining(queue, n)
    <2>1. n \in Nat
      BY <1>1, <1>6
    <2> HIDE DEF n
    <2>2. /\ o \in 0..Len(queue) /\ r \in Seq(EngineMessages)
          /\ Len(r) = Len(queue) - o /\ Len(r) <= n
          /\ \A i \in 1..Len(r) : r[i] = queue[i + o]
          /\ Range(queue) = {queue[i] : i \in 1..o} \cup Range(r)
      BY SMTT(30), <1>1, <2>1, Dropped
    <2>3. queue' = Append(r, m) /\ refused' = refused \cup {queue[i] : i \in 1..o}
      BY <1>6 DEF Refused, n
    <2> HIDE DEF o, r
    <2>4. /\ queue' \in Seq(EngineMessages) /\ Len(queue') = Len(r) + 1
          /\ \A i \in 1..Len(r) : queue'[i] = r[i]
          /\ queue'[Len(r) + 1] = m
          /\ Range(queue') = Range(r) \cup {m}
      <3>1. r \in Seq(EngineMessages) /\ m \in EngineMessages
        BY <1>2, <2>2
      <3>2. /\ Append(r, m) \in Seq(EngineMessages) /\ Len(Append(r, m)) = Len(r) + 1
            /\ \A i \in 1..Len(r) : Append(r, m)[i] = r[i]
            /\ Append(r, m)[Len(r) + 1] = m
            /\ Range(Append(r, m)) = Range(r) \cup {m}
        BY <3>1, Appended
      <3>3. QED BY <2>3, <3>2, Zenon
    <2>5. Len(r) \in Nat /\ \A i \in 1..Len(r) : i + o \in 1..Len(queue) /\ queue'[i] = queue[i + o]
      BY <1>1, <2>2, <2>4
    <2>6. \A i \in 1..Len(queue') : \/ i \in 1..Len(r)
                                    \/ i = Len(r) + 1 /\ queue'[i] = m
      BY <2>4, <2>5
    <2>7. Ascending(queue')
      <3>1. ASSUME NEW i \in 1..Len(queue'), NEW j \in 1..Len(queue'), i < j
            PROVE  queue'[i] < queue'[j]
        <4>1. i \in 1..Len(r)
          BY <2>4, <2>5, <2>6, <3>1
        <4>2. CASE j \in 1..Len(r)
          <5>1. i + o < j + o
            BY <1>1, <2>2, <3>1
          <5>2. QED BY <1>o, <2>5, <4>1, <4>2, <5>1 DEF Ascending
        <4>3. CASE queue'[j] = m
          <5>1. queue'[i] <= received /\ queue'[i] \in Int
            BY <1>o, <1>f, <2>5, <4>1 DEF NoLater
          <5>2. QED BY <1>1, <1>2, <4>3, <5>1 DEF m
        <4>4. QED BY <2>6, <4>2, <4>3
      <3>2. QED BY <3>1 DEF Ascending
    <2>8. Before(delivered, queue')
      <3>1. ASSUME NEW i \in 1..Len(delivered), NEW j \in 1..Len(queue')
            PROVE  delivered[i] < queue'[j]
        <4>1. CASE j \in 1..Len(r)
          BY <1>o, <2>5, <4>1 DEF Before
        <4>2. CASE queue'[j] = m
          <5>1. delivered[i] <= received /\ delivered[i] \in Int
            BY <1>o, <1>e DEF NoLater
          <5>2. QED BY <1>1, <1>2, <4>2, <5>1 DEF m
        <4>3. QED BY <2>6, <4>1, <4>2
      <3>2. QED BY <3>1 DEF Before
    <2>9. NoLater(delivered, received') /\ NoLater(queue', received')
      <3>1. NoLater(delivered, received')
        BY <1>1, <1>2, <1>o, <1>e DEF NoLater
      <3>2. ASSUME NEW j \in 1..Len(queue') PROVE queue'[j] <= received'
        <4>1. CASE j \in 1..Len(r)
          <5>1. queue'[j] <= received /\ queue'[j] \in Int
            BY <1>o, <1>f, <2>5, <4>1 DEF NoLater
          <5>2. QED BY <1>1, <1>2, <5>1
        <4>2. CASE queue'[j] = m
          BY <1>1, <1>2, <4>2
        <4>3. QED BY <2>6, <4>1, <4>2
      <3>3. QED BY <3>1, <3>2 DEF NoLater
    <2>10. Len(queue') <= capacity
      BY <1>1, <2>2, <2>4, <2>5 DEF n
    <2>11. refused' \in SUBSET EngineMessages
      BY SMTT(30), <1>1, <2>2, <2>3 DEF SequencesInv
    <2>12. NoMessageVanishes'
      BY <1>3, <1>v, <1>6, <2>2, <2>3, <2>4 DEF NoMessageVanishes
    <2>13. QED
      BY <1>2, <1>6, <1>o, <2>4, <2>7, <2>8, <2>9, <2>10, <2>11, <2>12 DEF SequencesInv, InTheirOrder
  <1>7. QED BY <1>4, <1>5, <1>6 DEF m

-----------------------------------------------------------------------------
\* Every step is one of these three, or leaves the messages alone.
LEMMA SequencesStep == ChannelInv /\ [ChannelNext]_channelVars => SequencesInv'
  <1> SUFFICES ASSUME ChannelInv, [ChannelNext]_channelVars PROVE SequencesInv'
    OBVIOUS
  <1>0. SequencesInv
    BY DEF ChannelInv, ChannelTypeOK, SequencesInv
  <1>1. CASE UNCHANGED <<queue, delivered, refused, ignored, received, capacity>>
    BY <1>0, <1>1 DEF SequencesInv, NoMessageVanishes, InTheirOrder
  <1>2. CASE Push
    <2>1. listener /\ ~draining => queue = <<>>
      BY DEF ChannelInv, ListenerHasNoBacklog
    <2>2. QED
      BY <1>0, <1>2, <2>1, Arrives DEF Push, HandedOver
  <1>3. ASSUME NEW size \in Capacities, SetCapacity(size) PROVE SequencesInv'
    BY <1>0, <1>3, Resized DEF SetCapacity
  <1>4. CASE SetListener \/ ClearListener \/ Drain \/ HandlerReturns \/ HandlerThrows
    BY <1>1, <1>4 DEF SetListener, ClearListener, Drain, HandlerReturns, HandlerThrows
  <1>5. CASE ContinueDrain
    <2>1. CASE queue # <<>>
      BY <1>0, <1>5, <2>1, HandOver DEF ContinueDrain
    <2>2. CASE queue = <<>>
      BY <1>1, <1>5, <2>2 DEF ContinueDrain
    <2>3. QED BY <2>1, <2>2
  <1>6. CASE DrainStep
    <2>1. CASE queue # <<>> /\ listener
      BY <1>0, <1>6, <2>1, HandOver DEF DrainStep
    <2>2. CASE ~(queue # <<>> /\ listener)
      BY <1>1, <1>6, <2>2 DEF DrainStep
    <2>3. QED BY <2>1, <2>2
  <1>7. CASE UNCHANGED channelVars
    BY <1>1, <1>7 DEF channelVars
  <1>8. QED
    BY <1>2, <1>3, <1>4, <1>5, <1>6, <1>7 DEF ChannelNext

\* The flag of the drain, its microtask and its handler.
DrainInv ==
    /\ listener \in BOOLEAN /\ draining \in BOOLEAN /\ oldDrain \in BOOLEAN /\ threw \in BOOLEAN
    /\ drainSteps \in Nat /\ handler \in {"none", "push", "drainStep"}
    /\ ListenerHasNoBacklog /\ OneDrainAtATime
    /\ threw => draining

\* Every step keeps the flag, the microtask and the handler of the drain in step.
LEMMA DrainInvStep == ChannelInv /\ [ChannelNext]_channelVars => DrainInv'
  <1> SUFFICES ASSUME ChannelInv, [ChannelNext]_channelVars PROVE DrainInv'
    OBVIOUS
  <1>0. DrainInv /\ queue \in Seq(EngineMessages)
    BY DEF ChannelInv, ChannelTypeOK, DrainInv
  <1> USE DEF DrainInv, ListenerHasNoBacklog, OneDrainAtATime
  <1>1. CASE UNCHANGED channelVars
    BY <1>0, <1>1 DEF channelVars
  <1>2. CASE Push
    BY <1>0, <1>2 DEF Push, HandedOver
  <1>3. ASSUME NEW size \in Capacities, SetCapacity(size) PROVE DrainInv'
    <2>1. queue = <<>> => queue' = <<>>
      BY <1>3, EmptyRemains, CapacitiesAssumption DEF SetCapacity
    <2>2. QED BY <1>0, <1>3, <2>1 DEF SetCapacity
  <1>4. CASE SetListener
    <2>1. CASE NeedsDrain
      <3>1. ~draining /\ ~threw /\ drainSteps = 0 /\ handler # "drainStep"
        BY <1>0, <2>1 DEF NeedsDrain
      <3>2. draining' = TRUE /\ listener' = TRUE /\ UNCHANGED <<oldDrain, threw, handler>>
        BY <1>4, <2>1, Zenon DEF SetListener
      <3>3. drainSteps' = 1
        BY <1>4, <2>1, <3>1 DEF SetListener
      <3>4. QED BY <1>0, <3>1, <3>2, <3>3
    <2>2. CASE ~NeedsDrain
      <3>1. /\ listener' = TRUE /\ draining' \in BOOLEAN /\ (draining' <=> draining)
            /\ UNCHANGED <<drainSteps, oldDrain, threw, handler, queue>>
        BY <1>4, <2>2, Zenon DEF SetListener
      <3>2. draining' = draining
        <4>1. \A b, c \in BOOLEAN : (b <=> c) => b = c
          BY SMT
        <4>2. QED BY <1>0, <3>1, <4>1, Zenon
      <3>3. QED BY <1>0, <2>2, <3>1, <3>2 DEF NeedsDrain
    <2>3. QED BY <2>1, <2>2
  <1>5. CASE ClearListener \/ Drain
    <2>1. CASE ClearListener
      <3>1. listener' = FALSE /\ UNCHANGED <<oldDrain, draining, drainSteps, handler, threw, queue>>
        BY <2>1 DEF ClearListener
      <3>2. QED BY <1>0, <3>1
    <2>2. CASE Drain
      <3>1. oldDrain' = TRUE /\ UNCHANGED <<listener, draining, drainSteps, handler, threw, queue>>
        BY <2>2 DEF Drain
      <3>2. QED BY <1>0, <3>1
    <2>3. QED BY <1>5, <2>1, <2>2
  <1>6. CASE ContinueDrain
    BY <1>0, <1>6 DEF ContinueDrain
  <1>7. CASE DrainStep
    <2>1. drainSteps = 1 /\ handler = "none" /\ draining /\ ~threw
      BY <1>0, <1>7 DEF DrainStep
    <2>2. drainSteps' = 0 /\ UNCHANGED <<listener, oldDrain, threw>>
      BY <1>7, <2>1 DEF DrainStep
    <2>3. CASE queue # <<>> /\ listener
      <3>1. handler' = "drainStep" /\ UNCHANGED draining
        BY <1>7, <2>3 DEF DrainStep
      <3>2. QED BY <1>0, <2>1, <2>2, <3>1
    <2>4. CASE ~(queue # <<>> /\ listener)
      <3>1. draining' = FALSE /\ UNCHANGED <<queue, handler>>
        BY <1>7, <2>4 DEF DrainStep
      <3>2. ListenerHasNoBacklog'
        BY <2>2, <2>4, <3>1, Zenon
      <3>3. OneDrainAtATime' /\ drainSteps' \in Nat
        BY <2>1, <2>2, <3>1
      <3>4. handler' \in {"none", "push", "drainStep"} /\ ~threw'
        BY <2>1, <2>2, <3>1
      <3>5. QED BY <1>0, <2>2, <3>1, <3>2, <3>3, <3>4, Zenon
    <2>5. QED BY <2>3, <2>4
  <1>8. CASE HandlerReturns
    BY <1>0, <1>8 DEF HandlerReturns
  <1>9. CASE HandlerThrows
    BY <1>0, <1>9 DEF HandlerThrows
  <1>10. QED
    BY <1>1, <1>2, <1>3, <1>4, <1>5, <1>6, <1>7, <1>8, <1>9 DEF ChannelNext

\* The invariant is inductive.
LEMMA ChannelStep == ChannelInv /\ [ChannelNext]_channelVars => ChannelInv'
  <1> SUFFICES ASSUME ChannelInv, [ChannelNext]_channelVars PROVE ChannelInv'
    OBVIOUS
  <1>1. SequencesInv' /\ DrainInv'
    BY SequencesStep, DrainInvStep
  <1>2. QED BY <1>1 DEF ChannelInv, ChannelTypeOK, SequencesInv, DrainInv

\* For any number of messages and any capacities: messages are delivered in order, none
\* vanishes, and none waits behind the back of a listener (channel_buffers.dart).
THEOREM ChannelIsSafe == ChannelSpec => []ChannelSafety
  <1>1. ChannelInv => ChannelSafety
    BY JoinedInOrder DEF ChannelInv, ChannelSafety
  <1>2. QED
    BY <1>1, ChannelInitInv, ChannelStep, PTL DEF ChannelSpec

-----------------------------------------------------------------------------
(***************************************************************************)
(* What the phases of a resize know of each other, as long as no wait was  *)
(* cut short.  The raster thread has the size of the window in its hands,  *)
(* or the resize discards what it has.                                     *)
(***************************************************************************)
AtRest ==
    resizer = "idle" => /\ status = "kDone" /\ expected = window
                        /\ windowSurface = window /\ presentedSize = window

JustStarted ==
    resizer = "telling" => /\ status = "kResizeStarted" /\ target = window
                           /\ windowSurface # window /\ presentedSize # window

Awaited ==
    resizer = "waiting" =>
        /\ target = window /\ expected = window
        /\ status = "kResizeStarted" => windowSurface # window /\ presentedSize # window
        /\ status = "kFrameGenerated" =>
               raster = "present" /\ windowSurface = window
        /\ status = "kDone" => windowSurface = window /\ presentedSize = window

InHand ==
    /\ raster \in {"acquire", "present"} /\ status # "kResizeStarted" => frame = window
    /\ raster = "present" => onscreen = frame
    /\ raster = "presented" => onscreen = presentedSize

Calm == AtRest /\ JustStarted /\ Awaited /\ InHand

ResizeInv == ResizeTypeOK /\ (~timedOut => Calm)

\* The window starts with a frame of its size.
LEMMA ResizeInitInv == ResizeInit => ResizeInv
  <1> SUFFICES ASSUME ResizeInit PROVE ResizeInv
    OBVIOUS
  <1>1. /\ metrics \in Seq(Sizes) /\ frames \in Seq(Sizes)
        /\ resizes \in 0..MaxResizes
    BY MaxResizesAssumption, SMT DEF ResizeInit
  <1>2. ResizeTypeOK
    BY <1>1, Zenon DEF ResizeInit, ResizeTypeOK
  <1>3. Calm
    BY DEF ResizeInit, Calm, AtRest, JustStarted, Awaited, InHand
  <1>4. QED
    BY <1>2, <1>3 DEF ResizeInv

\* Every step keeps the types.
LEMMA ResizeTypeStep == ResizeTypeOK /\ [ResizeNext]_resizeVars => ResizeTypeOK'
  <1> SUFFICES ASSUME ResizeTypeOK, [ResizeNext]_resizeVars PROVE ResizeTypeOK'
    OBVIOUS
  <1> USE DEF ResizeTypeOK, resizerVars, uiVars, drawVars
  <1>1. CASE UNCHANGED resizeVars
    BY <1>1 DEF resizeVars
  <1>2. ASSUME NEW size \in Sizes, OnWindowSizeChanged(size) PROVE ResizeTypeOK'
    BY <1>2, MaxResizesAssumption DEF OnWindowSizeChanged
  <1>3. CASE ExpectFrameSize
    BY <1>3 DEF ExpectFrameSize
  <1>4. CASE ResizeIsDone \/ ResizeTimesOut \/ ForceRedraw
    BY <1>4 DEF ResizeIsDone, ResizeTimesOut, ForceRedraw
  <1>5. CASE SetViewportMetrics
    BY <1>5 DEF SetViewportMetrics
  <1>6. CASE BuildFrame
    <2>1. frames' = Append(frames, viewport) /\ needsFrame' \in BOOLEAN
      BY <1>6, Zenon DEF BuildFrame
    <2>2. frames' \in Seq(Sizes)
      BY <2>1
    <2>3. QED
      BY <1>6, <2>1, <2>2 DEF BuildFrame
  <1>7. CASE DrawFrame
    BY <1>7 DEF DrawFrame
  <1>8. CASE AcquireFrame
    BY <1>8 DEF AcquireFrame, GetFrameBufferId
  <1>9. CASE SwapBuffers
    BY <1>9 DEF SwapBuffers
  <1>10. CASE ResetFrameBuffer
    BY <1>10 DEF ResetFrameBuffer, GetFrameBufferId
  <1>11. QED
    BY <1>1, <1>2, <1>3, <1>4, <1>5, <1>6, <1>7, <1>8, <1>9, <1>10 DEF ResizeNext, RasterWork

\* The invariant is inductive; a wait that is cut short leaves only the types.
LEMMA ResizeStep == ResizeInv /\ [ResizeNext]_resizeVars => ResizeInv'
  <1> SUFFICES ASSUME ResizeInv, [ResizeNext]_resizeVars, ~timedOut' PROVE Calm'
    BY ResizeTypeStep DEF ResizeInv
  <1>0. ~timedOut
    BY DEF ResizeNext, RasterWork, resizeVars, resizerVars, OnWindowSizeChanged, ExpectFrameSize,
           ResizeIsDone, ResizeTimesOut, ForceRedraw, SetViewportMetrics, BuildFrame, DrawFrame,
           AcquireFrame, SwapBuffers, ResetFrameBuffer, ResizeInv, ResizeTypeOK
  <1>t. ResizeTypeOK /\ Calm
    BY <1>0 DEF ResizeInv
  <1> USE DEF Calm, AtRest, JustStarted, Awaited, InHand, resizerVars, uiVars, drawVars
  <1>1. CASE UNCHANGED resizeVars
    BY <1>t, <1>1 DEF resizeVars
  <1>2. ASSUME NEW size \in Sizes, OnWindowSizeChanged(size) PROVE Calm'
    BY <1>t, <1>2 DEF OnWindowSizeChanged, SurfaceWillUpdate
  <1>3. CASE ExpectFrameSize
    BY <1>t, <1>3 DEF ExpectFrameSize, SurfaceWillUpdate
  <1>4. CASE ResizeIsDone
    BY <1>t, <1>4 DEF ResizeIsDone
  <1>5. CASE ForceRedraw \/ SetViewportMetrics \/ BuildFrame
    BY <1>t, <1>5 DEF ForceRedraw, SetViewportMetrics, BuildFrame
  <1>6. CASE DrawFrame
    BY <1>t, <1>6 DEF DrawFrame, Discarded, ResizeTypeOK
  <1>7. CASE AcquireFrame
    BY <1>t, <1>7 DEF AcquireFrame, GetFrameBufferId, ResizeMutexIsFree, ResizeTypeOK
  <1>8. CASE SwapBuffers
    BY <1>t, <1>8 DEF SwapBuffers, ResizeMutexIsFree, ResizeTypeOK
  <1>9. CASE ResetFrameBuffer
    BY <1>t, <1>9 DEF ResetFrameBuffer, GetFrameBufferId, ResizeMutexIsFree, ResizeTypeOK
  <1>10. ~ResizeTimesOut
    BY DEF ResizeTimesOut
  <1>11. QED
    BY <1>1, <1>2, <1>3, <1>4, <1>5, <1>6, <1>7, <1>8, <1>9, <1>10 DEF ResizeNext, RasterWork

\* For any sizes and any number of resizes: when OnWindowSizeChanged has returned, and no
\* wait was cut short, the window shows a frame of its size (flutter_windows_view.cc).
THEOREM ResizedWindowShown == ResizeSpec => []ResizedWindowIsShown
  <1>1. ResizeInv => ResizedWindowIsShown
    BY DEF ResizeInv, Calm, AtRest, ResizedWindowIsShown
  <1>2. QED
    BY <1>1, ResizeInitInv, ResizeStep, PTL DEF ResizeSpec

\* For any sizes and any number of resizes: SwapBuffers ends a resize with a frame of the
\* size it waits for, on a surface of that size.
THEOREM OneFrameEndsIt == ResizeSpec => NoOtherFrameIsShown
  <1>1. ASSUME ResizeInv, [ResizeNext]_resizeVars
        PROVE  [~timedOut /\ status # "kDone" /\ status' = "kDone"
                  => frame = target /\ windowSurface = target /\ onscreen = target]_resizeVars
    <2> SUFFICES ASSUME ~timedOut, status # "kDone", status' = "kDone"
                 PROVE  frame = target /\ windowSurface = target /\ onscreen = target
      OBVIOUS
    <2>1. SwapBuffers
      BY <1>1 DEF ResizeNext, RasterWork, resizeVars, resizerVars, drawVars, OnWindowSizeChanged,
           ExpectFrameSize, ResizeIsDone, ResizeTimesOut, ForceRedraw, SetViewportMetrics,
           BuildFrame, DrawFrame, AcquireFrame, GetFrameBufferId, ResetFrameBuffer
    <2>2. Calm /\ ResizeTypeOK
      BY <1>1 DEF ResizeInv
    <2>3. QED
      BY <2>1, <2>2 DEF SwapBuffers, Calm, AtRest, JustStarted, Awaited, InHand, ResizeTypeOK
  <1>2. QED
    BY <1>1, ResizeInitInv, ResizeStep, PTL DEF ResizeSpec, NoOtherFrameIsShown
===============================================================================
