------------------------------ MODULE FirstFrame ------------------------------
(***************************************************************************)
(* What a shell says of its frames (shell/common/shell.cc): to the thread  *)
(* that waits for the first frame of a surface, and to the framework that  *)
(* asked for the timings of frames.                                        *)
(*                                                                         *)
(* The raster thread runs Setup and Draw tasks in order, and the delayed   *)
(* task that reports timings.  WaitForFirstFrame runs on the platform      *)
(* thread, until a deadline or, when the timeout is too long for the       *)
(* clock, indefinitely.  The flag it waits for is atomic; the raster       *)
(* thread stores it and notifies without the mutex of the condition        *)
(* variable, so that a notification may come between the waiter's test of  *)
(* the flag and its wait, and is missed then.                              *)
(***************************************************************************)
EXTENDS Integers, Sequences

CONSTANTS
    MaxDraws,  \* bound on the Draw tasks
    BatchLimit  \* as many timings as are reported at once, 100 in the code

ASSUME MaxDrawsAssumption == MaxDraws \in Nat
ASSUME BatchLimitAssumption == BatchLimit \in Nat \ {0}

VARIABLES
    drawTasks,        \* tasks of the raster thread: Setup, and Draw of a frame
    drawn,            \* Draw tasks posted so far
    waitingForFirst,  \* waiting_for_first_frame_
    notifying,        \* the Draw task is between the store and notify_all
    waiter,           \* where WaitForFirstFrame is
    deadline,         \* its wait has one; FALSE: it waits indefinitely
    needsReport,      \* needs_report_timings_
    unreported,       \* unreported_timings_, by the number of the frame
    reportScheduled,  \* frame_timings_report_scheduled_
    delayedReports,   \* delayed tasks that were posted and have not run
    firstRasterized,  \* first_frame_rasterized_
    batches,          \* ReportTimings tasks posted to the UI thread
    reported,         \* history: what the engine was given
    rasterized,       \* history: the frames whose timings were kept
    missed,           \* history: the last notification came before the wait it was for
    drewSinceSetup,   \* history: a Draw task has run since Setup
    presented         \* history: a frame was presented since Setup

waitVars == <<drawn, waitingForFirst, notifying, waiter, deadline, missed,
              drewSinceSetup, presented>>
timingVars == <<needsReport, unreported, reportScheduled, delayedReports,
                firstRasterized, batches, reported, rasterized>>
firstFrameVars == <<drawTasks, waitVars, timingVars>>

Frames == 1..MaxDraws
SetupTask == [frame |-> 0, drawable |-> FALSE]
Draws == [frame : Frames, drawable : BOOLEAN]

\* Every variable has its type.
FirstFrameTypeOK ==
    /\ drawTasks \in Seq(Draws \cup {SetupTask})
    /\ drawn \in 0..MaxDraws
    /\ waitingForFirst \in BOOLEAN /\ notifying \in BOOLEAN
    /\ waiter \in {"out", "testing", "blocking", "blocked", "timedOut", "kOk",
                   "kDeadlineExceeded"}
    /\ deadline \in BOOLEAN /\ missed \in BOOLEAN
    /\ needsReport \in BOOLEAN
    /\ unreported \in Seq(Frames) /\ reported \in Seq(Frames) /\ rasterized \in Seq(Frames)
    /\ batches \in Seq(Seq(Frames))
    /\ reportScheduled \in BOOLEAN /\ delayedReports \in Nat /\ firstRasterized \in BOOLEAN
    /\ drewSinceSetup \in BOOLEAN /\ presented \in BOOLEAN

FirstFrameInit ==
    /\ drawTasks = <<SetupTask>> /\ drawn = 0
    /\ waitingForFirst = TRUE /\ notifying = FALSE /\ waiter = "out"
    /\ deadline = TRUE /\ missed = FALSE
    /\ needsReport \in BOOLEAN
    /\ unreported = <<>> /\ reportScheduled = FALSE /\ delayedReports = 0
    /\ firstRasterized = FALSE
    /\ batches = <<>> /\ reported = <<>> /\ rasterized = <<>>
    /\ drewSinceSetup = FALSE /\ presented = FALSE

(***************************************************************************)
(* The raster thread.                                                      *)
(***************************************************************************)
\* A new surface, while frames of the last one are still on their way.
PostSetupTask ==
    /\ \A i \in DOMAIN drawTasks : drawTasks[i] # SetupTask
    /\ drawTasks' = Append(drawTasks, SetupTask)
    /\ UNCHANGED <<waitVars, timingVars>>

\* OnAnimatorDraw; a tree of another size than the surface's, for one, is not drawn.
PostDrawTask(drawable) ==
    /\ drawn < MaxDraws
    /\ drawn' = drawn + 1
    /\ drawTasks' = Append(drawTasks, [frame |-> drawn + 1, drawable |-> drawable])
    /\ UNCHANGED <<waitingForFirst, notifying, waiter, deadline, missed, drewSinceSetup,
                   presented, timingVars>>

RunSetupTask ==
    /\ ~notifying /\ drawTasks # <<>> /\ Head(drawTasks) = SetupTask
    /\ drawTasks' = Tail(drawTasks)
    /\ waitingForFirst' = TRUE
    /\ drewSinceSetup' = FALSE /\ presented' = FALSE
    /\ UNCHANGED <<drawn, notifying, waiter, deadline, missed, timingVars>>

\* Shell::ReportTimings of these timings.
ReportTimings(timings) ==
    /\ batches' = Append(batches, timings)
    /\ unreported' = <<>>

ScheduleReport_Always ==   \* mutant: one delayed task for every frame
    /\ reportScheduled' = TRUE
    /\ delayedReports' = delayedReports + 1
ScheduleReport ==
    /\ reportScheduled' = TRUE
    /\ delayedReports' = IF reportScheduled THEN delayedReports ELSE delayedReports + 1

OnFrameRasterized(frame) ==
    LET timings == Append(unreported, frame) IN
    IF ~needsReport
    THEN UNCHANGED timingVars
    ELSE /\ rasterized' = Append(rasterized, frame)
         /\ IF ~firstRasterized \/ Len(timings) >= BatchLimit
            THEN /\ firstRasterized' = TRUE
                 /\ ReportTimings(timings)
                 /\ UNCHANGED <<reportScheduled, delayedReports>>
            ELSE /\ ScheduleReport
                 /\ unreported' = timings
                 /\ UNCHANGED <<firstRasterized, batches>>
         /\ UNCHANGED <<needsReport, reported>>

\* The Draw task, up to the store.
RunDrawTask_NotifyIfDrawn ==   \* mutant: no notification when nothing was drawn
    /\ ~notifying /\ drawTasks # <<>> /\ Head(drawTasks) # SetupTask
    /\ drawTasks' = Tail(drawTasks)
    /\ IF Head(drawTasks).drawable
       THEN OnFrameRasterized(Head(drawTasks).frame) /\ presented' = TRUE
       ELSE UNCHANGED <<timingVars, presented>>
    /\ drewSinceSetup' = TRUE
    /\ notifying' = (waitingForFirst /\ Head(drawTasks).drawable)
    /\ waitingForFirst' = FALSE
    /\ UNCHANGED <<drawn, waiter, deadline, missed>>
RunDrawTask ==
    /\ ~notifying /\ drawTasks # <<>> /\ Head(drawTasks) # SetupTask
    /\ drawTasks' = Tail(drawTasks)
    /\ IF Head(drawTasks).drawable
       THEN OnFrameRasterized(Head(drawTasks).frame) /\ presented' = TRUE
       ELSE UNCHANGED <<timingVars, presented>>
    /\ drewSinceSetup' = TRUE
    /\ notifying' = waitingForFirst
    /\ waitingForFirst' = FALSE
    /\ UNCHANGED <<drawn, waiter, deadline, missed>>

NotifyAll ==
    /\ notifying
    /\ notifying' = FALSE
    /\ waiter' = IF waiter = "blocked" THEN "testing" ELSE waiter
    /\ missed' = (waiter = "blocking")
    /\ UNCHANGED <<drawTasks, drawn, waitingForFirst, deadline, drewSinceSetup, presented,
                   timingVars>>

RunDelayedReport ==
    /\ ~notifying /\ delayedReports > 0
    /\ delayedReports' = delayedReports - 1
    /\ reportScheduled' = FALSE
    /\ IF unreported # <<>> THEN ReportTimings(unreported) ELSE UNCHANGED <<batches, unreported>>
    /\ UNCHANGED <<drawTasks, waitVars, needsReport, firstRasterized, reported, rasterized>>

(***************************************************************************)
(* The UI thread.                                                          *)
(***************************************************************************)
SetNeedsReportTimings ==
    /\ needsReport' = ~needsReport
    /\ drawn < MaxDraws
    /\ UNCHANGED <<drawTasks, waitVars, unreported, reportScheduled, delayedReports,
                   firstRasterized, batches, reported, rasterized>>

DeliverTimings ==
    /\ batches # <<>>
    /\ batches' = Tail(batches)
    /\ reported' = reported \o Head(batches)
    /\ UNCHANGED <<drawTasks, waitVars, needsReport, unreported, reportScheduled,
                   delayedReports, firstRasterized, rasterized>>

(***************************************************************************)
(* WaitForFirstFrame.                                                      *)
(***************************************************************************)
WaiterAt(from, to) ==
    /\ waiter = from /\ waiter' = to
    /\ UNCHANGED <<drawTasks, drawn, waitingForFirst, notifying, missed, drewSinceSetup,
                   presented, timingVars>>

\* The timeout is added to the present time; one that overflows is cut to the
\* last point in time there is.
WaitForFirstFrame == WaiterAt("out", "testing") /\ deadline' \in BOOLEAN

TestFlag ==
    /\ \/ waitingForFirst /\ WaiterAt("testing", "blocking")
       \/ ~waitingForFirst /\ WaiterAt("testing", "kOk")
    /\ UNCHANGED deadline

Block == WaiterAt("blocking", "blocked") /\ UNCHANGED deadline

TimeOut_Ok ==   \* mutant: the flag is not tested again
    deadline /\ WaiterAt("blocked", "kOk") /\ UNCHANGED deadline
TimeOut == deadline /\ WaiterAt("blocked", "timedOut") /\ UNCHANGED deadline

TestFlagAgain ==
    /\ \/ waitingForFirst /\ WaiterAt("timedOut", "kDeadlineExceeded")
       \/ ~waitingForFirst /\ WaiterAt("timedOut", "kOk")
    /\ UNCHANGED deadline

WaiterStep == TestFlag \/ Block \/ TimeOut \/ TestFlagAgain

-----------------------------------------------------------------------------
FirstFrameRasterStep == RunSetupTask \/ RunDrawTask \/ NotifyAll

FirstFrameNext ==
    \/ PostSetupTask \/ \E drawable \in BOOLEAN : PostDrawTask(drawable)
    \/ FirstFrameRasterStep \/ RunDelayedReport
    \/ SetNeedsReportTimings \/ DeliverTimings
    \/ WaitForFirstFrame \/ WaiterStep

FirstFrameSpec == FirstFrameInit /\ [][FirstFrameNext]_firstFrameVars

\* Threads run their tasks, and time passes for delayed tasks and waits.
FirstFrameFairness ==
    /\ WF_firstFrameVars(FirstFrameRasterStep) /\ WF_firstFrameVars(RunDelayedReport)
    /\ WF_firstFrameVars(DeliverTimings) /\ WF_firstFrameVars(WaiterStep)

FirstFrameFairSpec == FirstFrameSpec /\ FirstFrameFairness

-----------------------------------------------------------------------------
FramesOf(timings) == {timings[i] : i \in 1..Len(timings)}
Before(first, second) == \A f \in FramesOf(first), g \in FramesOf(second) : f < g
Ascending(timings) == \A i, k \in 1..Len(timings) : i < k => timings[i] < timings[k]

\* Timings are reported in the order of the frames and once, whether the report
\* is immediate, full or delayed: the engine was given the first of those that
\* were kept, the batches on their way have the next, and the rest waits.
TimingsInOrder ==
    /\ Ascending(rasterized) /\ Ascending(reported) /\ Ascending(unreported)
    /\ Before(reported, unreported)
    /\ \A i \in 1..Len(batches) :
          /\ Ascending(batches[i])
          /\ Before(reported, batches[i]) /\ Before(batches[i], unreported)
          /\ \A k \in 1..Len(batches) : i < k => Before(batches[i], batches[k])
    /\ FramesOf(rasterized) = FramesOf(reported) \cup FramesOf(unreported)
                                \cup UNION {FramesOf(batches[i]) : i \in 1..Len(batches)}

\* Timings that are kept back have a delayed task that will report them, exactly
\* one, and there are fewer of them than are reported at once.
KeptTimingsAreScheduled ==
    /\ unreported # <<>> => reportScheduled
    /\ delayedReports = IF reportScheduled THEN 1 ELSE 0
    /\ Len(unreported) < BatchLimit

\* The timings of a frame are reported without another frame's help.
TimingsAreReported == []<>(reported = rasterized)

\* The wait succeeds only when the raster thread was through with a Draw of the
\* surface that it set up last.
OkAfterDraw ==
    [][waiter # "kOk" /\ waiter' = "kOk" => drewSinceSetup]_firstFrameVars

\* A thread that is about to wait, or waits, for a flag that is already cleared is
\* going to be notified, or it missed its notification: no Draw or Setup clears,
\* sets or notifies in an order that leaves it behind in any other way.
WaiterIsNotified ==
    waiter \in {"blocking", "blocked"} /\ ~waitingForFirst => notifying \/ missed

\* A wait with a deadline ends.  An indefinite one ends once a Draw has followed
\* Setup, unless its notification came between the test and the wait.
Waiting == waiter \notin {"out", "kOk", "kDeadlineExceeded"}
WaitEnds == []<>(Waiting => ~deadline /\ (waitingForFirst \/ missed))

\* No timing is lost, repeated or kept back for good.
TimingsAreKept == TimingsInOrder /\ KeptTimingsAreScheduled

\* Those who wait for a frame or for its timings are answered, and not too early.
FramesAreAnnounced == OkAfterDraw /\ WaitEnds /\ TimingsAreReported

(***************************************************************************)
(* What the code says of itself and does not keep.                         *)
(***************************************************************************)
\* "'kOk' when the first frame has been presented before the timeout
\* successfully" (shell.h:322).
OkWhenPresented ==
    [][waiter # "kOk" /\ waiter' = "kOk" => presented]_firstFrameVars

\* "Pauses the calling thread until the first frame is presented" (shell.h:315):
\* an indefinite wait is over when a frame was presented.
PausesUntilPresented == []<>(Waiting => ~presented)
=============================================================================
