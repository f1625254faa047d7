---------------------------- MODULE ShellLifecycle ----------------------------
(***************************************************************************)
(* Creation and destruction of shells, and the service protocol            *)
(* (shell/common/shell.cc, runtime/service_protocol.cc).                   *)
(*                                                                         *)
(* The shells were spawned from each other and share the four threads,     *)
(* each of which runs the tasks posted to it in order.  The engine of a    *)
(* shell lives on the UI thread, the rasterizer on the raster thread, the  *)
(* IO manager on the IO thread; the platform thread creates and destroys   *)
(* them there and waits for it.                                            *)
(*                                                                         *)
(* An isolate answers a message of the service protocol on the UI thread:  *)
(* it finds the shell in a table, posts the message to the thread of the   *)
(* handler and waits, with the table locked, so that the shell cannot go.  *)
(***************************************************************************)
EXTENDS Integers, Sequences

CONSTANTS
    ShellIds,    \* the shells that are created
    Methods,   \* the methods of the service protocol that are called
    MaxEvents  \* bound on what the program and the tools ask of the shells

ShellThreads == {"platform", "ui", "raster", "io"}
Parts == {"engine", "rasterizer", "io manager"}

\* service_protocol_handlers_; kRunInView, handled where it arrives, waits for
\* the platform thread in OnPreEngineRestart.
HandlerThread ==
    [kScreenshot |-> "raster", kGetSkSLs |-> "io", kReloadAssetFonts |-> "platform",
     kRunInView |-> "platform"]

ASSUME MethodsAssumption == Methods \subseteq DOMAIN HandlerThread
ASSUME EventsAssumption == MaxEvents \in Nat

NoCall == [method |-> "none"]
Calls == [shell : ShellIds, method : Methods]

VARIABLES
    stage,       \* what the platform thread has done with a shell
    alive,       \* the parts that exist
    shellTasks,  \* the tasks posted to each thread
    handlers,    \* handlers_, the shells of the table
    added,       \* the shells with is_added_to_service_protocol_
    call,        \* the message the UI thread waits for, holding handlers_mutex_
    events       \* how much was asked for

shellVars == <<stage, alive, shellTasks, handlers, added, call, events>>

Creating == {"starting"}
Destroying == {"removing", "engine", "raster", "io"}

TaskNames == {"makeRasterizer", "makeIOManager", "makeEngine", "launch", "addHandler",
              "setup", "draw", "handle", "resetEngine", "resetRasterizer", "resetIOManager"}

\* Every variable has its type.
ShellTypeOK ==
    /\ stage \in [ShellIds -> {"none", "running", "freed"} \cup Creating \cup Destroying]
    /\ alive \subseteq ShellIds \X Parts
    /\ shellTasks \in [ShellThreads -> Seq([name : TaskNames, shell : ShellIds])]
    /\ handlers \subseteq ShellIds /\ added \subseteq ShellIds
    /\ call \in Calls \cup {NoCall}
    /\ events \in 0..MaxEvents

ShellInit ==
    /\ stage = [s \in ShellIds |-> "none"]
    /\ alive = {}
    /\ shellTasks = [t \in ShellThreads |-> <<>>]
    /\ handlers = {} /\ added = {}
    /\ call = NoCall
    /\ events = 0

\* The platform thread is not inside the constructor or destructor of a shell.
PlatformIdle == \A s \in ShellIds : stage[s] \notin Creating \cup Destroying
UiIdle == call = NoCall

Post(tasks, thread, name, s) ==
    [tasks EXCEPT ![thread] = Append(@, [name |-> name, shell |-> s])]

Posted(thread, name, s) == shellTasks' = Post(shellTasks, thread, name, s)

Exists(s, part) == <<s, part>> \in alive

Asked == events < MaxEvents /\ events' = events + 1

(***************************************************************************)
(* Creation.                                                               *)
(***************************************************************************)
\* CreateShellOnPlatformThread up to the wait for the three futures.
CreateShell(s) ==
    /\ PlatformIdle /\ stage[s] = "none"
    /\ stage' = [stage EXCEPT ![s] = "starting"]
    /\ shellTasks' = Post(Post(Post(shellTasks, "raster", "makeRasterizer", s),
                               "io", "makeIOManager", s),
                          "ui", "makeEngine", s)
    /\ UNCHANGED <<alive, handlers, added, call, events>>

\* Shell::Setup; then the embedder runs the engine.
SetupShell(s) ==
    /\ stage[s] = "starting"
    /\ \A part \in Parts : Exists(s, part)
    /\ stage' = [stage EXCEPT ![s] = "running"]
    /\ Posted("ui", "launch", s)
    /\ UNCHANGED <<alive, handlers, added, call, events>>

(***************************************************************************)
(* The platform thread: surfaces, and destruction.                         *)
(***************************************************************************)
\* The raster task of OnPlatformViewCreated.
PostSetup(s) ==
    /\ PlatformIdle /\ stage[s] = "running"
    /\ Asked
    /\ Posted("raster", "setup", s)
    /\ UNCHANGED <<stage, alive, handlers, added, call>>

DestroyShell(s) ==
    /\ PlatformIdle /\ stage[s] = "running"
    /\ stage' = [stage EXCEPT ![s] = "removing"]
    /\ UNCHANGED <<alive, shellTasks, handlers, added, call, events>>

\* The table can be changed while no message is being handled.
HandlersUnlocked == call = NoCall

RemoveHandler(s) ==
    /\ stage[s] = "removing"
    /\ HandlersUnlocked
    /\ handlers' = handlers \ {s}
    /\ stage' = [stage EXCEPT ![s] = "engine"]
    /\ Posted("ui", "resetEngine", s)
    /\ UNCHANGED <<alive, added, call, events>>

PostRasterizerReset(s) ==
    /\ stage[s] = "engine" /\ ~Exists(s, "engine")
    /\ stage' = [stage EXCEPT ![s] = "raster"]
    /\ Posted("raster", "resetRasterizer", s)
    /\ UNCHANGED <<alive, handlers, added, call, events>>

PostIOManagerReset(s) ==
    /\ stage[s] = "raster" /\ ~Exists(s, "rasterizer")
    /\ stage' = [stage EXCEPT ![s] = "io"]
    /\ Posted("io", "resetIOManager", s)
    /\ UNCHANGED <<alive, handlers, added, call, events>>

\* The platform view goes on this thread, and then the members of the shell.
FreeShell(s) ==
    /\ stage[s] = "io" /\ ~Exists(s, "io manager")
    /\ stage' = [stage EXCEPT ![s] = "freed"]
    /\ UNCHANGED <<alive, shellTasks, handlers, added, call, events>>

(***************************************************************************)
(* The UI thread.                                                          *)
(***************************************************************************)
HandleMessage(s, method) ==
    /\ UiIdle /\ s \in handlers
    /\ Asked
    /\ call' = [shell |-> s, method |-> method]
    /\ Posted(HandlerThread[method], "handle", s)
    /\ UNCHANGED <<stage, alive, handlers, added>>

PostDraw(s) ==
    /\ UiIdle /\ Exists(s, "engine") /\ Exists(s, "rasterizer") /\ stage[s] # "starting"
    /\ Asked
    /\ Posted("raster", "draw", s)
    /\ UNCHANGED <<stage, alive, handlers, added, call>>

(***************************************************************************)
(* The tasks.                                                              *)
(***************************************************************************)
RunsNext(thread, name, s) ==
    /\ shellTasks[thread] # <<>>
    /\ Head(shellTasks[thread]) = [name |-> name, shell |-> s]

Finished(thread) == shellTasks' = [shellTasks EXCEPT ![thread] = Tail(@)]

Makes == [makeRasterizer |-> <<"raster", "rasterizer">>,
          makeIOManager |-> <<"io", "io manager">>,
          makeEngine |-> <<"ui", "engine">>]

\* The engine is made of what the other two promise.
RunMake(name, s) ==
    LET thread == Makes[name][1]  part == Makes[name][2] IN
    /\ RunsNext(thread, name, s)
    /\ thread = "ui" => UiIdle /\ Exists(s, "rasterizer") /\ Exists(s, "io manager")
    /\ alive' = alive \cup {<<s, part>>}
    /\ Finished(thread)
    /\ UNCHANGED <<stage, handlers, added, call, events>>

\* Engine::Run, through OnRootIsolateCreated.
RunLaunch(s) ==
    /\ UiIdle /\ RunsNext("ui", "launch", s)
    /\ IF Exists(s, "engine") /\ s \notin added
       THEN /\ added' = added \cup {s}
            /\ shellTasks' = Post([shellTasks EXCEPT !["ui"] = Tail(@)],
                                  "platform", "addHandler", s)
       ELSE Finished("ui") /\ UNCHANGED added
    /\ UNCHANGED <<stage, alive, handlers, call, events>>

AddHandler_Strong(s) ==   \* mutant: the task does not look whether the shell is there
    /\ PlatformIdle /\ RunsNext("platform", "addHandler", s)
    /\ HandlersUnlocked /\ handlers' = handlers \cup {s}
    /\ Finished("platform")
    /\ UNCHANGED <<stage, alive, added, call, events>>
AddHandler(s) ==
    /\ PlatformIdle /\ RunsNext("platform", "addHandler", s)
    /\ IF stage[s] = "freed"
       THEN UNCHANGED handlers
       ELSE HandlersUnlocked /\ handlers' = handlers \cup {s}
    /\ Finished("platform")
    /\ UNCHANGED <<stage, alive, added, call, events>>

\* The handler, after which the UI thread goes on.
RunServiceHandler(thread, s) ==
    /\ thread = "platform" => PlatformIdle
    /\ RunsNext(thread, "handle", s)
    /\ call' = NoCall
    /\ Finished(thread)
    /\ UNCHANGED <<stage, alive, handlers, added, events>>

RunDraw(name, s) ==
    /\ RunsNext("raster", name, s)
    /\ Finished("raster")
    /\ UNCHANGED <<stage, alive, handlers, added, call, events>>

Resets == [resetEngine |-> <<"ui", "engine">>,
           resetRasterizer |-> <<"raster", "rasterizer">>,
           resetIOManager |-> <<"io", "io manager">>]

RunReset_NoSignal(name, s) ==   \* mutant: the IO thread does not signal io_latch
    LET thread == Resets[name][1]  part == Resets[name][2] IN
    /\ thread = "ui" => UiIdle
    /\ RunsNext(thread, name, s)
    /\ alive' = IF thread = "io" THEN alive ELSE alive \ {<<s, part>>}
    /\ Finished(thread)
    /\ UNCHANGED <<stage, handlers, added, call, events>>
RunReset(name, s) ==
    LET thread == Resets[name][1]  part == Resets[name][2] IN
    /\ thread = "ui" => UiIdle
    /\ RunsNext(thread, name, s)
    /\ alive' = alive \ {<<s, part>>}
    /\ Finished(thread)
    /\ UNCHANGED <<stage, handlers, added, call, events>>

-----------------------------------------------------------------------------
ShellThreadStep(thread) ==
    \E s \in ShellIds :
        \/ RunServiceHandler(thread, s)
        \/ \E name \in DOMAIN Makes : Makes[name][1] = thread /\ RunMake(name, s)
        \/ \E name \in DOMAIN Resets : Resets[name][1] = thread /\ RunReset(name, s)

RasterStep == ShellThreadStep("raster")
              \/ \E s \in ShellIds, name \in {"setup", "draw"} : RunDraw(name, s)
UiStep == ShellThreadStep("ui") \/ \E s \in ShellIds : RunLaunch(s)
IoStep == ShellThreadStep("io")
PlatformStep ==
    \/ ShellThreadStep("platform")
    \/ \E s \in ShellIds : \/ SetupShell(s) \/ AddHandler(s) \/ RemoveHandler(s)
                           \/ PostRasterizerReset(s) \/ PostIOManagerReset(s) \/ FreeShell(s)

ShellNext ==
    \/ \E s \in ShellIds : \/ CreateShell(s) \/ DestroyShell(s) \/ PostSetup(s)
                           \/ PostDraw(s)
                           \/ \E method \in Methods : HandleMessage(s, method)
    \/ PlatformStep \/ UiStep \/ RasterStep \/ IoStep

ShellSpec == ShellInit /\ [][ShellNext]_shellVars

\* The threads run their tasks, and the calls they are in.
ShellFairness ==
    /\ WF_shellVars(PlatformStep) /\ WF_shellVars(UiStep)
    /\ WF_shellVars(RasterStep) /\ WF_shellVars(IoStep)

ShellFairSpec == ShellSpec /\ ShellFairness

-----------------------------------------------------------------------------
Queued(name, s) == \E t \in ShellThreads : \E i \in DOMAIN shellTasks[t] :
                       shellTasks[t][i] = [name |-> name, shell |-> s]

\* What has a plain pointer to the shell, or a reference to one of its members,
\* does not outlive it: the parts, the tasks that make them, the Setup task, that
\* stores waiting_for_first_frame_ whether or not the rasterizer is there, and
\* the handler of a message.  A Draw task may; it looks for the rasterizer.
NothingOutlivesItsShell ==
    \A s \in ShellIds : stage[s] = "freed" =>
        /\ \A part \in Parts : ~Exists(s, part)
        /\ \A name \in {"setup", "handle"} \cup DOMAIN Makes \cup DOMAIN Resets :
               ~Queued(name, s)
        /\ s \notin handlers

\* A message is handled by a shell of the table, all of whose parts are there,
\* whichever thread the handler runs on and however far the destruction of this
\* or another shell has come.
HandlersFindTheirShell ==
    call # NoCall => /\ call.shell \in handlers
                     /\ \A part \in Parts : Exists(call.shell, part)

\* Rasterizer and IO manager, which the engine refers to, are there as long as it.
EngineFindsItsParts ==
    \A s \in ShellIds : Exists(s, "engine") =>
        Exists(s, "rasterizer") /\ Exists(s, "io manager")

\* The UI thread waits for the platform thread, and this one for the UI thread
\* or for the lock that the UI thread holds.
WaitForEachOther ==
    /\ call # NoCall
    /\ HandlerThread[call.method] = "platform"
    /\ \E s \in ShellIds : \/ stage[s] \in {"starting", "removing", "engine"}
                           \/ RunsNext("platform", "addHandler", s) /\ stage[s] = "running"

\* Unless the two threads wait for each other, a shell is created or destroyed to
\* the end once this was begun ...
StagesEnd ==
    \A s \in ShellIds : []<>(stage[s] \notin Creating \cup Destroying \/ WaitForEachOther)

\* ... and every message is answered.
MessagesAreAnswered == []<>(call = NoCall \/ WaitForEachOther)

\* Nobody finds less than what it was promised.
ShellSafety == NothingOutlivesItsShell /\ HandlersFindTheirShell /\ EngineFindsItsParts

\* What is begun comes to its end, but for the two threads that wait for each other.
ShellProgress == StagesEnd /\ MessagesAreAnswered

(***************************************************************************)
(* What the code says of itself and does not keep.                         *)
(***************************************************************************)
\* "Destroys the shell.  This is a synchronous operation and synchronous barrier
\* blocks are introduced on the various threads to ensure shutdown of all shell
\* sub-components before this method returns" (shell.h:172).
DestructionIsSynchronous ==
    \A s \in ShellIds : (stage[s] = "removing") ~> (stage[s] = "freed")
=============================================================================
