------------------------------- MODULE MCEngine -------------------------------
(***************************************************************************)
(* An instance for TLC of the components of the engine that share no state *)
(* with each other.  One of them is chosen at the start, and only it takes *)
(* steps; so the states are those of the components one by one, and not    *)
(* those of their product.                                                 *)
(***************************************************************************)
EXTENDS ConcurrentLoop, ShellLifecycle, FirstFrame, PointerDispatcher, UnrefQueue

CONSTANTS w1, w2, p1   \* the workers of the pool, and a thread that posts

VARIABLE active   \* the component that was chosen

EngineComponents == {"pool", "shell", "first frame", "pointers", "unref queue"}

engineVars == <<active, poolVars, shellVars, firstFrameVars, dispatcherVars, unrefVars>>

\* The component x was chosen, and no other one moves.
Only(x) ==
    /\ active = x /\ UNCHANGED active
    /\ IF x = "pool" THEN TRUE ELSE UNCHANGED poolVars
    /\ IF x = "shell" THEN TRUE ELSE UNCHANGED shellVars
    /\ IF x = "first frame" THEN TRUE ELSE UNCHANGED firstFrameVars
    /\ IF x = "pointers" THEN TRUE ELSE UNCHANGED dispatcherVars
    /\ IF x = "unref queue" THEN TRUE ELSE UNCHANGED unrefVars

\* A component that was not chosen has one initial state.
EngineInit ==
    /\ active \in EngineComponents
    /\ PoolInit /\ ShellInit /\ FirstFrameInit /\ DispatcherInit /\ UnrefInit
    /\ active # "first frame" => ~needsReport
    /\ active # "unref queue" => ~gpuDisabled

EngineNext ==
    \/ Only("pool") /\ PoolNext
    \/ Only("shell") /\ ShellNext
    \/ Only("first frame") /\ FirstFrameNext
    \/ Only("pointers") /\ DispatcherNext
    \/ Only("unref queue") /\ UnrefNext

(***************************************************************************)
(* The fairness of the component that was chosen.  Each component has up   *)
(* to six fair actions; since only one component moves, the k-th actions   *)
(* of all of them share one formula.                                       *)
(***************************************************************************)
FairStep(k) ==
    \/ Only("pool") /\ \/ k = 1 /\ WorkerStep(w1)
                       \/ k = 2 /\ WorkerStep(w2)
                       \/ k = 3 /\ PostStep(w1)
                       \/ k = 4 /\ PostStep(w2)
                       \/ k = 5 /\ PostStep(p1)
                       \/ k = 6 /\ DestructorStep
    \/ Only("shell") /\ \/ k = 1 /\ PlatformStep
                        \/ k = 2 /\ UiStep
                        \/ k = 3 /\ RasterStep
                        \/ k = 4 /\ IoStep
    \/ Only("first frame") /\ \/ k = 1 /\ FirstFrameRasterStep
                              \/ k = 2 /\ RunDelayedReport
                              \/ k = 3 /\ DeliverTimings
                              \/ k = 4 /\ WaiterStep
    \/ Only("pointers") /\ \/ k = 1 /\ RunUITask
                           \/ k = 2 /\ FireCallback
    \/ Only("unref queue") /\ \/ k = 1 /\ IOWork
                              \/ k = 2 /\ MakeUnavailable

EngineSpec ==
    /\ EngineInit /\ [][EngineNext]_engineVars
    /\ \A k \in 1..6 : WF_engineVars(FairStep(k))
===============================================================================
