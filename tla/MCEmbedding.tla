----------------------------- MODULE MCEmbedding -----------------------------
(***************************************************************************)
(* An instance for TLC of the components between the engine and those who  *)
(* embed it: platform views with one shell, messages of the framework and  *)
(* of the platform, the resizing of a window, and the hosts of             *)
(* OpenHarmony, of which no entry detaches the engine of another host      *)
(* (NoLateDetach).  They share no state.  One of them is chosen at the     *)
(* start, and only it takes steps.                                         *)
(***************************************************************************)
EXTENDS PlatformViews, PlatformMessages, ChannelBuffers, WindowsResize, OhosViews

VARIABLE active   \* the component that was chosen

EmbeddingComponents == {"views", "messages", "channel", "resize", "hosts"}

embeddingVars == <<active, vars, messageVars, channelVars, resizeVars,
                   hostVars>>

\* The component x was chosen, and no other one moves.
Only(x) ==
    /\ active = x /\ UNCHANGED active
    /\ IF x = "views" THEN TRUE ELSE UNCHANGED vars
    /\ IF x = "messages" THEN TRUE ELSE UNCHANGED messageVars
    /\ IF x = "channel" THEN TRUE ELSE UNCHANGED channelVars
    /\ IF x = "resize" THEN TRUE ELSE UNCHANGED resizeVars
    /\ IF x = "hosts" THEN TRUE ELSE UNCHANGED hostVars

\* A component that was not chosen has one initial state.
EmbeddingInit ==
    /\ active \in EmbeddingComponents
    /\ Init /\ MessageInit /\ ChannelInit /\ ResizeInit /\ HostsInit
    /\ active # "messages" => ~buffering
    /\ active # "resize" => window = CHOOSE size \in Sizes : TRUE

EmbeddingNext ==
    \/ Only("views") /\ Next
    \/ Only("messages") /\ MessageNext
    \/ Only("channel") /\ ChannelNext
    \/ Only("resize") /\ ResizeNext
    \/ Only("hosts") /\ HostsNext /\ \A h \in Hosts : ~LateDetach(h)

(***************************************************************************)
(* The fairness of the component that was chosen.  Since only one          *)
(* component moves, the k-th fair actions of all of them share a formula.  *)
(***************************************************************************)
FairStep(k) ==
    \/ Only("views") /\ \/ k = 1 /\ ThreadStep("platform")
                        \/ k = 2 /\ ThreadStep("raster")
                        \/ k = 3 /\ ContinuePlatform
    \/ Only("messages") /\ \/ k = 1 /\ UiSide
                           \/ k = 2 /\ PlatformSide
                           \/ k = 3 /\ PoolSide
    \/ Only("channel") /\ \/ k = 1 /\ DrainStep
                          \/ k = 2 /\ ContinueDrain
                          \/ k = 3 /\ HandlerEnds
    \/ Only("resize") /\ \/ k = 1 /\ SetViewportMetrics
                         \/ k = 2 /\ BuildFrame
                         \/ k = 3 /\ RasterWork
                         \/ k = 4 /\ (ExpectFrameSize \/ ResizeIsDone)

EmbeddingSpec ==
    /\ EmbeddingInit /\ [][EmbeddingNext]_embeddingVars
    /\ \A k \in 1..4 : WF_embeddingVars(FairStep(k))
===============================================================================
