------------------------------- MODULE OhosViews -------------------------------
(***************************************************************************)
(* Hosts, views and engines of the OpenHarmony embedder                    *)
(* (shell/platform/ohos).  A host is a FlutterAbility or a FlutterEntry:   *)
(* it has a delegate, which holds an engine, and a view, whose XComponent  *)
(* has the window to render to.  An engine is the host's own, or a cached  *)
(* one that hosts take from each other.  Callbacks of the platform come on *)
(* one thread, the one the shell runs its platform tasks on; only the      *)
(* await for an engine that is being created lets other callbacks in.      *)
(*                                                                         *)
(* The framework's window focus, plugins, and what is drawn are left out,  *)
(* and every host attaches its engine to the ability                       *)
(* (shouldAttachEngineToAbility).                                          *)
(***************************************************************************)
EXTENDS FiniteSets

CONSTANTS
    Abilities,     \* hosts that are a FlutterAbility
    Entries,       \* hosts that are a FlutterEntry
    Cached,        \* the hosts that ask for the cached engine
    CachedEngine   \* that engine; the one a host creates has the host's name

Hosts == Abilities \cup Entries
HostEngines == Hosts \cup {CachedEngine}

ASSUME HostsAssumption ==
    Cached \subseteq Hosts /\ CachedEngine \notin Hosts /\ "none" \notin HostEngines

\* The engine a host gets from setupFlutterEngine.
EngineOf(h) == IF h \in Cached THEN CachedEngine ELSE h

VARIABLES
    phase,      \* of each host: what the platform has told it last
    starting,   \* the hosts whose delegate awaits the creation of its engine
    embedder    \* the state of the embedder, see EmbedderType

hostVars == <<phase, starting, embedder>>

(***************************************************************************)
(* delegates   flutterEngine, isAttached, and whether host is not null     *)
(* views       flutterEngine and isSurfaceAvailableForRendering of the     *)
(*             FlutterView, and whether the delegate has it                *)
(* xcomponents shellholderId_ and whether window_ is a window; a host      *)
(*             without an entry in xcomponetMap_ has neither               *)
(* shells      of each engine, the holder of its shell                     *)
(* renders     of each engine, whose window its ohos_surface_ has          *)
(* exclusive   of each engine, exclusiveAbility                            *)
(* reported    of each engine, lastOhosState                               *)
(* misused     a deleted shell, or the empty shellholderId_, was used      *)
(***************************************************************************)
EmbedderType ==
    [delegates : [Hosts -> [engine : HostEngines \cup {"none"}, attached : BOOLEAN,
                            host : BOOLEAN]],
     views : [Hosts -> [engine : HostEngines \cup {"none"}, surface : BOOLEAN,
                        created : BOOLEAN]],
     xcomponents : [Hosts -> [shell : HostEngines \cup {"none"}, window : BOOLEAN]],
     shells : [HostEngines -> {"none", "alive", "deleted"}],
     renders : [HostEngines -> Hosts \cup {"none"}],
     exclusive : [HostEngines -> Hosts \cup {"none"}],
     reported : [HostEngines -> {"", "resumed", "paused", "detached"}],
     misused : BOOLEAN]

\* Every variable has its type.
HostTypeOK ==
    /\ phase \in [Hosts -> {"new", "created", "staged", "foreground", "background", "gone"}]
    /\ starting \subseteq Hosts
    /\ embedder \in EmbedderType

(***************************************************************************)
(* A callback runs to its end before the next one.  What it calls is a     *)
(* function from a state E of the embedder to the next one.                *)
(*                                                                         *)
(* SurfaceCreated and SurfaceDestroyed of the shell with id e: the         *)
(* platform view gives its surface the window of h, or takes it away, and  *)
(* waits until the raster thread has done so.                              *)
(***************************************************************************)
NotifySurface(E, e, h) ==
    IF e # "none" /\ E.shells[e] = "alive" THEN [E EXCEPT !.renders[e] = h]
                                           ELSE [E EXCEPT !.misused = TRUE]

\* XComponentBase::AttachFlutterEngine.
XComponentAttach(E, h, e) ==
    LET A == [E EXCEPT !.xcomponents[h].shell = e]
    IN  IF E.xcomponents[h].window THEN NotifySurface(A, e, h) ELSE A

\* XComponentBase::DetachFlutterEngine; nothing for an id without an entry.
XComponentDetach(E, h) ==
    LET D == [E EXCEPT !.xcomponents[h].shell = "none"]
    IN  IF E.xcomponents[h].window
        THEN NotifySurface(D, E.xcomponents[h].shell, "none") ELSE D

\* FlutterView.detachFromFlutterEngine.
DetachView(E, h) ==
    LET D == IF E.views[h].surface THEN XComponentDetach(E, h) ELSE E
    IN  IF E.views[h].engine = "none" THEN E ELSE [D EXCEPT !.views[h].engine = "none"]

\* FlutterView.attachToFlutterEngine.
AttachView(E, h, e) ==
    LET A == [DetachView(E, h) EXCEPT !.views[h].engine = e]
    IN  IF E.views[h].engine = e THEN E
        ELSE IF E.views[h].surface THEN XComponentAttach(A, h, e) ELSE A

\* LifecycleChannel.sendState, to the framework of e if there is an engine.
SendState(E, e, state) ==
    IF e = "none" THEN E
    ELSE IF E.shells[e] = "alive" THEN [E EXCEPT !.reported[e] = state]
    ELSE [E EXCEPT !.misused = TRUE]

\* FlutterAbilityAndEntryDelegate.shouldDispatchAppLifecycleState.
ShouldDispatch_Host(E, h) == E.delegates[h].host   \* mutant
ShouldDispatch(E, h) == E.delegates[h].host /\ E.delegates[h].attached

Dispatch(E, h, state) ==
    IF ShouldDispatch(E, h) THEN SendState(E, E.delegates[h].engine, state) ELSE E

\* FlutterEngineConnectionRegistry.detachFromAbility: whoever the ability is.
DetachFromAbility(E, e) == IF e = "none" THEN E ELSE [E EXCEPT !.exclusive[e] = "none"]

\* FlutterEngine.destroy: detachFromNativeAndReleaseResources deletes the holder of the shell.
DestroyEngine(E, h, e) ==
    IF e = "none" THEN E
    ELSE [DetachFromAbility(E, e) EXCEPT !.shells[e] = "deleted",
                                         !.renders[e] = "none",
                                         !.delegates[h].engine = "none"]

\* FlutterAbilityAndEntryDelegate.onDetach; only a host's own engine is destroyed with it.
OnDetach(E, h) ==
    LET e == E.delegates[h].engine
        hosted == E.delegates[h].host
        Freed == IF hosted THEN DetachFromAbility(E, e) ELSE E
        Viewless == DetachView(Freed, h)
        Told == IF hosted THEN SendState(Viewless, e, "detached") ELSE Viewless
        Destroyed == IF hosted /\ h \notin Cached THEN DestroyEngine(Told, h, e) ELSE Told
    IN  [Destroyed EXCEPT !.delegates[h].attached = FALSE]

(***************************************************************************)
(* FlutterEngineConnectionRegistry.attachToAbility: the host that has the  *)
(* engine gives it up first, by its onDetach.  Only a cached engine can be *)
(* another host's; for an engine of its own, detachFromFlutterEngine would *)
(* throw.                                                                  *)
(***************************************************************************)
AttachToAbility(E, h, e) ==
    LET other == E.exclusive[e]
        Given == IF other # "none" /\ E.delegates[other].host THEN OnDetach(E, other) ELSE E
    IN  [Given EXCEPT !.exclusive[e] = h]

\* FlutterAbilityAndEntryDelegate.release.
ReleaseHost(E, h) == [E EXCEPT !.delegates[h].host = FALSE, !.delegates[h].engine = "none"]

(***************************************************************************)
(* onAttach from where the engine is there, and what its caller does after *)
(* it: onCreate of the delegate.  A delegate that was released meanwhile   *)
(* keeps the engine, and attaches it to nothing.                           *)
(***************************************************************************)
OnAttach(E, h) ==
    LET e == EngineOf(h)
        Got == [E EXCEPT !.delegates[h].engine = e, !.shells[e] = "alive"]
        Attached == [AttachToAbility(Got, h, e) EXCEPT !.delegates[h].attached = TRUE]
        Viewed == IF E.views[h].created THEN AttachView(Attached, h, e) ELSE Attached
    IN  IF E.delegates[h].host THEN Dispatch(Viewed, h, "resumed")
                               ELSE [Got EXCEPT !.delegates[h].attached = TRUE]

\* FlutterAbilityAndEntryDelegate.createView.
CreateView(E, h) ==
    LET e == E.delegates[h].engine
        C == [E EXCEPT !.views[h].created = TRUE]
    IN  IF e = "none" THEN C ELSE AttachView(C, h, e)

-----------------------------------------------------------------------------
HostsInit ==
    /\ phase = [h \in Hosts |-> "new"]
    /\ starting = {}
    /\ embedder =
        [delegates |-> [h \in Hosts |->
                           [engine |-> "none", attached |-> FALSE, host |-> FALSE]],
         views |-> [h \in Hosts |->
                       [engine |-> "none", surface |-> FALSE, created |-> FALSE]],
         xcomponents |-> [h \in Hosts |-> [shell |-> "none", window |-> FALSE]],
         shells |-> [e \in HostEngines |-> IF e = CachedEngine THEN "alive" ELSE "none"],
         renders |-> [e \in HostEngines |-> "none"],
         exclusive |-> [e \in HostEngines |-> "none"],
         reported |-> [e \in HostEngines |-> ""],
         misused |-> FALSE]

\* The callback ends in the state E, and the platform has brought h to the phase p.
Ends(h, p, E) == phase' = [phase EXCEPT ![h] = p] /\ embedder' = E

(***************************************************************************)
(* onAttach of a new delegate: a cached engine is there at once, and the   *)
(* creation of another one is awaited.                                     *)
(***************************************************************************)
StartAttach(h, p, E) ==
    \/ h \in Cached /\ Ends(h, p, OnAttach(E, h)) /\ UNCHANGED starting
    \/ h \notin Cached /\ Ends(h, p, E) /\ starting' = starting \cup {h}

\* The engine is there, and onAttach goes on.
FinishAttach(h) ==
    /\ h \in starting
    /\ starting' = starting \ {h}
    /\ embedder' = OnAttach(embedder, h)
    /\ UNCHANGED phase

\* Assumed of the platform: a host that will use the cached engine comes when the
\* abilities that do so have their window stages, as by a user of one of them.
MayCome(h) ==
    /\ phase[h] = "new"
    /\ h \in Cached => \A other \in Cached : phase[other] # "created"

\* FlutterAbility.onCreate.
AbilityOnCreate(h) ==
    /\ h \in Abilities /\ MayCome(h)
    /\ StartAttach(h, "created", [embedder EXCEPT !.delegates[h].host = TRUE])

\* FlutterAbility.onWindowStageCreate.
AbilityOnWindowStageCreate(h) ==
    /\ h \in Abilities /\ phase[h] = "created"
    /\ Ends(h, "staged", CreateView(Dispatch(embedder, h, "resumed"), h))
    /\ UNCHANGED starting

\* FlutterEntry.aboutToAppear.
EntryAboutToAppear(h) ==
    /\ h \in Entries /\ MayCome(h)
    /\ StartAttach(h, "staged", CreateView([embedder EXCEPT !.delegates[h].host = TRUE], h))

(***************************************************************************)
(* onForeground and onBackground of an ability, onPageShow and onPageHide  *)
(* of an entry.  While the engine is being created they are dropped.       *)
(***************************************************************************)
OnForeground(h) ==
    /\ phase[h] \in {"staged", "background"}
    /\ Ends(h, "foreground", Dispatch(embedder, h, "resumed"))
    /\ UNCHANGED starting

OnBackground(h) ==
    /\ phase[h] = "foreground"
    /\ Ends(h, "background", Dispatch(embedder, h, "paused"))
    /\ UNCHANGED starting

\* FlutterAbility.onDestroy.
AbilityOnDestroy(h) ==
    /\ h \in Abilities /\ phase[h] \in {"created", "staged", "background"}
    /\ LET E == IF embedder.delegates[h].attached THEN OnDetach(embedder, h) ELSE embedder
       IN  Ends(h, "gone", ReleaseHost(E, h))
    /\ UNCHANGED starting

\* FlutterEntry.aboutToDisappear.
EntryAboutToDisappear(h) ==
    /\ h \in Entries /\ phase[h] \in {"staged", "foreground", "background"}
    /\ Ends(h, "gone", ReleaseHost(OnDetach(embedder, h), h))
    /\ UNCHANGED starting

\* Unlike an ability, an entry does not ask whether it is attached: this one detaches
\* the engine that another host has taken from it, and tells its framework so.
LateDetach(h) ==
    /\ EntryAboutToDisappear(h)
    /\ embedder.exclusive[EngineOf(h)] \notin {h, "none"}
NoLateDetach == [][\A h \in Hosts : ~LateDetach(h)]_hostVars

(***************************************************************************)
(* The XComponent of h has its window: OnSurfaceCreatedCB, and then onLoad *)
(* of the page.  (In the other order, AttachFlutterEngine would read a     *)
(* window_ that no constructor sets.)                                      *)
(***************************************************************************)
OnSurfaceCreated(h) ==
    /\ phase[h] \in {"staged", "foreground", "background"}
    /\ embedder.views[h].created /\ ~embedder.xcomponents[h].window
    /\ LET x == embedder.xcomponents[h]
           W == [embedder EXCEPT !.xcomponents[h].window = TRUE]
           N == IF x.shell # "none" THEN NotifySurface(W, x.shell, h) ELSE W
           S == [N EXCEPT !.views[h].surface = TRUE]
           e == S.views[h].engine
       IN  embedder' = IF e # "none" THEN XComponentAttach(S, h, e) ELSE S
    /\ UNCHANGED <<phase, starting>>

\* OnSurfaceDestroyedCB: the window is gone, and the entry is erased.
EraseXComponent_Silent(E, h) ==   \* mutant: the shell is not told
    [E EXCEPT !.xcomponents[h] = [shell |-> "none", window |-> FALSE]]
EraseXComponent(E, h) ==
    LET x == E.xcomponents[h]
        N == IF x.shell # "none" THEN NotifySurface(E, x.shell, "none") ELSE E
    IN  [N EXCEPT !.xcomponents[h] = [shell |-> "none", window |-> FALSE]]

\* FlutterView.onSurfaceDestroyed, when the page's XComponent is destroyed.
ViewOnSurfaceDestroyed(E, h) ==
    LET S == [E EXCEPT !.views[h].surface = FALSE]
    IN  IF E.views[h].engine # "none" THEN XComponentDetach(S, h) ELSE S

\* The window goes, with its page or before it; the two callbacks come in either order.
OnSurfaceDestroyed(h) ==
    /\ embedder.xcomponents[h].window
    /\ \/ embedder' = ViewOnSurfaceDestroyed(EraseXComponent(embedder, h), h)
       \/ embedder' = EraseXComponent(ViewOnSurfaceDestroyed(embedder, h), h)
    /\ UNCHANGED <<phase, starting>>

HostsNext ==
    \E h \in Hosts :
        \/ AbilityOnCreate(h) \/ AbilityOnWindowStageCreate(h) \/ AbilityOnDestroy(h)
        \/ EntryAboutToAppear(h) \/ EntryAboutToDisappear(h)
        \/ FinishAttach(h)
        \/ OnForeground(h) \/ OnBackground(h)
        \/ OnSurfaceCreated(h) \/ OnSurfaceDestroyed(h)

HostsSpec == HostsInit /\ [][HostsNext]_hostVars
-----------------------------------------------------------------------------
(***************************************************************************)
(* No shell is called after its holder was deleted, nor without an id.  A  *)
(* shell renders to a window that exists, of the view that has it; and a   *)
(* view that has both an engine and a surface is rendered to.              *)
(***************************************************************************)
ShellRendersToItsView ==
    /\ ~embedder.misused
    /\ \A e \in HostEngines, h \in Hosts :
        embedder.renders[e] = h =>
            /\ embedder.shells[e] = "alive"
            /\ embedder.xcomponents[h] = [shell |-> e, window |-> TRUE]
    /\ \A h \in Hosts :
        embedder.views[h].engine # "none" /\ embedder.views[h].surface =>
            embedder.renders[embedder.views[h].engine] = h

(***************************************************************************)
(* The engine of an attached host is attached to that host's ability and   *)
(* to no other one, and its framework is resumed when the host is in the   *)
(* foreground: the host that had the engine before does not mix its own    *)
(* events in (FlutterAbilityAndEntryDelegate.ets, detachFromFlutterEngine).*)
(***************************************************************************)
EngineServesItsHost ==
    \A h \in Hosts :
        embedder.delegates[h].attached /\ embedder.delegates[h].host =>
            /\ embedder.exclusive[EngineOf(h)] = h
            /\ phase[h] = "foreground" => embedder.reported[EngineOf(h)] = "resumed"
-----------------------------------------------------------------------------
(***************************************************************************)
(* What the comments say and TLC refutes; the README has the behaviours.   *)
(* The state table of LifecycleChannel.ets: paused when in the background. *)
(* The comment in onDetach: the engine is destroyed if not to be retained. *)
(***************************************************************************)
PausedInBackground ==
    \A h \in Hosts :
        phase[h] = "background" /\ embedder.delegates[h].attached =>
            embedder.reported[EngineOf(h)] = "paused"

EngineGoesWithItsHost ==
    \A h \in Hosts \ Cached : phase[h] = "gone" /\ h \notin starting => embedder.shells[h] # "alive"
===============================================================================
