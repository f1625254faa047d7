---------------------------- MODULE OhosViewsProofs ----------------------------
(***************************************************************************)
(* Safety of OhosViews for any number of hosts that share a cached engine, *)
(* abilities and entries, as long as no entry that has lost the engine     *)
(* detaches it from the host that took it (NoLateDetach).                  *)
(*                                                                         *)
(* The invariant is in three parts.  A view has the engine of its host or  *)
(* none, and with its surface decides what the XComponent and the shell    *)
(* have (SurfaceInv).  An engine is attached to the ability of the host    *)
(* that is attached to it, and only such a host has a view with an engine  *)
(* (EngineInv): as an engine has one exclusive ability, no two views have  *)
(* the same engine.  And what a host is attached to follows from what the  *)
(* platform has told it (PhaseInv).                                        *)
(*                                                                         *)
(* A callback is a composition of functions on the state of the embedder.  *)
(* Each of them has a lemma that says what it changes, then one that it    *)
(* keeps the first two parts (Sound) and leaves the other hosts Apart.     *)
(***************************************************************************)
EXTENDS OhosViews, TLAPS

\* The view of h has no engine or its own, alive; its XComponent knows this engine and
\* has a window when the view has a surface; and to the window is rendered.
ViewInv(E, h) ==
    /\ E.views[h].engine # "none" =>
          E.views[h].engine = EngineOf(h) /\ E.shells[EngineOf(h)] = "alive"
    /\ E.xcomponents[h].window <=> E.views[h].surface
    /\ E.views[h].surface => E.xcomponents[h].shell = E.views[h].engine
    /\ ~E.views[h].surface => E.xcomponents[h].shell = "none"
    /\ E.renders[EngineOf(h)] = h <=> E.views[h].engine # "none" /\ E.views[h].surface

\* Besides, what a shell renders to is of its own engine, and no two views have one engine.
SurfaceInv(E) ==
    /\ ~E.misused
    /\ \A h \in Hosts : ViewInv(E, h)
    /\ \A e \in HostEngines, h \in Hosts : E.renders[e] = h => e = EngineOf(h)
    /\ \A h, k \in Hosts :
          E.views[h].engine # "none" /\ E.views[k].engine # "none" /\ EngineOf(h) = EngineOf(k)
             => h = k

\* The delegate of h is attached, and was not released.
Attached(E, h) == E.delegates[h].attached /\ E.delegates[h].host

\* The delegate of h has no engine or its own, alive; the engine is attached to the ability of
\* h exactly while h is attached to it; and only then the view of h has an engine.
DelegateInv(E, h) ==
    /\ E.delegates[h].engine # "none" =>
          E.delegates[h].engine = EngineOf(h) /\ E.shells[EngineOf(h)] = "alive"
    /\ Attached(E, h) <=> E.exclusive[EngineOf(h)] = h
    /\ Attached(E, h) => E.delegates[h].engine # "none"
    /\ E.views[h].engine # "none" => Attached(E, h)

\* The cached engine is always there.
EngineInv(E) ==
    /\ E.shells[CachedEngine] = "alive"
    /\ \A h \in Hosts : DelegateInv(E, h)
    /\ \A e \in HostEngines, h \in Hosts : E.exclusive[e] = h => e = EngineOf(h)

\* What holds of a host h in the phase p, that awaits its engine if w.
PhaseInv(E, h, p, w) ==
    /\ E.delegates[h].host <=> p \notin {"new", "gone"}
    /\ w \/ p = "new" => ~E.delegates[h].attached /\ E.delegates[h].engine = "none"
    /\ w => h \notin Cached /\ p # "new"
    /\ h \in Cached /\ p = "created" => E.delegates[h].attached
    /\ h \notin Cached /\ E.delegates[h].host /\ E.delegates[h].engine # "none" =>
          E.delegates[h].attached
    /\ Attached(E, h) /\ p = "foreground" => E.reported[EngineOf(h)] = "resumed"

\* What each function on the state keeps.
Sound(E) == E \in EmbedderType /\ SurfaceInv(E) /\ EngineInv(E)

\* The inductive invariant.
HostInv ==
    /\ HostTypeOK /\ Sound(embedder)
    /\ \A h \in Hosts : PhaseInv(embedder, h, phase[h], h \in starting)

\* The types of three fields of the embedder.
DelegateTypes == [Hosts -> [engine : HostEngines \cup {"none"}, attached : BOOLEAN,
                            host : BOOLEAN]]
ViewTypes == [Hosts -> [engine : HostEngines \cup {"none"}, surface : BOOLEAN,
                        created : BOOLEAN]]
XComponentTypes == [Hosts -> [shell : HostEngines \cup {"none"}, window : BOOLEAN]]

\* The names are different, and an engine is a host's own or the cached one.
LEMMA Names ==
  /\ "none" \notin HostEngines /\ "none" \notin Hosts /\ CachedEngine \notin Hosts
  /\ CachedEngine \in HostEngines /\ Hosts \subseteq HostEngines /\ Cached \subseteq Hosts
  /\ \A h \in Hosts : /\ EngineOf(h) \in HostEngines
                      /\ h \in Cached => EngineOf(h) = CachedEngine
                      /\ h \notin Cached => EngineOf(h) = h
BY HostsAssumption DEF HostEngines, EngineOf

\* One value of a function is replaced.
LEMMA Replaced ==
  ASSUME NEW S, NEW T, NEW f \in [S -> T], NEW a \in S, NEW b \in T
  PROVE  LET g == [f EXCEPT ![a] = b] IN
         g \in [S -> T] /\ g[a] = b /\ \A c \in S : c # a => g[c] = f[c]
OBVIOUS

\* What a step of the views leaves alone.
OnlyViews(E, F) ==
    /\ F \in EmbedderType
    /\ F.delegates = E.delegates /\ F.shells = E.shells
    /\ F.exclusive = E.exclusive /\ F.reported = E.reported

\* What concerns the other views is as it was.
OthersKeep(E, F, h) ==
    /\ \A k \in Hosts : k # h => F.views[k] = E.views[k] /\ F.xcomponents[k] = E.xcomponents[k]
    /\ \A e \in HostEngines : e # EngineOf(h) => F.renders[e] = E.renders[e]

\* SurfaceCreated and SurfaceDestroyed of a living shell change what it renders to.
LEMMA NotifyEffect ==
  ASSUME NEW E \in EmbedderType, NEW e \in HostEngines, E.shells[e] = "alive",
         NEW w \in Hosts \cup {"none"}
  PROVE  LET F == NotifySurface(E, e, w) IN
         /\ OnlyViews(E, F)
         /\ F.views = E.views /\ F.xcomponents = E.xcomponents /\ F.misused = E.misused
         /\ F.renders[e] = w
         /\ \A d \in HostEngines : d # e => F.renders[d] = E.renders[d]
<1>1. e # "none"
  BY Names
<1>2. NotifySurface(E, e, w) = [E EXCEPT !.renders[e] = w]
  BY <1>1 DEF NotifySurface
<1> DEFINE renders == [E.renders EXCEPT ![e] = w]
<1>3. /\ renders \in [HostEngines -> Hosts \cup {"none"}] /\ renders[e] = w
      /\ \A d \in HostEngines : d # e => renders[d] = E.renders[d]
  <2>1. E.renders \in [HostEngines -> Hosts \cup {"none"}]
    BY DEF EmbedderType
  <2> QED
    BY <2>1, Replaced
<1>4. [E EXCEPT !.renders[e] = w] = [E EXCEPT !.renders = renders]
  OBVIOUS
<1> DEFINE N == [E EXCEPT !.renders = renders]
<1>5. NotifySurface(E, e, w) = N
  BY <1>2, <1>4
<1> HIDE DEF renders
<1>6. N \in EmbedderType
  BY <1>3 DEF EmbedderType
<1>7. /\ N.delegates = E.delegates /\ N.shells = E.shells /\ N.exclusive = E.exclusive
      /\ N.reported = E.reported /\ N.views = E.views /\ N.xcomponents = E.xcomponents
      /\ N.misused = E.misused /\ N.renders = renders
  BY DEF EmbedderType
<1> QED
  BY <1>3, <1>5, <1>6, <1>7 DEF OnlyViews

\* The XComponent of h gets another shell.
LEMMA XComponentEffect ==
  ASSUME NEW E \in EmbedderType, NEW h \in Hosts, NEW e \in HostEngines \cup {"none"}
  PROVE  LET F == [E EXCEPT !.xcomponents[h].shell = e] IN
         /\ OnlyViews(E, F)
         /\ F.views = E.views /\ F.renders = E.renders /\ F.misused = E.misused
         /\ F.xcomponents[h].shell = e
         /\ F.xcomponents[h].window = E.xcomponents[h].window
         /\ \A k \in Hosts : k # h => F.xcomponents[k] = E.xcomponents[k]
<1> DEFINE entry == [shell |-> e, window |-> E.xcomponents[h].window]
           xcomponents == [E.xcomponents EXCEPT ![h] = entry]
<1>1. E.xcomponents \in XComponentTypes /\ E.xcomponents[h].window \in BOOLEAN
  BY DEF EmbedderType, XComponentTypes
<1>2. entry \in [shell : HostEngines \cup {"none"}, window : BOOLEAN]
  BY <1>1
<1>3. [E EXCEPT !.xcomponents[h].shell = e] = [E EXCEPT !.xcomponents = xcomponents]
  BY <1>1 DEF XComponentTypes
<1>4. entry.shell = e /\ entry.window = E.xcomponents[h].window
  OBVIOUS
<1> HIDE DEF entry
<1>5. /\ xcomponents \in XComponentTypes /\ xcomponents[h] = entry
      /\ \A k \in Hosts : k # h => xcomponents[k] = E.xcomponents[k]
  BY <1>1, <1>2 DEF XComponentTypes
<1> HIDE DEF xcomponents
<1>6. [E EXCEPT !.xcomponents = xcomponents] \in EmbedderType
  BY <1>5 DEF EmbedderType, XComponentTypes
<1> QED
  BY ZenonT(60), <1>3, <1>4, <1>5, <1>6 DEF OnlyViews, EmbedderType

\* The view of h gets another engine.
LEMMA ViewEngineEffect ==
  ASSUME NEW E \in EmbedderType, NEW h \in Hosts, NEW e \in HostEngines \cup {"none"}
  PROVE  LET F == [E EXCEPT !.views[h].engine = e] IN
         /\ OnlyViews(E, F)
         /\ F.xcomponents = E.xcomponents /\ F.renders = E.renders /\ F.misused = E.misused
         /\ F.views[h].engine = e /\ F.views[h].surface = E.views[h].surface
         /\ \A k \in Hosts : k # h => F.views[k] = E.views[k]
<1> DEFINE view == [engine |-> e, surface |-> E.views[h].surface, created |-> E.views[h].created]
           views == [E.views EXCEPT ![h] = view]
<1>1. /\ E.views \in ViewTypes /\ E.views[h].surface \in BOOLEAN
      /\ E.views[h].created \in BOOLEAN
  BY DEF EmbedderType, ViewTypes
<1>2. view \in [engine : HostEngines \cup {"none"}, surface : BOOLEAN, created : BOOLEAN]
  BY <1>1
<1>3. [E EXCEPT !.views[h].engine = e] = [E EXCEPT !.views = views]
  BY <1>1 DEF ViewTypes
<1>4. view.engine = e /\ view.surface = E.views[h].surface
  OBVIOUS
<1> HIDE DEF view
<1>5. /\ views \in ViewTypes /\ views[h] = view
      /\ \A k \in Hosts : k # h => views[k] = E.views[k]
  BY <1>1, <1>2 DEF ViewTypes
<1> HIDE DEF views
<1>6. [E EXCEPT !.views = views] \in EmbedderType
  BY <1>5 DEF EmbedderType, ViewTypes
<1> QED
  BY ZenonT(60), <1>3, <1>4, <1>5, <1>6 DEF OnlyViews, EmbedderType

\* A step that concerns the view of h keeps the invariant if it does so for h.
LEMMA OneViewMoves ==
  ASSUME NEW E, NEW F, NEW h \in Hosts, SurfaceInv(E),
         OthersKeep(E, F, h), F.shells = E.shells, ~F.misused, ViewInv(F, h),
         F.renders[EngineOf(h)] \in {h, "none", E.renders[EngineOf(h)]},
         F.renders[EngineOf(h)] = h \/ E.renders[EngineOf(h)] \in {h, "none"}
            \/ F.renders[EngineOf(h)] = E.renders[EngineOf(h)],
         F.views[h].engine # "none" =>
            \A k \in Hosts : k # h /\ E.views[k].engine # "none" => EngineOf(k) # EngineOf(h)
  PROVE  SurfaceInv(F)
<1>1. /\ \A k \in Hosts : ViewInv(E, k)
      /\ \A e \in HostEngines, k \in Hosts : E.renders[e] = k => e = EngineOf(k)
  BY DEF SurfaceInv
<1>2. ASSUME NEW k \in Hosts, k # h PROVE ViewInv(F, k)
  <2>1. F.views[k] = E.views[k] /\ F.xcomponents[k] = E.xcomponents[k] /\ ViewInv(E, k)
    BY <1>1, <1>2 DEF OthersKeep
  <2>2. CASE EngineOf(k) # EngineOf(h)
    <3>1. F.renders[EngineOf(k)] = E.renders[EngineOf(k)]
      BY <2>2, Names DEF OthersKeep
    <3> QED
      BY <2>1, <3>1 DEF ViewInv
  <2>3. CASE EngineOf(k) = EngineOf(h)
    <3>1. F.renders[EngineOf(k)] = k <=> E.renders[EngineOf(k)] = k
      BY <1>1, <1>2, <2>1, <2>3, Names DEF ViewInv
    <3> QED
      BY <2>1, <3>1 DEF ViewInv
  <2> QED
    BY <2>2, <2>3
<1>3. ASSUME NEW e \in HostEngines, NEW k \in Hosts, F.renders[e] = k
      PROVE  e = EngineOf(k)
  BY <1>1, <1>3, Names DEF OthersKeep
<1>4. ASSUME NEW k \in Hosts, NEW j \in Hosts, F.views[k].engine # "none",
             F.views[j].engine # "none", EngineOf(k) = EngineOf(j)
      PROVE  k = j
  BY <1>4 DEF OthersKeep, SurfaceInv
<1> QED
  BY <1>2, <1>3, <1>4 DEF SurfaceInv

\* FlutterView and XComponent of h let go of the engine of h ...
LEMMA DetachEffect ==
  ASSUME NEW E \in EmbedderType, NEW h \in Hosts, SurfaceInv(E)
  PROVE  LET F == DetachView(E, h) IN
         /\ OnlyViews(E, F) /\ SurfaceInv(F) /\ F.views[h].engine = "none"
         /\ \A k \in Hosts : k # h => F.views[k] = E.views[k]
<1> DEFINE e == E.views[h].engine
           F == DetachView(E, h)
<1>0. ViewInv(E, h) /\ ~E.misused
  BY DEF SurfaceInv
<1>1. CASE e = "none"
  BY <1>1 DEF DetachView, OnlyViews
<1>2. CASE e # "none" /\ ~E.views[h].surface
  <2>1. F = [E EXCEPT !.views[h].engine = "none"]
    BY <1>2 DEF DetachView
  <2>2. /\ OnlyViews(E, F)
        /\ F.xcomponents = E.xcomponents /\ F.renders = E.renders /\ F.misused = E.misused
        /\ F.views[h].engine = "none" /\ F.views[h].surface = E.views[h].surface
        /\ \A k \in Hosts : k # h => F.views[k] = E.views[k]
    BY <2>1, ViewEngineEffect
  <2> HIDE DEF F
  <2>3. ViewInv(F, h)
    BY <1>0, <1>2, <2>2 DEF ViewInv
  <2>4. SurfaceInv(F)
    BY <1>0, <2>2, <2>3, OneViewMoves DEF OnlyViews, OthersKeep
  <2> QED
    BY <2>2, <2>4 DEF F
<1>3. CASE e # "none" /\ E.views[h].surface
  <2> DEFINE X == [E EXCEPT !.xcomponents[h].shell = "none"]
             N == NotifySurface(X, e, "none")
  <2>1. /\ e = EngineOf(h) /\ E.shells[e] = "alive" /\ e \in HostEngines
        /\ E.xcomponents[h].window /\ E.xcomponents[h].shell = e
    BY <1>0, <1>3, Names DEF ViewInv
  <2>2. F = [N EXCEPT !.views[h].engine = "none"]
    <3>1. XComponentDetach(E, h) = N
      BY <2>1 DEF XComponentDetach
    <3> HIDE DEF N
    <3> QED
      BY <1>3, <3>1 DEF DetachView
  <2>3. /\ OnlyViews(E, X)
        /\ X.views = E.views /\ X.renders = E.renders /\ X.misused = E.misused
        /\ X.xcomponents[h].shell = "none"
        /\ X.xcomponents[h].window = E.xcomponents[h].window
        /\ \A k \in Hosts : k # h => X.xcomponents[k] = E.xcomponents[k]
    BY XComponentEffect
  <2> HIDE DEF X
  <2>4. /\ OnlyViews(X, N)
        /\ N.views = X.views /\ N.xcomponents = X.xcomponents /\ N.misused = X.misused
        /\ N.renders[e] = "none"
        /\ \A d \in HostEngines : d # e => N.renders[d] = X.renders[d]
    <3>1. X \in EmbedderType /\ X.shells[e] = "alive"
      BY <2>1, <2>3 DEF OnlyViews
    <3> QED
      BY <2>1, <3>1, NotifyEffect
  <2> HIDE DEF N
  <2>5. /\ OnlyViews(N, F)
        /\ F.xcomponents = N.xcomponents /\ F.renders = N.renders /\ F.misused = N.misused
        /\ F.views[h].engine = "none" /\ F.views[h].surface = N.views[h].surface
        /\ \A k \in Hosts : k # h => F.views[k] = N.views[k]
    <3>1. N \in EmbedderType
      BY <2>4 DEF OnlyViews
    <3> QED
      BY <2>2, <3>1, ViewEngineEffect
  <2> HIDE DEF F
  <2>6. OnlyViews(E, F) /\ OthersKeep(E, F, h) /\ ~F.misused
    BY <1>0, <2>1, <2>3, <2>4, <2>5 DEF OnlyViews, OthersKeep
  <2>7. /\ F.views[h].engine = "none" /\ F.views[h].surface = E.views[h].surface
        /\ F.xcomponents[h].shell = "none" /\ F.xcomponents[h].window = E.xcomponents[h].window
        /\ F.renders[EngineOf(h)] = "none"
    <3>1. F.views[h].engine = "none" /\ F.views[h].surface = E.views[h].surface
      BY <2>3, <2>4, <2>5
    <3>2. /\ F.xcomponents[h].shell = "none"
          /\ F.xcomponents[h].window = E.xcomponents[h].window
      BY <2>3, <2>4, <2>5
    <3>3. F.renders[EngineOf(h)] = "none"
      BY <2>1, <2>4, <2>5
    <3> QED
      BY <3>1, <3>2, <3>3
  <2>8. ViewInv(F, h)
    BY <1>0, <1>3, <2>7, Names DEF ViewInv
  <2>9. SurfaceInv(F)
    <3>1. E.renders[EngineOf(h)] = h
      BY <1>0, <1>3 DEF ViewInv
    <3> QED
      BY <2>6, <2>7, <2>8, <3>1, OneViewMoves DEF OnlyViews
  <2>10. \A k \in Hosts : k # h => F.views[k] = E.views[k]
    BY <2>6 DEF OthersKeep
  <2> QED
    BY <2>6, <2>7, <2>9, <2>10 DEF F
<1> QED
  BY <1>1, <1>2, <1>3

\* ... and take one, that no other view has.
LEMMA AttachEffect ==
  ASSUME NEW E \in EmbedderType, NEW h \in Hosts, SurfaceInv(E),
         E.shells[EngineOf(h)] = "alive",
         \A k \in Hosts : k # h /\ E.views[k].engine # "none" => EngineOf(k) # EngineOf(h)
  PROVE  LET F == AttachView(E, h, EngineOf(h)) IN
         /\ OnlyViews(E, F) /\ SurfaceInv(F) /\ F.views[h].engine = EngineOf(h)
         /\ \A k \in Hosts : k # h => F.views[k] = E.views[k]
<1> DEFINE e == EngineOf(h)
           D == DetachView(E, h)
           A == [D EXCEPT !.views[h].engine = e]
           F == AttachView(E, h, e)
<1>1. CASE E.views[h].engine = e
  BY <1>1 DEF AttachView, OnlyViews
<1>2. CASE E.views[h].engine # e
  <2>1. e \in HostEngines /\ e # "none" /\ E.views[h].engine = "none"
    BY <1>2, Names DEF SurfaceInv, ViewInv
  <2>2. D = E
    BY <2>1 DEF DetachView
  <2>3. /\ OnlyViews(E, A)
        /\ A.xcomponents = E.xcomponents /\ A.renders = E.renders /\ A.misused = E.misused
        /\ A.views[h].engine = e /\ A.views[h].surface = E.views[h].surface
        /\ \A k \in Hosts : k # h => A.views[k] = E.views[k]
    BY <2>1, <2>2, ViewEngineEffect
  <2>4. F = IF E.views[h].surface THEN XComponentAttach(A, h, e) ELSE A
    BY <1>2 DEF AttachView
  <2> HIDE DEF A
  <2>5. ViewInv(E, h) /\ ~E.misused
    BY DEF SurfaceInv
  <2>6. CASE ~E.views[h].surface
    <3>1. F = A
      BY <2>4, <2>6
    <3>2. ViewInv(A, h)
      BY <2>1, <2>3, <2>5, <2>6 DEF ViewInv, OnlyViews
    <3>3. SurfaceInv(A)
      BY <2>3, <2>5, <3>2, OneViewMoves DEF OnlyViews, OthersKeep
    <3> QED
      BY <2>3, <3>1, <3>3
  <2>7. CASE E.views[h].surface
    <3> DEFINE X == [A EXCEPT !.xcomponents[h].shell = e]
    <3>1. A \in EmbedderType /\ A.xcomponents[h].window
      BY <2>3, <2>5, <2>7 DEF OnlyViews, ViewInv
    <3>2. F = NotifySurface(X, e, h)
      BY <2>4, <2>7, <3>1 DEF XComponentAttach
    <3>3. /\ OnlyViews(A, X)
          /\ X.views = A.views /\ X.renders = A.renders /\ X.misused = A.misused
          /\ X.xcomponents[h].shell = e
          /\ X.xcomponents[h].window = A.xcomponents[h].window
          /\ \A k \in Hosts : k # h => X.xcomponents[k] = A.xcomponents[k]
      <4>1. e \in HostEngines \cup {"none"}
        BY <2>1
      <4> HIDE DEF e
      <4> QED
        BY ZenonT(60), <3>1, <4>1, XComponentEffect
    <3> HIDE DEF X
    <3>4. /\ OnlyViews(X, F)
          /\ F.views = X.views /\ F.xcomponents = X.xcomponents /\ F.misused = X.misused
          /\ F.renders[e] = h
          /\ \A d \in HostEngines : d # e => F.renders[d] = X.renders[d]
      <4>1. X \in EmbedderType /\ X.shells[e] = "alive"
        BY <2>3, <3>3 DEF OnlyViews
      <4> QED
        BY <2>1, <3>2, <4>1, NotifyEffect
    <3> HIDE DEF F
    <3>5. OnlyViews(E, F) /\ OthersKeep(E, F, h) /\ ~F.misused
      BY <2>3, <2>5, <3>3, <3>4 DEF OnlyViews, OthersKeep
    <3>6. /\ F.views[h].engine = e /\ F.views[h].surface
          /\ F.xcomponents[h].shell = e /\ F.xcomponents[h].window
          /\ F.renders[e] = h
      <4>1. F.views[h].engine = e /\ F.views[h].surface
        BY ZenonT(60), <2>3, <2>7, <3>3, <3>4
      <4>2. F.xcomponents[h].shell = e /\ F.xcomponents[h].window
        BY <3>1, <3>3, <3>4
      <4> QED
        BY <3>4, <4>1, <4>2
    <3>7. ViewInv(F, h)
      BY <2>1, <3>5, <3>6 DEF ViewInv, OnlyViews
    <3>8. SurfaceInv(F)
      BY <3>5, <3>6, <3>7, OneViewMoves DEF OnlyViews
    <3>9. \A k \in Hosts : k # h => F.views[k] = E.views[k]
      BY <3>5 DEF OthersKeep
    <3> QED
      BY <3>5, <3>6, <3>8, <3>9 DEF F
  <2> QED
    BY <2>6, <2>7
<1> QED
  BY <1>1, <1>2

-----------------------------------------------------------------------------
\* What a step of the engines leaves alone.
OnlyEngines(E, F) ==
    /\ F \in EmbedderType
    /\ F.views = E.views /\ F.xcomponents = E.xcomponents /\ F.renders = E.renders
    /\ F.misused = E.misused

\* The engine e is attached to another ability.
LEMMA ExclusiveEffect ==
  ASSUME NEW E \in EmbedderType, NEW e \in HostEngines, NEW w \in Hosts \cup {"none"}
  PROVE  LET F == [E EXCEPT !.exclusive[e] = w] IN
         /\ OnlyEngines(E, F)
         /\ F.delegates = E.delegates /\ F.shells = E.shells /\ F.reported = E.reported
         /\ F.exclusive[e] = w
         /\ \A d \in HostEngines : d # e => F.exclusive[d] = E.exclusive[d]
<1> DEFINE exclusives == [E.exclusive EXCEPT ![e] = w]
           N == [E EXCEPT !.exclusive = exclusives]
<1>1. /\ exclusives \in [HostEngines -> Hosts \cup {"none"}] /\ exclusives[e] = w
      /\ \A d \in HostEngines : d # e => exclusives[d] = E.exclusive[d]
  <2>1. E.exclusive \in [HostEngines -> Hosts \cup {"none"}]
    BY DEF EmbedderType
  <2> QED
    BY <2>1, Replaced
<1>2. [E EXCEPT !.exclusive[e] = w] = N
  OBVIOUS
<1> HIDE DEF exclusives
<1>3. N \in EmbedderType
  BY <1>1 DEF EmbedderType
<1>4. /\ N.delegates = E.delegates /\ N.shells = E.shells /\ N.renders = E.renders
      /\ N.reported = E.reported /\ N.views = E.views /\ N.xcomponents = E.xcomponents
      /\ N.misused = E.misused /\ N.exclusive = exclusives
  BY DEF EmbedderType
<1> QED
  BY ZenonT(60), <1>1, <1>2, <1>3, <1>4 DEF OnlyEngines

\* The framework of a living engine is told a state.
LEMMA ReportedEffect ==
  ASSUME NEW E \in EmbedderType, NEW e \in HostEngines, E.shells[e] = "alive",
         NEW w \in {"resumed", "paused", "detached"}
  PROVE  LET F == SendState(E, e, w) IN
         /\ OnlyEngines(E, F)
         /\ F.delegates = E.delegates /\ F.shells = E.shells /\ F.exclusive = E.exclusive
         /\ F.reported[e] = w
         /\ \A d \in HostEngines : d # e => F.reported[d] = E.reported[d]
<1> DEFINE reports == [E.reported EXCEPT ![e] = w]
           N == [E EXCEPT !.reported = reports]
<1>1. /\ reports \in [HostEngines -> {"", "resumed", "paused", "detached"}] /\ reports[e] = w
      /\ \A d \in HostEngines : d # e => reports[d] = E.reported[d]
  <2>1. E.reported \in [HostEngines -> {"", "resumed", "paused", "detached"}]
    BY DEF EmbedderType
  <2> QED
    BY <2>1, Replaced
<1>2. SendState(E, e, w) = N
  BY Names DEF SendState
<1> HIDE DEF reports
<1>3. N \in EmbedderType
  BY <1>1 DEF EmbedderType
<1>4. /\ N.delegates = E.delegates /\ N.shells = E.shells /\ N.renders = E.renders
      /\ N.exclusive = E.exclusive /\ N.views = E.views /\ N.xcomponents = E.xcomponents
      /\ N.misused = E.misused /\ N.reported = reports
  BY DEF EmbedderType
<1> QED
  BY ZenonT(60), <1>1, <1>2, <1>3, <1>4 DEF OnlyEngines

\* The shell of the engine e is made or deleted.
LEMMA ShellEffect ==
  ASSUME NEW E \in EmbedderType, NEW e \in HostEngines, NEW w \in {"alive", "deleted"}
  PROVE  LET F == [E EXCEPT !.shells[e] = w] IN
         /\ OnlyEngines(E, F)
         /\ F.delegates = E.delegates /\ F.reported = E.reported /\ F.exclusive = E.exclusive
         /\ F.shells[e] = w
         /\ \A d \in HostEngines : d # e => F.shells[d] = E.shells[d]
<1> DEFINE holders == [E.shells EXCEPT ![e] = w]
           N == [E EXCEPT !.shells = holders]
<1>1. /\ holders \in [HostEngines -> {"none", "alive", "deleted"}] /\ holders[e] = w
      /\ \A d \in HostEngines : d # e => holders[d] = E.shells[d]
  <2>1. E.shells \in [HostEngines -> {"none", "alive", "deleted"}]
    BY DEF EmbedderType
  <2> QED
    BY <2>1, Replaced
<1>2. [E EXCEPT !.shells[e] = w] = N
  OBVIOUS
<1> HIDE DEF holders
<1>3. N \in EmbedderType
  BY <1>1 DEF EmbedderType
<1>4. /\ N.delegates = E.delegates /\ N.reported = E.reported /\ N.renders = E.renders
      /\ N.exclusive = E.exclusive /\ N.views = E.views /\ N.xcomponents = E.xcomponents
      /\ N.misused = E.misused /\ N.shells = holders
  BY DEF EmbedderType
<1> QED
  BY ZenonT(60), <1>1, <1>2, <1>3, <1>4 DEF OnlyEngines

\* The delegate of h is changed.
DelegateMoves(E, F, h) ==
    /\ OnlyEngines(E, F)
    /\ F.shells = E.shells /\ F.reported = E.reported /\ F.exclusive = E.exclusive
    /\ \A k \in Hosts : k # h => F.delegates[k] = E.delegates[k]

\* A whole delegate is replaced, or one field of it.
LEMMA DelegateEffect ==
  ASSUME NEW E \in EmbedderType, NEW h \in Hosts,
         NEW d \in [engine : HostEngines \cup {"none"}, attached : BOOLEAN, host : BOOLEAN]
  PROVE  LET F == [E EXCEPT !.delegates[h] = d] IN
         DelegateMoves(E, F, h) /\ F.delegates[h] = d
<1> DEFINE delegates == [E.delegates EXCEPT ![h] = d]
           N == [E EXCEPT !.delegates = delegates]
<1>1. /\ delegates \in DelegateTypes /\ delegates[h] = d
      /\ \A k \in Hosts : k # h => delegates[k] = E.delegates[k]
  <2>1. E.delegates \in DelegateTypes
    BY DEF EmbedderType, DelegateTypes
  <2> QED
    BY <2>1, Replaced DEF DelegateTypes
<1>2. [E EXCEPT !.delegates[h] = d] = N
  OBVIOUS
<1> HIDE DEF delegates
<1>3. N \in EmbedderType
  BY <1>1 DEF EmbedderType, DelegateTypes
<1>4. /\ N.shells = E.shells /\ N.reported = E.reported /\ N.renders = E.renders
      /\ N.exclusive = E.exclusive /\ N.views = E.views /\ N.xcomponents = E.xcomponents
      /\ N.misused = E.misused /\ N.delegates = delegates
  BY DEF EmbedderType
<1> QED
  BY ZenonT(60), <1>1, <1>2, <1>3, <1>4 DEF OnlyEngines, DelegateMoves

\* The delegate of h gets another engine.
LEMMA EngineEffect ==
  ASSUME NEW E \in EmbedderType, NEW h \in Hosts, NEW e \in HostEngines \cup {"none"}
  PROVE  LET F == [E EXCEPT !.delegates[h].engine = e]
             d == E.delegates[h]
         IN  /\ DelegateMoves(E, F, h) /\ F.delegates[h].engine = e
             /\ F.delegates[h].attached = d.attached /\ F.delegates[h].host = d.host
<1> DEFINE d == E.delegates[h]
           changed == [d EXCEPT !.engine = e]
           Types == [engine : HostEngines \cup {"none"}, attached : BOOLEAN, host : BOOLEAN]
<1>1. d \in Types
  BY DEF EmbedderType
<1>2. changed \in Types
  BY <1>1
<1>3. changed.engine = e /\ changed.attached = d.attached /\ changed.host = d.host
  BY <1>1
<1>4. [E EXCEPT !.delegates[h].engine = e] = [E EXCEPT !.delegates[h] = changed]
  OBVIOUS
<1> HIDE DEF changed
<1>5. /\ DelegateMoves(E, [E EXCEPT !.delegates[h] = changed], h)
      /\ [E EXCEPT !.delegates[h] = changed].delegates[h] = changed
  BY <1>2, DelegateEffect
<1> HIDE DEF d
<1> QED
  BY <1>3, <1>4, <1>5 DEF d

\* The delegate of h is attached or no longer so.
LEMMA AttachedEffect ==
  ASSUME NEW E \in EmbedderType, NEW h \in Hosts, NEW b \in BOOLEAN
  PROVE  LET F == [E EXCEPT !.delegates[h].attached = b]
             d == E.delegates[h]
         IN  /\ DelegateMoves(E, F, h) /\ F.delegates[h].attached = b
             /\ F.delegates[h].engine = d.engine /\ F.delegates[h].host = d.host
<1> DEFINE d == E.delegates[h]
           changed == [d EXCEPT !.attached = b]
           Types == [engine : HostEngines \cup {"none"}, attached : BOOLEAN, host : BOOLEAN]
<1>1. d \in Types
  BY DEF EmbedderType
<1>2. changed \in Types
  BY <1>1
<1>3. changed.attached = b /\ changed.engine = d.engine /\ changed.host = d.host
  BY <1>1
<1>4. [E EXCEPT !.delegates[h].attached = b] = [E EXCEPT !.delegates[h] = changed]
  OBVIOUS
<1> HIDE DEF changed
<1>5. /\ DelegateMoves(E, [E EXCEPT !.delegates[h] = changed], h)
      /\ [E EXCEPT !.delegates[h] = changed].delegates[h] = changed
  BY <1>2, DelegateEffect
<1> HIDE DEF d
<1> QED
  BY <1>3, <1>4, <1>5 DEF d

\* The delegate of h gets or loses its host.
LEMMA HostEffect ==
  ASSUME NEW E \in EmbedderType, NEW h \in Hosts, NEW b \in BOOLEAN
  PROVE  LET F == [E EXCEPT !.delegates[h].host = b]
             d == E.delegates[h]
         IN  /\ DelegateMoves(E, F, h) /\ F.delegates[h].host = b
             /\ F.delegates[h].engine = d.engine /\ F.delegates[h].attached = d.attached
<1> DEFINE d == E.delegates[h]
           changed == [d EXCEPT !.host = b]
           Types == [engine : HostEngines \cup {"none"}, attached : BOOLEAN, host : BOOLEAN]
<1>1. d \in Types
  BY DEF EmbedderType
<1>2. changed \in Types
  BY <1>1
<1>3. changed.host = b /\ changed.engine = d.engine /\ changed.attached = d.attached
  BY <1>1
<1>4. [E EXCEPT !.delegates[h].host = b] = [E EXCEPT !.delegates[h] = changed]
  OBVIOUS
<1> HIDE DEF changed
<1>5. /\ DelegateMoves(E, [E EXCEPT !.delegates[h] = changed], h)
      /\ [E EXCEPT !.delegates[h] = changed].delegates[h] = changed
  BY <1>2, DelegateEffect
<1> HIDE DEF d
<1> QED
  BY <1>3, <1>4, <1>5 DEF d

\* The views do not mind what engines do that they have not.
LEMMA ViewsKept ==
  ASSUME NEW E, NEW F, SurfaceInv(E), F.views = E.views, F.xcomponents = E.xcomponents,
         F.renders = E.renders, F.misused = E.misused,
         \A h \in Hosts : E.views[h].engine # "none" => F.shells[EngineOf(h)] = "alive"
  PROVE  SurfaceInv(F)
BY DEF SurfaceInv, ViewInv

-----------------------------------------------------------------------------
\* Nothing changes for the hosts other than h.
Apart(E, F, h) ==
    \A k \in Hosts : k # h =>
       /\ F.delegates[k] = E.delegates[k]
       /\ Attached(E, k) => F.reported[EngineOf(k)] = E.reported[EngineOf(k)]

\* Nothing but that a host may lose an engine it shares with h.
OthersKept(E, F, h) ==
    \A k \in Hosts : k # h =>
       /\ F.delegates[k].host = E.delegates[k].host
       /\ F.delegates[k].engine = E.delegates[k].engine
       /\ F.delegates[k].attached => E.delegates[k].attached
       /\ E.delegates[k].attached => F.delegates[k].attached \/ (h \in Cached /\ k \in Cached)
       /\ Attached(F, k) => F.reported[EngineOf(k)] = E.reported[EngineOf(k)]

\* Both relations are transitive, and the first one implies the second.
LEMMA ApartTwice ==
  ASSUME NEW E, NEW F, NEW G, NEW h \in Hosts, Apart(E, F, h), Apart(F, G, h)
  PROVE  Apart(E, G, h)
BY DEF Apart, Attached

\* The same for OthersKept.
LEMMA KeptTwice ==
  ASSUME NEW E, NEW F, NEW G, NEW h \in Hosts, OthersKept(E, F, h), OthersKept(F, G, h)
  PROVE  OthersKept(E, G, h)
BY DEF OthersKept, Attached

\* What changes nothing for the others takes no engine from them.
LEMMA ApartIsKept ==
  ASSUME NEW E, NEW F, NEW h \in Hosts, Apart(E, F, h)
  PROVE  OthersKept(E, F, h)
BY DEF Apart, OthersKept, Attached

\* An engine is attached to one ability only.
LEMMA AttachedOnce ==
  ASSUME NEW E, Sound(E), NEW h \in Hosts, NEW k \in Hosts, Attached(E, h), Attached(E, k),
         EngineOf(h) = EngineOf(k)
  PROVE  h = k
BY DEF Sound, EngineInv, DelegateInv

\* A step of the views is sound if only views of attached hosts have engines.
LEMMA ViewsSound ==
  ASSUME NEW E, Sound(E), NEW F, OnlyViews(E, F), SurfaceInv(F), NEW h \in Hosts,
         \A k \in Hosts : F.views[k].engine # "none" =>
                             E.views[k].engine # "none" \/ Attached(E, k)
  PROVE  Sound(F) /\ Apart(E, F, h)
<1>1. ASSUME NEW k \in Hosts PROVE DelegateInv(F, k)
  <2>1. DelegateInv(E, k)
    BY DEF Sound, EngineInv
  <2> QED
    BY <2>1 DEF DelegateInv, OnlyViews, Attached
<1>2. EngineInv(F)
  BY <1>1 DEF EngineInv, Sound, OnlyViews
<1> QED
  BY <1>2 DEF Sound, OnlyViews, Apart

\* LifecycleChannel tells the framework of an attached host, and no other one.
LEMMA DispatchSound ==
  ASSUME NEW E, Sound(E), NEW h \in Hosts, NEW state \in {"resumed", "paused", "detached"}
  PROVE  LET F == Dispatch(E, h, state) IN
         /\ Sound(F) /\ Apart(E, F, h) /\ F.delegates = E.delegates /\ F.views = E.views
         /\ Attached(E, h) => F.reported[EngineOf(h)] = state
<1> DEFINE F == Dispatch(E, h, state)
           e == EngineOf(h)
<1>1. CASE ~Attached(E, h)
  <2>1. F = E
    BY <1>1 DEF Dispatch, ShouldDispatch, Attached
  <2> QED
    BY <1>1, <2>1 DEF Apart
<1>2. CASE Attached(E, h)
  <2>1. /\ E.delegates[h].engine = e /\ E.shells[e] = "alive" /\ e \in HostEngines
        /\ E \in EmbedderType
    BY <1>2, Names DEF Sound, EngineInv, DelegateInv
  <2>2. F = SendState(E, e, state)
    BY <1>2, <2>1 DEF Dispatch, ShouldDispatch, Attached
  <2>3. /\ OnlyEngines(E, F)
        /\ F.delegates = E.delegates /\ F.shells = E.shells /\ F.exclusive = E.exclusive
        /\ F.reported[e] = state
        /\ \A d \in HostEngines : d # e => F.reported[d] = E.reported[d]
    BY SMTT(30), <2>1, <2>2, ReportedEffect
  <2> HIDE DEF F
  <2>4. SurfaceInv(F)
    BY <2>3, ViewsKept DEF Sound, OnlyEngines, SurfaceInv, ViewInv
  <2>5. ASSUME NEW k \in Hosts PROVE DelegateInv(F, k)
    <3>1. DelegateInv(E, k)
      BY DEF Sound, EngineInv
    <3> QED
      BY <2>3, <3>1 DEF DelegateInv, OnlyEngines, Attached
  <2>6. EngineInv(F)
    BY <2>3, <2>5 DEF EngineInv, Sound
  <2>7. Apart(E, F, h)
    <3>1. ASSUME NEW k \in Hosts, k # h, Attached(E, k)
          PROVE  EngineOf(k) # e /\ EngineOf(k) \in HostEngines
      BY <1>2, <3>1, AttachedOnce, Names
    <3> QED
      BY <2>3, <3>1 DEF Apart
  <2> QED
    BY <2>3, <2>4, <2>6, <2>7 DEF F, Sound, OnlyEngines
<1> QED
  BY <1>1, <1>2

\* The view of an attached host can take the engine.
LEMMA AttachSound ==
  ASSUME NEW E, Sound(E), NEW h \in Hosts, Attached(E, h)
  PROVE  LET F == AttachView(E, h, EngineOf(h)) IN
         Sound(F) /\ Apart(E, F, h) /\ OnlyViews(E, F)
<1> DEFINE F == AttachView(E, h, EngineOf(h))
<1>1. /\ E \in EmbedderType /\ SurfaceInv(E) /\ E.shells[EngineOf(h)] = "alive"
  BY DEF Sound, EngineInv, DelegateInv
<1>2. ASSUME NEW k \in Hosts, k # h, E.views[k].engine # "none"
      PROVE  EngineOf(k) # EngineOf(h)
  <2>1. Attached(E, k)
    BY <1>2 DEF Sound, EngineInv, DelegateInv
  <2> QED
    BY <1>2, <2>1, AttachedOnce
<1>3. /\ OnlyViews(E, F) /\ SurfaceInv(F)
      /\ \A k \in Hosts : k # h => F.views[k] = E.views[k]
  BY <1>1, <1>2, AttachEffect
<1> HIDE DEF F
<1>4. Sound(F) /\ Apart(E, F, h)
  BY <1>3, ViewsSound
<1> QED
  BY <1>3, <1>4 DEF F

\* A delegate that is not attached gets or loses its host, or loses its engine.
LEMMA DelegateSound ==
  ASSUME NEW E, Sound(E), NEW F, NEW h \in Hosts, DelegateMoves(E, F, h),
         ~Attached(E, h), ~Attached(F, h),
         F.delegates[h].engine \in {"none", E.delegates[h].engine}
  PROVE  Sound(F) /\ Apart(E, F, h)
<1>1. SurfaceInv(F)
  BY ViewsKept DEF Sound, DelegateMoves, OnlyEngines, SurfaceInv, ViewInv
<1>2. ASSUME NEW k \in Hosts PROVE DelegateInv(F, k)
  <2>1. DelegateInv(E, k)
    BY DEF Sound, EngineInv
  <2>2. CASE k = h
    BY <2>1, <2>2 DEF DelegateInv, DelegateMoves, OnlyEngines
  <2>3. CASE k # h
    <3>1. F.delegates[k] = E.delegates[k]
      BY <2>3 DEF DelegateMoves
    <3> QED
      BY <2>1, <3>1 DEF DelegateInv, DelegateMoves, OnlyEngines, Attached
  <2> QED
    BY <2>2, <2>3
<1>3. EngineInv(F)
  BY <1>2 DEF EngineInv, Sound, DelegateMoves
<1> QED
  BY SMTT(30), <1>1, <1>3 DEF Sound, DelegateMoves, OnlyEngines, Apart

\* release, of a delegate that is not attached.
LEMMA ReleaseSound ==
  ASSUME NEW E, Sound(E), NEW h \in Hosts, ~E.delegates[h].attached
  PROVE  LET F == ReleaseHost(E, h) IN
         /\ Sound(F) /\ Apart(E, F, h)
         /\ ~F.delegates[h].host /\ ~F.delegates[h].attached
         /\ F.delegates[h].engine = "none"
<1> DEFINE A == [E EXCEPT !.delegates[h].host = FALSE]
           F == [A EXCEPT !.delegates[h].engine = "none"]
<1>1. E \in EmbedderType
  BY DEF Sound
<1>2. /\ DelegateMoves(E, A, h) /\ A.delegates[h].host = FALSE
      /\ A.delegates[h].engine = E.delegates[h].engine
      /\ A.delegates[h].attached = E.delegates[h].attached
  BY <1>1, HostEffect
<1>3. ReleaseHost(E, h) = F
  BY DEF ReleaseHost
<1> HIDE DEF A
<1>4. /\ DelegateMoves(A, F, h) /\ F.delegates[h].engine = "none"
      /\ F.delegates[h].attached = A.delegates[h].attached
      /\ F.delegates[h].host = A.delegates[h].host
  <2>1. A \in EmbedderType
    BY <1>2 DEF DelegateMoves, OnlyEngines
  <2> QED
    BY <2>1, EngineEffect
<1> HIDE DEF F
<1>5. DelegateMoves(E, F, h)
  BY <1>2, <1>4 DEF DelegateMoves, OnlyEngines
<1>6. Sound(F) /\ Apart(E, F, h)
  BY <1>2, <1>4, <1>5, DelegateSound DEF Attached
<1> QED
  BY <1>2, <1>3, <1>4, <1>6

\* The delegate of h lets go of its engine, and the shell of an engine of its own is deleted.
Leaves(E, F, h) ==
    LET e == EngineOf(h) IN
    /\ F \in EmbedderType
    /\ \A k \in Hosts : k # h => /\ F.delegates[k] = E.delegates[k]
                                 /\ F.views[k].engine = E.views[k].engine
    /\ F.delegates[h].host = E.delegates[h].host /\ ~F.delegates[h].attached
    /\ F.views[h].engine = "none"
    /\ F.exclusive[e] = "none"
    /\ \A d \in HostEngines : d # e => /\ F.shells[d] = E.shells[d]
                                       /\ F.exclusive[d] = E.exclusive[d]
                                       /\ F.reported[d] = E.reported[d]
    /\ IF h \in Cached
       THEN F.shells = E.shells /\ F.delegates[h].engine = E.delegates[h].engine
       ELSE F.delegates[h].engine = "none"

\* So this is sound, if no other host has the engine.
LEMMA LeaveSound ==
  ASSUME NEW E, Sound(E), NEW F, NEW h \in Hosts, E.delegates[h].engine # "none",
         E.exclusive[EngineOf(h)] \in {h, "none"}, Leaves(E, F, h), SurfaceInv(F)
  PROVE  Sound(F) /\ Apart(E, F, h)
<1> DEFINE e == EngineOf(h)
<1>1. ASSUME NEW k \in Hosts, k # h, Attached(E, k) PROVE EngineOf(k) # e
  BY <1>1, Names DEF Sound, EngineInv, DelegateInv
<1>2. DelegateInv(E, h) /\ e \in HostEngines
  BY Names DEF Sound, EngineInv
<1>3. ASSUME NEW k \in Hosts, k # h PROVE DelegateInv(F, k)
  <2>1. /\ F.delegates[k] = E.delegates[k] /\ F.views[k].engine = E.views[k].engine
        /\ DelegateInv(E, k)
    BY <1>3 DEF Leaves, Sound, EngineInv
  <2>2. CASE EngineOf(k) = e
    <3>1. h \in Cached /\ F.shells = E.shells
      BY <1>3, <2>2, Names DEF Leaves
    <3>2. ~Attached(E, k) /\ F.exclusive[e] = "none"
      BY <1>1, <1>3, <2>2 DEF Leaves
    <3> QED
      BY <2>1, <2>2, <3>1, <3>2, Names DEF DelegateInv, Attached
  <2>3. CASE EngineOf(k) # e
    <3>1. /\ F.shells[EngineOf(k)] = E.shells[EngineOf(k)]
          /\ F.exclusive[EngineOf(k)] = E.exclusive[EngineOf(k)]
      BY <2>3, Names DEF Leaves
    <3> QED
      BY <2>1, <3>1 DEF DelegateInv, Attached
  <2> QED
    BY <2>2, <2>3
<1>4. DelegateInv(F, h)
  BY <1>2, Names DEF DelegateInv, Leaves, Attached
<1>5. F.shells[CachedEngine] = "alive"
  BY Names DEF Leaves, Sound, EngineInv
<1>6. ASSUME NEW d \in HostEngines, NEW k \in Hosts, F.exclusive[d] = k
      PROVE  d = EngineOf(k)
  BY <1>6, Names DEF Leaves, Sound, EngineInv
<1>7. EngineInv(F)
  BY <1>3, <1>4, <1>5, <1>6 DEF EngineInv
<1>8. Apart(E, F, h)
  BY <1>1, Names DEF Apart, Leaves
<1> QED
  BY <1>7, <1>8 DEF Sound, Leaves

\* onDetach up to the destruction of the engine.
LEMMA ToldEffect ==
  ASSUME NEW E, Sound(E), NEW h \in Hosts, E.delegates[h].engine # "none"
  PROVE  LET e == EngineOf(h)
             Freed == DetachFromAbility(E, e)
             Told == SendState(DetachView(Freed, h), e, "detached")
         IN  /\ Told \in EmbedderType /\ SurfaceInv(Told) /\ Told.delegates = E.delegates
             /\ Told.shells = E.shells /\ Told.views[h].engine = "none"
             /\ \A k \in Hosts : k # h => Told.views[k] = E.views[k]
             /\ Told.exclusive[e] = "none"
             /\ \A d \in HostEngines : d # e => /\ Told.exclusive[d] = E.exclusive[d]
                                                /\ Told.reported[d] = E.reported[d]
<1> DEFINE e == EngineOf(h)
           Freed == DetachFromAbility(E, e)
           Viewless == DetachView(Freed, h)
           Told == SendState(Viewless, e, "detached")
<1>1. e \in HostEngines /\ e # "none" /\ E \in EmbedderType /\ E.shells[e] = "alive"
  BY Names DEF Sound, EngineInv, DelegateInv
<1>2. /\ OnlyEngines(E, Freed)
      /\ Freed.delegates = E.delegates /\ Freed.shells = E.shells
      /\ Freed.reported = E.reported
      /\ Freed.exclusive[e] = "none"
      /\ \A d \in HostEngines : d # e => Freed.exclusive[d] = E.exclusive[d]
  <2>1. Freed = [E EXCEPT !.exclusive[e] = "none"]
    BY <1>1 DEF DetachFromAbility
  <2>2. "none" \in Hosts \cup {"none"}
    OBVIOUS
  <2> HIDE DEF Freed, e
  <2> QED
    BY <1>1, <2>1, <2>2, ExclusiveEffect
<1> HIDE DEF Freed
<1>3. Freed \in EmbedderType /\ SurfaceInv(Freed)
  BY <1>2, ViewsKept DEF Sound, OnlyEngines, SurfaceInv, ViewInv
<1>4. /\ OnlyViews(Freed, Viewless) /\ SurfaceInv(Viewless)
      /\ Viewless.views[h].engine = "none"
      /\ \A k \in Hosts : k # h => Viewless.views[k] = Freed.views[k]
  BY <1>3, DetachEffect
<1> HIDE DEF Viewless
<1>5. /\ OnlyEngines(Viewless, Told)
      /\ Told.delegates = Viewless.delegates /\ Told.shells = Viewless.shells
      /\ Told.exclusive = Viewless.exclusive
      /\ \A d \in HostEngines : d # e => Told.reported[d] = Viewless.reported[d]
  <2>1. Viewless \in EmbedderType /\ Viewless.shells[e] = "alive"
    BY <1>1, <1>2, <1>4 DEF OnlyViews
  <2> HIDE DEF e
  <2> QED
    BY <1>1, <2>1, ReportedEffect
<1> HIDE DEF Told
<1>6. Told \in EmbedderType /\ SurfaceInv(Told)
  BY <1>4, <1>5, ViewsKept DEF OnlyEngines, SurfaceInv, ViewInv
<1> QED
  BY <1>2, <1>4, <1>5, <1>6 DEF OnlyEngines, OnlyViews, Told, Viewless, Freed

\* The engine destroyed is one whose shell renders to no window any more.
LEMMA DestroyEffect ==
  ASSUME NEW E \in EmbedderType, NEW h \in Hosts, NEW e \in HostEngines, E.renders[e] = "none"
  PROVE  LET F == DestroyEngine(E, h, e) IN
         /\ F \in EmbedderType
         /\ F.views = E.views /\ F.xcomponents = E.xcomponents /\ F.renders = E.renders
         /\ F.misused = E.misused /\ F.reported = E.reported
         /\ F.exclusive[e] = "none" /\ F.delegates[h].engine = "none"
         /\ F.delegates[h].host = E.delegates[h].host
         /\ \A d \in HostEngines : d # e => /\ F.shells[d] = E.shells[d]
                                            /\ F.exclusive[d] = E.exclusive[d]
         /\ \A k \in Hosts : k # h => F.delegates[k] = E.delegates[k]
<1> DEFINE X == [E EXCEPT !.exclusive[e] = "none"]
           S == [X EXCEPT !.shells[e] = "deleted"]
           F == [S EXCEPT !.delegates[h].engine = "none"]
<1>1. /\ OnlyEngines(E, X) /\ X.delegates = E.delegates /\ X.shells = E.shells
      /\ X.reported = E.reported /\ X.exclusive[e] = "none"
      /\ \A d \in HostEngines : d # e => X.exclusive[d] = E.exclusive[d]
  <2>1. "none" \in Hosts \cup {"none"}
    OBVIOUS
  <2> QED
    BY <2>1, ExclusiveEffect
<1>2. DestroyEngine(E, h, e) = F
  <2>1. X.renders \in [HostEngines -> Hosts \cup {"none"}] /\ X.renders[e] = "none"
    BY <1>1 DEF OnlyEngines, EmbedderType
  <2>2. [X EXCEPT !.renders[e] = "none"] = X
    <3>1. [X.renders EXCEPT ![e] = "none"] = X.renders
      BY <2>1
    <3>2. X \in EmbedderType
      BY <1>1 DEF OnlyEngines
    <3> HIDE DEF X
    <3>3. [X EXCEPT !.renders = X.renders] = X
      BY <3>2 DEF EmbedderType
    <3> QED
      BY <3>1, <3>3
  <2>3. DestroyEngine(E, h, e) = [X EXCEPT !.shells[e] = "deleted", !.renders[e] = "none",
                                           !.delegates[h].engine = "none"]
    BY Names DEF DestroyEngine, DetachFromAbility
  <2> HIDE DEF X
  <2>4. [X EXCEPT !.shells[e] = "deleted", !.renders[e] = "none",
                  !.delegates[h].engine = "none"]
          = [[[X EXCEPT !.renders[e] = "none"] EXCEPT !.shells[e] = "deleted"]
                EXCEPT !.delegates[h].engine = "none"]
    BY <1>1 DEF OnlyEngines, EmbedderType
  <2> QED
    BY <2>2, <2>3, <2>4
<1> HIDE DEF X
<1>3. /\ OnlyEngines(X, S) /\ S.delegates = X.delegates /\ S.reported = X.reported
      /\ S.exclusive = X.exclusive
      /\ \A d \in HostEngines : d # e => S.shells[d] = X.shells[d]
  <2>1. X \in EmbedderType /\ "deleted" \in {"alive", "deleted"}
    BY <1>1 DEF OnlyEngines
  <2> QED
    BY <2>1, ShellEffect
<1> HIDE DEF S
<1>4. /\ DelegateMoves(S, F, h) /\ F.delegates[h].engine = "none"
      /\ F.delegates[h].host = S.delegates[h].host
  <2>1. S \in EmbedderType
    BY <1>3 DEF OnlyEngines
  <2> QED
    BY <2>1, EngineEffect
<1> HIDE DEF F
<1> QED
  BY <1>1, <1>2, <1>3, <1>4 DEF OnlyEngines, DelegateMoves

\* A host lets go of its engine, if it has one that no other host has taken.
LEMMA OnDetachSound ==
  ASSUME NEW E, Sound(E), NEW h \in Hosts, E.delegates[h].host,
         E.exclusive[EngineOf(h)] \in {h, "none"}
  PROVE  LET F == OnDetach(E, h) IN
         /\ Sound(F) /\ Apart(E, F, h)
         /\ ~F.delegates[h].attached /\ F.delegates[h].host
         /\ h \in Cached => F.delegates[h].engine = E.delegates[h].engine
         /\ h \notin Cached => F.delegates[h].engine = "none"
         /\ Attached(E, h) => F.exclusive[EngineOf(h)] = "none"
<1> DEFINE e == EngineOf(h)
           Freed == DetachFromAbility(E, e)
           Told == SendState(DetachView(Freed, h), e, "detached")
           Destroyed == IF h \notin Cached THEN DestroyEngine(Told, h, e) ELSE Told
           F == OnDetach(E, h)
<1>1. E \in EmbedderType /\ SurfaceInv(E) /\ DelegateInv(E, h)
  BY DEF Sound, EngineInv
<1>2. CASE E.delegates[h].engine = "none"
  <2>1. ~Attached(E, h) /\ E.views[h].engine = "none"
    BY SMTT(30), <1>1, <1>2 DEF DelegateInv
  <2>2. DetachView(E, h) = E /\ DetachFromAbility(E, "none") = E
        /\ SendState(E, "none", "detached") = E /\ DestroyEngine(E, h, "none") = E
    BY <2>1 DEF DetachView, DetachFromAbility, SendState, DestroyEngine
  <2>3. F = [E EXCEPT !.delegates[h].attached = FALSE]
    BY <1>2, <2>2 DEF OnDetach
  <2> HIDE DEF F
  <2>4. /\ DelegateMoves(E, F, h) /\ F.delegates[h].attached = FALSE
        /\ F.delegates[h].engine = E.delegates[h].engine
        /\ F.delegates[h].host = E.delegates[h].host
    <3>1. FALSE \in BOOLEAN
      OBVIOUS
    <3> QED
      BY <1>1, <2>3, <3>1, AttachedEffect
  <2>5. Sound(F) /\ Apart(E, F, h)
    BY <2>1, <2>4, DelegateSound DEF Attached
  <2> QED
    BY <1>2, <2>1, <2>4, <2>5 DEF F
<1>3. CASE E.delegates[h].engine # "none"
  <2>1. E.delegates[h].engine = e /\ e \in HostEngines
    BY <1>1, <1>3, Names DEF DelegateInv
  <2>2. /\ Told \in EmbedderType /\ SurfaceInv(Told) /\ Told.delegates = E.delegates
        /\ Told.shells = E.shells /\ Told.views[h].engine = "none"
        /\ \A k \in Hosts : k # h => Told.views[k] = E.views[k]
        /\ Told.exclusive[e] = "none"
        /\ \A d \in HostEngines : d # e => /\ Told.exclusive[d] = E.exclusive[d]
                                           /\ Told.reported[d] = E.reported[d]
    BY <1>3, <2>1, ToldEffect
  <2>3. F = [Destroyed EXCEPT !.delegates[h].attached = FALSE]
    BY <2>1 DEF OnDetach
  <2> HIDE DEF Told
  <2>4. /\ Destroyed \in EmbedderType /\ SurfaceInv(Destroyed)
        /\ Destroyed.views = Told.views
        /\ Destroyed.exclusive[e] = "none"
        /\ Destroyed.delegates[h].host = Told.delegates[h].host
        /\ \A d \in HostEngines : d # e => /\ Destroyed.shells[d] = Told.shells[d]
                                           /\ Destroyed.exclusive[d] = Told.exclusive[d]
                                           /\ Destroyed.reported[d] = Told.reported[d]
        /\ \A k \in Hosts : k # h => Destroyed.delegates[k] = Told.delegates[k]
        /\ IF h \in Cached
           THEN Destroyed.shells = Told.shells
                /\ Destroyed.delegates[h].engine = Told.delegates[h].engine
           ELSE Destroyed.delegates[h].engine = "none"
    <3>1. CASE h \in Cached
      BY <2>2, <3>1
    <3>2. CASE h \notin Cached
      <4>1. Told.renders[e] = "none"
        <5>1. Told.renders[e] \in Hosts \cup {"none"}
          BY <2>1, <2>2 DEF EmbedderType
        <5>2. ASSUME NEW k \in Hosts, Told.renders[e] = k PROVE FALSE
          <6>1. EngineOf(k) = e /\ ViewInv(Told, k)
            BY <2>1, <2>2, <5>2 DEF SurfaceInv
          <6>2. k = h
            BY <3>2, <6>1, Names
          <6> QED
            BY <2>2, <5>2, <6>1, <6>2 DEF ViewInv
        <5> QED
          BY <5>1, <5>2
      <4>2. Destroyed = DestroyEngine(Told, h, e)
        BY <3>2
      <4> HIDE DEF Destroyed, e
      <4>3. /\ Destroyed \in EmbedderType
            /\ Destroyed.views = Told.views /\ Destroyed.xcomponents = Told.xcomponents
            /\ Destroyed.renders = Told.renders /\ Destroyed.misused = Told.misused
            /\ Destroyed.reported = Told.reported
            /\ Destroyed.exclusive[e] = "none" /\ Destroyed.delegates[h].engine = "none"
            /\ Destroyed.delegates[h].host = Told.delegates[h].host
            /\ \A d \in HostEngines : d # e => /\ Destroyed.shells[d] = Told.shells[d]
                                               /\ Destroyed.exclusive[d] = Told.exclusive[d]
            /\ \A k \in Hosts : k # h => Destroyed.delegates[k] = Told.delegates[k]
        BY <2>1, <2>2, <4>1, <4>2, DestroyEffect
      <4>4. ASSUME NEW k \in Hosts, Told.views[k].engine # "none"
            PROVE  Destroyed.shells[EngineOf(k)] = "alive"
        <5>1. k # h /\ EngineOf(k) \in HostEngines /\ Told.shells[EngineOf(k)] = "alive"
          BY <2>2, <4>4, Names DEF SurfaceInv, ViewInv
        <5>2. EngineOf(k) # e
          BY <3>2, <5>1, Names DEF e
        <5> QED
          BY <4>3, <5>1, <5>2
      <4>5. SurfaceInv(Destroyed)
        BY <2>2, <4>3, <4>4, ViewsKept
      <4> QED
        BY <3>2, <4>3, <4>5
    <3> QED
      BY <3>1, <3>2
  <2> HIDE DEF Destroyed, F
  <2>5. /\ DelegateMoves(Destroyed, F, h) /\ F.delegates[h].attached = FALSE
        /\ F.delegates[h].engine = Destroyed.delegates[h].engine
        /\ F.delegates[h].host = Destroyed.delegates[h].host
    <3>1. FALSE \in BOOLEAN
      OBVIOUS
    <3> QED
      BY <2>3, <2>4, <3>1, AttachedEffect
  <2>6. SurfaceInv(F)
    BY <2>4, <2>5, ViewsKept DEF DelegateMoves, OnlyEngines, SurfaceInv, ViewInv
  <2>7. Leaves(E, F, h)
    BY <2>2, <2>4, <2>5 DEF Leaves, DelegateMoves, OnlyEngines
  <2>8. Sound(F) /\ Apart(E, F, h)
    BY <1>3, <2>6, <2>7, LeaveSound
  <2> QED
    BY <2>1, <2>5, <2>7, <2>8 DEF Leaves, F
<1> QED
  BY <1>2, <1>3

\* A host attaches to an engine that no host is attached to.
LEMMA TakeSound ==
  ASSUME NEW E, Sound(E), NEW h \in Hosts, E.delegates[h].host,
         E.delegates[h].engine = EngineOf(h), E.exclusive[EngineOf(h)] = "none"
  PROVE  LET F == [[E EXCEPT !.exclusive[EngineOf(h)] = h] EXCEPT !.delegates[h].attached = TRUE]
         IN  /\ Sound(F) /\ Apart(E, F, h) /\ Attached(F, h) /\ F.views = E.views
             /\ F.delegates[h].engine = EngineOf(h)
<1> DEFINE e == EngineOf(h)
           X == [E EXCEPT !.exclusive[e] = h]
           F == [X EXCEPT !.delegates[h].attached = TRUE]
<1>1. E \in EmbedderType /\ e \in HostEngines /\ h \in Hosts \cup {"none"}
  BY Names DEF Sound
<1>2. /\ OnlyEngines(E, X)
      /\ X.delegates = E.delegates /\ X.shells = E.shells /\ X.reported = E.reported
      /\ X.exclusive[e] = h
      /\ \A d \in HostEngines : d # e => X.exclusive[d] = E.exclusive[d]
  <2> HIDE DEF e
  <2> QED
    BY <1>1, ExclusiveEffect
<1> HIDE DEF X
<1>3. /\ DelegateMoves(X, F, h) /\ F.delegates[h].attached = TRUE
      /\ F.delegates[h].engine = X.delegates[h].engine
      /\ F.delegates[h].host = X.delegates[h].host
  <2>1. X \in EmbedderType /\ TRUE \in BOOLEAN
    BY <1>2 DEF OnlyEngines
  <2> QED
    BY <2>1, AttachedEffect
<1> HIDE DEF F
<1>4. /\ F \in EmbedderType /\ F.views = E.views /\ F.xcomponents = E.xcomponents
      /\ F.renders = E.renders /\ F.misused = E.misused
      /\ F.shells = E.shells /\ F.reported = E.reported /\ F.exclusive = X.exclusive
      /\ \A k \in Hosts : k # h => F.delegates[k] = E.delegates[k]
      /\ F.delegates[h].host /\ F.delegates[h].attached /\ F.delegates[h].engine = e
  BY <1>2, <1>3 DEF DelegateMoves, OnlyEngines
<1>5. SurfaceInv(F)
  BY <1>4, ViewsKept DEF Sound, SurfaceInv, ViewInv
<1>6. E.shells[e] = "alive" /\ ~Attached(E, h) /\ e # "none"
  BY <1>1, Names DEF Sound, EngineInv, DelegateInv
<1>7. ASSUME NEW k \in Hosts PROVE DelegateInv(F, k)
  <2>1. DelegateInv(E, k) /\ EngineOf(k) \in HostEngines
    BY Names DEF Sound, EngineInv
  <2>2. CASE k = h
    BY <1>2, <1>4, <1>6, <2>2 DEF DelegateInv, Attached
  <2>3. CASE k # h
    <3>1. F.exclusive[EngineOf(k)] = k <=> E.exclusive[EngineOf(k)] = k
      BY <1>2, <1>4, <2>1, <2>3, Names
    <3>2. F.delegates[k] = E.delegates[k]
      BY <1>4, <2>3
    <3> QED
      BY <1>4, <2>1, <3>1, <3>2 DEF DelegateInv, Attached
  <2> QED
    BY <2>2, <2>3
<1>8. EngineInv(F)
  <2>1. ASSUME NEW d \in HostEngines, NEW k \in Hosts, F.exclusive[d] = k
        PROVE  d = EngineOf(k)
    BY <1>2, <1>4, <2>1 DEF Sound, EngineInv
  <2> QED
    BY <1>4, <1>7, <2>1 DEF Sound, EngineInv
<1> QED
  BY <1>4, <1>5, <1>8 DEF Sound, Apart, Attached, F, X

\* onAttach: the engine of a delegate that has not attached it is there.
LEMMA GotSound ==
  ASSUME NEW E, Sound(E), NEW h \in Hosts, ~E.delegates[h].attached
  PROVE  LET F == [E EXCEPT !.delegates[h].engine = EngineOf(h), !.shells[EngineOf(h)] = "alive"]
         IN  /\ Sound(F) /\ Apart(E, F, h) /\ F.views = E.views
             /\ F.delegates[h].engine = EngineOf(h)
             /\ F.delegates[h].host = E.delegates[h].host
             /\ ~F.delegates[h].attached
<1> DEFINE e == EngineOf(h)
           G == [E EXCEPT !.delegates[h].engine = e]
           F == [G EXCEPT !.shells[e] = "alive"]
<1>1. E \in EmbedderType /\ e \in HostEngines /\ e \in HostEngines \cup {"none"}
  BY Names DEF Sound
<1>2. /\ DelegateMoves(E, G, h) /\ G.delegates[h].engine = e
      /\ G.delegates[h].attached = E.delegates[h].attached
      /\ G.delegates[h].host = E.delegates[h].host
  <2> HIDE DEF e
  <2> QED
    BY <1>1, EngineEffect
<1>3. [E EXCEPT !.delegates[h].engine = e, !.shells[e] = "alive"] = F
  BY <1>1 DEF EmbedderType
<1> HIDE DEF G
<1>4. /\ OnlyEngines(G, F)
      /\ F.delegates = G.delegates /\ F.reported = G.reported /\ F.exclusive = G.exclusive
      /\ F.shells[e] = "alive"
      /\ \A d \in HostEngines : d # e => F.shells[d] = G.shells[d]
  <2>1. G \in EmbedderType /\ "alive" \in {"alive", "deleted"}
    BY <1>2 DEF DelegateMoves, OnlyEngines
  <2> HIDE DEF e
  <2> QED
    BY ZenonT(60), <1>1, <2>1, ShellEffect
<1> HIDE DEF F
<1>5. /\ F \in EmbedderType /\ F.views = E.views /\ F.xcomponents = E.xcomponents
      /\ F.renders = E.renders /\ F.misused = E.misused
      /\ F.reported = E.reported /\ F.exclusive = E.exclusive
      /\ F.shells[e] = "alive" /\ \A d \in HostEngines : d # e => F.shells[d] = E.shells[d]
      /\ \A k \in Hosts : k # h => F.delegates[k] = E.delegates[k]
      /\ F.delegates[h].engine = e /\ ~F.delegates[h].attached
      /\ F.delegates[h].host = E.delegates[h].host
  BY <1>2, <1>4 DEF DelegateMoves, OnlyEngines
<1>6. ASSUME NEW d \in HostEngines, E.shells[d] = "alive" PROVE F.shells[d] = "alive"
  BY <1>5, <1>6
<1>7. SurfaceInv(F)
  <2>1. ASSUME NEW k \in Hosts, E.views[k].engine # "none"
        PROVE  F.shells[EngineOf(k)] = "alive"
    BY <1>6, <2>1, Names DEF Sound, SurfaceInv, ViewInv
  <2> QED
    BY <1>5, <2>1, ViewsKept DEF Sound
<1>8. ASSUME NEW k \in Hosts PROVE DelegateInv(F, k)
  <2>1. DelegateInv(E, k) /\ EngineOf(k) \in HostEngines
    BY Names DEF Sound, EngineInv
  <2>2. CASE k = h
    BY <1>5, <2>1, <2>2 DEF DelegateInv, Attached
  <2>3. CASE k # h
    <3>1. F.delegates[k] = E.delegates[k]
      BY <1>5, <2>3
    <3> QED
      BY <1>5, <1>6, <2>1, <3>1 DEF DelegateInv, Attached
  <2> QED
    BY <2>2, <2>3
<1>9. EngineInv(F)
  BY <1>5, <1>6, <1>8, Names DEF Sound, EngineInv
<1> QED
  BY <1>3, <1>5, <1>7, <1>9 DEF Sound, Apart, F, G

\* The registry of the engine: whoever has the engine lets go of it, and h takes it.
LEMMA AttachToAbilitySound ==
  ASSUME NEW E, Sound(E), NEW h \in Hosts, E.delegates[h].host, ~E.delegates[h].attached,
         E.delegates[h].engine = EngineOf(h)
  PROVE  LET F == [AttachToAbility(E, h, EngineOf(h)) EXCEPT !.delegates[h].attached = TRUE]
         IN  /\ Sound(F) /\ OthersKept(E, F, h) /\ (h \notin Cached => Apart(E, F, h))
             /\ Attached(F, h) /\ F.delegates[h].engine = EngineOf(h)
<1> DEFINE e == EngineOf(h)
           other == E.exclusive[e]
           Given == IF other # "none" /\ E.delegates[other].host THEN OnDetach(E, other) ELSE E
           F == [[Given EXCEPT !.exclusive[e] = h] EXCEPT !.delegates[h].attached = TRUE]
<1>1. /\ E \in EmbedderType /\ e \in HostEngines /\ other \in Hosts \cup {"none"}
      /\ ~Attached(E, h) /\ other # h
  BY Names DEF Sound, EmbedderType, EngineInv, DelegateInv, Attached
<1>2. [AttachToAbility(E, h, e) EXCEPT !.delegates[h].attached = TRUE] = F
  BY DEF AttachToAbility
<1>3. /\ Sound(Given) /\ OthersKept(E, Given, h) /\ (h \notin Cached => Given = E)
      /\ Given.exclusive[e] = "none" /\ Given.delegates[h] = E.delegates[h]
  <2>1. CASE other = "none"
    <3>1. Given = E
      BY <2>1
    <3> QED
      BY <2>1, <3>1 DEF OthersKept
  <2>2. CASE other # "none"
    <3>1. /\ other \in Hosts /\ EngineOf(other) = e /\ Attached(E, other)
          /\ h \in Cached /\ other \in Cached
      <4>1. other \in Hosts /\ EngineOf(other) = e
        BY <1>1, <2>2 DEF Sound, EngineInv
      <4>2. Attached(E, other)
        BY <4>1 DEF Sound, EngineInv, DelegateInv
      <4> QED
        BY <1>1, <4>1, <4>2, Names
    <3>2. Given = OnDetach(E, other)
      BY <2>2, <3>1 DEF Attached
    <3>3. /\ E.delegates[other].host /\ E.delegates[other].attached
          /\ E.exclusive[EngineOf(other)] = other
      BY <3>1 DEF Attached
    <3> HIDE DEF Given, other
    <3>4. /\ Sound(Given) /\ Apart(E, Given, other)
          /\ ~Given.delegates[other].attached /\ Given.delegates[other].host
          /\ other \in Cached => Given.delegates[other].engine = E.delegates[other].engine
          /\ Attached(E, other) => Given.exclusive[EngineOf(other)] = "none"
      BY <3>1, <3>2, <3>3, OnDetachSound
    <3>5. Given.delegates[h] = E.delegates[h]
      BY <1>1, <3>1, <3>4 DEF Apart
    <3>6. OthersKept(E, Given, h)
      <4> SUFFICES ASSUME NEW k \in Hosts, k # h
                   PROVE  /\ Given.delegates[k].host = E.delegates[k].host
                          /\ Given.delegates[k].engine = E.delegates[k].engine
                          /\ Given.delegates[k].attached => E.delegates[k].attached
                          /\ E.delegates[k].attached =>
                                Given.delegates[k].attached \/ (h \in Cached /\ k \in Cached)
                          /\ Attached(Given, k) =>
                                Given.reported[EngineOf(k)] = E.reported[EngineOf(k)]
        BY DEF OthersKept
      <4>1. CASE k = other
        <5>1. Given.delegates[other].host = E.delegates[other].host
          <6>1. /\ Given.delegates[other].host \in BOOLEAN
                /\ E.delegates[other].host \in BOOLEAN
            BY ZenonT(60), <3>1, <3>4 DEF Sound, EmbedderType
          <6> QED
            BY <3>3, <3>4, <6>1
        <5> QED
          BY <3>1, <3>3, <3>4, <4>1, <5>1 DEF Attached
      <4>2. CASE k # other
        <5>1. Given.delegates[k] = E.delegates[k]
          BY <3>4, <4>2 DEF Apart
        <5> QED
          BY <3>4, <4>2, <5>1 DEF Apart, Attached
      <4> QED
        BY <4>1, <4>2
    <3> QED
      BY <3>1, <3>4, <3>5, <3>6
  <2> QED
    BY <2>1, <2>2
<1> HIDE DEF Given
<1>4. /\ Sound(F) /\ Apart(Given, F, h) /\ Attached(F, h) /\ F.delegates[h].engine = EngineOf(h)
  BY ZenonT(60), <1>3, TakeSound
<1> HIDE DEF F
<1>5. OthersKept(E, F, h)
  BY <1>3, <1>4, ApartIsKept, KeptTwice
<1> QED
  BY <1>2, <1>3, <1>4, <1>5

\* onAttach, whether or not the delegate was released meanwhile.
LEMMA OnAttachSound ==
  ASSUME NEW E, Sound(E), NEW h \in Hosts, ~E.delegates[h].attached
  PROVE  LET F == OnAttach(E, h) IN
         /\ Sound(F) /\ OthersKept(E, F, h) /\ (h \notin Cached => Apart(E, F, h))
         /\ F.delegates[h].attached
         /\ F.delegates[h].host <=> E.delegates[h].host
         /\ E.delegates[h].host => F.reported[EngineOf(h)] = "resumed"
<1> DEFINE e == EngineOf(h)
           Got == [E EXCEPT !.delegates[h].engine = e, !.shells[e] = "alive"]
           Taken == [AttachToAbility(Got, h, e) EXCEPT !.delegates[h].attached = TRUE]
           Viewed == IF E.views[h].created THEN AttachView(Taken, h, e) ELSE Taken
           F == OnAttach(E, h)
<1>1. F = IF E.delegates[h].host THEN Dispatch(Viewed, h, "resumed")
                                 ELSE [Got EXCEPT !.delegates[h].attached = TRUE]
  BY DEF OnAttach
<1>2. /\ Sound(Got) /\ Apart(E, Got, h) /\ Got.delegates[h].engine = e
      /\ Got.delegates[h].host = E.delegates[h].host /\ ~Got.delegates[h].attached
  BY GotSound
<1> HIDE DEF F, Got
<1>3. CASE ~E.delegates[h].host
  <2>1. F = [Got EXCEPT !.delegates[h].attached = TRUE]
    BY <1>1, <1>3
  <2>2. /\ DelegateMoves(Got, F, h) /\ F.delegates[h].attached = TRUE
        /\ F.delegates[h].engine = Got.delegates[h].engine
        /\ F.delegates[h].host = Got.delegates[h].host
    <3>1. Got \in EmbedderType /\ TRUE \in BOOLEAN
      BY <1>2 DEF Sound
    <3> QED
      BY <2>1, <3>1, AttachedEffect
  <2>3. Sound(F) /\ Apart(Got, F, h)
    BY <1>2, <1>3, <2>2, DelegateSound DEF Attached
  <2>4. Apart(E, F, h)
    BY <1>2, <2>3, ApartTwice
  <2> QED
    BY <1>2, <1>3, <2>2, <2>3, <2>4, ApartIsKept DEF F
<1>4. CASE E.delegates[h].host
  <2>1. /\ Sound(Taken) /\ OthersKept(Got, Taken, h)
        /\ (h \notin Cached => Apart(Got, Taken, h))
        /\ Attached(Taken, h) /\ Taken.delegates[h].engine = e
    BY <1>2, <1>4, AttachToAbilitySound
  <2> HIDE DEF Taken
  <2>2. Sound(Viewed) /\ Apart(Taken, Viewed, h) /\ Viewed.delegates = Taken.delegates
    <3>1. CASE E.views[h].created
      <4>1. Viewed = AttachView(Taken, h, e)
        BY <3>1
      <4> QED
        BY <2>1, <4>1, AttachSound DEF OnlyViews
    <3>2. CASE ~E.views[h].created
      BY <2>1, <3>2 DEF Apart
    <3> QED
      BY <3>1, <3>2
  <2> HIDE DEF Viewed
  <2>3. F = Dispatch(Viewed, h, "resumed") /\ Attached(Viewed, h)
    BY <1>1, <1>4, <2>1, <2>2 DEF Attached
  <2>4. /\ Sound(F) /\ Apart(Viewed, F, h) /\ F.delegates = Viewed.delegates
        /\ F.reported[e] = "resumed"
    BY <2>2, <2>3, DispatchSound
  <2>5. OthersKept(E, F, h)
    BY <1>2, <2>1, <2>2, <2>4, ApartIsKept, KeptTwice
  <2>6. h \notin Cached => Apart(E, F, h)
    BY <1>2, <2>1, <2>2, <2>4, ApartTwice
  <2>7. Attached(F, h)
    BY <2>3, <2>4 DEF Attached
  <2> QED
    BY <1>4, <2>4, <2>5, <2>6, <2>7 DEF Attached, F
<1> QED
  BY <1>3, <1>4

-----------------------------------------------------------------------------
\* A view is created.
LEMMA CreatedEffect ==
  ASSUME NEW E \in EmbedderType, NEW h \in Hosts, NEW b \in BOOLEAN
  PROVE  LET F == [E EXCEPT !.views[h].created = b] IN
         /\ OnlyViews(E, F)
         /\ F.xcomponents = E.xcomponents /\ F.renders = E.renders /\ F.misused = E.misused
         /\ F.views[h].created = b /\ F.views[h].engine = E.views[h].engine
         /\ F.views[h].surface = E.views[h].surface
         /\ \A k \in Hosts : k # h => F.views[k] = E.views[k]
<1> DEFINE view == [E.views[h] EXCEPT !.created = b]
           views == [E.views EXCEPT ![h] = view]
<1>1. /\ E.views \in ViewTypes
      /\ E.views[h] \in [engine : HostEngines \cup {"none"}, surface : BOOLEAN,
                         created : BOOLEAN]
  BY DEF EmbedderType, ViewTypes
<1>2. /\ view \in [engine : HostEngines \cup {"none"}, surface : BOOLEAN, created : BOOLEAN]
      /\ view.created = b /\ view.engine = E.views[h].engine /\ view.surface = E.views[h].surface
  BY <1>1
<1>3. [E EXCEPT !.views[h].created = b] = [E EXCEPT !.views = views]
  OBVIOUS
<1> HIDE DEF view
<1>4. /\ views \in ViewTypes /\ views[h] = view
      /\ \A k \in Hosts : k # h => views[k] = E.views[k]
  BY <1>1, <1>2 DEF ViewTypes
<1> HIDE DEF views
<1> DEFINE N == [E EXCEPT !.views = views]
<1>5. N \in EmbedderType
  BY <1>4 DEF EmbedderType, ViewTypes
<1>6. /\ N.delegates = E.delegates /\ N.shells = E.shells /\ N.exclusive = E.exclusive
      /\ N.reported = E.reported /\ N.renders = E.renders /\ N.xcomponents = E.xcomponents
      /\ N.misused = E.misused /\ N.views = views
  BY DEF EmbedderType
<1> HIDE DEF N
<1>7. [E EXCEPT !.views[h].created = b] = N
  BY <1>3 DEF N
<1> QED
  BY ZenonT(60), <1>2, <1>4, <1>5, <1>6, <1>7 DEF OnlyViews

\* A view gets or loses its surface.
LEMMA SurfaceEffect ==
  ASSUME NEW E \in EmbedderType, NEW h \in Hosts, NEW b \in BOOLEAN
  PROVE  LET F == [E EXCEPT !.views[h].surface = b] IN
         /\ OnlyViews(E, F)
         /\ F.xcomponents = E.xcomponents /\ F.renders = E.renders /\ F.misused = E.misused
         /\ F.views[h].surface = b /\ F.views[h].engine = E.views[h].engine
         /\ \A k \in Hosts : k # h => F.views[k] = E.views[k]
<1> DEFINE view == [E.views[h] EXCEPT !.surface = b]
           views == [E.views EXCEPT ![h] = view]
<1>1. /\ E.views \in ViewTypes
      /\ E.views[h] \in [engine : HostEngines \cup {"none"}, surface : BOOLEAN,
                         created : BOOLEAN]
  BY DEF EmbedderType, ViewTypes
<1>2. /\ view \in [engine : HostEngines \cup {"none"}, surface : BOOLEAN, created : BOOLEAN]
      /\ view.surface = b /\ view.engine = E.views[h].engine
  BY <1>1
<1>3. [E EXCEPT !.views[h].surface = b] = [E EXCEPT !.views = views]
  OBVIOUS
<1> HIDE DEF view
<1>4. /\ views \in ViewTypes /\ views[h] = view
      /\ \A k \in Hosts : k # h => views[k] = E.views[k]
  BY <1>1, <1>2 DEF ViewTypes
<1> HIDE DEF views
<1> DEFINE N == [E EXCEPT !.views = views]
<1>5. N \in EmbedderType
  BY <1>4 DEF EmbedderType, ViewTypes
<1>6. /\ N.delegates = E.delegates /\ N.shells = E.shells /\ N.exclusive = E.exclusive
      /\ N.reported = E.reported /\ N.renders = E.renders /\ N.xcomponents = E.xcomponents
      /\ N.misused = E.misused /\ N.views = views
  BY DEF EmbedderType
<1> HIDE DEF N
<1>7. [E EXCEPT !.views[h].surface = b] = N
  BY <1>3 DEF N
<1> QED
  BY ZenonT(60), <1>2, <1>4, <1>5, <1>6, <1>7 DEF OnlyViews

\* The XComponent of h gets or loses its window.
LEMMA EntryEffect ==
  ASSUME NEW E \in EmbedderType, NEW h \in Hosts,
         NEW x \in [shell : HostEngines \cup {"none"}, window : BOOLEAN]
  PROVE  LET F == [E EXCEPT !.xcomponents[h] = x] IN
         /\ OnlyViews(E, F)
         /\ F.views = E.views /\ F.renders = E.renders /\ F.misused = E.misused
         /\ F.xcomponents[h] = x
         /\ \A k \in Hosts : k # h => F.xcomponents[k] = E.xcomponents[k]
<1> DEFINE xcomponents == [E.xcomponents EXCEPT ![h] = x]
<1>1. [E EXCEPT !.xcomponents[h] = x] = [E EXCEPT !.xcomponents = xcomponents]
  OBVIOUS
<1>2. /\ xcomponents \in XComponentTypes /\ xcomponents[h] = x
      /\ \A k \in Hosts : k # h => xcomponents[k] = E.xcomponents[k]
  <2>1. E.xcomponents \in XComponentTypes
    BY DEF EmbedderType, XComponentTypes
  <2> QED
    BY <2>1, Replaced DEF XComponentTypes
<1> HIDE DEF xcomponents
<1>3. [E EXCEPT !.xcomponents = xcomponents] \in EmbedderType
  BY <1>2 DEF EmbedderType, XComponentTypes
<1> QED
  BY ZenonT(60), <1>1, <1>2, <1>3 DEF OnlyViews, EmbedderType

\* createView, of a host that is attached if it has an engine.
LEMMA CreateViewSound ==
  ASSUME NEW E, Sound(E), NEW h \in Hosts, E.delegates[h].engine # "none" => Attached(E, h)
  PROVE  LET F == CreateView(E, h) IN
         Sound(F) /\ Apart(E, F, h) /\ F.delegates = E.delegates /\ F.reported = E.reported
<1> DEFINE e == E.delegates[h].engine
           C == [E EXCEPT !.views[h].created = TRUE]
           F == CreateView(E, h)
<1>1. E \in EmbedderType /\ TRUE \in BOOLEAN
  BY DEF Sound
<1>2. F = IF e = "none" THEN C ELSE AttachView(C, h, e)
  BY DEF CreateView
<1>3. /\ OnlyViews(E, C)
      /\ C.xcomponents = E.xcomponents /\ C.renders = E.renders /\ C.misused = E.misused
      /\ C.views[h].created = TRUE
      /\ C.views[h].engine = E.views[h].engine /\ C.views[h].surface = E.views[h].surface
      /\ \A k \in Hosts : k # h => C.views[k] = E.views[k]
  BY <1>1, CreatedEffect
<1> HIDE DEF C, F
<1>4. ASSUME NEW k \in Hosts
      PROVE  C.views[k].engine = E.views[k].engine /\ C.views[k].surface = E.views[k].surface
  BY <1>3
<1>5. SurfaceInv(C)
  <2>1. ASSUME NEW k \in Hosts PROVE ViewInv(C, k)
    <3>1. ViewInv(E, k)
      BY DEF Sound, SurfaceInv
    <3> QED
      BY <1>3, <1>4, <3>1 DEF ViewInv, OnlyViews
  <2> QED
    BY <1>3, <1>4, <2>1 DEF Sound, SurfaceInv
<1>6. Sound(C) /\ Apart(E, C, h)
  BY <1>3, <1>4, <1>5, ViewsSound
<1>7. CASE e = "none"
  BY <1>2, <1>3, <1>6, <1>7 DEF OnlyViews, F
<1>8. CASE e # "none"
  <2>1. e = EngineOf(h) /\ Attached(C, h)
    BY <1>3, <1>8 DEF OnlyViews, Attached, Sound, EngineInv, DelegateInv
  <2>2. F = AttachView(C, h, EngineOf(h))
    BY <1>2, <1>8, <2>1
  <2>3. Sound(F) /\ Apart(C, F, h) /\ OnlyViews(C, F)
    BY <1>6, <2>1, <2>2, AttachSound
  <2> QED
    BY <1>3, <1>6, <2>3, ApartTwice DEF OnlyViews, F
<1> QED
  BY <1>7, <1>8

\* The window is there, and the page is loaded: the shell of the view, if any, gets the window.
LEMMA CreatedSound ==
  ASSUME NEW h \in Hosts, Sound(embedder), OnSurfaceCreated(h)
  PROVE  Sound(embedder') /\ Apart(embedder, embedder', h)
         /\ embedder'.delegates = embedder.delegates /\ embedder'.reported = embedder.reported
<1> DEFINE E == embedder
           x == E.xcomponents[h]
           W == [E EXCEPT !.xcomponents[h].window = TRUE]
           N == IF x.shell # "none" THEN NotifySurface(W, x.shell, h) ELSE W
           S == [N EXCEPT !.views[h].surface = TRUE]
           e == S.views[h].engine
           F == IF e # "none" THEN XComponentAttach(S, h, e) ELSE S
<1>1. embedder' = F
  BY SMTT(30) DEF OnSurfaceCreated
<1>2. E \in EmbedderType /\ ViewInv(E, h) /\ ~E.misused /\ ~x.window
  BY DEF Sound, SurfaceInv, OnSurfaceCreated
<1>3. x.shell = "none" /\ ~E.views[h].surface /\ E.renders[EngineOf(h)] # h
  BY <1>2 DEF ViewInv
<1>4. N = W
  BY <1>3
<1>5. /\ OnlyViews(E, W)
      /\ W.views = E.views /\ W.renders = E.renders /\ W.misused = E.misused
      /\ W.xcomponents[h].shell = "none" /\ W.xcomponents[h].window
      /\ \A k \in Hosts : k # h => W.xcomponents[k] = E.xcomponents[k]
  <2> DEFINE y == [x EXCEPT !.window = TRUE]
  <2>1. x \in [shell : HostEngines \cup {"none"}, window : BOOLEAN]
    BY <1>2 DEF EmbedderType
  <2>2. y \in [shell : HostEngines \cup {"none"}, window : BOOLEAN]
        /\ y.shell = "none" /\ y.window
    BY <1>3, <2>1
  <2>3. W = [E EXCEPT !.xcomponents[h] = y]
    OBVIOUS
  <2> HIDE DEF W, y, E
  <2> QED
    BY <1>2, <2>2, <2>3, EntryEffect
<1> HIDE DEF W
<1>6. /\ OnlyViews(W, S)
      /\ S.xcomponents = W.xcomponents /\ S.renders = W.renders /\ S.misused = W.misused
      /\ S.views[h].surface = TRUE /\ S.views[h].engine = W.views[h].engine
      /\ \A k \in Hosts : k # h => S.views[k] = W.views[k]
  <2>1. W \in EmbedderType /\ TRUE \in BOOLEAN
    BY <1>5 DEF OnlyViews
  <2>2. S = [W EXCEPT !.views[h].surface = TRUE]
    BY <1>4
  <2> HIDE DEF W, E
  <2>3. LET V == [W EXCEPT !.views[h].surface = TRUE] IN
        /\ OnlyViews(W, V)
        /\ V.xcomponents = W.xcomponents /\ V.renders = W.renders /\ V.misused = W.misused
        /\ V.views[h].surface = TRUE /\ V.views[h].engine = W.views[h].engine
        /\ \A k \in Hosts : k # h => V.views[k] = W.views[k]
    BY <2>1, SurfaceEffect
  <2> HIDE DEF S
  <2> QED
    BY <2>2, <2>3
<1> HIDE DEF S
<1>7. OnlyViews(E, S) /\ S.views[h].engine = E.views[h].engine
  BY <1>5, <1>6 DEF OnlyViews
<1>8. OnlyViews(E, F) /\ SurfaceInv(F) /\ \A k \in Hosts : F.views[k].engine = E.views[k].engine
  <2>1. CASE e = "none"
    <3>1. F = S
      BY <2>1
    <3>2. ViewInv(S, h)
      BY <1>3, <1>5, <1>6, <1>7, <2>1 DEF ViewInv
    <3>3. SurfaceInv(S)
      <4>1. OthersKeep(E, S, h)
        BY SMTT(30), <1>5, <1>6 DEF OthersKeep
      <4> QED
        BY <1>2, <1>5, <1>6, <1>7, <2>1, <3>2, <4>1, OneViewMoves DEF Sound, OnlyViews
    <3> QED
      BY <1>5, <1>6, <1>7, <3>1, <3>3
  <2>2. CASE e # "none"
    <3> DEFINE A == [S EXCEPT !.xcomponents[h].shell = e]
    <3>1. /\ e = EngineOf(h) /\ e = E.views[h].engine /\ e \in HostEngines
          /\ E.shells[e] = "alive"
      BY <1>2, <1>7, <2>2, Names DEF ViewInv
    <3>2. F = NotifySurface(A, e, h)
      BY <1>5, <1>6, <2>2 DEF XComponentAttach
    <3>3. /\ OnlyViews(S, A)
          /\ A.views = S.views /\ A.renders = S.renders /\ A.misused = S.misused
          /\ A.xcomponents[h].shell = e
          /\ A.xcomponents[h].window = S.xcomponents[h].window
          /\ \A k \in Hosts : k # h => A.xcomponents[k] = S.xcomponents[k]
      <4>1. e \in HostEngines \cup {"none"} /\ S \in EmbedderType
        BY <1>7, <3>1 DEF OnlyViews
      <4> HIDE DEF e
      <4> QED
        BY <4>1, XComponentEffect
    <3> HIDE DEF A
    <3>4. /\ OnlyViews(A, F)
          /\ F.views = A.views /\ F.xcomponents = A.xcomponents /\ F.misused = A.misused
          /\ F.renders[e] = h
          /\ \A d \in HostEngines : d # e => F.renders[d] = A.renders[d]
      <4>1. A \in EmbedderType /\ A.shells[e] = "alive" /\ h \in Hosts \cup {"none"}
        BY <1>7, <3>1, <3>3 DEF OnlyViews
      <4> HIDE DEF e, F
      <4> QED
        BY <3>1, <3>2, <4>1, NotifyEffect
    <3> HIDE DEF F
    <3>5. OnlyViews(E, F) /\ OthersKeep(E, F, h) /\ ~F.misused
      BY <1>2, <1>5, <1>6, <1>7, <3>1, <3>3, <3>4 DEF OnlyViews, OthersKeep
    <3>6. /\ F.views[h].engine = e /\ F.views[h].surface
          /\ F.xcomponents[h].shell = e /\ F.xcomponents[h].window /\ F.renders[e] = h
      BY <1>5, <1>6, <3>3, <3>4
    <3>7. ViewInv(F, h)
      BY <2>2, <3>1, <3>5, <3>6 DEF ViewInv, OnlyViews
    <3>8. \A k \in Hosts : k # h /\ E.views[k].engine # "none" => EngineOf(k) # EngineOf(h)
      BY <2>2, <3>1 DEF Sound, SurfaceInv
    <3>9. SurfaceInv(F)
      <4>1. F.shells = E.shells /\ F.renders[EngineOf(h)] = h
        BY <3>1, <3>5, <3>6 DEF OnlyViews
      <4> HIDE DEF e, E
      <4> QED
        BY <3>5, <3>7, <3>8, <4>1, OneViewMoves DEF Sound, E
    <3> QED
      BY <3>1, <3>5, <3>6, <3>9 DEF OthersKeep, F
  <2> QED
    BY <2>1, <2>2
<1> HIDE DEF F
<1>9. Sound(F) /\ Apart(E, F, h)
  BY <1>8, ViewsSound
<1>10. F.delegates = E.delegates /\ F.reported = E.reported
  BY <1>8 DEF OnlyViews
<1> QED
  BY SMTT(30), <1>1, <1>9, <1>10

\* The window is gone: the shell that rendered to it no longer does.
LEMMA WindowGone ==
  ASSUME NEW E, Sound(E), NEW F, NEW h \in Hosts, OnlyViews(E, F), OthersKeep(E, F, h),
         ~F.misused, F.views[h].engine = E.views[h].engine, ~F.views[h].surface,
         F.xcomponents[h].shell = "none", ~F.xcomponents[h].window,
         IF E.views[h].engine # "none" THEN F.renders[EngineOf(h)] = "none"
                                       ELSE F.renders[EngineOf(h)] = E.renders[EngineOf(h)]
  PROVE  Sound(F) /\ Apart(E, F, h)
<1>1. ViewInv(E, h) /\ SurfaceInv(E)
  BY DEF Sound, SurfaceInv
<1>2. ViewInv(F, h)
  <2>1. F.renders[EngineOf(h)] # h
    BY <1>1, Names DEF ViewInv
  <2> QED
    BY <1>1, <2>1 DEF ViewInv, OnlyViews
<1>3. E.views[h].engine # "none" => E.renders[EngineOf(h)] \in {h, "none"}
  <2>1. ASSUME NEW k \in Hosts, E.renders[EngineOf(h)] = k, E.views[h].engine # "none"
        PROVE  k = h
    <3>1. EngineOf(k) = EngineOf(h) /\ ViewInv(E, k)
      BY <1>1, <2>1, Names DEF SurfaceInv
    <3>2. E.views[k].engine # "none"
      BY <2>1, <3>1 DEF ViewInv
    <3> QED
      BY <1>1, <2>1, <3>1, <3>2 DEF SurfaceInv
  <2>2. E.renders[EngineOf(h)] \in Hosts \cup {"none"}
    BY Names DEF Sound, EmbedderType
  <2> QED
    BY <2>1, <2>2
<1>4. F.views[h].engine # "none" =>
         \A k \in Hosts : k # h /\ E.views[k].engine # "none" => EngineOf(k) # EngineOf(h)
  BY <1>1 DEF SurfaceInv
<1>5. SurfaceInv(F)
  BY <1>1, <1>2, <1>3, <1>4, OneViewMoves DEF OnlyViews
<1>6. \A k \in Hosts : F.views[k].engine # "none" => E.views[k].engine # "none"
  BY DEF OthersKeep
<1> QED
  BY <1>5, <1>6, ViewsSound

\* OnSurfaceDestroyedCB: the shell is told, and the entry is erased.
LEMMA EraseEffect ==
  ASSUME NEW E \in EmbedderType, NEW h \in Hosts,
         E.xcomponents[h].shell # "none" => E.shells[E.xcomponents[h].shell] = "alive"
  PROVE  LET F == EraseXComponent(E, h)
             e == E.xcomponents[h].shell
         IN  /\ OnlyViews(E, F) /\ F.views = E.views /\ F.misused = E.misused
             /\ F.xcomponents[h].shell = "none" /\ ~F.xcomponents[h].window
             /\ \A k \in Hosts : k # h => F.xcomponents[k] = E.xcomponents[k]
             /\ e # "none" => F.renders[e] = "none"
             /\ \A d \in HostEngines : d # e => F.renders[d] = E.renders[d]
<1> DEFINE e == E.xcomponents[h].shell
           N == IF e # "none" THEN NotifySurface(E, e, "none") ELSE E
           y == [shell |-> "none", window |-> FALSE]
           F == [N EXCEPT !.xcomponents[h] = y]
<1>1. EraseXComponent(E, h) = F
  BY DEF EraseXComponent
<1>2. /\ OnlyViews(E, N) /\ N.views = E.views /\ N.misused = E.misused
      /\ N.xcomponents = E.xcomponents
      /\ e # "none" => N.renders[e] = "none"
      /\ \A d \in HostEngines : d # e => N.renders[d] = E.renders[d]
  <2>1. e \in HostEngines \cup {"none"}
    BY DEF EmbedderType
  <2>2. CASE e = "none"
    BY <2>2 DEF OnlyViews
  <2>3. CASE e # "none"
    <3>1. N = NotifySurface(E, e, "none") /\ e \in HostEngines /\ E.shells[e] = "alive"
      BY <2>1, <2>3
    <3>2. "none" \in Hosts \cup {"none"}
      OBVIOUS
    <3> HIDE DEF N, e
    <3> QED
      BY <3>1, <3>2, NotifyEffect
  <2> QED
    BY <2>2, <2>3
<1> HIDE DEF N
<1>3. /\ y \in [shell : HostEngines \cup {"none"}, window : BOOLEAN]
      /\ y.shell = "none" /\ ~y.window
  OBVIOUS
<1> HIDE DEF y
<1>4. /\ OnlyViews(N, F)
      /\ F.views = N.views /\ F.renders = N.renders /\ F.misused = N.misused
      /\ F.xcomponents[h] = y
      /\ \A k \in Hosts : k # h => F.xcomponents[k] = N.xcomponents[k]
  <2>1. N \in EmbedderType
    BY <1>2 DEF OnlyViews
  <2> QED
    BY <1>3, <2>1, EntryEffect
<1> HIDE DEF F
<1>5. OnlyViews(E, F)
  BY <1>2, <1>4 DEF OnlyViews
<1> QED
  BY <1>1, <1>2, <1>3, <1>4, <1>5

\* onSurfaceDestroyed of the view: its XComponent lets go of the shell.
LEMMA SurfaceGoneEffect ==
  ASSUME NEW E \in EmbedderType, NEW h \in Hosts,
         E.views[h].engine # "none" /\ E.xcomponents[h].window =>
            /\ E.xcomponents[h].shell = E.views[h].engine
            /\ E.shells[E.views[h].engine] = "alive"
  PROVE  LET F == ViewOnSurfaceDestroyed(E, h)
             e == E.views[h].engine
         IN  /\ OnlyViews(E, F) /\ F.misused = E.misused
             /\ F.views[h].engine = e /\ ~F.views[h].surface
             /\ \A k \in Hosts : k # h => F.views[k] = E.views[k]
             /\ F.xcomponents[h].shell \in {"none", E.xcomponents[h].shell}
             /\ e # "none" => F.xcomponents[h].shell = "none"
             /\ F.xcomponents[h].window = E.xcomponents[h].window
             /\ \A k \in Hosts : k # h => F.xcomponents[k] = E.xcomponents[k]
             /\ IF e # "none" /\ E.xcomponents[h].window
                THEN /\ F.renders[e] = "none"
                     /\ \A d \in HostEngines : d # e => F.renders[d] = E.renders[d]
                ELSE F.renders = E.renders
<1> DEFINE e == E.views[h].engine
           S == [E EXCEPT !.views[h].surface = FALSE]
           F == ViewOnSurfaceDestroyed(E, h)
<1>1. F = IF e # "none" THEN XComponentDetach(S, h) ELSE S
  BY DEF ViewOnSurfaceDestroyed
<1>2. /\ OnlyViews(E, S)
      /\ S.xcomponents = E.xcomponents /\ S.renders = E.renders /\ S.misused = E.misused
      /\ S.views[h].surface = FALSE /\ S.views[h].engine = e
      /\ \A k \in Hosts : k # h => S.views[k] = E.views[k]
  <2>1. FALSE \in BOOLEAN
    OBVIOUS
  <2> QED
    BY <2>1, SurfaceEffect
<1> HIDE DEF S, F
<1>3. CASE e = "none"
  <2>1. F = S
    BY <1>1, <1>3
  <2> QED
    BY <1>2, <1>3, <2>1 DEF F
<1>4. CASE e # "none"
  <2> DEFINE D == [S EXCEPT !.xcomponents[h].shell = "none"]
  <2>1. /\ OnlyViews(S, D)
        /\ D.views = S.views /\ D.renders = S.renders /\ D.misused = S.misused
        /\ D.xcomponents[h].shell = "none"
        /\ D.xcomponents[h].window = S.xcomponents[h].window
        /\ \A k \in Hosts : k # h => D.xcomponents[k] = S.xcomponents[k]
    <3>1. S \in EmbedderType /\ "none" \in HostEngines \cup {"none"}
      BY <1>2 DEF OnlyViews
    <3> QED
      BY <3>1, XComponentEffect
  <2>2. F = IF E.xcomponents[h].window
            THEN NotifySurface(D, E.xcomponents[h].shell, "none") ELSE D
    BY <1>1, <1>2, <1>4 DEF XComponentDetach
  <2> HIDE DEF D
  <2>3. OnlyViews(E, D)
    BY <1>2, <2>1 DEF OnlyViews
  <2>4. CASE ~E.xcomponents[h].window
    <3>1. F = D
      BY <2>2, <2>4
    <3> QED
      BY <1>2, <1>4, <2>1, <2>3, <2>4, <3>1 DEF F
  <2>5. CASE E.xcomponents[h].window
    <3>1. e \in HostEngines /\ E.shells[e] = "alive" /\ F = NotifySurface(D, e, "none")
      <4>1. e \in HostEngines \cup {"none"}
        BY DEF EmbedderType
      <4> QED
        BY <1>4, <2>2, <2>5, <4>1
    <3>2. D \in EmbedderType /\ D.shells[e] = "alive" /\ "none" \in Hosts \cup {"none"}
      BY <2>3, <3>1 DEF OnlyViews
    <3>3. /\ OnlyViews(D, F)
          /\ F.views = D.views /\ F.xcomponents = D.xcomponents /\ F.misused = D.misused
          /\ F.renders[e] = "none"
          /\ \A d \in HostEngines : d # e => F.renders[d] = D.renders[d]
      <4> HIDE DEF e
      <4> QED
        BY <3>1, <3>2, NotifyEffect
    <3>4. OnlyViews(E, F)
      BY <2>3, <3>3 DEF OnlyViews
    <3>5. /\ F.renders[e] = "none"
          /\ \A d \in HostEngines : d # e => F.renders[d] = E.renders[d]
      BY <1>2, <2>1, <3>3
    <3>6. /\ F.misused = E.misused /\ F.views[h].engine = e
          /\ F.xcomponents[h].shell = "none"
          /\ F.xcomponents[h].window = E.xcomponents[h].window
          /\ \A k \in Hosts : k # h => F.xcomponents[k] = E.xcomponents[k]
          /\ \A k \in Hosts : k # h => F.views[k] = E.views[k]
      BY <1>2, <2>1, <3>3
    <3>7. ~F.views[h].surface
      BY <1>2, <2>1, <3>3
    <3> HIDE DEF e
    <3> QED
      BY <1>4, <2>5, <3>4, <3>5, <3>6, <3>7 DEF F, e
  <2> QED
    BY <2>4, <2>5
<1> QED
  BY <1>3, <1>4

\* The window goes, and the two callbacks come in either order.
LEMMA DestroyedSound ==
  ASSUME NEW h \in Hosts, Sound(embedder), OnSurfaceDestroyed(h)
  PROVE  Sound(embedder') /\ Apart(embedder, embedder', h)
         /\ embedder'.delegates = embedder.delegates /\ embedder'.reported = embedder.reported
<1> DEFINE E == embedder
           e == E.views[h].engine
<1>1. /\ E \in EmbedderType /\ ViewInv(E, h) /\ ~E.misused /\ E.xcomponents[h].window
  BY DEF Sound, SurfaceInv, OnSurfaceDestroyed
<1>2. /\ E.xcomponents[h].shell = e
      /\ e # "none" => e = EngineOf(h) /\ E.shells[e] = "alive"
  BY <1>1 DEF ViewInv
<1>3. ASSUME embedder' = ViewOnSurfaceDestroyed(EraseXComponent(E, h), h)
      PROVE  Sound(embedder') /\ Apart(embedder, embedder', h) /\ OnlyViews(embedder, embedder')
  <2> DEFINE R == EraseXComponent(E, h)
             F == ViewOnSurfaceDestroyed(R, h)
  <2>1. /\ OnlyViews(E, R) /\ R.views = E.views /\ R.misused = E.misused
        /\ R.xcomponents[h].shell = "none" /\ ~R.xcomponents[h].window
        /\ \A k \in Hosts : k # h => R.xcomponents[k] = E.xcomponents[k]
        /\ e # "none" => R.renders[e] = "none"
        /\ \A d \in HostEngines : d # e => R.renders[d] = E.renders[d]
    <3> HIDE DEF E
    <3> QED
      BY <1>1, <1>2, EraseEffect
  <2> HIDE DEF R
  <2>2. /\ OnlyViews(R, F) /\ F.misused = R.misused
        /\ F.views[h].engine = R.views[h].engine /\ ~F.views[h].surface
        /\ \A k \in Hosts : k # h => F.views[k] = R.views[k]
        /\ F.xcomponents[h].shell = "none" /\ ~F.xcomponents[h].window
        /\ \A k \in Hosts : k # h => F.xcomponents[k] = R.xcomponents[k]
        /\ F.renders = R.renders
    <3>1. R \in EmbedderType
      BY <2>1 DEF OnlyViews
    <3> HIDE DEF E
    <3> QED
      BY <2>1, <3>1, SurfaceGoneEffect
  <2>3. embedder' = F
    BY <1>3 DEF R
  <2> HIDE DEF F
  <2>4. OnlyViews(E, F)
    BY <2>1, <2>2 DEF OnlyViews
  <2>5. OthersKeep(E, F, h) /\ ~F.misused /\ F.views[h].engine = e
        /\ IF e # "none" THEN F.renders[EngineOf(h)] = "none"
                         ELSE F.renders[EngineOf(h)] = E.renders[EngineOf(h)]
    BY <1>1, <1>2, <2>1, <2>2, Names DEF OthersKeep
  <2>6. Sound(F) /\ Apart(E, F, h)
    BY <2>2, <2>4, <2>5, WindowGone
  <2> QED
    BY <2>3, <2>4, <2>6
<1>4. ASSUME embedder' = EraseXComponent(ViewOnSurfaceDestroyed(E, h), h)
      PROVE  Sound(embedder') /\ Apart(embedder, embedder', h) /\ OnlyViews(embedder, embedder')
  <2> DEFINE R == ViewOnSurfaceDestroyed(E, h)
             F == EraseXComponent(R, h)
  <2>1. /\ OnlyViews(E, R) /\ R.misused = E.misused
        /\ R.views[h].engine = e /\ ~R.views[h].surface
        /\ \A k \in Hosts : k # h => R.views[k] = E.views[k]
        /\ R.xcomponents[h].shell \in {"none", E.xcomponents[h].shell}
        /\ e # "none" => R.xcomponents[h].shell = "none"
        /\ \A k \in Hosts : k # h => R.xcomponents[k] = E.xcomponents[k]
        /\ IF e # "none"
           THEN /\ R.renders[e] = "none"
                /\ \A d \in HostEngines : d # e => R.renders[d] = E.renders[d]
           ELSE R.renders = E.renders
    <3> HIDE DEF E
    <3> QED
      BY <1>1, <1>2, SurfaceGoneEffect
  <2> HIDE DEF R
  <2>2. R.xcomponents[h].shell = "none" /\ R \in EmbedderType
    BY <1>2, <2>1 DEF OnlyViews
  <2>3. /\ OnlyViews(R, F) /\ F.views = R.views /\ F.misused = R.misused
        /\ F.xcomponents[h].shell = "none" /\ ~F.xcomponents[h].window
        /\ \A k \in Hosts : k # h => F.xcomponents[k] = R.xcomponents[k]
        /\ \A d \in HostEngines : F.renders[d] = R.renders[d]
    BY <2>2, EraseEffect, Names
  <2>4. embedder' = F
    BY <1>4 DEF R
  <2> HIDE DEF F
  <2>5. OnlyViews(E, F)
    BY <2>1, <2>3 DEF OnlyViews
  <2>6. OthersKeep(E, F, h) /\ ~F.misused /\ F.views[h].engine = e /\ ~F.views[h].surface
        /\ IF e # "none" THEN F.renders[EngineOf(h)] = "none"
                         ELSE F.renders[EngineOf(h)] = E.renders[EngineOf(h)]
    BY <1>1, <1>2, <2>1, <2>3, Names DEF OthersKeep
  <2>7. Sound(F) /\ Apart(E, F, h)
    BY <2>3, <2>5, <2>6, WindowGone
  <2> QED
    BY <2>4, <2>5, <2>7
<1> QED
  BY <1>3, <1>4 DEF OnSurfaceDestroyed, OnlyViews

-----------------------------------------------------------------------------
Phases == {"new", "created", "staged", "foreground", "background", "gone"}

\* A callback of h keeps the invariant if it keeps it for h.  A host that loses its engine to
\* h is not one that has just been created.
LEMMA OneHostMoves ==
  ASSUME HostInv, NEW h \in Hosts, NEW p \in Phases,
         phase' = [phase EXCEPT ![h] = p], starting' \subseteq Hosts,
         \A k \in Hosts : k # h => (k \in starting' <=> k \in starting),
         Sound(embedder'), OthersKept(embedder, embedder', h),
         \/ Apart(embedder, embedder', h)
         \/ \A k \in Cached : k # h => phase[k] # "created",
         PhaseInv(embedder', h, p, h \in starting')
  PROVE  HostInv'
<1>1. phase' \in [Hosts -> Phases] /\ phase'[h] = p
      /\ \A k \in Hosts : k # h => phase'[k] = phase[k]
  BY DEF HostInv, HostTypeOK, Phases
<1>2. ASSUME NEW k \in Hosts, k # h
      PROVE  PhaseInv(embedder', k, phase'[k], k \in starting')
  <2>1. PhaseInv(embedder, k, phase[k], k \in starting)
    BY DEF HostInv
  <2>2. phase'[k] = phase[k] /\ (k \in starting' <=> k \in starting)
    BY <1>1, <1>2
  <2>3. CASE Apart(embedder, embedder', h)
    <3>1. /\ embedder'.delegates[k] = embedder.delegates[k]
          /\ Attached(embedder, k) =>
                embedder'.reported[EngineOf(k)] = embedder.reported[EngineOf(k)]
      BY <1>2, <2>3 DEF Apart
    <3> QED
      BY <2>1, <2>2, <3>1 DEF PhaseInv, Attached
  <2>4. CASE \A j \in Cached : j # h => phase[j] # "created"
    <3>1. /\ embedder'.delegates[k].host = embedder.delegates[k].host
          /\ embedder'.delegates[k].engine = embedder.delegates[k].engine
          /\ embedder'.delegates[k].attached => embedder.delegates[k].attached
          /\ embedder.delegates[k].attached =>
                embedder'.delegates[k].attached \/ (h \in Cached /\ k \in Cached)
          /\ Attached(embedder', k) =>
                /\ Attached(embedder, k)
                /\ embedder'.reported[EngineOf(k)] = embedder.reported[EngineOf(k)]
      BY <1>2 DEF OthersKept, Attached
    <3>2. k \in Cached => phase[k] # "created"
      BY <1>2, <2>4
    <3> QED
      BY <2>1, <2>2, <3>1, <3>2 DEF PhaseInv
  <2> QED
    BY <2>3, <2>4
<1>3. ASSUME NEW k \in Hosts PROVE PhaseInv(embedder', k, phase'[k], k \in starting')
  <2>1. CASE k = h
    BY <1>1, <2>1
  <2>2. CASE k # h
    BY <1>2, <2>2
  <2> QED
    BY <2>1, <2>2
<1> QED
  BY <1>1, <1>3 DEF HostInv, HostTypeOK, Sound, Phases

\* A host is there, that was not.
LEMMA HostSound ==
  ASSUME NEW E, Sound(E), NEW h \in Hosts, ~E.delegates[h].attached,
         E.delegates[h].engine = "none"
  PROVE  LET F == [E EXCEPT !.delegates[h].host = TRUE] IN
         /\ Sound(F) /\ Apart(E, F, h)
         /\ F.delegates[h].host /\ ~F.delegates[h].attached /\ F.delegates[h].engine = "none"
<1> DEFINE F == [E EXCEPT !.delegates[h].host = TRUE]
<1>1. /\ DelegateMoves(E, F, h) /\ F.delegates[h].host = TRUE
      /\ F.delegates[h].engine = E.delegates[h].engine
      /\ F.delegates[h].attached = E.delegates[h].attached
  <2>1. E \in EmbedderType /\ TRUE \in BOOLEAN
    BY DEF Sound
  <2> QED
    BY <2>1, HostEffect
<1> HIDE DEF F
<1>2. Sound(F) /\ Apart(E, F, h)
  BY <1>1, DelegateSound DEF Attached
<1> QED
  BY <1>1, <1>2 DEF F

\* A new ability takes the cached engine, or awaits its own.
LEMMA AbilityOnCreateStep ==
  ASSUME HostInv, NEW h \in Hosts, AbilityOnCreate(h)
  PROVE  HostInv'
<1> DEFINE E == [embedder EXCEPT !.delegates[h].host = TRUE]
<1>1. Sound(embedder) /\ PhaseInv(embedder, h, phase[h], h \in starting) /\ phase[h] = "new"
      /\ starting \subseteq Hosts
  BY DEF HostInv, HostTypeOK, AbilityOnCreate, MayCome
<1>2. ~embedder.delegates[h].attached /\ embedder.delegates[h].engine = "none"
      /\ h \notin starting
  BY <1>1 DEF PhaseInv
<1>3. /\ Sound(E) /\ Apart(embedder, E, h)
      /\ E.delegates[h].host /\ ~E.delegates[h].attached /\ E.delegates[h].engine = "none"
  BY <1>1, <1>2, HostSound
<1>4. "created" \in Phases
  BY DEF Phases
<1>5. StartAttach(h, "created", E) /\ (h \in Cached => \A k \in Cached : phase[k] # "created")
  BY DEF AbilityOnCreate, MayCome
<1> HIDE DEF E
<1>6. CASE h \in Cached
  <2>1. embedder' = OnAttach(E, h) /\ phase' = [phase EXCEPT ![h] = "created"]
        /\ starting' = starting
    BY <1>5, <1>6 DEF StartAttach, Ends
  <2>2. /\ Sound(embedder') /\ OthersKept(E, embedder', h)
        /\ embedder'.delegates[h].attached /\ embedder'.delegates[h].host
    BY <1>3, <2>1, OnAttachSound
  <2>3. OthersKept(embedder, embedder', h)
    BY <1>3, <2>2, ApartIsKept, KeptTwice
  <2>4. PhaseInv(embedder', h, "created", h \in starting')
    BY <1>2, <2>1, <2>2 DEF PhaseInv
  <2> QED
    BY <1>1, <1>4, <1>5, <1>6, <2>1, <2>2, <2>3, <2>4, OneHostMoves
<1>7. CASE h \notin Cached
  <2>1. embedder' = E /\ phase' = [phase EXCEPT ![h] = "created"]
        /\ starting' = starting \cup {h}
    BY <1>5, <1>7 DEF StartAttach, Ends
  <2>2. PhaseInv(embedder', h, "created", h \in starting')
    BY <1>3, <1>7, <2>1 DEF PhaseInv, Attached
  <2>3. OthersKept(embedder, embedder', h)
    BY <1>3, <2>1, ApartIsKept
  <2> QED
    BY <1>1, <1>3, <1>4, <2>1, <2>2, <2>3, OneHostMoves
<1> QED
  BY <1>6, <1>7

\* The view of an ability is created.
LEMMA AbilityOnWindowStageCreateStep ==
  ASSUME HostInv, NEW h \in Hosts, AbilityOnWindowStageCreate(h)
  PROVE  HostInv'
<1> DEFINE D == Dispatch(embedder, h, "resumed")
<1>1. Sound(embedder) /\ PhaseInv(embedder, h, "created", h \in starting)
      /\ starting \subseteq Hosts
  BY DEF HostInv, HostTypeOK, AbilityOnWindowStageCreate
<1>2. Sound(D) /\ Apart(embedder, D, h) /\ D.delegates = embedder.delegates
  BY <1>1, DispatchSound
<1>3. embedder' = CreateView(D, h) /\ phase' = [phase EXCEPT ![h] = "staged"]
      /\ starting' = starting
  BY DEF AbilityOnWindowStageCreate, Ends
<1> HIDE DEF D
<1>4. D.delegates[h].engine # "none" => Attached(D, h)
  BY <1>1, <1>2 DEF PhaseInv, Attached
<1>5. Sound(embedder') /\ Apart(D, embedder', h) /\ embedder'.delegates = D.delegates
  BY <1>2, <1>3, <1>4, CreateViewSound
<1>6. Apart(embedder, embedder', h)
  BY <1>2, <1>5, ApartTwice
<1>7. PhaseInv(embedder', h, "staged", h \in starting')
  BY <1>1, <1>2, <1>3, <1>5 DEF PhaseInv
<1>8. "staged" \in Phases
  BY DEF Phases
<1> QED
  BY <1>1, <1>3, <1>5, <1>6, <1>7, <1>8, ApartIsKept, OneHostMoves

\* A new entry creates its view, and takes the cached engine or awaits its own.
LEMMA EntryAboutToAppearStep ==
  ASSUME HostInv, NEW h \in Hosts, EntryAboutToAppear(h)
  PROVE  HostInv'
<1> DEFINE E == [embedder EXCEPT !.delegates[h].host = TRUE]
           V == CreateView(E, h)
<1>1. Sound(embedder) /\ PhaseInv(embedder, h, phase[h], h \in starting) /\ phase[h] = "new"
      /\ starting \subseteq Hosts
  BY DEF HostInv, HostTypeOK, EntryAboutToAppear, MayCome
<1>2. ~embedder.delegates[h].attached /\ embedder.delegates[h].engine = "none"
      /\ h \notin starting
  BY <1>1 DEF PhaseInv
<1>3. /\ Sound(E) /\ Apart(embedder, E, h)
      /\ E.delegates[h].host /\ ~E.delegates[h].attached /\ E.delegates[h].engine = "none"
  BY <1>1, <1>2, HostSound
<1>4. StartAttach(h, "staged", V) /\ (h \in Cached => \A k \in Cached : phase[k] # "created")
  BY DEF EntryAboutToAppear, MayCome
<1> HIDE DEF E
<1>5. Sound(V) /\ Apart(E, V, h) /\ V.delegates = E.delegates
  BY <1>3, CreateViewSound
<1> HIDE DEF V
<1>6. Apart(embedder, V, h) /\ "staged" \in Phases
  BY <1>3, <1>5, ApartTwice DEF Phases
<1>7. CASE h \in Cached
  <2>1. embedder' = OnAttach(V, h) /\ phase' = [phase EXCEPT ![h] = "staged"]
        /\ starting' = starting
    BY <1>4, <1>7 DEF StartAttach, Ends
  <2>2. /\ Sound(embedder') /\ OthersKept(V, embedder', h)
        /\ embedder'.delegates[h].attached /\ embedder'.delegates[h].host
    BY <1>3, <1>5, <2>1, OnAttachSound
  <2>3. OthersKept(embedder, embedder', h)
    BY <1>6, <2>2, ApartIsKept, KeptTwice
  <2>4. PhaseInv(embedder', h, "staged", h \in starting')
    BY <1>2, <1>7, <2>1, <2>2 DEF PhaseInv
  <2> QED
    BY <1>1, <1>4, <1>6, <1>7, <2>1, <2>2, <2>3, <2>4, OneHostMoves
<1>8. CASE h \notin Cached
  <2>1. embedder' = V /\ phase' = [phase EXCEPT ![h] = "staged"]
        /\ starting' = starting \cup {h}
    BY <1>4, <1>8 DEF StartAttach, Ends
  <2>2. PhaseInv(embedder', h, "staged", h \in starting')
    BY <1>3, <1>5, <1>8, <2>1 DEF PhaseInv, Attached
  <2> QED
    BY <1>1, <1>5, <1>6, <2>1, <2>2, ApartIsKept, OneHostMoves
<1> QED
  BY <1>7, <1>8

\* The engine that was awaited is there.
LEMMA FinishAttachStep ==
  ASSUME HostInv, NEW h \in Hosts, FinishAttach(h)
  PROVE  HostInv'
<1>1. Sound(embedder) /\ PhaseInv(embedder, h, phase[h], h \in starting)
      /\ starting \subseteq Hosts /\ phase \in [Hosts -> Phases]
  BY DEF HostInv, HostTypeOK, Phases
<1>2. h \in starting /\ starting' = starting \ {h} /\ embedder' = OnAttach(embedder, h)
      /\ phase' = phase
  BY DEF FinishAttach
<1>3. ~embedder.delegates[h].attached /\ h \notin Cached /\ phase[h] # "new"
  BY <1>1, <1>2 DEF PhaseInv
<1>4. /\ Sound(embedder') /\ Apart(embedder, embedder', h)
      /\ embedder'.delegates[h].attached
      /\ embedder'.delegates[h].host <=> embedder.delegates[h].host
      /\ embedder.delegates[h].host => embedder'.reported[EngineOf(h)] = "resumed"
  BY <1>1, <1>2, <1>3, OnAttachSound
<1>5. phase' = [phase EXCEPT ![h] = phase[h]] /\ phase[h] \in Phases
  BY <1>1, <1>2
<1>6. PhaseInv(embedder', h, phase[h], h \in starting')
  BY <1>1, <1>2, <1>3, <1>4 DEF PhaseInv, Attached
<1> QED
  BY <1>1, <1>2, <1>4, <1>5, <1>6, ApartIsKept, OneHostMoves

\* The two events of the lifecycle.
LEMMA ForegroundStep ==
  ASSUME HostInv, NEW h \in Hosts, OnForeground(h) \/ OnBackground(h)
  PROVE  HostInv'
<1>1. Sound(embedder) /\ PhaseInv(embedder, h, phase[h], h \in starting)
      /\ starting \subseteq Hosts
  BY DEF HostInv, HostTypeOK
<1>2. CASE OnForeground(h)
  <2>1. embedder' = Dispatch(embedder, h, "resumed") /\ starting' = starting
        /\ phase' = [phase EXCEPT ![h] = "foreground"]
        /\ phase[h] \in {"staged", "background"}
    BY <1>2 DEF OnForeground, Ends
  <2>2. /\ Sound(embedder') /\ Apart(embedder, embedder', h)
        /\ embedder'.delegates = embedder.delegates
        /\ Attached(embedder, h) => embedder'.reported[EngineOf(h)] = "resumed"
    BY <1>1, <2>1, DispatchSound
  <2>3. PhaseInv(embedder', h, "foreground", h \in starting')
    BY <1>1, <2>1, <2>2 DEF PhaseInv, Attached
  <2>4. "foreground" \in Phases
    BY DEF Phases
  <2> QED
    BY <1>1, <2>1, <2>2, <2>3, <2>4, ApartIsKept, OneHostMoves
<1>3. CASE OnBackground(h)
  <2>1. embedder' = Dispatch(embedder, h, "paused") /\ starting' = starting
        /\ phase' = [phase EXCEPT ![h] = "background"] /\ phase[h] = "foreground"
    BY <1>3 DEF OnBackground, Ends
  <2>2. /\ Sound(embedder') /\ Apart(embedder, embedder', h)
        /\ embedder'.delegates = embedder.delegates
    BY <1>1, <2>1, DispatchSound
  <2>3. PhaseInv(embedder', h, "background", h \in starting')
    BY <1>1, <2>1, <2>2 DEF PhaseInv, Attached
  <2>4. "background" \in Phases
    BY DEF Phases
  <2> QED
    BY <1>1, <2>1, <2>2, <2>3, <2>4, ApartIsKept, OneHostMoves
<1> QED
  BY <1>2, <1>3

\* A host that goes lets go of its engine, if no other one has it, and is released.
LEMMA GoneStep ==
  ASSUME HostInv, NEW h \in Hosts, ~LateDetach(h),
         AbilityOnDestroy(h) \/ EntryAboutToDisappear(h)
  PROVE  HostInv'
<1>1. Sound(embedder) /\ PhaseInv(embedder, h, phase[h], h \in starting)
      /\ starting \subseteq Hosts /\ "gone" \in Phases
  BY DEF HostInv, HostTypeOK, Phases
<1>2. phase[h] \notin {"new", "gone"} /\ phase' = [phase EXCEPT ![h] = "gone"]
      /\ starting' = starting
  BY DEF AbilityOnDestroy, EntryAboutToDisappear, Ends
<1>3. embedder.delegates[h].host /\ (h \in starting => h \notin Cached)
  BY <1>1, <1>2 DEF PhaseInv
<1>4. PICK E : /\ embedder' = ReleaseHost(E, h) /\ Sound(E) /\ Apart(embedder, E, h)
               /\ ~E.delegates[h].attached
  <2>1. CASE AbilityOnDestroy(h) /\ ~embedder.delegates[h].attached
    <3>1. embedder' = ReleaseHost(embedder, h)
      BY <2>1 DEF AbilityOnDestroy, Ends
    <3>2. Apart(embedder, embedder, h)
      BY DEF Apart
    <3> QED
      BY <1>1, <2>1, <3>1, <3>2
  <2>2. CASE (AbilityOnDestroy(h) /\ embedder.delegates[h].attached) \/ EntryAboutToDisappear(h)
    <3> DEFINE E == OnDetach(embedder, h)
    <3>1. embedder' = ReleaseHost(E, h)
      BY <2>2 DEF AbilityOnDestroy, EntryAboutToDisappear, Ends
    <3>2. embedder.exclusive[EngineOf(h)] \in {h, "none"}
      <4>1. CASE embedder.delegates[h].attached
        BY <1>1, <1>3, <4>1 DEF Sound, EngineInv, DelegateInv, Attached
      <4>2. CASE EntryAboutToDisappear(h)
        BY <4>2 DEF LateDetach
      <4> QED
        BY <2>2, <4>1, <4>2
    <3>3. Sound(E) /\ Apart(embedder, E, h) /\ ~E.delegates[h].attached
      BY <1>1, <1>3, <3>2, OnDetachSound
    <3> QED
      BY <3>1, <3>3
  <2> QED
    BY <2>1, <2>2
<1>5. /\ Sound(embedder') /\ Apart(E, embedder', h)
      /\ ~embedder'.delegates[h].host /\ ~embedder'.delegates[h].attached
      /\ embedder'.delegates[h].engine = "none"
  BY <1>4, ReleaseSound
<1>6. Apart(embedder, embedder', h)
  BY <1>4, <1>5, ApartTwice
<1>7. PhaseInv(embedder', h, "gone", h \in starting')
  BY <1>2, <1>3, <1>5 DEF PhaseInv, Attached
<1> QED
  BY <1>1, <1>2, <1>5, <1>6, <1>7, ApartIsKept, OneHostMoves

\* The two events of the window.
LEMMA SurfaceStep ==
  ASSUME HostInv, NEW h \in Hosts, OnSurfaceCreated(h) \/ OnSurfaceDestroyed(h)
  PROVE  HostInv'
<1>1. Sound(embedder) /\ PhaseInv(embedder, h, phase[h], h \in starting)
      /\ starting \subseteq Hosts /\ phase \in [Hosts -> Phases]
  BY DEF HostInv, HostTypeOK, Phases
<1>2. phase' = phase /\ starting' = starting
  BY ZenonT(60) DEF OnSurfaceCreated, OnSurfaceDestroyed
<1>3. /\ Sound(embedder') /\ Apart(embedder, embedder', h)
      /\ embedder'.delegates = embedder.delegates /\ embedder'.reported = embedder.reported
  BY <1>1, CreatedSound, DestroyedSound
<1>4. phase' = [phase EXCEPT ![h] = phase[h]] /\ phase[h] \in Phases
  BY <1>1, <1>2
<1>5. PhaseInv(embedder', h, phase[h], h \in starting')
  BY <1>1, <1>2, <1>3 DEF PhaseInv, Attached
<1> QED
  BY ZenonT(60), <1>1, <1>2, <1>3, <1>4, <1>5, ApartIsKept, OneHostMoves

\* Every step keeps the invariant.
LEMMA HostStep ==
  ASSUME HostInv, [HostsNext]_hostVars, [\A h \in Hosts : ~LateDetach(h)]_hostVars
  PROVE  HostInv'
<1>1. CASE HostsNext /\ \A h \in Hosts : ~LateDetach(h)
  <2>1. PICK h \in Hosts :
           \/ AbilityOnCreate(h) \/ AbilityOnWindowStageCreate(h) \/ AbilityOnDestroy(h)
           \/ EntryAboutToAppear(h) \/ EntryAboutToDisappear(h)
           \/ FinishAttach(h)
           \/ OnForeground(h) \/ OnBackground(h)
           \/ OnSurfaceCreated(h) \/ OnSurfaceDestroyed(h)
    BY <1>1 DEF HostsNext
  <2>2. ~LateDetach(h)
    BY <1>1
  <2> QED
    BY <2>1, <2>2, AbilityOnCreateStep, AbilityOnWindowStageCreateStep, EntryAboutToAppearStep,
       FinishAttachStep, ForegroundStep, GoneStep, SurfaceStep
<1>2. CASE UNCHANGED hostVars
  BY <1>2 DEF hostVars, HostInv, HostTypeOK, PhaseInv, Sound, SurfaceInv, EngineInv, ViewInv,
     DelegateInv, Attached
<1> QED
  BY <1>1, <1>2

\* It holds in the beginning.
LEMMA HostInitInv ==
  ASSUME HostsInit
  PROVE  HostInv
<1>1. embedder \in EmbedderType
  BY Names DEF HostsInit, EmbedderType
<1>2. /\ \A h \in Hosts :
            /\ embedder.delegates[h] = [engine |-> "none", attached |-> FALSE, host |-> FALSE]
            /\ embedder.views[h] = [engine |-> "none", surface |-> FALSE, created |-> FALSE]
            /\ embedder.xcomponents[h] = [shell |-> "none", window |-> FALSE]
      /\ \A e \in HostEngines : embedder.renders[e] = "none" /\ embedder.exclusive[e] = "none"
      /\ embedder.shells[CachedEngine] = "alive" /\ ~embedder.misused
  BY Names DEF HostsInit
<1>3. /\ phase \in [Hosts -> Phases] /\ starting = {}
      /\ \A h \in Hosts : phase[h] = "new"
  BY DEF HostsInit, Phases
<1>4. ASSUME NEW h \in Hosts
      PROVE  ViewInv(embedder, h) /\ DelegateInv(embedder, h)
             /\ PhaseInv(embedder, h, phase[h], h \in starting)
  <2>1. /\ embedder.delegates[h].engine = "none" /\ ~embedder.delegates[h].attached
        /\ ~embedder.delegates[h].host
        /\ embedder.views[h].engine = "none" /\ ~embedder.views[h].surface
        /\ embedder.xcomponents[h].shell = "none" /\ ~embedder.xcomponents[h].window
        /\ embedder.renders[EngineOf(h)] # h /\ embedder.exclusive[EngineOf(h)] # h
    BY <1>2, Names
  <2> QED
    BY <1>3, <2>1 DEF ViewInv, DelegateInv, PhaseInv, Attached
<1>5. SurfaceInv(embedder)
  BY <1>2, <1>4, Names DEF SurfaceInv
<1>6. EngineInv(embedder)
  BY <1>2, <1>4, Names DEF EngineInv
<1> QED
  BY <1>1, <1>3, <1>4, <1>5, <1>6 DEF HostInv, HostTypeOK, Sound, Phases

\* The two properties follow from it.
LEMMA RendersFromInv ==
  ASSUME HostInv
  PROVE  ShellRendersToItsView
<1>1. embedder \in EmbedderType /\ SurfaceInv(embedder)
  BY DEF HostInv, Sound
<1>2. ASSUME NEW e \in HostEngines, NEW h \in Hosts, embedder.renders[e] = h
      PROVE  /\ embedder.shells[e] = "alive"
             /\ embedder.xcomponents[h] = [shell |-> e, window |-> TRUE]
  <2>1. e = EngineOf(h) /\ ViewInv(embedder, h)
    BY <1>1, <1>2 DEF SurfaceInv
  <2>2. embedder.shells[e] = "alive" /\ embedder.xcomponents[h].shell = e
        /\ embedder.xcomponents[h].window
    BY <1>2, <2>1 DEF ViewInv
  <2>3. embedder.xcomponents[h] \in [shell : HostEngines \cup {"none"}, window : BOOLEAN]
    BY <1>1 DEF EmbedderType
  <2> QED
    BY <2>2, <2>3
<1>3. ASSUME NEW h \in Hosts, embedder.views[h].engine # "none", embedder.views[h].surface
      PROVE  embedder.renders[embedder.views[h].engine] = h
  BY <1>1, <1>3 DEF SurfaceInv, ViewInv
<1> QED
  BY <1>1, <1>2, <1>3 DEF ShellRendersToItsView, SurfaceInv

\* That a resumed host has its engine to itself is in EngineInv and PhaseInv.
LEMMA ServesFromInv ==
  ASSUME HostInv
  PROVE  EngineServesItsHost
BY DEF HostInv, Sound, EngineInv, DelegateInv, PhaseInv, Attached, EngineServesItsHost

\* The inductive invariant.
LEMMA HostInvariant == HostsSpec /\ NoLateDetach => []HostInv
<1>1. HostsInit => HostInv
  BY HostInitInv
<1>2. HostInv /\ [HostsNext]_hostVars /\ [\A h \in Hosts : ~LateDetach(h)]_hostVars => HostInv'
  BY HostStep
<1> QED
  BY <1>1, <1>2, PTL DEF HostsSpec, NoLateDetach

(***************************************************************************)
(* No shell is called after its holder was deleted, a shell renders to a   *)
(* window that exists, of the view that has it, and a view with an engine  *)
(* and a surface is rendered to (ShellRendersToItsView), for any hosts.    *)
(***************************************************************************)
THEOREM ViewsAreRenderedTo == HostsSpec /\ NoLateDetach => []ShellRendersToItsView
<1>1. HostInv => ShellRendersToItsView
  BY RendersFromInv
<1> QED
  BY <1>1, HostInvariant, PTL

(***************************************************************************)
(* The engine of an attached host is attached to that host's ability only, *)
(* and its framework is resumed while the host is in the foreground        *)
(* (EngineServesItsHost): attachToAbility makes the host that had the      *)
(* engine let go of it before the other one is told anything.              *)
(***************************************************************************)
THEOREM EnginesServeTheirHosts == HostsSpec /\ NoLateDetach => []EngineServesItsHost
<1>1. HostInv => EngineServesItsHost
  BY ServesFromInv
<1> QED
  BY <1>1, HostInvariant, PTL

\* Every variable keeps its type (HostTypeOK, the first part of the invariant).
THEOREM EmbedderTypeCorrect == HostsSpec /\ NoLateDetach => []HostTypeOK
<1>1. HostInv => HostTypeOK
  BY DEF HostInv
<1> QED
  BY <1>1, HostInvariant, PTL

================================================================================
