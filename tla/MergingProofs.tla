---------------------------- MODULE MergingProofs ----------------------------
(***************************************************************************)
(* Safety of PlatformViews for any number of shells, any lease term, any   *)
(* trees and any depth of the pipelines.                                   *)
(*                                                                         *)
(* The inductive invariant is the conjunction of what the runs check with  *)
(* the types of the merger and of the two threads, and with two facts: a   *)
(* platform thread inside OnPlatformViewCreated or Destroyed is not in a   *)
(* Draw; and while the merger is disabled no Draw is in MergeWithLease but *)
(* one that was when it was disabled.  For one shell, and for several      *)
(* unless Teardown runs ahead of a Setup, the order of the tasks in the    *)
(* raster queue adds that a destroyed surface is gone.  The last two       *)
(* sections say what is left of the properties that the code does not      *)
(* keep: for one shell, with no Setup behind a destroyed surface, or as    *)
(* long as no two Draws of one shell overlap.                              *)
(***************************************************************************)
EXTENDS PlatformViews, TLAPS

Drawing == DoDrawPhases

ThreadTypes ==
    /\ draw \in [Threads -> [phase : {"none", "ending"} \cup Drawing,
                             shell : Shells \cup {Nobody}, tree : Trees \cup {0},
                             more : BOOLEAN, retry : BOOLEAN]]
    /\ platform \in [pc : {"idle", "creating", "destroying", "waiting"},
                     shell : Shells \cup {Nobody}, overlapped : BOOLEAN]

TreeTypes ==
    /\ pipeline \in [Shells -> Seq(Trees \cup {0})]
    /\ resubmitted \in [Shells -> Trees \cup {0}]

NotBoth == platform # Free => draw["platform"].phase = "none"

Destroying == ~enabled /\ platform.pc \in {"destroying", "waiting"}
Overlaps ==
    \A t \in Threads : Destroying /\ draw[t].phase = "merging" => platform.overlapped

\* Whoever is busy, is so for a shell.
BusyForAShell ==
    /\ platform # Free => platform.shell \in Shells
    /\ \A t \in Threads : draw[t].phase # "none" => draw[t].shell \in Shells

-----------------------------------------------------------------------------
(***************************************************************************)
(* The merger by itself.                                                   *)
(***************************************************************************)
LeaseTyped == lease \in [Shells -> (0..LeaseTerm) \cup {NoRecord}]

MergerInv == LeaseTyped /\ MergedTogether

LEMMA MergerInitOK == MergerInit => MergerInv
<1>1. SUFFICES ASSUME MergerInit PROVE MergerInv
  OBVIOUS
<1>2. LeaseTyped
  BY <1>1 DEF MergerInit, LeaseTyped
<1>3. ~IsMerged
  BY <1>1 DEF MergerInit, IsMerged, NoRecord
<1>4. MergedTogether
  BY <1>1, <1>3 DEF MergerInit, MergedTogether
<1> QED
  BY <1>2, <1>4 DEF MergerInv

LEMMA MergeKeepsInv ==
  ASSUME NEW s \in Shells, MergerInv, MergeWithLease(s)
  PROVE  MergerInv'
<1>1. CASE UNCHANGED <<lease, queuesMerged>>
  BY <1>1 DEF MergerInv, LeaseTyped, MergedTogether, IsMerged
<1>2. CASE /\ lease' = [lease EXCEPT ![s] = LeaseTerm]
           /\ queuesMerged' = TRUE
  <2>1. LeaseTyped' /\ lease'[s] # NoRecord
    BY <1>2, LeaseAssumption DEF MergerInv, LeaseTyped, NoRecord
  <2> QED
    BY <1>2, <2>1 DEF MergerInv, MergedTogether
<1> QED
  BY <1>1, <1>2 DEF MergeWithLease

LEMMA ExtendKeepsInv ==
  ASSUME NEW s \in Shells, MergerInv, IsMerged, ExtendLeaseTo(s)
  PROVE  MergerInv'
<1>1. queuesMerged' = queuesMerged /\ queuesMerged
  BY DEF ExtendLeaseTo, MergerInv, MergedTogether
<1>2. CASE lease' = lease
  BY <1>1, <1>2 DEF MergerInv, LeaseTyped, MergedTogether, IsMerged
<1>3. CASE lease' = [lease EXCEPT ![s] = LeaseTerm]
  <2>1. LeaseTyped' /\ lease'[s] # NoRecord
    BY <1>3, LeaseAssumption DEF MergerInv, LeaseTyped, NoRecord
  <2> QED
    BY <1>1, <2>1 DEF MergerInv, MergedTogether
<1> QED
  BY <1>2, <1>3 DEF ExtendLeaseTo

LEMMA DecrementKeepsInv ==
  ASSUME NEW s \in Shells, MergerInv, DecrementLease(s)
  PROVE  MergerInv' /\ (queuesMerged' => queuesMerged)
<1>1. CASE UNCHANGED <<lease, queuesMerged>>
  BY <1>1 DEF MergerInv, LeaseTyped, MergedTogether, IsMerged
<1>2. CASE /\ IsMerged /\ enabled /\ lease[s] # NoRecord
           /\ lease' = [lease EXCEPT ![s] = @ - 1]
           /\ queuesMerged' = \E r \in Shells : lease'[r] > 0
  <2>1. LeaseTyped'
    <3>1. lease[s] \in 1..LeaseTerm
      BY <1>2, LeaseAssumption
         DEF MergerInv, LeaseTyped, DecrementLease, LeaseUnderflow, NoRecord
    <3> QED
      BY <1>2, <3>1, LeaseAssumption DEF MergerInv, LeaseTyped
  <2>2. ASSUME NEW r \in Shells, lease'[r] > 0
        PROVE  lease'[r] # NoRecord
    BY <2>1, <2>2 DEF LeaseTyped, NoRecord
  <2>3. IsMerged' => queuesMerged'
    BY <1>2 DEF IsMerged
  <2> QED
    BY <1>2, <2>1, <2>2, <2>3 DEF MergerInv, MergedTogether
<1> QED
  BY <1>1, <1>2 DEF DecrementLease

LEMMA EraseKeepsInv ==
  ASSUME NEW s \in Shells, MergerInv, EraseRecord(s)
  PROVE  MergerInv' /\ (queuesMerged' => queuesMerged)
<1>1. LeaseTyped'
  BY DEF MergerInv, LeaseTyped, EraseRecord
<1>2. ASSUME NEW r \in Shells, lease'[r] > 0
      PROVE  queuesMerged'
  <2>1. lease'[r] # NoRecord /\ lease[r] > 0
    BY <1>2 DEF MergerInv, LeaseTyped, EraseRecord, NoRecord
  <2>2. queuesMerged
    BY <2>1 DEF MergerInv, MergedTogether, IsMerged
  <2> QED
    BY <2>1, <2>2 DEF EraseRecord
<1>3. MergedTogether'
  BY <1>2 DEF MergedTogether, IsMerged, EraseRecord
<1> QED
  BY <1>1, <1>3 DEF MergerInv, EraseRecord

LEMMA LeaseKeptKeepsInv ==
  ASSUME MergerInv, UNCHANGED <<lease, queuesMerged>>
  PROVE  MergerInv'
  BY DEF MergerInv, LeaseTyped, MergedTogether, IsMerged
\* Whoever the callers of the merger are: a lease and the merge of the queues
\* go together, as long as leases are extended only while the threads are merged.
THEOREM LeaseAndQueuesOfAnyCallers == MergerSpec => []MergedTogether
<1>1. MergerInv /\ [MergerNext]_mergerVars => MergerInv'
  <2>1. SUFFICES ASSUME MergerInv, [MergerNext]_mergerVars PROVE MergerInv'
    OBVIOUS
  <2>2. ASSUME NEW s \in Shells, MergeWithLease(s) PROVE MergerInv'
    BY <2>1, <2>2, MergeKeepsInv
  <2>3. ASSUME NEW s \in Shells, IsMerged, ExtendLeaseTo(s) PROVE MergerInv'
    BY <2>1, <2>3, ExtendKeepsInv
  <2>4. ASSUME NEW s \in Shells, DecrementLease(s) PROVE MergerInv'
    BY <2>1, <2>4, DecrementKeepsInv
  <2>5. ASSUME NEW s \in Shells, UnMergeNowIfLastOne(s) PROVE MergerInv'
    BY <2>1, <2>5, EraseKeepsInv, LeaseKeptKeepsInv DEF UnMergeNowIfLastOne
  <2>6. ASSUME NEW value \in BOOLEAN, SetEnabled(value) PROVE MergerInv'
    BY <2>1, <2>6, LeaseKeptKeepsInv DEF SetEnabled
  <2>7. CASE UNCHANGED mergerVars
    BY <2>1, <2>7, LeaseKeptKeepsInv DEF mergerVars
  <2> QED
    BY <2>1, <2>2, <2>3, <2>4, <2>5, <2>6, <2>7 DEF MergerNext
<1>2. MergerInv => MergedTogether
  BY DEF MergerInv
<1> QED
  BY MergerInitOK, <1>1, <1>2, PTL DEF MergerSpec
-----------------------------------------------------------------------------
(***************************************************************************)
(* The threads.                                                            *)
(***************************************************************************)
ThreadInv == /\ NotBoth
             /\ BusyForAShell
             /\ RasterizesOnOwner
             /\ Overlaps
             /\ DisabledHoldsConfiguration

IInv == MergerInv /\ ThreadTypes /\ TreeTypes /\ ThreadInv

LEMMA InitOK == Init => IInv
<1>1. SUFFICES ASSUME Init PROVE IInv
  OBVIOUS
<1>2. MergerInv
  BY <1>1, MergerInitOK DEF Init
<1>3. ThreadTypes /\ TreeTypes
  BY <1>1 DEF Init, ThreadTypes, TreeTypes, NoDraw, Free, Drawing, DoDrawPhases
<1>4. ThreadInv
  BY <1>1 DEF Init, ThreadInv, NotBoth, BusyForAShell, RasterizesOnOwner,
              DisabledHoldsConfiguration, Overlaps, Destroying, DoDrawPhases, NoDraw, Free
<1> QED
  BY <1>2, <1>3, <1>4 DEF IInv

\* A step that moves neither thread and no part of the merger.
threadVars == <<lease, enabled, queuesMerged, draw, platform>>

LEMMA ThreadsStutter ==
  ASSUME IInv, UNCHANGED threadVars
  PROVE  MergerInv' /\ ThreadTypes' /\ ThreadInv'
<1>1. MergerInv'
  BY LeaseKeptKeepsInv DEF IInv, threadVars
<1>2. ThreadTypes'
  BY DEF IInv, threadVars, ThreadTypes
<1>3. (NotBoth /\ BusyForAShell)'
  BY DEF IInv, ThreadInv, threadVars, NotBoth, BusyForAShell
<1>4. (RasterizesOnOwner /\ Overlaps /\ DisabledHoldsConfiguration)'
  BY DEF IInv, ThreadInv, threadVars, RasterizesOnOwner, Owner,
         DisabledHoldsConfiguration, Overlaps, Destroying
<1> QED
  BY <1>1, <1>2, <1>3, <1>4 DEF ThreadInv

\* A thread that is in the drawing part of a Draw is the owner, and is alone.
LEMMA DrawerIsOwner ==
  ASSUME IInv, NEW t \in Threads, draw[t].phase \in Drawing
  PROVE  t = Owner /\ \A u \in Threads : u # t => draw[u].phase \notin Drawing
BY DEF IInv, ThreadInv, RasterizesOnOwner, Drawing, DoDrawPhases

LEMMA RenderOK ==
  ASSUME IInv, NEW s \in Shells, NEW x \in Trees, Render(s, x)
  PROVE  IInv'
<1>1. UNCHANGED threadVars
  BY DEF Render, threadVars, mergerVars, platformVars
<1>2. TreeTypes'
  <2>1. Append(pipeline[s], x) \in Seq(Trees \cup {0})
    BY DEF IInv, TreeTypes
  <2> QED
    BY <2>1 DEF Render, IInv, TreeTypes
<1> QED
  BY <1>1, <1>2, ThreadsStutter DEF IInv

LEMMA SkipDrawOK ==
  ASSUME IInv, NEW t \in Threads, NEW s \in Shells, SkipDraw(t, s)
  PROVE  IInv'
<1>1. UNCHANGED threadVars /\ UNCHANGED <<pipeline, resubmitted>>
  BY DEF SkipDraw, threadVars, mergerVars, rasterVars, platformVars
<1> QED
  BY <1>1, ThreadsStutter DEF IInv, TreeTypes

LEMMA BeginDrawOK ==
  ASSUME IInv, NEW t \in Threads, NEW s \in Shells, BeginDraw(t, s)
  PROVE  IInv'
<1>1. UNCHANGED <<lease, enabled, queuesMerged, platform>>
  BY DEF BeginDraw, mergerVars, platformVars
<1>2. t = Owner /\ (t = "platform" => platform = Free)
  BY DEF BeginDraw, Takes, Idle
<1>3. /\ Head(pipeline[s]) \in Trees \cup {0}
      /\ Tail(pipeline[s]) \in Seq(Trees \cup {0})
      /\ (Len(pipeline[s]) > 1) \in BOOLEAN
  BY DEF BeginDraw, IInv, TreeTypes
<1>4. ThreadTypes' /\ TreeTypes'
  BY <1>1, <1>3 DEF BeginDraw, IInv, ThreadTypes, TreeTypes, Drawing, DoDrawPhases
<1>5. /\ draw'[t].phase = "drawing"
      /\ \A u \in Threads : u # t => draw'[u] = draw[u]
  BY DEF BeginDraw, IInv, ThreadTypes
<1>6. MergerInv'
  BY <1>1, LeaseKeptKeepsInv DEF IInv
<1>7. (NotBoth /\ BusyForAShell)'
  BY <1>1, <1>2, <1>5 DEF BeginDraw, IInv, ThreadInv, ThreadTypes, NotBoth, BusyForAShell, Threads
<1>8. RasterizesOnOwner'
  BY <1>1, <1>2, <1>5 DEF IInv, ThreadInv, RasterizesOnOwner, Owner
<1>9. (Overlaps /\ DisabledHoldsConfiguration)'
  BY <1>1, <1>5 DEF IInv, ThreadInv, DisabledHoldsConfiguration, Overlaps, Destroying
<1> QED
  BY <1>4, <1>6, <1>7, <1>8, <1>9 DEF IInv, ThreadInv

\* A thread leaves the drawing part of its Draw: no thread is in it any more,
\* and the owner may change.
LEMMA LeavesDrawing ==
  ASSUME IInv, NEW t \in Threads, draw[t].phase \in Drawing,
         draw'[t].phase = "ending", draw'[t].shell = draw[t].shell,
         \A u \in Threads : u # t => draw'[u] = draw[u],
         UNCHANGED <<enabled, platform>>,
         queuesMerged' => queuesMerged \/ draw[t].phase = "merging"
  PROVE  ThreadInv'
<1>1. \A u \in Threads : draw'[u].phase \notin Drawing
  BY DrawerIsOwner DEF Drawing, DoDrawPhases
<1>2. RasterizesOnOwner'
  BY <1>1 DEF RasterizesOnOwner, Drawing, DoDrawPhases
<1>3. (NotBoth /\ BusyForAShell)'
  BY DEF IInv, ThreadInv, NotBoth, BusyForAShell, Drawing, DoDrawPhases, Threads
<1>4. (Overlaps /\ DisabledHoldsConfiguration)'
  BY DEF IInv, ThreadInv, DisabledHoldsConfiguration, Overlaps, Destroying
<1> QED
  BY <1>2, <1>3, <1>4 DEF ThreadInv

Draws == [phase : {"none", "ending"} \cup Drawing,
          shell : Shells \cup {Nobody}, tree : Trees \cup {0},
          more : BOOLEAN, retry : BOOLEAN]

LEMMA DrawStaysTyped ==
  ASSUME ThreadTypes, NEW t \in Threads, UNCHANGED platform,
         NEW phase \in {"none", "ending"} \cup Drawing, NEW flag \in BOOLEAN,
         \/ draw' = [draw EXCEPT ![t].phase = phase]
         \/ draw' = [draw EXCEPT ![t].phase = phase, ![t].retry = flag]
         \/ draw' = [draw EXCEPT ![t].phase = phase, ![t].more = flag]
  PROVE  ThreadTypes'
<1> DEFINE moved == [draw[t] EXCEPT !.phase = phase]
<1>1. draw \in [Threads -> Draws]
  BY DEF ThreadTypes, Draws
<1>2. moved \in Draws
  BY <1>1 DEF Draws
<1>3. [moved EXCEPT !.retry = flag] \in Draws /\ [moved EXCEPT !.more = flag] \in Draws
  BY <1>2 DEF Draws
<1>4. \/ draw' = [draw EXCEPT ![t] = moved]
      \/ draw' = [draw EXCEPT ![t] = [moved EXCEPT !.retry = flag]]
      \/ draw' = [draw EXCEPT ![t] = [moved EXCEPT !.more = flag]]
  BY <1>1
<1>5. draw' \in [Threads -> Draws]
  <2> HIDE DEF moved
  <2> QED
    BY <1>1, <1>2, <1>3, <1>4
<1> QED
  BY <1>5 DEF ThreadTypes, Draws

LEMMA FailDrawOK ==
  ASSUME IInv, NEW t \in Threads, FailDraw(t)
  PROVE  IInv'
<1>1. UNCHANGED <<lease, enabled, queuesMerged, platform, pipeline, resubmitted>>
  BY DEF Inside, FailDraw, mergerVars, platformVars
<1>2. ThreadTypes' /\ TreeTypes'
  <2>1. draw' = [draw EXCEPT ![t].phase = "ending"]
    BY DEF FailDraw
  <2> QED
    BY <1>1, <2>1, DrawStaysTyped DEF IInv, TreeTypes
<1>3. /\ draw[t].phase \in Drawing /\ draw'[t].phase = "ending"
      /\ draw'[t].shell = draw[t].shell
      /\ \A u \in Threads : u # t => draw'[u] = draw[u]
  BY DEF Inside, FailDraw, IInv, ThreadTypes, Drawing, DoDrawPhases
<1>4. ThreadInv'
  BY <1>1, <1>3, LeavesDrawing
<1>5. MergerInv'
  BY <1>1, LeaseKeptKeepsInv DEF IInv
<1> QED
  BY <1>2, <1>4, <1>5 DEF IInv

\* The Draw of one thread moves on.
\* A thread goes from one phase of the drawing part to another, on its own thread.
LEMMA StaysDrawing ==
  ASSUME IInv, NEW t \in Threads, draw[t].phase \in Drawing,
         draw'[t].phase \in Drawing, draw'[t].shell = draw[t].shell,
         \A u \in Threads : u # t => draw'[u] = draw[u],
         UNCHANGED <<enabled, queuesMerged, platform>>,
         draw'[t].phase = "merging" => enabled,
         draw'[t].phase = "submitting" /\ draw'[t].tree \in ViewTrees => t = "platform"
  PROVE  ThreadInv'
<1>1. draw[t].shell \in Shells /\ t = Owner
  BY DrawerIsOwner DEF IInv, ThreadInv, BusyForAShell, Drawing, DoDrawPhases
<1>2. NotBoth'
  BY DEF IInv, ThreadInv, NotBoth, Drawing, DoDrawPhases, Threads
<1>3. BusyForAShell'
  BY <1>1 DEF IInv, ThreadInv, BusyForAShell
<1>4. RasterizesOnOwner'
  BY <1>1 DEF IInv, ThreadInv, RasterizesOnOwner, Owner
<1>5. Overlaps'
  BY DEF IInv, ThreadInv, Overlaps, Destroying
<1>6. DisabledHoldsConfiguration'
  BY DEF IInv, ThreadInv, DisabledHoldsConfiguration
<1> QED
  BY <1>2, <1>3, <1>4, <1>5, <1>6 DEF ThreadInv

LEMMA BeginMergeOK ==
  ASSUME IInv, NEW t \in Threads, BeginMerge(t)
  PROVE  IInv'
<1>1. /\ draw[t].phase = "drawing" /\ draw'[t].phase = "merging"
      /\ draw'[t].shell = draw[t].shell
      /\ \A u \in Threads : u # t => draw'[u] = draw[u]
  BY DEF Inside, BeginMerge, Drawable, IInv, ThreadTypes
<1>2. /\ UNCHANGED <<lease, enabled, queuesMerged, platform, pipeline, resubmitted>>
      /\ enabled
  BY DEF BeginMerge, MayMerge, mergerVars, platformVars
<1>3. ThreadInv'
  BY <1>1, <1>2, StaysDrawing DEF Drawing, DoDrawPhases
<1>4. ThreadTypes' /\ TreeTypes'
  <2>1. draw' = [draw EXCEPT ![t].phase = "merging"]
    BY DEF BeginMerge
  <2> QED
    BY <1>2, <2>1, DrawStaysTyped DEF IInv, TreeTypes, Drawing, DoDrawPhases
<1>5. MergerInv'
  BY <1>2, LeaseKeptKeepsInv DEF IInv
<1> QED
  BY <1>3, <1>4, <1>5 DEF IInv

LEMMA SkipAndRetryOK ==
  ASSUME IInv, NEW t \in Threads, SkipAndRetry(t)
  PROVE  IInv'
<1>1. /\ draw[t].phase \in Drawing /\ draw'[t].phase = "ending"
      /\ draw'[t].shell = draw[t].shell
      /\ \A u \in Threads : u # t => draw'[u] = draw[u]
      /\ draw[t].tree \in Trees \cup {0}
  BY DEF Inside, SkipAndRetry, Drawable, IInv, ThreadTypes, Drawing, DoDrawPhases
<1>2. draw[t].shell \in Shells
  BY <1>1 DEF IInv, ThreadInv, BusyForAShell, Drawing, DoDrawPhases
<1>3. UNCHANGED <<enabled, platform, pipeline>>
  BY DEF SkipAndRetry, MergeWithLease, mergerVars, platformVars
<1>4. MergerInv' /\ (queuesMerged' => queuesMerged \/ draw[t].phase = "merging")
  <2>1. CASE Inside(t, "merging") /\ MergeWithLease(draw[t].shell)
    BY <1>2, <2>1, MergeKeepsInv DEF IInv, Inside
  <2>2. CASE UNCHANGED mergerVars
    BY <2>2, LeaseKeptKeepsInv DEF IInv, mergerVars
  <2> QED
    BY <2>1, <2>2 DEF SkipAndRetry
<1>5. ThreadInv'
  BY <1>1, <1>3, <1>4, LeavesDrawing
<1>6. ThreadTypes'
  BY <1>3, DrawStaysTyped DEF SkipAndRetry, IInv
<1>7. TreeTypes'
  BY <1>1, <1>3 DEF SkipAndRetry, IInv, TreeTypes
<1> QED
  BY <1>4, <1>5, <1>6, <1>7 DEF IInv

LEMMA PrerollOK ==
  ASSUME IInv, NEW t \in Threads, Preroll(t)
  PROVE  IInv'
<1>1. /\ draw[t].phase = "drawing" /\ draw'[t].phase = "submitting"
      /\ draw'[t].shell = draw[t].shell /\ draw'[t].tree = draw[t].tree
      /\ \A u \in Threads : u # t => draw'[u] = draw[u]
  BY DEF Inside, Preroll, Drawable, IInv, ThreadTypes
<1>2. draw[t].shell \in Shells /\ t = Owner
  BY <1>1, DrawerIsOwner DEF IInv, ThreadInv, BusyForAShell, Drawing, DoDrawPhases
<1>3. UNCHANGED <<enabled, queuesMerged, platform, pipeline, resubmitted>>
  BY DEF Inside, Preroll, ExtendLeaseTo, mergerVars, platformVars
<1>4. MergerInv'
  <2>1. CASE draw[t].tree \in ViewTrees
    BY <1>2, <2>1, ExtendKeepsInv DEF Inside, Preroll, NeedsMerge, IInv
  <2>2. CASE draw[t].tree \notin ViewTrees
    BY SMTT(30), <2>2, LeaseKeptKeepsInv DEF Inside, Preroll, mergerVars, IInv
  <2> QED
    BY <2>1, <2>2
<1>5. ThreadTypes' /\ TreeTypes'
  <2>1. PICK retry \in BOOLEAN :
           draw' = [draw EXCEPT ![t].phase = "submitting", ![t].retry = retry]
    BY Zenon DEF Inside, Preroll
  <2> QED
    BY <1>3, <2>1, DrawStaysTyped DEF IInv, TreeTypes, Drawing, DoDrawPhases
<1>6. draw[t].tree \in ViewTrees => t = "platform"
  BY <1>2 DEF Inside, Preroll, NeedsMerge, IInv, MergerInv, MergedTogether, Owner
<1>7. ThreadInv'
  BY <1>1, <1>3, <1>6, StaysDrawing DEF Drawing, DoDrawPhases
<1> QED
  BY <1>4, <1>5, <1>7 DEF IInv

LEMMA ResubmitOK ==
  ASSUME IInv, NEW t \in Threads, Resubmit(t)
  PROVE  IInv'
<1>1. /\ draw[t].phase \in Drawing /\ draw'[t].phase = "ending"
      /\ draw'[t].shell = draw[t].shell
      /\ \A u \in Threads : u # t => draw'[u] = draw[u]
      /\ draw[t].tree \in Trees \cup {0}
  BY DEF Inside, Resubmit, IInv, ThreadTypes, Drawing, DoDrawPhases
<1>2. UNCHANGED <<lease, enabled, queuesMerged, platform, pipeline>>
  BY DEF Inside, Resubmit, mergerVars, platformVars
<1>3. ThreadTypes'
  <2>1. draw' = [draw EXCEPT ![t].phase = "ending"]
    BY DEF Resubmit
  <2> QED
    BY <1>2, <2>1, DrawStaysTyped DEF IInv
<1>4. TreeTypes'
  BY <1>1, <1>2 DEF Inside, Resubmit, IInv, TreeTypes
<1>5. ThreadInv' /\ MergerInv'
  BY <1>1, <1>2, LeavesDrawing, LeaseKeptKeepsInv DEF IInv
<1> QED
  BY <1>3, <1>4, <1>5 DEF IInv

LEMMA SubmitOK ==
  ASSUME IInv, NEW t \in Threads, Submit(t)
  PROVE  IInv'
<1>1. /\ draw[t].phase \in Drawing /\ draw'[t].phase = "ending"
      /\ draw'[t].shell = draw[t].shell
      /\ \A u \in Threads : u # t => draw'[u] = draw[u]
  BY DEF Inside, Submit, IInv, ThreadTypes, Drawing, DoDrawPhases
<1>2. draw[t].shell \in Shells
  BY <1>1 DEF IInv, ThreadInv, BusyForAShell, Drawing, DoDrawPhases
<1>3. /\ UNCHANGED <<enabled, platform, pipeline, resubmitted>>
      /\ DecrementLease(draw[t].shell)
  BY DEF Inside, Submit, DecrementLease, platformVars
<1>4. MergerInv' /\ (queuesMerged' => queuesMerged)
  BY <1>2, <1>3, DecrementKeepsInv DEF IInv
<1>5. ThreadTypes'
  <2>1. PICK more \in BOOLEAN :
           draw' = [draw EXCEPT ![t].phase = "ending", ![t].more = more]
    BY Zenon DEF Inside, Submit
  <2> QED
    BY <1>3, <2>1, DrawStaysTyped DEF IInv
<1>6. TreeTypes' /\ ThreadInv'
  BY <1>1, <1>3, <1>4, LeavesDrawing DEF IInv, TreeTypes
<1> QED
  BY <1>4, <1>5, <1>6 DEF IInv

LEMMA SubmitAbortsOK ==
  ASSUME IInv, NEW t \in Threads, SubmitAborts(t)
  PROVE  IInv'
<1>1. UNCHANGED threadVars /\ UNCHANGED <<pipeline, resubmitted>>
  BY DEF Inside, SubmitAborts, threadVars, mergerVars, rasterVars, platformVars
<1> QED
  BY <1>1, ThreadsStutter DEF IInv, TreeTypes

LEMMA EndDrawOK ==
  ASSUME IInv, NEW t \in Threads, EndDraw(t)
  PROVE  IInv'
<1>1. /\ draw[t].phase = "ending" /\ draw'[t].phase = "none"
      /\ \A u \in Threads : u # t => draw'[u] = draw[u]
  BY DEF Inside, EndDraw, IInv, ThreadTypes, NoDraw
<1>2. draw[t].shell \in Shells
  BY <1>1 DEF IInv, ThreadInv, BusyForAShell
<1>3. UNCHANGED <<lease, enabled, queuesMerged, platform>>
  BY DEF Inside, EndDraw, mergerVars, platformVars
<1>4. ThreadTypes'
  BY <1>3 DEF Inside, EndDraw, NoDraw, IInv, ThreadTypes
<1>5. TreeTypes'
  <2>1. <<resubmitted[draw[t].shell]>> \in Seq(Trees \cup {0})
    BY <1>2 DEF IInv, TreeTypes
  <2> QED
    BY <2>1 DEF Inside, EndDraw, IInv, TreeTypes
<1>6. MergerInv'
  BY <1>3, LeaseKeptKeepsInv DEF IInv
<1>7. (NotBoth /\ BusyForAShell)'
  BY <1>1, <1>3 DEF IInv, ThreadInv, NotBoth, BusyForAShell, Threads
<1>8. (RasterizesOnOwner /\ Overlaps /\ DisabledHoldsConfiguration)'
  BY <1>1, <1>3 DEF IInv, ThreadInv, RasterizesOnOwner, Owner, DisabledHoldsConfiguration,
                    Overlaps, Destroying, DoDrawPhases
<1> QED
  BY <1>4, <1>5, <1>6, <1>7, <1>8 DEF IInv, ThreadInv

-----------------------------------------------------------------------------
(***************************************************************************)
(* The surface.                                                            *)
(***************************************************************************)
LEMMA TeardownKeepsInv ==
  ASSUME IInv, NEW s \in Shells, Teardown(s)
  PROVE  MergerInv' /\ enabled' /\ (queuesMerged' => queuesMerged)
<1>1. CASE IsMerged
  BY <1>1, EraseKeepsInv DEF Teardown, IInv
<1>2. CASE ~IsMerged
  BY <1>2, LeaseKeptKeepsInv DEF Teardown, IInv
<1> QED
  BY <1>1, <1>2 DEF Teardown

\* Whoever takes a task is the owner, and no thread is drawing.
LEMMA NobodyDraws ==
  ASSUME IInv, NEW t \in Threads, t = Owner, draw[t].phase = "none"
  PROVE  \A u \in Threads : draw[u].phase \notin Drawing
BY DrawerIsOwner DEF Drawing, DoDrawPhases

LEMMA DisableForCreateOK ==
  ASSUME IInv, NEW s \in Shells, DisableForCreate(s)
  PROVE  IInv'
<1>1. /\ UNCHANGED <<lease, queuesMerged, draw, pipeline, resubmitted>>
      /\ platform' = [pc |-> "creating", shell |-> s, overlapped |-> Merging # {}]
      /\ draw["platform"].phase = "none"
  BY DEF DisableForCreate, DisableMerger, SetEnabled, rasterVars, Idle, NoDraw
<1>2. MergerInv'
  BY <1>1, LeaseKeptKeepsInv DEF IInv
<1>3. ThreadTypes' /\ TreeTypes'
  BY <1>1 DEF IInv, ThreadTypes, TreeTypes
<1>4. ThreadInv'
  BY <1>1 DEF IInv, ThreadInv, NotBoth, BusyForAShell, RasterizesOnOwner, Owner,
              DisabledHoldsConfiguration, Overlaps, Destroying
<1> QED
  BY <1>2, <1>3, <1>4 DEF IInv

LEMMA DisableForDestroyOK ==
  ASSUME IInv, NEW s \in Shells, DisableForDestroy(s)
  PROVE  IInv'
<1>1. /\ UNCHANGED <<lease, queuesMerged, draw, pipeline, resubmitted>>
      /\ platform' = [pc |-> "destroying", shell |-> s, overlapped |-> Merging # {}]
      /\ draw["platform"].phase = "none"
  BY DEF DisableForDestroy, DisableMerger, SetEnabled, rasterVars, Idle, NoDraw
<1>2. MergerInv'
  BY <1>1, LeaseKeptKeepsInv DEF IInv
<1>3. ThreadTypes' /\ TreeTypes'
  BY <1>1 DEF IInv, ThreadTypes, TreeTypes
<1>4. ThreadInv'
  BY <1>1 DEF IInv, ThreadInv, NotBoth, BusyForAShell, RasterizesOnOwner, Owner,
              DisabledHoldsConfiguration, Overlaps, Destroying, Merging
<1> QED
  BY <1>2, <1>3, <1>4 DEF IInv

LEMMA OnPlatformViewCreatedOK ==
  ASSUME IInv, OnPlatformViewCreated
  PROVE  IInv'
<1>1. /\ UNCHANGED <<lease, queuesMerged, draw, pipeline, resubmitted>>
      /\ platform' = Free
  BY DEF OnPlatformViewCreated, Setup, SetEnabled, mergerVars, rasterVars
<1>2. MergerInv'
  BY <1>1, LeaseKeptKeepsInv DEF IInv
<1>3. ThreadTypes' /\ TreeTypes'
  BY <1>1 DEF IInv, ThreadTypes, TreeTypes, Free
<1>4. ThreadInv'
  BY <1>1 DEF IInv, ThreadInv, NotBoth, BusyForAShell, RasterizesOnOwner, Owner,
              DisabledHoldsConfiguration, Overlaps, Destroying, Free
<1> QED
  BY <1>2, <1>3, <1>4 DEF IInv

LEMMA OnPlatformViewDestroyedOK ==
  ASSUME IInv, OnPlatformViewDestroyed
  PROVE  IInv'
<1>1. UNCHANGED <<draw, pipeline, resubmitted>> /\ platform.pc = "destroying"
  BY DEF OnPlatformViewDestroyed, rasterVars
<1>2. platform.shell \in Shells /\ draw["platform"].phase = "none"
  BY <1>1 DEF IInv, ThreadInv, NotBoth, BusyForAShell, Free
<1>3. CASE queuesMerged
  <2>1. Teardown(platform.shell) /\ platform' = Free
    BY <1>3 DEF OnPlatformViewDestroyed
  <2>2. MergerInv' /\ enabled'
    BY <1>2, <2>1, TeardownKeepsInv
  <2>3. \A u \in Threads : draw[u].phase \notin Drawing
    BY <1>2, <1>3, NobodyDraws DEF Owner, Threads
  <2>4. ThreadTypes' /\ TreeTypes'
    BY <1>1, <2>1 DEF IInv, ThreadTypes, TreeTypes, Free
  <2>5. ThreadInv'
    BY <1>1, <2>1, <2>3 DEF IInv, ThreadInv, NotBoth, BusyForAShell, RasterizesOnOwner,
       DisabledHoldsConfiguration, Overlaps, Destroying, Free, Drawing, DoDrawPhases
  <2> QED
    BY <2>2, <2>4, <2>5 DEF IInv
<1>4. CASE ~queuesMerged
  <2>1. /\ UNCHANGED <<lease, enabled, queuesMerged>>
        /\ platform' = [platform EXCEPT !.pc = "waiting"]
    BY <1>4 DEF OnPlatformViewDestroyed, mergerVars
  <2>2. MergerInv'
    BY <2>1, LeaseKeptKeepsInv DEF IInv
  <2>3. ThreadTypes' /\ TreeTypes'
    BY <1>1, <2>1 DEF IInv, ThreadTypes, TreeTypes
  <2>4. platform'.shell = platform.shell
    BY <2>1 DEF IInv, ThreadTypes
  <2>5. ThreadInv'
    BY <1>1, <1>2, <1>4, <2>1, <2>4 DEF IInv, ThreadInv, NotBoth, BusyForAShell,
       RasterizesOnOwner, Owner, DisabledHoldsConfiguration, Overlaps, Destroying
  <2> QED
    BY <2>2, <2>3, <2>5 DEF IInv
<1> QED
  BY <1>3, <1>4

LEMMA RunSetupOK ==
  ASSUME IInv, NEW t \in Threads, NEW s \in Shells, RunSetup(t, s)
  PROVE  IInv'
<1>1. /\ UNCHANGED <<lease, queuesMerged, draw, platform, pipeline, resubmitted>>
      /\ enabled' = TRUE
  BY DEF RunSetup, Setup, SetEnabled, rasterVars, platformVars
<1>2. MergerInv'
  BY <1>1, LeaseKeptKeepsInv DEF IInv
<1>3. ThreadTypes' /\ TreeTypes'
  BY <1>1 DEF IInv, ThreadTypes, TreeTypes
<1>4. ThreadInv'
  BY <1>1 DEF IInv, ThreadInv, NotBoth, BusyForAShell, RasterizesOnOwner, Owner,
              DisabledHoldsConfiguration, Overlaps, Destroying
<1> QED
  BY <1>2, <1>3, <1>4 DEF IInv

LEMMA RunTeardownOK ==
  ASSUME IInv, NEW t \in Threads, NEW s \in Shells, RunTeardown(t, s)
  PROVE  IInv'
<1>1. /\ UNCHANGED <<draw, pipeline, resubmitted>> /\ platform' = Free /\ Teardown(s)
  BY DEF RunTeardown, rasterVars
<1>2. MergerInv'
  BY <1>1, TeardownKeepsInv
<1>3. \A u \in Threads : draw[u].phase \notin Drawing
  BY NobodyDraws DEF RunTeardown, Takes, Idle, NoDraw
<1>4. ThreadTypes' /\ TreeTypes'
  BY <1>1 DEF IInv, ThreadTypes, TreeTypes, Free
<1>5. ThreadInv'
  BY <1>1, <1>3 DEF IInv, ThreadInv, NotBoth, BusyForAShell, RasterizesOnOwner,
     DisabledHoldsConfiguration, Overlaps, Destroying, Free, Drawing, DoDrawPhases
<1> QED
  BY <1>2, <1>4, <1>5 DEF IInv

-----------------------------------------------------------------------------
LEMMA NextOK == IInv /\ [Next]_vars => IInv'
<1>1. SUFFICES ASSUME IInv, [Next]_vars PROVE IInv'
  OBVIOUS
<1>2. ASSUME NEW s \in Shells, NEW x \in Trees, Render(s, x) PROVE IInv'
  BY <1>1, <1>2, RenderOK
<1>3. ASSUME NEW t \in Threads, RunTask(t) PROVE IInv'
  BY <1>1, <1>3, SkipDrawOK, BeginDrawOK, RunSetupOK, RunTeardownOK DEF RunTask
<1>4. ASSUME NEW t \in Threads, ContinueDraw(t) PROVE IInv'
  BY <1>1, <1>4, FailDrawOK, BeginMergeOK, SkipAndRetryOK, PrerollOK, ResubmitOK, SubmitOK,
     SubmitAbortsOK, EndDrawOK DEF ContinueDraw
<1>5. ASSUME NEW s \in Shells, DisableForCreate(s) \/ DisableForDestroy(s) PROVE IInv'
  BY <1>1, <1>5, DisableForCreateOK, DisableForDestroyOK
<1>6. CASE ContinuePlatform
  BY <1>1, <1>6, OnPlatformViewCreatedOK, OnPlatformViewDestroyedOK DEF ContinuePlatform
<1>7. CASE UNCHANGED vars
  <2>1. UNCHANGED threadVars /\ UNCHANGED <<pipeline, resubmitted>>
    BY <1>7 DEF vars, threadVars, mergerVars, rasterVars, platformVars
  <2> QED
    BY <1>1, <2>1, ThreadsStutter DEF IInv, TreeTypes
<1> QED
  BY <1>1, <1>2, <1>3, <1>4, <1>5, <1>6, <1>7 DEF Next, ThreadStep

LEMMA Invariance == Spec => []IInv
  BY InitOK, NextOK, PTL DEF Spec

\* The threads draw in turn: only the owner of the raster queue is between
\* popping a tree and the end of DoDraw, and platform views are submitted on
\* the platform thread, for any number of shells sharing the two threads.
THEOREM DrawingIsTheOwners == Spec => []RasterizesOnOwner
  BY Invariance, PTL DEF IInv, ThreadInv

\* A lease and the merge of the queues go together, for any number of shells.
THEOREM LeaseAndQueues == Spec => []MergedTogether
  BY Invariance, PTL DEF IInv, MergerInv

\* Disabling the merger does hold the configuration, as long as it lasts.
THEOREM DisableHolds == Spec => []DisabledHoldsConfiguration
  BY Invariance, PTL DEF IInv, ThreadInv
-----------------------------------------------------------------------------
(***************************************************************************)
(* The surface of one shell that does not share its threads: what the      *)
(* tasks in the raster queue, the merger and the platform thread say of    *)
(* each other.                                                             *)
(***************************************************************************)
Tasks == [kind : {"Draw", "Setup", "Teardown"}, shell : Shells]
Has(q, kind) == \E i \in 1..Len(q) : q[i].kind = kind

\* A setup is queued once, a teardown is queued once, and behind the setup.
Ordered(q) ==
    \A i, j \in 1..Len(q) :
       /\ q[i].kind = q[j].kind /\ q[i].kind # "Draw" => i = j
       /\ q[i].kind = "Setup" /\ q[j].kind = "Teardown" => i < j

QueueTypes == /\ rasterTasks \in Seq(Tasks)
              /\ surface \in [Shells -> BOOLEAN]
              /\ view \in [Shells -> BOOLEAN]

\* From the call of OnPlatformViewCreated to its raster task the merger is
\* disabled, and no frame is past its look at it.
SetupHolds ==
    /\ Has(rasterTasks, "Setup") \/ platform.pc = "creating" => ~enabled /\ Merging = {}
    /\ Has(rasterTasks, "Setup") => ~queuesMerged /\ platform.pc # "creating"

TeardownAwaited == Has(rasterTasks, "Teardown") => platform.pc = "waiting"

SurfaceFollowsView ==
    \A s \in Shells :
       /\ platform.pc = "creating" => view[s]
       /\ platform.pc \in {"destroying", "waiting"} => ~view[s]
       /\ platform.pc = "idle" /\ ~view[s] =>
             ~surface[s] /\ ~Has(rasterTasks, "Setup")

SurfaceInv == /\ QueueTypes /\ Ordered(rasterTasks)
              /\ SetupHolds /\ TeardownAwaited /\ SurfaceFollowsView

\* What is left when the first task is taken.
LEMMA TakenTask ==
  ASSUME NEW q \in Seq(Tasks), q # <<>>, Ordered(q)
  PROVE  /\ Tail(q) \in Seq(Tasks) /\ Ordered(Tail(q))
         /\ \A kind : Has(Tail(q), kind) => Has(q, kind)
         /\ Has(q, Head(q).kind)
         /\ Head(q).kind # "Draw" => ~Has(Tail(q), Head(q).kind)
         /\ Head(q).kind = "Teardown" => ~Has(q, "Setup")
<1>1. /\ Tail(q) \in Seq(Tasks) /\ Len(q) \in Nat \ {0} /\ Len(Tail(q)) = Len(q) - 1
      /\ Head(q) = q[1]
      /\ \A i \in 1..Len(Tail(q)) : Tail(q)[i] = q[i + 1] /\ i + 1 \in 2..Len(q)
  OBVIOUS
<1>2. Ordered(Tail(q))
  BY <1>1 DEF Ordered
<1>3. \A kind : Has(Tail(q), kind) => Has(q, kind)
  BY <1>1 DEF Has
<1>4. Has(q, Head(q).kind)
  BY <1>1 DEF Has
<1>5. Head(q).kind # "Draw" => ~Has(Tail(q), Head(q).kind)
  BY <1>1 DEF Has, Ordered
<1>6. Head(q).kind = "Teardown" => ~Has(q, "Setup")
  BY <1>1 DEF Has, Ordered
<1> QED
  BY <1>1, <1>2, <1>3, <1>4, <1>5, <1>6

\* What is there when a task is posted.
LEMMA PostedTask ==
  ASSUME NEW q \in Seq(Tasks), NEW task \in Tasks, Ordered(q),
         task.kind # "Draw" => ~Has(q, task.kind),
         task.kind = "Setup" => ~Has(q, "Teardown")
  PROVE  /\ Append(q, task) \in Seq(Tasks) /\ Ordered(Append(q, task))
         /\ \A kind : Has(Append(q, task), kind) <=> Has(q, kind) \/ task.kind = kind
<1>1. /\ Append(q, task) \in Seq(Tasks) /\ Len(q) \in Nat
      /\ Len(Append(q, task)) = Len(q) + 1
      /\ Append(q, task)[Len(q) + 1] = task
      /\ \A i \in 1..Len(q) : Append(q, task)[i] = q[i]
  OBVIOUS
<1>2. \A kind : Has(Append(q, task), kind) <=> Has(q, kind) \/ task.kind = kind
  BY <1>1 DEF Has
<1>3. Ordered(Append(q, task))
  BY <1>1 DEF Ordered, Has
<1> QED
  BY <1>1, <1>2, <1>3

\* A step of a frame or of the framework: it takes or posts Draws only, leaves
\* the surface, the view and the platform thread alone, and merges the threads
\* only from within MergeWithLease.
LEMMA FrameKeepsSurface ==
  ASSUME SurfaceInv, UNCHANGED <<surface, view, platform, enabled>>,
         \/ UNCHANGED rasterTasks
         \/ rasterTasks # <<>> /\ Head(rasterTasks).kind = "Draw"
               /\ rasterTasks' = Tail(rasterTasks)
         \/ \E s \in Shells : rasterTasks' = Append(rasterTasks, Task("Draw", s)),
         Merging' # {} => Merging # {} \/ enabled,
         queuesMerged' => queuesMerged \/ Merging # {}
  PROVE  SurfaceInv'
<1>1. /\ rasterTasks' \in Seq(Tasks) /\ Ordered(rasterTasks')
      /\ Has(rasterTasks', "Setup") => Has(rasterTasks, "Setup")
      /\ Has(rasterTasks', "Teardown") => Has(rasterTasks, "Teardown")
  <2>1. CASE UNCHANGED rasterTasks
    BY <2>1 DEF SurfaceInv, QueueTypes
  <2>2. CASE rasterTasks # <<>> /\ rasterTasks' = Tail(rasterTasks)
    BY <2>2, TakenTask DEF SurfaceInv, QueueTypes
  <2>3. ASSUME NEW s \in Shells, rasterTasks' = Append(rasterTasks, Task("Draw", s))
        PROVE  /\ rasterTasks' \in Seq(Tasks) /\ Ordered(rasterTasks')
               /\ Has(rasterTasks', "Setup") => Has(rasterTasks, "Setup")
               /\ Has(rasterTasks', "Teardown") => Has(rasterTasks, "Teardown")
    <3>1. Task("Draw", s) \in Tasks /\ Task("Draw", s).kind = "Draw"
      BY DEF Task, Tasks
    <3> QED
      BY <2>3, <3>1, PostedTask DEF SurfaceInv, QueueTypes
  <2> QED
    BY <2>1, <2>2, <2>3
<1>2. QueueTypes' /\ Ordered(rasterTasks)'
  BY <1>1 DEF SurfaceInv, QueueTypes
<1>3. SetupHolds'
  BY <1>1 DEF SurfaceInv, SetupHolds
<1>4. (TeardownAwaited /\ SurfaceFollowsView)'
  BY <1>1 DEF SurfaceInv, TeardownAwaited, SurfaceFollowsView
<1> QED
  BY <1>2, <1>3, <1>4 DEF SurfaceInv

\* The steps of a frame, and of the framework, are such steps.
LEMMA FrameSteps ==
  ASSUME IInv, SurfaceInv,
         \/ \E s \in Shells, x \in Trees : Render(s, x)
         \/ \E t \in Threads, s \in Shells : SkipDraw(t, s) \/ BeginDraw(t, s)
         \/ \E t \in Threads : ContinueDraw(t)
         \/ UNCHANGED vars
  PROVE  SurfaceInv'
<1> DEFINE Posted == \E s \in Shells : rasterTasks' = Append(rasterTasks, Task("Draw", s))
           Taken == /\ rasterTasks # <<>> /\ Head(rasterTasks).kind = "Draw"
                    /\ rasterTasks' = Tail(rasterTasks)
           Merges(t) == /\ draw'[t].phase # "merging" \/ enabled
                        /\ \A u \in Threads : u # t => draw'[u] = draw[u]
<1>1. ASSUME NEW t \in Threads, Merges(t), UNCHANGED <<surface, view, platform, enabled>>,
             UNCHANGED rasterTasks \/ Taken \/ Posted,
             queuesMerged' => queuesMerged \/ draw[t].phase = "merging"
      PROVE  SurfaceInv'
  <2>1. Merging' # {} => Merging # {} \/ enabled
    BY <1>1 DEF Merging
  <2>2. queuesMerged' => queuesMerged \/ Merging # {}
    BY <1>1 DEF Merging
  <2> QED
    BY <1>1, <2>1, <2>2, FrameKeepsSurface
<1>2. ASSUME NEW s \in Shells, NEW x \in Trees, Render(s, x) PROVE SurfaceInv'
  <2>1. /\ UNCHANGED <<surface, view, platform, enabled, queuesMerged, draw>>
        /\ UNCHANGED rasterTasks \/ Posted
    BY <1>2 DEF Render, mergerVars, platformVars
  <2> QED
    BY <2>1, FrameKeepsSurface DEF Merging
<1>3. ASSUME NEW t \in Threads, NEW s \in Shells, SkipDraw(t, s) PROVE SurfaceInv'
  <2>1. /\ UNCHANGED <<surface, view, platform, enabled, queuesMerged, draw>>
        /\ Taken
    BY <1>3 DEF SkipDraw, Takes, Task, mergerVars, rasterVars, platformVars
  <2> QED
    BY <2>1, FrameKeepsSurface DEF Merging
<1>4. ASSUME NEW t \in Threads, NEW s \in Shells, BeginDraw(t, s) PROVE SurfaceInv'
  <2>1. UNCHANGED <<surface, view, platform, enabled, queuesMerged>> /\ Taken
    BY <1>4 DEF BeginDraw, Takes, Task, mergerVars, platformVars
  <2>2. Merges(t)
    BY <1>4 DEF BeginDraw, IInv, ThreadTypes
  <2> QED
    BY <1>1, <2>1, <2>2
<1>5. ASSUME NEW t \in Threads, FailDraw(t) \/ BeginMerge(t) \/ Resubmit(t) \/ EndDraw(t)
      PROVE  SurfaceInv'
  <2>1. Merges(t)
    BY <1>5 DEF FailDraw, BeginMerge, MayMerge, Resubmit, EndDraw, NoDraw, IInv, ThreadTypes
  <2>2. UNCHANGED <<surface, view, platform, enabled, queuesMerged>>
    BY <1>5 DEF FailDraw, BeginMerge, Resubmit, EndDraw, mergerVars, platformVars
  <2>3. UNCHANGED rasterTasks \/ Posted
    <3>1. CASE EndDraw(t)
      <4>1. draw[t].shell \in Shells
        BY <3>1 DEF EndDraw, Inside, IInv, ThreadInv, BusyForAShell
      <4> QED
        BY <3>1, <4>1 DEF EndDraw
    <3>2. CASE ~EndDraw(t)
      BY <1>5, <3>2 DEF FailDraw, BeginMerge, Resubmit
    <3> QED
      BY <3>1, <3>2
  <2> QED
    BY <1>1, <2>1, <2>2, <2>3
<1>6. ASSUME NEW t \in Threads, SkipAndRetry(t) PROVE SurfaceInv'
  <2>1. Merges(t)
    BY <1>6 DEF SkipAndRetry, IInv, ThreadTypes
  <2>2. UNCHANGED <<rasterTasks, surface, view, platform, enabled>>
    BY <1>6 DEF SkipAndRetry, MergeWithLease, mergerVars, platformVars
  <2>3. queuesMerged' => queuesMerged \/ draw[t].phase = "merging"
    BY <1>6 DEF SkipAndRetry, Inside, mergerVars
  <2> QED
    BY <1>1, <2>1, <2>2, <2>3
<1>7. ASSUME NEW t \in Threads, Preroll(t) PROVE SurfaceInv'
  <2>1. Merges(t)
    BY <1>7 DEF Preroll, IInv, ThreadTypes
  <2>2. UNCHANGED <<rasterTasks, surface, view, platform, enabled, queuesMerged>>
    BY <1>7 DEF Preroll, ExtendLeaseTo, mergerVars, platformVars
  <2> QED
    BY <1>1, <2>1, <2>2
<1>8. ASSUME NEW t \in Threads, Submit(t) PROVE SurfaceInv'
  <2>1. Merges(t)
    BY <1>8 DEF Submit, IInv, ThreadTypes
  <2>2. draw[t].shell \in Shells
    BY <1>8 DEF Submit, Inside, IInv, ThreadInv, BusyForAShell
  <2>3. /\ UNCHANGED <<rasterTasks, surface, view, platform, enabled>>
        /\ DecrementLease(draw[t].shell)
    BY <1>8 DEF Submit, DecrementLease, platformVars
  <2>4. queuesMerged' => queuesMerged
    BY <2>2, <2>3, DecrementKeepsInv DEF IInv
  <2> QED
    BY <1>1, <2>1, <2>3, <2>4
<1>9. ASSUME NEW t \in Threads, SubmitAborts(t) PROVE SurfaceInv'
  <2>1. UNCHANGED <<rasterTasks, surface, view, platform, enabled, queuesMerged, draw>>
    BY <1>9 DEF SubmitAborts, mergerVars, rasterVars, platformVars
  <2> QED
    BY <2>1, FrameKeepsSurface DEF Merging
<1>10. CASE UNCHANGED vars
  <2>1. UNCHANGED <<rasterTasks, surface, view, platform, enabled, queuesMerged, draw>>
    BY <1>10 DEF vars, mergerVars, rasterVars, platformVars
  <2> QED
    BY <2>1, FrameKeepsSurface DEF Merging
<1> QED
  BY <1>2, <1>3, <1>4, <1>5, <1>6, <1>7, <1>8, <1>9, <1>10 DEF ContinueDraw

\* The platform thread turns to the only shell: no frame is merging the threads,
\* and none can before the merger is enabled again.
LEMMA DisableKeepsSurface ==
  ASSUME IInv, SurfaceInv, \A s, r \in Shells : s = r,
         NEW s \in Shells, DisableForCreate(s) \/ DisableForDestroy(s)
  PROVE  SurfaceInv'
<1>1. /\ platform = Free /\ ~enabled' /\ UNCHANGED <<rasterTasks, surface, queuesMerged, draw>>
      /\ \/ platform'.pc = "creating" /\ ~view[s] /\ view' = [view EXCEPT ![s] = TRUE]
         \/ platform'.pc = "destroying" /\ view[s] /\ view' = [view EXCEPT ![s] = FALSE]
  BY DEF DisableForCreate, DisableForDestroy, DisableMerger, SetEnabled, Idle, rasterVars
<1>2. Merging' = {}
  <2>1. ASSUME NEW t \in Threads, draw[t].phase = "merging" PROVE FALSE
    <3>1. draw[t].shell = s
      BY <2>1 DEF IInv, ThreadInv, BusyForAShell
    <3> QED
      BY <2>1, <3>1 DEF DisableForCreate, DisableForDestroy, DisableMerger, Merging
  <2> QED
    BY <1>1, <2>1 DEF Merging
<1>3. platform.pc = "idle"
  BY <1>1 DEF Free
<1>4. QueueTypes' /\ Ordered(rasterTasks)'
  BY <1>1 DEF SurfaceInv, QueueTypes
<1>5. (SetupHolds /\ TeardownAwaited)'
  BY <1>1, <1>2, <1>3 DEF SurfaceInv, SetupHolds, TeardownAwaited, SurfaceFollowsView
<1>6. SurfaceFollowsView'
  BY <1>1, <1>3 DEF SurfaceInv, QueueTypes, SurfaceFollowsView
<1> QED
  BY <1>4, <1>5, <1>6 DEF SurfaceInv

LEMMA CreatedKeepsSurface ==
  ASSUME IInv, SurfaceInv, \A s, r \in Shells : s = r, OnPlatformViewCreated
  PROVE  SurfaceInv'
<1>1. /\ platform.pc = "creating" /\ platform'.pc = "idle" /\ platform.shell \in Shells
      /\ UNCHANGED <<view, queuesMerged, draw>>
  BY DEF OnPlatformViewCreated, IInv, ThreadInv, BusyForAShell, Free, Setup, SetEnabled,
         mergerVars, rasterVars
<1>2. /\ ~Has(rasterTasks, "Setup") /\ ~Has(rasterTasks, "Teardown")
      /\ ~enabled /\ Merging = {} /\ Merging' = {} /\ \A s \in Shells : view[s]
  BY <1>1 DEF SurfaceInv, SetupHolds, TeardownAwaited, SurfaceFollowsView, Merging
<1>3. CASE queuesMerged
  <2>1. UNCHANGED rasterTasks /\ surface' = [surface EXCEPT ![platform.shell] = TRUE]
    BY <1>3 DEF OnPlatformViewCreated, Setup
  <2> QED
    BY <1>1, <1>2, <2>1 DEF SurfaceInv, QueueTypes, SetupHolds, TeardownAwaited,
                            SurfaceFollowsView
<1>4. CASE ~queuesMerged
  <2>1. /\ UNCHANGED <<surface, enabled>>
        /\ rasterTasks' = Append(rasterTasks, Task("Setup", platform.shell))
    BY <1>4 DEF OnPlatformViewCreated, mergerVars
  <2>2. Task("Setup", platform.shell) \in Tasks /\ Task("Setup", platform.shell).kind = "Setup"
    BY <1>1 DEF Task, Tasks
  <2>3. /\ rasterTasks' \in Seq(Tasks) /\ Ordered(rasterTasks')
        /\ ~Has(rasterTasks', "Teardown")
    BY <1>2, <2>1, <2>2, PostedTask DEF SurfaceInv, QueueTypes
  <2> QED
    BY <1>1, <1>2, <1>4, <2>1, <2>3 DEF SurfaceInv, QueueTypes, SetupHolds, TeardownAwaited,
                                       SurfaceFollowsView
<1> QED
  BY <1>3, <1>4

LEMMA DestroyedKeepsSurface ==
  ASSUME IInv, SurfaceInv, \A s, r \in Shells : s = r, OnPlatformViewDestroyed
  PROVE  SurfaceInv'
<1>1. /\ platform.pc = "destroying" /\ platform.shell \in Shells
      /\ UNCHANGED <<view, draw>>
      /\ ~Has(rasterTasks, "Teardown")
  BY DEF OnPlatformViewDestroyed, IInv, ThreadInv, BusyForAShell, Free, SurfaceInv,
         TeardownAwaited, rasterVars
<1>2. CASE queuesMerged
  <2>1. /\ UNCHANGED rasterTasks /\ surface' = [surface EXCEPT ![platform.shell] = FALSE]
        /\ platform'.pc = "idle" /\ ~Has(rasterTasks, "Setup")
    BY <1>2 DEF OnPlatformViewDestroyed, Teardown, Free, SurfaceInv, SetupHolds
  <2> QED
    BY <1>1, <2>1 DEF SurfaceInv, QueueTypes, SetupHolds, TeardownAwaited, SurfaceFollowsView
<1>3. CASE ~queuesMerged
  <2>1. /\ UNCHANGED <<surface, enabled, queuesMerged>>
        /\ rasterTasks' = Append(rasterTasks, Task("Teardown", platform.shell))
        /\ platform'.pc = "waiting"
    BY <1>3 DEF OnPlatformViewDestroyed, mergerVars, IInv, ThreadTypes
  <2>2. /\ Task("Teardown", platform.shell) \in Tasks
        /\ Task("Teardown", platform.shell).kind = "Teardown"
    BY <1>1 DEF Task, Tasks
  <2>3. /\ rasterTasks' \in Seq(Tasks) /\ Ordered(rasterTasks')
        /\ Has(rasterTasks', "Setup") <=> Has(rasterTasks, "Setup")
    BY <1>1, <2>1, <2>2, PostedTask DEF SurfaceInv, QueueTypes
  <2>4. SetupHolds'
    BY <1>1, <2>1, <2>3 DEF SurfaceInv, SetupHolds, Merging
  <2>5. (QueueTypes /\ TeardownAwaited /\ SurfaceFollowsView)'
    BY <1>1, <2>1, <2>3 DEF SurfaceInv, QueueTypes, TeardownAwaited, SurfaceFollowsView
  <2> QED
    BY <2>3, <2>4, <2>5 DEF SurfaceInv
<1> QED
  BY <1>2, <1>3

LEMMA RunSetupKeepsSurface ==
  ASSUME IInv, SurfaceInv, \A s, r \in Shells : s = r,
         NEW t \in Threads, NEW s \in Shells, RunSetup(t, s)
  PROVE  SurfaceInv'
<1>1. /\ rasterTasks # <<>> /\ Head(rasterTasks).kind = "Setup"
      /\ rasterTasks' = Tail(rasterTasks) /\ surface' = [surface EXCEPT ![s] = TRUE]
      /\ UNCHANGED <<view, platform>>
  BY DEF RunSetup, Takes, Task, Setup, platformVars
<1>2. /\ rasterTasks' \in Seq(Tasks) /\ Ordered(rasterTasks')
      /\ Has(rasterTasks, "Setup") /\ ~Has(rasterTasks', "Setup")
      /\ Has(rasterTasks', "Teardown") => Has(rasterTasks, "Teardown")
  BY <1>1, TakenTask DEF SurfaceInv, QueueTypes
<1>3. (QueueTypes /\ TeardownAwaited)'
  BY <1>1, <1>2 DEF SurfaceInv, QueueTypes, TeardownAwaited
<1>4. (SetupHolds /\ SurfaceFollowsView)'
  BY <1>1, <1>2 DEF SurfaceInv, QueueTypes, SetupHolds, SurfaceFollowsView
<1> QED
  BY <1>2, <1>3, <1>4 DEF SurfaceInv

LEMMA RunTeardownKeepsSurface ==
  ASSUME IInv, SurfaceInv, \A s, r \in Shells : s = r,
         NEW t \in Threads, NEW s \in Shells, RunTeardown(t, s)
  PROVE  SurfaceInv'
<1>1. /\ rasterTasks # <<>> /\ Head(rasterTasks).kind = "Teardown"
      /\ rasterTasks' = Tail(rasterTasks) /\ surface' = [surface EXCEPT ![s] = FALSE]
      /\ view' = view /\ platform'.pc = "idle"
  BY DEF RunTeardown, Takes, Task, Teardown, Free
<1>2. /\ rasterTasks' \in Seq(Tasks) /\ Ordered(rasterTasks')
      /\ Has(rasterTasks', "Setup") => Has(rasterTasks, "Setup")
      /\ ~Has(rasterTasks, "Setup")
      /\ Has(rasterTasks, "Teardown") /\ ~Has(rasterTasks', "Teardown")
  BY <1>1, TakenTask DEF SurfaceInv, QueueTypes
<1>3. (QueueTypes /\ TeardownAwaited /\ SetupHolds)'
  BY <1>1, <1>2 DEF SurfaceInv, QueueTypes, TeardownAwaited, SetupHolds
<1>4. SurfaceFollowsView'
  BY <1>1, <1>2 DEF SurfaceInv, QueueTypes, TeardownAwaited, SurfaceFollowsView
<1> QED
  BY <1>2, <1>3, <1>4 DEF SurfaceInv

\* Once OnPlatformViewDestroyed has returned, the rasterizer of a shell that has
\* the two threads to itself has no surface: a task that sets one up is run
\* before the teardown, on whichever thread each of them runs.  (With two shells
\* TLC refutes it: the teardown that the platform thread runs itself, after
\* another shell's frame has merged the threads, overtakes a queued setup.)
THEOREM DestroyedIsSuspended ==
  ASSUME \A s, r \in Shells : s = r
  PROVE  Spec => []SuspendedWhenDestroyed
<1>1. Init => SurfaceInv
  <2>1. SUFFICES ASSUME Init PROVE SurfaceInv
    OBVIOUS
  <2>2. rasterTasks \in Seq(Tasks) /\ Len(rasterTasks) = 0
    BY <2>1 DEF Init
  <2>3. Ordered(rasterTasks) /\ \A kind : ~Has(rasterTasks, kind)
    BY <2>2 DEF Ordered, Has
  <2> QED
    BY <2>1, <2>2, <2>3 DEF Init, Free, SurfaceInv, QueueTypes, SetupHolds, TeardownAwaited,
                            SurfaceFollowsView
<1>2. IInv /\ SurfaceInv /\ [Next]_vars => SurfaceInv'
  <2>1. SUFFICES ASSUME IInv, SurfaceInv, [Next]_vars PROVE SurfaceInv'
    OBVIOUS
  <2>2. CASE ContinuePlatform
    BY <2>1, <2>2, CreatedKeepsSurface, DestroyedKeepsSurface DEF ContinuePlatform
  <2>3. ASSUME NEW s \in Shells, DisableForCreate(s) \/ DisableForDestroy(s)
        PROVE  SurfaceInv'
    BY <2>1, <2>3, DisableKeepsSurface
  <2>4. ASSUME NEW t \in Threads, RunTask(t) PROVE SurfaceInv'
    BY <2>1, <2>4, FrameSteps, RunSetupKeepsSurface, RunTeardownKeepsSurface DEF RunTask
  <2>5. ASSUME NEW t \in Threads, ContinueDraw(t) PROVE SurfaceInv'
    BY <2>1, <2>5, FrameSteps
  <2>6. CASE (\E s \in Shells, x \in Trees : Render(s, x)) \/ UNCHANGED vars
    BY <2>1, <2>6, FrameSteps
  <2> QED
    BY <2>1, <2>2, <2>3, <2>4, <2>5, <2>6 DEF Next, ThreadStep
<1>3. IInv /\ SurfaceInv => SuspendedWhenDestroyed
  <2>1. SUFFICES ASSUME IInv, SurfaceInv, NEW s \in Shells, ~view[s], platform.shell # s
                 PROVE  ~surface[s]
    BY DEF SuspendedWhenDestroyed
  <2>2. platform = Free
    BY <2>1 DEF IInv, ThreadInv, BusyForAShell
  <2> QED
    BY <2>1, <2>2 DEF Free, SurfaceInv, SurfaceFollowsView
<1> QED
  BY <1>1, <1>2, <1>3, Invariance, PTL DEF Spec
-----------------------------------------------------------------------------
(***************************************************************************)
(* The surfaces of several shells.  The raster queue runs the tasks of     *)
(* each shell in the order they were posted, and the platform thread is    *)
(* busy with one of them at a time; but with the queues merged             *)
(* OnPlatformViewDestroyed does not go through the queue (shell.cc:898).   *)
(* The surfaces are right unless it runs ahead of a Setup of its shell.    *)
(***************************************************************************)
Queued(q, kind, s) == \E i \in 1..Len(q) : q[i].kind = kind /\ q[i].shell = s

\* Teardown is about to be run at once, before the Setup that was posted earlier.
Overtaking == /\ queuesMerged /\ platform.pc = "destroying"
              /\ Queued(rasterTasks, "Setup", platform.shell)

\* Of the tasks of one shell.
EachOrdered(q) ==
    \A i, j \in 1..Len(q) : q[i].shell = q[j].shell =>
       /\ q[i].kind = q[j].kind /\ q[i].kind # "Draw" => i = j
       /\ q[i].kind = "Setup" /\ q[j].kind = "Teardown" => i < j

Busy(s) == platform.pc # "idle" /\ platform.shell = s

SurfaceOf(s) ==
    /\ Queued(rasterTasks, "Setup", s) => view[s] \/ Busy(s)
    /\ ~view[s] /\ ~Busy(s) => ~surface[s]
    /\ Queued(rasterTasks, "Teardown", s) => Busy(s) /\ platform.pc = "waiting"
    /\ Busy(s) => IF platform.pc = "creating"
                  THEN view[s] /\ ~Queued(rasterTasks, "Setup", s)
                  ELSE ~view[s]

EachSurface == /\ QueueTypes /\ EachOrdered(rasterTasks)
               /\ \A s \in Shells : SurfaceOf(s)

LEMMA TakenOfEach ==
  ASSUME NEW q \in Seq(Tasks), q # <<>>, EachOrdered(q)
  PROVE  /\ Tail(q) \in Seq(Tasks) /\ EachOrdered(Tail(q))
         /\ \A kind, s : Queued(Tail(q), kind, s) => Queued(q, kind, s)
         /\ Queued(q, Head(q).kind, Head(q).shell)
         /\ Head(q).kind # "Draw" => ~Queued(Tail(q), Head(q).kind, Head(q).shell)
         /\ Head(q).kind = "Teardown" => ~Queued(q, "Setup", Head(q).shell)
<1> DEFINE rest == Tail(q)
<1>1. /\ rest \in Seq(Tasks) /\ Len(q) \in Nat \ {0} /\ Len(rest) = Len(q) - 1
      /\ Head(q) = q[1]
      /\ \A i \in 1..Len(rest) : rest[i] = q[i + 1] /\ i + 1 \in 2..Len(q)
  OBVIOUS
<1> HIDE DEF rest
<1>2. EachOrdered(rest)
  <2>1. SUFFICES ASSUME NEW i \in 1..Len(rest), NEW j \in 1..Len(rest),
                        rest[i].shell = rest[j].shell
                 PROVE  /\ rest[i].kind = rest[j].kind /\ rest[i].kind # "Draw" => i = j
                        /\ rest[i].kind = "Setup" /\ rest[j].kind = "Teardown" => i < j
    BY DEF EachOrdered
  <2>2. i + 1 \in 1..Len(q) /\ j + 1 \in 1..Len(q)
        /\ rest[i] = q[i + 1] /\ rest[j] = q[j + 1]
    BY <1>1
  <2>3. /\ q[i + 1].kind = q[j + 1].kind /\ q[i + 1].kind # "Draw" => i + 1 = j + 1
        /\ q[i + 1].kind = "Setup" /\ q[j + 1].kind = "Teardown" => i + 1 < j + 1
    BY <2>1, <2>2 DEF EachOrdered
  <2> QED
    BY <2>2, <2>3
<1>3. \A kind, s : Queued(rest, kind, s) => Queued(q, kind, s)
  BY <1>1 DEF Queued
<1>4. Queued(q, Head(q).kind, Head(q).shell)
  BY <1>1 DEF Queued
<1>5. Head(q).kind # "Draw" => ~Queued(rest, Head(q).kind, Head(q).shell)
  <2>1. SUFFICES ASSUME q[1].kind # "Draw", NEW i \in 1..Len(rest),
                        rest[i].kind = q[1].kind, rest[i].shell = q[1].shell
                 PROVE  FALSE
    BY <1>1 DEF Queued
  <2>2. 1 \in 1..Len(q) /\ i + 1 \in 2..Len(q) /\ rest[i] = q[i + 1]
    BY <1>1
  <2> QED
    BY <2>1, <2>2 DEF EachOrdered
<1>6. Head(q).kind = "Teardown" => ~Queued(q, "Setup", Head(q).shell)
  BY <1>1 DEF Queued, EachOrdered
<1> QED
  BY <1>1, <1>2, <1>3, <1>4, <1>5, <1>6 DEF rest

LEMMA PostedOfEach ==
  ASSUME NEW q \in Seq(Tasks), NEW task \in Tasks, EachOrdered(q),
         task.kind # "Draw" => ~Queued(q, task.kind, task.shell),
         task.kind = "Setup" => ~Queued(q, "Teardown", task.shell)
  PROVE  /\ Append(q, task) \in Seq(Tasks) /\ EachOrdered(Append(q, task))
         /\ \A kind, s : Queued(Append(q, task), kind, s)
                            <=> Queued(q, kind, s) \/ (task.kind = kind /\ task.shell = s)
<1> DEFINE new == Append(q, task)
<1>1. /\ new \in Seq(Tasks) /\ Len(q) \in Nat /\ Len(new) = Len(q) + 1
      /\ new[Len(q) + 1] = task
      /\ \A i \in 1..Len(q) : new[i] = q[i]
  OBVIOUS
<1> HIDE DEF new
<1>2. \A kind, s : Queued(new, kind, s)
                      <=> Queued(q, kind, s) \/ (task.kind = kind /\ task.shell = s)
  BY <1>1 DEF Queued
<1>3. EachOrdered(new)
  BY <1>1 DEF EachOrdered, Queued
<1> QED
  BY <1>1, <1>2, <1>3 DEF new

\* A step of a frame or of the framework takes or posts Draws.
LEMMA FrameKeepsEach ==
  ASSUME EachSurface, UNCHANGED <<surface, view, platform>>,
         \/ rasterTasks' = rasterTasks
         \/ rasterTasks # <<>> /\ rasterTasks' = Tail(rasterTasks)
         \/ \E s \in Shells : rasterTasks' = Append(rasterTasks, Task("Draw", s))
  PROVE  EachSurface'
<1> DEFINE Kept == /\ rasterTasks' \in Seq(Tasks) /\ EachOrdered(rasterTasks')
                   /\ \A kind \in {"Setup", "Teardown"} : \A s :
                         Queued(rasterTasks', kind, s) => Queued(rasterTasks, kind, s)
<1>1. Kept
  <2>1. CASE rasterTasks' = rasterTasks
    BY <2>1 DEF EachSurface, QueueTypes
  <2>2. CASE rasterTasks # <<>> /\ rasterTasks' = Tail(rasterTasks)
    BY <2>2, TakenOfEach DEF EachSurface, QueueTypes
  <2>3. ASSUME NEW s \in Shells, rasterTasks' = Append(rasterTasks, Task("Draw", s))
        PROVE  Kept
    <3>1. Task("Draw", s) \in Tasks /\ Task("Draw", s).kind = "Draw"
      BY DEF Task, Tasks
    <3> QED
      BY <2>3, <3>1, PostedOfEach DEF EachSurface, QueueTypes
  <2> QED
    BY <2>1, <2>2, <2>3
<1>2. QueueTypes'
  BY <1>1 DEF EachSurface, QueueTypes
<1>3. ASSUME NEW s \in Shells PROVE SurfaceOf(s)'
  BY <1>1 DEF EachSurface, SurfaceOf, Busy
<1> QED
  BY <1>1, <1>2, <1>3 DEF EachSurface

LEMMA FrameStepsKeepEach ==
  ASSUME EachSurface,
         \/ \E s \in Shells, x \in Trees : Render(s, x)
         \/ \E t \in Threads : ContinueDraw(t)
         \/ \E t \in Threads, s \in Shells : SkipDraw(t, s) \/ BeginDraw(t, s)
         \/ UNCHANGED vars,
         IInv
  PROVE  EachSurface'
<1>1. CASE \E s \in Shells, x \in Trees : Render(s, x)
  <2>1. PICK s \in Shells, x \in Trees : Render(s, x)
    BY <1>1
  <2> QED
    BY <2>1, FrameKeepsEach DEF Render, platformVars
<1>2. CASE \E t \in Threads : ContinueDraw(t)
  <2>1. PICK t \in Threads : ContinueDraw(t)
    BY ZenonT(60), <1>2
  <2>2. UNCHANGED <<surface, view, platform>>
    BY ZenonT(60), <2>1
       DEF ContinueDraw, FailDraw, BeginMerge, SkipAndRetry, Preroll, Resubmit, Submit,
       SubmitAborts, EndDraw, platformVars
  <2>3. CASE EndDraw(t)
    <3>1. draw[t].shell \in Shells
      BY SMTT(30), <2>3 DEF EndDraw, Inside, IInv, ThreadInv, BusyForAShell
    <3> QED
      BY <2>2, <2>3, <3>1, FrameKeepsEach DEF EndDraw
  <2>4. CASE ~EndDraw(t)
    <3>1. rasterTasks' = rasterTasks
      BY ZenonT(60), <2>1, <2>4
         DEF ContinueDraw, FailDraw, BeginMerge, SkipAndRetry, Preroll, Resubmit,
         Submit, SubmitAborts
    <3> QED
      BY ZenonT(60), <2>2, <3>1, FrameKeepsEach
  <2> QED
    BY <2>3, <2>4
<1>3. CASE \E t \in Threads, s \in Shells : SkipDraw(t, s) \/ BeginDraw(t, s)
  <2>1. /\ UNCHANGED <<surface, view, platform>>
        /\ rasterTasks # <<>> /\ rasterTasks' = Tail(rasterTasks)
    BY <1>3 DEF SkipDraw, BeginDraw, Takes, platformVars
  <2> QED
    BY <2>1, FrameKeepsEach
<1>4. CASE UNCHANGED vars
  <2>1. UNCHANGED <<surface, view, platform, rasterTasks>>
    BY <1>4 DEF vars, platformVars
  <2> QED
    BY <2>1, FrameKeepsEach
<1> QED
  BY <1>1, <1>2, <1>3, <1>4

LEMMA DisableKeepsEach ==
  ASSUME EachSurface, NEW s \in Shells, DisableForCreate(s) \/ DisableForDestroy(s)
  PROVE  EachSurface'
<1>1. /\ UNCHANGED <<rasterTasks, surface>> /\ platform.pc = "idle"
      /\ view' = [view EXCEPT ![s] = ~view[s]]
      /\ platform'.shell = s
      /\ platform'.pc = IF view[s] THEN "destroying" ELSE "creating"
  <2>1. /\ UNCHANGED <<rasterTasks, surface>> /\ platform.pc = "idle"
        /\ view \in [Shells -> BOOLEAN]
    BY DEF DisableForCreate, DisableForDestroy, Idle, Free, EachSurface, QueueTypes
  <2>2. CASE DisableForCreate(s)
    BY <2>1, <2>2 DEF DisableForCreate
  <2>3. CASE DisableForDestroy(s)
    BY <2>1, <2>3 DEF DisableForDestroy
  <2> QED
    BY <2>1, <2>2, <2>3
<1>2. (QueueTypes /\ EachOrdered(rasterTasks))'
  BY <1>1 DEF EachSurface, QueueTypes
<1>3. ASSUME NEW r \in Shells PROVE SurfaceOf(r)'
  <2>1. SurfaceOf(r) /\ ~Busy(r) /\ view[r] \in BOOLEAN
    BY <1>1 DEF EachSurface, QueueTypes, Busy
  <2>2. CASE r = s
    <3>1. view'[r] = ~view[r] /\ Busy(r)'
      BY <1>1, <2>2 DEF EachSurface, QueueTypes, Busy
    <3> QED
      BY <1>1, <2>1, <2>2, <3>1 DEF SurfaceOf
  <2>3. CASE r # s
    <3>1. view'[r] = view[r] /\ ~Busy(r)'
      BY <1>1, <2>3 DEF EachSurface, QueueTypes, Busy
    <3> QED
      BY <1>1, <2>1, <3>1 DEF SurfaceOf
  <2> QED
    BY <2>2, <2>3
<1> QED
  BY <1>2, <1>3 DEF EachSurface

\* The platform thread posts its raster task.
LEMMA PostingKeepsEach ==
  ASSUME EachSurface, IInv, ~queuesMerged, ContinuePlatform
  PROVE  EachSurface'
<1>1. PICK s \in Shells : s = platform.shell /\ Busy(s)
  BY DEF ContinuePlatform, OnPlatformViewCreated, OnPlatformViewDestroyed, IInv, ThreadInv,
     BusyForAShell, Free, Busy
<1>2. SurfaceOf(s) /\ UNCHANGED <<surface, view>>
  BY DEF ContinuePlatform, OnPlatformViewCreated, OnPlatformViewDestroyed, EachSurface
<1>3. PICK kind \in {"Setup", "Teardown"} :
         /\ rasterTasks' = Append(rasterTasks, Task(kind, s))
         /\ kind = "Setup" => platform.pc = "creating" /\ platform'.pc = "idle"
         /\ kind = "Teardown" => /\ platform.pc = "destroying" /\ platform'.pc = "waiting"
                                 /\ platform'.shell = s
  BY <1>1 DEF ContinuePlatform, OnPlatformViewCreated, OnPlatformViewDestroyed, Free, IInv,
     ThreadTypes
<1>4. /\ rasterTasks' \in Seq(Tasks) /\ EachOrdered(rasterTasks')
      /\ \A k, r : Queued(rasterTasks', k, r)
                      <=> Queued(rasterTasks, k, r) \/ (kind = k /\ s = r)
  <2>1. Task(kind, s) \in Tasks /\ Task(kind, s).kind = kind /\ Task(kind, s).shell = s
    BY DEF Task, Tasks
  <2>2. ~Queued(rasterTasks, kind, s) /\ (kind = "Setup" => ~Queued(rasterTasks, "Teardown", s))
    BY <1>1, <1>2, <1>3 DEF SurfaceOf
  <2> QED
    BY <1>3, <2>1, <2>2, PostedOfEach DEF EachSurface, QueueTypes
<1>5. QueueTypes'
  BY <1>2, <1>4 DEF EachSurface, QueueTypes
<1>6. ASSUME NEW r \in Shells PROVE SurfaceOf(r)'
  <2>1. SurfaceOf(r)
    BY DEF EachSurface
  <2>2. CASE r = s
    BY <1>1, <1>2, <1>3, <1>4, <2>1, <2>2 DEF SurfaceOf, Busy
  <2>3. CASE r # s
    <3>1. ~Busy(r) /\ ~Busy(r)'
      BY <1>1, <1>3, <2>3 DEF Busy
    <3> QED
      BY <1>2, <1>4, <2>1, <2>3, <3>1 DEF SurfaceOf
  <2> QED
    BY <2>2, <2>3
<1> QED
  BY <1>4, <1>5, <1>6 DEF EachSurface

\* The platform thread, which has the raster queue, runs its raster task at once.
LEMMA RunningKeepsEach ==
  ASSUME EachSurface, IInv, queuesMerged, ~Overtaking, ContinuePlatform
  PROVE  EachSurface'
<1>1. PICK s \in Shells : s = platform.shell /\ Busy(s)
  BY DEF ContinuePlatform, OnPlatformViewCreated, OnPlatformViewDestroyed, IInv, ThreadInv,
     BusyForAShell, Free, Busy
<1>2. /\ UNCHANGED <<rasterTasks, view>> /\ platform'.pc = "idle"
      /\ platform.pc = "creating" => surface' = [surface EXCEPT ![s] = TRUE]
      /\ platform.pc # "creating" => surface' = [surface EXCEPT ![s] = FALSE]
      /\ platform.pc \in {"creating", "destroying"}
  <2>1. CASE OnPlatformViewCreated
    BY <1>1, <2>1 DEF OnPlatformViewCreated, Setup, Free
  <2>2. CASE OnPlatformViewDestroyed
    BY <1>1, <2>2 DEF OnPlatformViewDestroyed, Teardown, Free
  <2> QED
    BY <2>1, <2>2 DEF ContinuePlatform
<1>3. (QueueTypes /\ EachOrdered(rasterTasks))'
  BY <1>2 DEF EachSurface, QueueTypes
<1>4. ASSUME NEW r \in Shells PROVE SurfaceOf(r)'
  <2>1. SurfaceOf(r) /\ ~Busy(r)'
    BY <1>2 DEF EachSurface, Busy
  <2>2. CASE r = s
    <3>1. surface'[r] <=> platform.pc = "creating"
      BY <1>2, <2>2 DEF EachSurface, QueueTypes
    <3>2. ~Queued(rasterTasks, "Teardown", r)
      BY <1>2, <2>1 DEF SurfaceOf
    <3>3. platform.pc = "destroying" => ~Queued(rasterTasks, "Setup", r)
      BY <1>1, <2>2 DEF Overtaking
    <3>4. Busy(r) /\ (platform.pc = "creating" => view[r])
      BY <1>1, <2>1, <2>2 DEF SurfaceOf
    <3> QED
      BY <1>2, <2>1, <3>1, <3>2, <3>3, <3>4 DEF SurfaceOf
  <2>3. CASE r # s
    <3>1. surface'[r] = surface[r] /\ ~Busy(r)
      BY <1>1, <1>2, <2>3 DEF EachSurface, QueueTypes, Busy
    <3> QED
      BY <1>2, <2>1, <3>1 DEF SurfaceOf
  <2> QED
    BY <2>2, <2>3
<1> QED
  BY <1>3, <1>4 DEF EachSurface

LEMMA RunSetupKeepsEach ==
  ASSUME EachSurface, NEW t \in Threads, NEW s \in Shells, RunSetup(t, s)
  PROVE  EachSurface'
<1>1. /\ rasterTasks # <<>> /\ Head(rasterTasks).kind = "Setup" /\ Head(rasterTasks).shell = s
      /\ rasterTasks' = Tail(rasterTasks) /\ surface' = [surface EXCEPT ![s] = TRUE]
      /\ UNCHANGED <<view, platform>>
  BY DEF RunSetup, Takes, Task, Setup, platformVars
<1>2. /\ rasterTasks' \in Seq(Tasks) /\ EachOrdered(rasterTasks')
      /\ Queued(rasterTasks, "Setup", s)
      /\ \A kind, r : Queued(rasterTasks', kind, r) => Queued(rasterTasks, kind, r)
  BY <1>1, TakenOfEach DEF EachSurface, QueueTypes
<1>3. QueueTypes'
  BY <1>1, <1>2 DEF EachSurface, QueueTypes
<1>4. ASSUME NEW r \in Shells PROVE SurfaceOf(r)'
  <2>1. SurfaceOf(r)
    BY DEF EachSurface
  <2>2. r # s => surface'[r] = surface[r]
    BY <1>1 DEF EachSurface, QueueTypes
  <2> QED
    BY <1>1, <1>2, <2>1, <2>2 DEF SurfaceOf, Busy
<1> QED
  BY <1>2, <1>3, <1>4 DEF EachSurface

LEMMA RunTeardownKeepsEach ==
  ASSUME EachSurface, NEW t \in Threads, NEW s \in Shells, RunTeardown(t, s)
  PROVE  EachSurface'
<1>1. /\ rasterTasks # <<>> /\ Head(rasterTasks).kind = "Teardown"
      /\ Head(rasterTasks).shell = s
      /\ rasterTasks' = Tail(rasterTasks) /\ surface' = [surface EXCEPT ![s] = FALSE]
      /\ view' = view /\ platform'.pc = "idle"
  BY DEF RunTeardown, Takes, Task, Teardown, Free
<1>2. /\ rasterTasks' \in Seq(Tasks) /\ EachOrdered(rasterTasks')
      /\ Queued(rasterTasks, "Teardown", s) /\ ~Queued(rasterTasks', "Teardown", s)
      /\ ~Queued(rasterTasks, "Setup", s)
      /\ \A kind, r : Queued(rasterTasks', kind, r) => Queued(rasterTasks, kind, r)
  BY <1>1, TakenOfEach DEF EachSurface, QueueTypes
<1>3. QueueTypes'
  BY <1>1, <1>2 DEF EachSurface, QueueTypes
<1>4. Busy(s)
  BY <1>2 DEF EachSurface, SurfaceOf
<1>5. ASSUME NEW r \in Shells PROVE SurfaceOf(r)'
  <2>1. SurfaceOf(r) /\ ~Busy(r)'
    BY <1>1 DEF EachSurface, Busy
  <2>2. CASE r = s
    <3>1. ~surface'[r]
      BY <1>1, <2>2 DEF EachSurface, QueueTypes
    <3> QED
      BY <1>2, <2>1, <2>2, <3>1 DEF SurfaceOf
  <2>3. CASE r # s
    <3>1. surface'[r] = surface[r] /\ ~Busy(r)
      BY <1>1, <1>4, <2>3 DEF EachSurface, QueueTypes, Busy
    <3> QED
      BY <1>1, <1>2, <2>1, <3>1 DEF SurfaceOf
  <2> QED
    BY <2>2, <2>3
<1> QED
  BY <1>2, <1>3, <1>5 DEF EachSurface

\* However many shells share the two threads, and however often these are merged: a
\* surface outlives its OnPlatformViewDestroyed only if that call ran its Teardown on
\* the merged platform thread while a Setup of the same shell was in the queue.
THEOREM SuspendedUnlessOvertaken ==
  Spec /\ []~Overtaking => []SuspendedWhenDestroyed
<1>1. Init => EachSurface
  <2>1. SUFFICES ASSUME Init PROVE EachSurface
    OBVIOUS
  <2>2. rasterTasks \in Seq(Tasks) /\ Len(rasterTasks) = 0
    BY <2>1 DEF Init
  <2>3. EachOrdered(rasterTasks) /\ \A kind, s : ~Queued(rasterTasks, kind, s)
    BY <2>2 DEF EachOrdered, Queued
  <2> QED
    BY <2>1, <2>2, <2>3 DEF Init, Free, EachSurface, QueueTypes, SurfaceOf, Busy
<1>2. IInv /\ EachSurface /\ ~Overtaking /\ [Next]_vars => EachSurface'
  <2>1. SUFFICES ASSUME IInv, EachSurface, ~Overtaking, [Next]_vars PROVE EachSurface'
    OBVIOUS
  <2>2. CASE ContinuePlatform
    BY <2>1, <2>2, PostingKeepsEach, RunningKeepsEach
  <2>3. ASSUME NEW s \in Shells, DisableForCreate(s) \/ DisableForDestroy(s)
        PROVE  EachSurface'
    BY <2>1, <2>3, DisableKeepsEach
  <2>4. ASSUME NEW t \in Threads, RunTask(t) PROVE EachSurface'
    BY <2>1, <2>4, FrameStepsKeepEach, RunSetupKeepsEach, RunTeardownKeepsEach DEF RunTask
  <2>5. ASSUME NEW t \in Threads, ContinueDraw(t) PROVE EachSurface'
    BY <2>1, <2>5, FrameStepsKeepEach
  <2>6. CASE (\E s \in Shells, x \in Trees : Render(s, x)) \/ UNCHANGED vars
    BY <2>1, <2>6, FrameStepsKeepEach
  <2> QED
    BY <2>1, <2>2, <2>3, <2>4, <2>5, <2>6 DEF Next, ThreadStep
<1>3. EachSurface => SuspendedWhenDestroyed
  BY DEF EachSurface, SurfaceOf, Busy, SuspendedWhenDestroyed
<1> QED
  BY <1>1, <1>2, <1>3, Invariance, PTL DEF Spec
-----------------------------------------------------------------------------
(***************************************************************************)
(* Types.                                                                  *)
(***************************************************************************)
\* The variables that the proofs above need no type of.
FrameTypes == /\ {built, shown} \subseteq [Shells -> Trees \cup {0}]
              /\ composed \in [Shells -> BOOLEAN]
FlagTypes == /\ enabled \in BOOLEAN /\ queuesMerged \in BOOLEAN /\ aborted \in BOOLEAN
             /\ destroys \in 0..MaxDestroys

RestTypes == QueueTypes /\ FrameTypes /\ FlagTypes

LEMMA RenderKeepsTypes ==
  ASSUME RestTypes, NEW s \in Shells, NEW x \in Trees, Render(s, x)
  PROVE  RestTypes'
<1>1. QueueTypes'
  <2>1. Append(rasterTasks, Task("Draw", s)) \in Seq(Tasks)
    BY DEF RestTypes, QueueTypes, Task, Tasks
  <2> QED
    BY <2>1 DEF Render, platformVars, RestTypes, QueueTypes
<1>2. (FrameTypes /\ FlagTypes)'
  BY DEF Render, mergerVars, platformVars, RestTypes, FrameTypes, FlagTypes
<1> QED
  BY <1>1, <1>2 DEF RestTypes

\* Taking a task leaves a queue of tasks.
LEMMA TakingKeepsTypes ==
  ASSUME RestTypes, rasterTasks # <<>>
  PROVE  Tail(rasterTasks) \in Seq(Tasks)
  BY DEF RestTypes, QueueTypes

LEMMA RunTaskKeepsTypes ==
  ASSUME RestTypes, NEW t \in Threads, RunTask(t)
  PROVE  RestTypes'
<1>1. PICK s \in Shells :
         SkipDraw(t, s) \/ BeginDraw(t, s) \/ RunSetup(t, s) \/ RunTeardown(t, s)
  BY DEF RunTask
<1>2. rasterTasks' \in Seq(Tasks)
  BY <1>1, TakingKeepsTypes DEF SkipDraw, BeginDraw, RunSetup, RunTeardown, Takes
<1>3. QueueTypes'
  BY <1>1, <1>2 DEF SkipDraw, BeginDraw, RunSetup, RunTeardown, Setup, Teardown, platformVars,
                    RestTypes, QueueTypes
<1>4. FrameTypes'
  BY <1>1 DEF SkipDraw, BeginDraw, RunSetup, RunTeardown, rasterVars, RestTypes, FrameTypes
<1>5. FlagTypes'
  BY <1>1 DEF SkipDraw, BeginDraw, RunSetup, RunTeardown, Setup, SetEnabled, Teardown,
              EraseRecord, mergerVars, platformVars, RestTypes, FlagTypes
<1> QED
  BY <1>3, <1>4, <1>5 DEF RestTypes

LEMMA ContinueDrawKeepsTypes ==
  ASSUME IInv, RestTypes, NEW t \in Threads, ContinueDraw(t)
  PROVE  RestTypes'
<1>1. draw[t].shell \in Shells /\ draw[t].tree \in Trees \cup {0}
  BY DEF ContinueDraw, FailDraw, BeginMerge, Drawable, SkipAndRetry, Preroll, Resubmit, Submit,
         SubmitAborts, EndDraw, Inside, IInv, ThreadInv, BusyForAShell, ThreadTypes
<1>2. CASE EndDraw(t)
  <2>1. Append(rasterTasks, Task("Draw", draw[t].shell)) \in Seq(Tasks)
    BY <1>1 DEF RestTypes, QueueTypes, Task, Tasks
  <2> QED
    BY <1>2, <2>1 DEF EndDraw, mergerVars, platformVars, RestTypes, QueueTypes, FrameTypes,
                      FlagTypes
<1>3. CASE FailDraw(t) \/ BeginMerge(t) \/ Resubmit(t) \/ SubmitAborts(t)
  BY <1>3 DEF FailDraw, BeginMerge, Resubmit, SubmitAborts, mergerVars, rasterVars,
              platformVars, RestTypes, QueueTypes, FrameTypes, FlagTypes
<1>4. CASE SkipAndRetry(t)
  BY <1>1, <1>4 DEF SkipAndRetry, MergeWithLease, mergerVars, platformVars, RestTypes,
                    QueueTypes, FrameTypes, FlagTypes
<1>5. CASE Preroll(t)
  BY <1>1, <1>5 DEF Preroll, ExtendLeaseTo, mergerVars, platformVars, RestTypes, QueueTypes,
                    FrameTypes, FlagTypes
<1>6. CASE Submit(t)
  BY <1>1, <1>6 DEF Submit, DecrementLease, platformVars, RestTypes, QueueTypes, FrameTypes,
                    FlagTypes
<1> QED
  BY <1>2, <1>3, <1>4, <1>5, <1>6 DEF ContinueDraw

LEMMA DisableKeepsTypes ==
  ASSUME RestTypes, NEW s \in Shells, DisableForCreate(s) \/ DisableForDestroy(s)
  PROVE  RestTypes'
<1>1. (QueueTypes /\ FrameTypes)'
  BY DEF DisableForCreate, DisableForDestroy, rasterVars, RestTypes, QueueTypes, FrameTypes
<1>2. destroys' \in 0..MaxDestroys
  BY BoundsAssumption DEF DisableForCreate, DisableForDestroy, RestTypes, FlagTypes
<1>3. FlagTypes'
  BY <1>2 DEF DisableForCreate, DisableForDestroy, DisableMerger, SetEnabled, RestTypes,
              FlagTypes
<1> QED
  BY <1>1, <1>3 DEF RestTypes

LEMMA ContinuePlatformKeepsTypes ==
  ASSUME IInv, RestTypes, ContinuePlatform
  PROVE  RestTypes'
<1>1. platform.shell \in Shells
  BY DEF ContinuePlatform, OnPlatformViewCreated, OnPlatformViewDestroyed, IInv, ThreadInv,
         BusyForAShell, Free
<1>2. \A kind \in {"Setup", "Teardown"} :
         Append(rasterTasks, Task(kind, platform.shell)) \in Seq(Tasks)
  BY <1>1 DEF RestTypes, QueueTypes, Task, Tasks
<1>3. QueueTypes'
  BY <1>2 DEF ContinuePlatform, OnPlatformViewCreated, OnPlatformViewDestroyed, Setup,
              Teardown, RestTypes, QueueTypes
<1>4. (FrameTypes /\ FlagTypes)'
  BY DEF ContinuePlatform, OnPlatformViewCreated, OnPlatformViewDestroyed, Setup, SetEnabled,
         Teardown, EraseRecord, mergerVars, rasterVars, RestTypes, FrameTypes, FlagTypes
<1> QED
  BY <1>3, <1>4 DEF RestTypes

\* Every variable keeps its type, for any number of shells: among them, no lease
\* falls below zero, though LeaseUnderflow can be reached, because DecrementLease
\* checks the lease before it counts it down.
THEOREM ViewsTypeCorrect == Spec => []TypeInvariant
<1>1. Init => RestTypes
  <2>1. SUFFICES ASSUME Init PROVE RestTypes
    OBVIOUS
  <2>2. QueueTypes
    BY <2>1 DEF Init, QueueTypes
  <2>3. FrameTypes
    BY <2>1 DEF Init, FrameTypes
  <2>4. FlagTypes
    <3>1. destroys \in 0..MaxDestroys
      BY <2>1, BoundsAssumption DEF Init
    <3>2. enabled \in BOOLEAN /\ queuesMerged \in BOOLEAN /\ aborted \in BOOLEAN
      BY <2>1 DEF Init, MergerInit
    <3> QED
      BY <3>1, <3>2 DEF FlagTypes
  <2> QED
    BY <2>2, <2>3, <2>4 DEF RestTypes
<1>2. IInv /\ RestTypes /\ [Next]_vars => RestTypes'
  <2>1. SUFFICES ASSUME IInv, RestTypes, [Next]_vars PROVE RestTypes'
    OBVIOUS
  <2>2. ASSUME NEW s \in Shells, NEW x \in Trees, Render(s, x) PROVE RestTypes'
    BY <2>1, <2>2, RenderKeepsTypes
  <2>3. ASSUME NEW t \in Threads, ThreadStep(t) PROVE RestTypes'
    BY <2>1, <2>3, RunTaskKeepsTypes, ContinueDrawKeepsTypes DEF ThreadStep
  <2>4. ASSUME NEW s \in Shells, DisableForCreate(s) \/ DisableForDestroy(s)
        PROVE  RestTypes'
    BY <2>1, <2>4, DisableKeepsTypes
  <2>5. CASE ContinuePlatform
    BY <2>1, <2>5, ContinuePlatformKeepsTypes
  <2>6. CASE UNCHANGED vars
    BY <2>1, <2>6 DEF vars, mergerVars, rasterVars, platformVars, RestTypes, QueueTypes,
                      FrameTypes, FlagTypes
  <2> QED
    BY <2>1, <2>2, <2>3, <2>4, <2>5, <2>6 DEF Next
<1>3. IInv /\ RestTypes => TypeInvariant
  <2>1. SUFFICES ASSUME IInv, RestTypes PROVE TypeInvariant
    OBVIOUS
  <2>2. MergerTypeOK
    BY <2>1 DEF IInv, MergerInv, LeaseTyped, RestTypes, FlagTypes, MergerTypeOK
  <2>3. rasterTasks \in Seq([kind : {"Draw", "Setup", "Teardown"}, shell : Shells])
    BY <2>1 DEF RestTypes, QueueTypes, Tasks
  <2>4. {built, resubmitted, shown} \subseteq [Shells -> Trees \cup {0}]
    BY <2>1 DEF IInv, TreeTypes, RestTypes, FrameTypes
  <2>5. {composed, surface, view} \subseteq [Shells -> BOOLEAN]
    BY <2>1 DEF RestTypes, QueueTypes, FrameTypes
  <2>6. draw \in [Threads -> [phase : {"none", "drawing", "merging", "submitting",
                                       "ending"},
                              shell : Shells \cup {Nobody}, tree : Trees \cup {0},
                              more : BOOLEAN, retry : BOOLEAN]]
    BY <2>1 DEF IInv, ThreadTypes, Drawing, DoDrawPhases
  <2> QED
    BY <2>1, <2>2, <2>3, <2>4, <2>5, <2>6
       DEF TypeInvariant, IInv, ThreadTypes, TreeTypes, RestTypes, FlagTypes
<1> QED
  BY <1>1, <1>2, <1>3, Invariance, PTL DEF Spec
-----------------------------------------------------------------------------
(***************************************************************************)
(* What is left of the three properties that the code does not keep, and   *)
(* when.                                                                   *)
(***************************************************************************)

\* One shell that does not share its threads never fails the check of
\* DecrementLease: with the threads merged the positive lease is its own.
THEOREM LeaseOfOneShell ==
  ASSUME \A s, r \in Shells : s = r
  PROVE  Spec => []LeaseIsPositiveWhenMerged
<1>1. Init => ~aborted
  BY DEF Init
<1>2. ASSUME IInv, ~aborted, [Next]_vars PROVE ~aborted'
  <2>1. ASSUME NEW t \in Threads, SubmitAborts(t) PROVE FALSE
    <3>1. draw[t].shell \in Shells
      BY <1>2, <2>1 DEF SubmitAborts, Inside, IInv, ThreadInv, BusyForAShell
    <3>2. PICK r \in Shells : lease[r] > 0
      BY <2>1 DEF SubmitAborts, LeaseUnderflow, IsMerged
    <3> QED
      BY <2>1, <3>1, <3>2 DEF SubmitAborts, LeaseUnderflow
  <2>2. ASSUME NEW t \in Threads, ThreadStep(t) PROVE aborted' = aborted
    BY <2>1, <2>2 DEF ThreadStep, RunTask, ContinueDraw, SkipDraw, BeginDraw, RunSetup,
       RunTeardown, FailDraw, BeginMerge, SkipAndRetry, Preroll, Resubmit, Submit, EndDraw
  <2>3. CASE ContinuePlatform
    BY <1>2, <2>3 DEF ContinuePlatform, OnPlatformViewCreated, OnPlatformViewDestroyed
  <2>4. CASE \E s \in Shells : DisableForCreate(s) \/ DisableForDestroy(s)
    BY <1>2, <2>4 DEF DisableForCreate, DisableForDestroy
  <2>5. CASE (\E s \in Shells, x \in Trees : Render(s, x)) \/ UNCHANGED vars
    BY <1>2, <2>5 DEF Render, vars
  <2> QED
    BY <1>2, <2>2, <2>3, <2>4, <2>5 DEF Next
<1>3. IInv /\ ~aborted /\ [Next]_vars => ~aborted'
  BY <1>2
<1> QED
  BY <1>1, <1>3, Invariance, PTL DEF Spec, LeaseIsPositiveWhenMerged

\* What the comment at shell.cc:844 relies on, and OnPlatformViewDestroyed does not
\* see to: when it begins, no frame is in MergeWithLease, and nobody's Setup is left in
\* the raster queue to enable the merger again.
Undisturbed ==
    platform.pc = "destroying" => ~platform.overlapped /\ ~Has(rasterTasks, "Setup")

HeldInv ==
    platform.pc \in {"destroying", "waiting"} =>
       ~enabled /\ ~platform.overlapped /\ ~Has(rasterTasks, "Setup")

\* A task that is taken or posted is no Setup, unless the platform thread is done.
LEMMA NoSetupStays ==
  ASSUME NEW q \in Seq(Tasks), ~Has(q, "Setup")
  PROVE  /\ q # <<>> => ~Has(Tail(q), "Setup") /\ Head(q).kind # "Setup"
         /\ \A task \in Tasks : task.kind # "Setup" => ~Has(Append(q, task), "Setup")
<1>1. q # <<>> => /\ Len(Tail(q)) = Len(q) - 1 /\ Len(q) \in Nat \ {0} /\ Head(q) = q[1]
                  /\ \A i \in 1..Len(Tail(q)) : Tail(q)[i] = q[i + 1] /\ i + 1 \in 1..Len(q)
  OBVIOUS
<1>2. ASSUME NEW task \in Tasks
      PROVE  /\ Len(Append(q, task)) = Len(q) + 1 /\ Len(q) \in Nat
             /\ Append(q, task)[Len(q) + 1] = task
             /\ \A i \in 1..Len(q) : Append(q, task)[i] = q[i]
  OBVIOUS
<1> QED
  BY <1>1, <1>2 DEF Has

LEMMA FramesKeepHeld ==
  ASSUME IInv, QueueTypes, HeldInv, UNCHANGED <<platform, enabled>>,
         \/ rasterTasks' = rasterTasks
         \/ rasterTasks # <<>> /\ rasterTasks' = Tail(rasterTasks)
         \/ \E s \in Shells : rasterTasks' = Append(rasterTasks, Task("Draw", s))
  PROVE  HeldInv'
<1> SUFFICES ASSUME platform.pc \in {"destroying", "waiting"} PROVE ~Has(rasterTasks, "Setup")'
  BY DEF HeldInv
<1>1. rasterTasks \in Seq(Tasks) /\ ~Has(rasterTasks, "Setup")
  BY DEF HeldInv, QueueTypes
<1>2. \A s \in Shells : Task("Draw", s) \in Tasks /\ Task("Draw", s).kind = "Draw"
  BY DEF Task, Tasks
<1> QED
  BY <1>1, <1>2, NoSetupStays

LEMMA TasksKeepHeld ==
  ASSUME IInv, QueueTypes, HeldInv, NEW t \in Threads, RunTask(t)
  PROVE  HeldInv'
<1>1. PICK s \in Shells :
         SkipDraw(t, s) \/ BeginDraw(t, s) \/ RunSetup(t, s) \/ RunTeardown(t, s)
  BY DEF RunTask
<1>2. CASE SkipDraw(t, s) \/ BeginDraw(t, s)
  BY <1>2, FramesKeepHeld DEF SkipDraw, BeginDraw, Takes, mergerVars, platformVars
<1>3. CASE RunSetup(t, s)
  <2>1. rasterTasks # <<>> /\ Head(rasterTasks).kind = "Setup" /\ platform' = platform
    BY <1>3 DEF RunSetup, Takes, Task, platformVars
  <2>2. Has(rasterTasks, "Setup")
    BY <2>1, NoSetupStays DEF QueueTypes
  <2> QED
    BY <2>1, <2>2 DEF HeldInv
<1>4. CASE RunTeardown(t, s)
  BY <1>4 DEF RunTeardown, Free, HeldInv
<1> QED
  BY <1>1, <1>2, <1>3, <1>4

LEMMA DrawsKeepHeld ==
  ASSUME IInv, QueueTypes, HeldInv, NEW t \in Threads, ContinueDraw(t)
  PROVE  HeldInv'
<1>1. UNCHANGED <<platform, enabled>>
  BY ZenonT(60)
     DEF ContinueDraw, FailDraw, BeginMerge, SkipAndRetry, Preroll, Resubmit, Submit,
     SubmitAborts, EndDraw, MergeWithLease, ExtendLeaseTo, DecrementLease, mergerVars,
     platformVars
<1>2. CASE EndDraw(t)
  <2>1. draw[t].shell \in Shells
    BY SMTT(30), <1>2 DEF EndDraw, Inside, IInv, ThreadInv, BusyForAShell
  <2> QED
    BY <1>1, <1>2, <2>1, FramesKeepHeld DEF EndDraw
<1>3. CASE ~EndDraw(t)
  <2>1. rasterTasks' = rasterTasks
    BY ZenonT(60), <1>3
       DEF ContinueDraw, FailDraw, BeginMerge, SkipAndRetry, Preroll, Resubmit, Submit,
       SubmitAborts
  <2> QED
    BY <1>1, <2>1, FramesKeepHeld
<1> QED
  BY <1>2, <1>3

\* With any number of shells on the two threads, through every merge: the platform
\* thread waits for a task in its own queue only if a Setup was still queued, or a
\* frame was merging the threads, when OnPlatformViewDestroyed began.
THEOREM HeldUnlessDisturbed == Spec /\ []Undisturbed => []ConfigurationHeldWhileWaiting
<1>1. Init => HeldInv
  BY DEF Init, Free, HeldInv
<1>2. IInv /\ TypeInvariant /\ Undisturbed' /\ HeldInv /\ [Next]_vars => HeldInv'
  <2>1. SUFFICES ASSUME IInv, TypeInvariant, Undisturbed', HeldInv, [Next]_vars PROVE HeldInv'
    OBVIOUS
  <2>2. QueueTypes
    BY <2>1 DEF TypeInvariant, QueueTypes, Tasks
  <2>3. ASSUME NEW s \in Shells, NEW x \in Trees, Render(s, x) PROVE HeldInv'
    BY <2>1, <2>2, <2>3, FramesKeepHeld DEF Render, mergerVars, platformVars
  <2>4. ASSUME NEW t \in Threads, ThreadStep(t) PROVE HeldInv'
    BY <2>1, <2>2, <2>4, TasksKeepHeld, DrawsKeepHeld DEF ThreadStep
  <2>5. ASSUME NEW s \in Shells, DisableForCreate(s) PROVE HeldInv'
    BY <2>5 DEF DisableForCreate, HeldInv
  <2>6. ASSUME NEW s \in Shells, DisableForDestroy(s) PROVE HeldInv'
    <3>1. ~enabled' /\ platform'.pc = "destroying"
      BY <2>6 DEF DisableForDestroy, DisableMerger, SetEnabled
    <3> QED
      BY <2>1, <3>1 DEF Undisturbed, HeldInv
  <2>7. CASE OnPlatformViewCreated
    BY <2>7 DEF OnPlatformViewCreated, Free, HeldInv
  <2>8. CASE OnPlatformViewDestroyed
    <3>1. CASE queuesMerged
      BY <2>8, <3>1 DEF OnPlatformViewDestroyed, Free, HeldInv
    <3>2. CASE ~queuesMerged
      <4>1. /\ platform'.overlapped = platform.overlapped /\ enabled' = enabled
            /\ rasterTasks' = Append(rasterTasks, Task("Teardown", platform.shell))
            /\ platform.pc = "destroying"
        BY <2>1, <2>8, <3>2 DEF OnPlatformViewDestroyed, mergerVars, IInv, ThreadTypes
      <4>2. platform.shell \in Shells
        BY <2>1, <4>1 DEF IInv, ThreadInv, BusyForAShell, Free
      <4>3. Task("Teardown", platform.shell) \in Tasks
            /\ Task("Teardown", platform.shell).kind = "Teardown"
        BY <4>2 DEF Task, Tasks
      <4> QED
        BY <2>1, <2>2, <4>1, <4>3, NoSetupStays DEF HeldInv, QueueTypes
    <3> QED
      BY <3>1, <3>2
  <2>9. CASE UNCHANGED vars
    BY <2>1, <2>2, <2>9, FramesKeepHeld DEF vars, mergerVars, platformVars
  <2> QED
    BY <2>1, <2>3, <2>4, <2>5, <2>6, <2>7, <2>8, <2>9 DEF Next, ContinuePlatform
<1>3. HeldInv /\ DisabledHoldsConfiguration => ConfigurationHeldWhileWaiting
  BY DEF HeldInv, DisabledHoldsConfiguration, ConfigurationHeldWhileWaiting
<1> QED
  BY <1>1, <1>2, <1>3, Invariance, ViewsTypeCorrect, DisableHolds, PTL DEF Spec
-----------------------------------------------------------------------------
(***************************************************************************)
(* The order of the trees.  Pipeline is for a single consumer              *)
(* (shell/common/pipeline.h:37), and as long as the Draws of a shell do    *)
(* not overlap it has one: the queue is ascending, the tree in hand, to be *)
(* shown or to be pushed back, is older than all of the queue, and newer   *)
(* than the one that was shown last.                                       *)
(***************************************************************************)
InTheDraw(t, s) == draw[t].phase # "none" /\ draw[t].shell = s
SingleConsumer ==
    \A s \in Shells, t, u \in Threads : InTheDraw(t, s) /\ InTheDraw(u, s) => t = u

\* The tree of this Draw may still be shown, or pushed back.
InHand(t, s) == InDraw(t, s) \/ (InTheDraw(t, s) /\ draw[t].retry)

Above(n, q) == \A i \in 1..Len(q) : n < q[i]
UpTo(n, q) == \A i \in 1..Len(q) : q[i] <= n
Ascending(q) == \A i, j \in 1..Len(q) : i < j => q[i] < q[j]

QueueOrder(s) ==
    /\ Ascending(pipeline[s])
    /\ Above(shown[s], pipeline[s]) /\ UpTo(built[s], pipeline[s])
    /\ shown[s] <= built[s]
HandOrder(t, s) ==
    InHand(t, s) => /\ shown[s] < draw[t].tree /\ draw[t].tree <= built[s]
                    /\ Above(draw[t].tree, pipeline[s])
Retries(t) ==
    /\ draw[t].phase \in {"drawing", "merging"} => ~draw[t].retry
    /\ draw[t].phase = "ending" /\ draw[t].retry =>
          resubmitted[draw[t].shell] = draw[t].tree

TreeOrder ==
    /\ \A s \in Shells : QueueOrder(s)
    /\ \A t \in Threads, s \in Shells : HandOrder(t, s)
    /\ \A t \in Threads : Retries(t)

\* The first tree is the oldest, whatever precedes the queue precedes the rest.
LEMMA Popped ==
  ASSUME NEW q \in Seq(Nat), q # <<>>, NEW n \in Nat, Above(n, q),
         NEW m \in Nat, UpTo(m, q), Ascending(q)
  PROVE  /\ Ascending(Tail(q)) /\ Above(n, Tail(q)) /\ UpTo(m, Tail(q))
         /\ n < Head(q) /\ Head(q) <= m /\ Above(Head(q), Tail(q))
<1> DEFINE rest == Tail(q)
<1>1. /\ Len(rest) = Len(q) - 1 /\ Len(q) \in Nat \ {0}
      /\ \A i \in 1..Len(rest) : rest[i] = q[i + 1] /\ i + 1 \in 1..Len(q)
      /\ Head(q) = q[1]
  OBVIOUS
<1> HIDE DEF rest
<1>2. Above(n, rest) /\ UpTo(m, rest)
  BY <1>1 DEF Above, UpTo
<1>3. Above(Head(q), rest)
  <2>1. SUFFICES ASSUME NEW i \in 1..Len(rest) PROVE q[1] < rest[i]
    BY <1>1 DEF Above
  <2>2. i + 1 \in 1..Len(q) /\ 1 \in 1..Len(q) /\ 1 < i + 1
    BY <1>1
  <2> QED
    BY <1>1, <2>2 DEF Ascending
<1>4. Ascending(rest)
  <2>1. SUFFICES ASSUME NEW i \in 1..Len(rest), NEW j \in 1..Len(rest), i < j
                 PROVE  rest[i] < rest[j]
    BY DEF Ascending
  <2>2. i + 1 \in 1..Len(q) /\ j + 1 \in 1..Len(q) /\ i + 1 < j + 1
    BY <1>1, <2>1
  <2> QED
    BY <1>1, <2>2 DEF Ascending
<1>5. n < Head(q) /\ Head(q) <= m
  BY <1>1 DEF Above, UpTo
<1> QED
  BY <1>2, <1>3, <1>4, <1>5 DEF rest

\* A newer tree is appended.
LEMMA Pushed ==
  ASSUME NEW q \in Seq(Nat), NEW n \in Nat, Above(n, q), NEW m \in Nat, UpTo(m, q),
         Ascending(q), NEW x \in Nat, n < x, m < x
  PROVE  /\ Ascending(Append(q, x)) /\ Above(n, Append(q, x)) /\ UpTo(x, Append(q, x))
<1> DEFINE new == Append(q, x)
<1>1. /\ Len(new) = Len(q) + 1 /\ Len(q) \in Nat
      /\ \A i \in 1..Len(new) : (i \in 1..Len(q) /\ new[i] = q[i])
                                \/ (i = Len(q) + 1 /\ new[i] = x)
      /\ \A i \in 1..Len(q) : q[i] \in Nat
  OBVIOUS
<1> HIDE DEF new
<1>2. Above(n, new) /\ UpTo(x, new)
  <2>1. SUFFICES ASSUME NEW i \in 1..Len(new) PROVE n < new[i] /\ new[i] <= x
    BY DEF Above, UpTo
  <2>2. CASE i \in 1..Len(q) /\ new[i] = q[i]
    BY <1>1, <2>2 DEF Above, UpTo
  <2>3. CASE new[i] = x
    BY <2>3
  <2> QED
    BY <1>1, <2>2, <2>3
<1>3. Ascending(new)
  <2>1. SUFFICES ASSUME NEW i \in 1..Len(new), NEW j \in 1..Len(new), i < j
                 PROVE  new[i] < new[j]
    BY DEF Ascending
  <2>2. i \in 1..Len(q) /\ new[i] = q[i]
    BY <1>1, <2>1
  <2>3. CASE j \in 1..Len(q) /\ new[j] = q[j]
    BY <2>1, <2>2, <2>3 DEF Ascending
  <2>4. CASE new[j] = x
    BY <1>1, <2>2, <2>4 DEF UpTo
  <2> QED
    BY <1>1, <2>3, <2>4
<1> QED
  BY <1>2, <1>3 DEF new

LEMMA TreesAreNumbers ==
  ASSUME TypeInvariant
  PROVE  /\ \A s \in Shells : built[s] \in Nat /\ shown[s] \in Nat /\ pipeline[s] \in Seq(Nat)
         /\ \A t \in Threads : draw[t].tree \in Nat
<1>1. Trees \cup {0} \subseteq Nat
  BY TreesAssumption
<1>2. ASSUME NEW s \in Shells
      PROVE  built[s] \in Nat /\ shown[s] \in Nat /\ pipeline[s] \in Seq(Nat)
  <2>1. /\ {built, shown} \subseteq [Shells -> Trees \cup {0}]
        /\ pipeline \in [Shells -> Seq(Trees \cup {0})]
    BY DEF TypeInvariant
  <2>2. pipeline[s] \in Seq(Nat)
    BY <1>1, <2>1, SMTT(30)
  <2> QED
    BY <1>1, <2>1, <2>2
<1>3. ASSUME NEW t \in Threads PROVE draw[t].tree \in Nat
  BY <1>1 DEF TypeInvariant
<1> QED
  BY <1>2, <1>3

OrderInv == IInv /\ TypeInvariant /\ SingleConsumer /\ TreeOrder

orderVars == <<pipeline, built, shown, draw, resubmitted>>

LEMMA OrderStutters ==
  ASSUME TreeOrder, UNCHANGED orderVars
  PROVE  TreeOrder'
<1>1. \A s \in Shells : QueueOrder(s)'
  BY DEF TreeOrder, orderVars, QueueOrder, Ascending, Above, UpTo
<1>2. \A t \in Threads, s \in Shells : HandOrder(t, s)'
  BY DEF TreeOrder, orderVars, HandOrder, InHand, InDraw, InTheDraw, Above
<1>3. \A t \in Threads : Retries(t)'
  BY DEF TreeOrder, orderVars, Retries
<1> QED
  BY <1>1, <1>2, <1>3 DEF TreeOrder

\* Whoever is in a Draw is the only one that is in a Draw of this shell.
LEMMA AloneInTheDraw ==
  ASSUME OrderInv, NEW t \in Threads, draw[t].phase # "none"
  PROVE  /\ draw[t].shell \in Shells
         /\ \A u \in Threads : u # t => ~InTheDraw(u, draw[t].shell)
<1>1. draw[t].shell \in Shells
  BY DEF OrderInv, IInv, ThreadInv, BusyForAShell
<1> QED
  BY <1>1 DEF OrderInv, SingleConsumer, InTheDraw

\* A Draw goes on with the tree it has, or gives it up.
LEMMA GoesOnWithItsTree ==
  ASSUME OrderInv, NEW t \in Threads, draw[t].phase # "none",
         UNCHANGED <<pipeline, built, shown>>,
         \A u \in Threads : u # t => draw'[u] = draw[u],
         draw'[t].tree = draw[t].tree,
         \A s \in Shells : InHand(t, s)' => InHand(t, s),
         \A s \in Shells : s # draw[t].shell => resubmitted'[s] = resubmitted[s],
         Retries(t)'
  PROVE  TreeOrder'
<1>1. \A s \in Shells : QueueOrder(s)'
  BY DEF OrderInv, TreeOrder, QueueOrder, Ascending, Above, UpTo
<1>2. ASSUME NEW u \in Threads, NEW s \in Shells PROVE HandOrder(u, s)'
  <2>1. InHand(u, s)' => InHand(u, s)
    BY DEF InHand, InDraw, InTheDraw
  <2>2. draw'[u].tree = draw[u].tree
    OBVIOUS
  <2> QED
    BY <2>1, <2>2 DEF OrderInv, TreeOrder, HandOrder, Above
<1>3. ASSUME NEW u \in Threads, u # t PROVE Retries(u)'
  <2>1. CASE draw[u].phase = "none"
    BY <1>3, <2>1 DEF Retries
  <2>2. CASE draw[u].phase # "none"
    <3>1. draw[u].shell \in Shells /\ draw[u].shell # draw[t].shell
      BY <1>3, <2>2, AloneInTheDraw DEF InTheDraw
    <3> QED
      BY <1>3, <3>1 DEF OrderInv, TreeOrder, Retries
  <2> QED
    BY <2>1, <2>2
<1> QED
  BY <1>1, <1>2, <1>3 DEF TreeOrder

LEMMA DrawsKeepOrder ==
  ASSUME OrderInv, NEW t \in Threads,
         FailDraw(t) \/ BeginMerge(t) \/ SkipAndRetry(t) \/ Preroll(t) \/ Resubmit(t)
  PROVE  TreeOrder' /\ UNCHANGED shown
<1> DEFINE s == draw[t].shell
<1>1. /\ UNCHANGED <<pipeline, built, shown>>
      /\ draw[t].phase \in DoDrawPhases
  BY DEF FailDraw, BeginMerge, SkipAndRetry, Preroll, Resubmit, Drawable, Inside, DoDrawPhases
<1>2. draw \in [Threads -> Draws] /\ resubmitted \in [Shells -> Trees \cup {0}]
  BY DEF OrderInv, IInv, ThreadTypes, TreeTypes, Draws
<1>3. draw[t].phase # "none" /\ s \in Shells
  BY <1>1, AloneInTheDraw DEF DoDrawPhases
<1>4. Retries(t)
  BY DEF OrderInv, TreeOrder
<1>5. /\ \A u \in Threads : u # t => draw'[u] = draw[u]
      /\ draw'[t].tree = draw[t].tree /\ draw'[t].shell = s
      /\ \A r \in Shells : r # s => resubmitted'[r] = resubmitted[r]
  BY <1>2 DEF FailDraw, BeginMerge, SkipAndRetry, Preroll, Resubmit, Draws
<1>6. \A r \in Shells : InHand(t, r)' => InHand(t, r)
  BY <1>1, <1>3, <1>5 DEF InHand, InDraw, InTheDraw
<1>7. Retries(t)'
  <2>1. CASE FailDraw(t) \/ BeginMerge(t)
    BY <1>2, <1>4, <2>1 DEF FailDraw, BeginMerge, Drawable, Inside, Retries, Draws
  <2>2. CASE SkipAndRetry(t) \/ Resubmit(t)
    BY <1>2, <1>3, <2>2 DEF SkipAndRetry, Resubmit, Retries, Draws
  <2>3. CASE Preroll(t)
    BY <1>2, <2>3 DEF Preroll, Retries, Draws
  <2> QED
    BY <2>1, <2>2, <2>3
<1> QED
  BY <1>1, <1>3, <1>5, <1>6, <1>7, GoesOnWithItsTree

\* The tree that is shown is newer than the last one, and no longer in hand.
LEMMA SubmitKeepsOrder ==
  ASSUME OrderInv, NEW t \in Threads, Submit(t)
  PROVE  TreeOrder' /\ \A s \in Shells : shown[s] <= shown'[s]
<1> DEFINE s == draw[t].shell
<1>1. /\ UNCHANGED <<pipeline, built, resubmitted>>
      /\ shown' = [shown EXCEPT ![s] = draw[t].tree]
      /\ draw[t].phase = "submitting" /\ ~draw[t].retry
  BY DEF Submit, Inside
<1>2. /\ draw \in [Threads -> Draws] /\ shown \in [Shells -> Trees \cup {0}]
      /\ \A r \in Shells : shown[r] \in Nat /\ built[r] \in Nat /\ pipeline[r] \in Seq(Nat)
      /\ draw[t].tree \in Nat
  BY TreesAreNumbers DEF OrderInv, IInv, ThreadTypes, Draws, TypeInvariant
<1>3. s \in Shells /\ \A u \in Threads : u # t => ~InTheDraw(u, s)
  BY <1>1, AloneInTheDraw
<1>4. /\ \A u \in Threads : u # t => draw'[u] = draw[u]
      /\ draw'[t].phase = "ending" /\ ~draw'[t].retry
  BY <1>1, <1>2 DEF Submit, Draws
<1>5. shown'[s] = draw[t].tree /\ \A r \in Shells : r # s => shown'[r] = shown[r]
  BY <1>1, <1>2, <1>3
<1>6. shown[s] < draw[t].tree /\ draw[t].tree <= built[s] /\ Above(draw[t].tree, pipeline[s])
  <2>1. InHand(t, s)
    BY <1>1 DEF InHand, InDraw, DoDrawPhases
  <2> QED
    BY <1>3, <2>1 DEF OrderInv, TreeOrder, HandOrder
<1>7. ASSUME NEW r \in Shells PROVE QueueOrder(r)'
  <2>1. QueueOrder(r)
    BY SMTT(30) DEF OrderInv, TreeOrder
  <2>2. CASE r = s
    BY <1>1, <1>5, <1>6, <2>1, <2>2 DEF QueueOrder, Above, UpTo, Ascending
  <2>3. CASE r # s
    BY <1>1, <1>5, <2>1, <2>3 DEF QueueOrder, Above, UpTo, Ascending
  <2> QED
    BY <2>2, <2>3
<1>8. ASSUME NEW u \in Threads, NEW r \in Shells, InHand(u, r)' PROVE HandOrder(u, r)'
  <2>1. u # t
    BY <1>4, <1>8 DEF InHand, InDraw, DoDrawPhases
  <2>2. InHand(u, r) /\ draw'[u] = draw[u]
    BY <1>4, <1>8, <2>1 DEF InHand, InDraw, InTheDraw
  <2>3. r # s
    BY <1>3, <2>1, <2>2 DEF InHand, InDraw, InTheDraw, DoDrawPhases
  <2> QED
    BY <1>1, <1>5, <2>2, <2>3 DEF OrderInv, TreeOrder, HandOrder, Above
<1>9. ASSUME NEW u \in Threads PROVE Retries(u)'
  BY <1>1, <1>4 DEF OrderInv, TreeOrder, Retries
<1>10. TreeOrder'
  <2>1. \A u \in Threads, r \in Shells : HandOrder(u, r)'
    BY <1>8 DEF HandOrder
  <2> QED
    BY <1>7, <1>9, <2>1 DEF TreeOrder
<1>11. ASSUME NEW r \in Shells PROVE shown[r] <= shown'[r]
  BY SMTT(30), <1>2, <1>5, <1>6
<1> QED
  BY <1>10, <1>11

\* The tree is pushed back in front of nothing, or there is a newer one.
LEMMA EndKeepsOrder ==
  ASSUME OrderInv, NEW t \in Threads, EndDraw(t)
  PROVE  TreeOrder' /\ UNCHANGED shown
<1>1. UNCHANGED <<built, shown>> /\ draw[t].phase = "ending"
  BY DEF EndDraw, Inside
<1>2. PICK s \in Shells : s = draw[t].shell
  BY <1>1, AloneInTheDraw
<1>3. /\ draw \in [Threads -> Draws]
      /\ resubmitted \in [Shells -> Trees \cup {0}]
      /\ pipeline \in [Shells -> Seq(Trees \cup {0})]
      /\ \A r \in Shells : shown[r] \in Nat /\ built[r] \in Nat
      /\ draw[t].tree \in Nat
  BY TreesAreNumbers DEF OrderInv, IInv, ThreadTypes, TreeTypes, Draws, TypeInvariant
<1>4. \A u \in Threads : u # t => ~InTheDraw(u, s)
  BY <1>1, <1>2, AloneInTheDraw
<1>5. /\ draw'[t].phase = "none" /\ ~draw'[t].retry
      /\ \A u \in Threads : u # t => draw'[u] = draw[u]
      /\ \A r \in Shells : r # s => pipeline'[r] = pipeline[r]
                                    /\ resubmitted'[r] = resubmitted[r]
  BY <1>3, <1>2 DEF EndDraw, NoDraw
<1>6. pipeline'[s] = pipeline[s] \/ (pipeline'[s] = <<draw[t].tree>> /\ draw[t].retry)
  BY <1>1, <1>3, <1>2 DEF EndDraw, OrderInv, TreeOrder, Retries
<1>7. QueueOrder(s)'
  <2>1. CASE pipeline'[s] = pipeline[s]
    BY <1>1, <2>1 DEF OrderInv, TreeOrder, QueueOrder, Above, UpTo, Ascending
  <2>2. CASE pipeline'[s] = <<draw[t].tree>> /\ draw[t].retry
    <3>1. InHand(t, s)
      BY <1>1, <1>2, <2>2 DEF InHand, InTheDraw
    <3>2. shown[s] < draw[t].tree /\ draw[t].tree <= built[s] /\ shown[s] <= built[s]
      BY <3>1 DEF OrderInv, TreeOrder, HandOrder, QueueOrder
    <3>3. Len(pipeline'[s]) = 1 /\ pipeline'[s][1] = draw[t].tree
      BY <2>2
    <3> QED
      BY <1>1, <1>3, <3>2, <3>3 DEF QueueOrder, Above, UpTo, Ascending
  <2> QED
    BY <1>6, <2>1, <2>2
<1>8. ASSUME NEW r \in Shells, r # s PROVE QueueOrder(r)'
  BY <1>1, <1>5, <1>8 DEF OrderInv, TreeOrder, QueueOrder, Above, UpTo, Ascending
<1>9. ASSUME NEW u \in Threads, NEW r \in Shells, InHand(u, r)' PROVE HandOrder(u, r)'
  <2>1. u # t
    BY <1>5, <1>9 DEF InHand, InDraw, InTheDraw, DoDrawPhases
  <2>2. InHand(u, r) /\ draw'[u] = draw[u]
    BY <1>5, <1>9, <2>1 DEF InHand, InDraw, InTheDraw
  <2>3. r # s
    BY <1>4, <2>1, <2>2 DEF InHand, InDraw, InTheDraw, DoDrawPhases
  <2> QED
    BY <1>1, <1>5, <2>2, <2>3 DEF OrderInv, TreeOrder, HandOrder, Above
<1>10. ASSUME NEW u \in Threads PROVE Retries(u)'
  <2>1. CASE u = t
    BY <1>5, <2>1 DEF Retries
  <2>2. CASE u # t /\ draw[u].phase = "none"
    BY <1>5, <2>2 DEF Retries
  <2>3. CASE u # t /\ draw[u].phase # "none"
    <3>1. draw[u].shell \in Shells /\ draw[u].shell # s
      BY <1>4, <2>3, AloneInTheDraw DEF InTheDraw
    <3> QED
      BY <1>5, <2>3, <3>1 DEF OrderInv, TreeOrder, Retries
  <2> QED
    BY <2>1, <2>2, <2>3
<1> QED
  <2>1. \A u \in Threads, r \in Shells : HandOrder(u, r)'
    BY <1>9 DEF HandOrder
  <2> QED
    BY <1>1, <1>7, <1>8, <1>10, <2>1 DEF TreeOrder

\* The tree in hand is the oldest of the queue.
LEMMA BeginKeepsOrder ==
  ASSUME OrderInv, SingleConsumer', NEW t \in Threads, NEW s \in Shells, BeginDraw(t, s)
  PROVE  TreeOrder' /\ UNCHANGED shown
<1> DEFINE q == pipeline[s]
<1>1. UNCHANGED <<built, shown, resubmitted>> /\ q # <<>>
  BY DEF BeginDraw
<1>2. /\ draw \in [Threads -> Draws] /\ pipeline \in [Shells -> Seq(Trees \cup {0})]
      /\ shown[s] \in Nat /\ built[s] \in Nat /\ q \in Seq(Nat)
  BY TreesAreNumbers DEF OrderInv, IInv, ThreadTypes, TreeTypes, Draws
<1>3. /\ pipeline'[s] = Tail(q) /\ \A r \in Shells : r # s => pipeline'[r] = pipeline[r]
      /\ draw'[t].phase = "drawing" /\ draw'[t].shell = s /\ draw'[t].tree = Head(q)
      /\ ~draw'[t].retry
      /\ \A u \in Threads : u # t => draw'[u] = draw[u]
  BY <1>2 DEF BeginDraw
<1>4. QueueOrder(s)
  BY DEF OrderInv, TreeOrder
<1>5. /\ Ascending(Tail(q)) /\ Above(shown[s], Tail(q)) /\ UpTo(built[s], Tail(q))
      /\ shown[s] < Head(q) /\ Head(q) <= built[s] /\ Above(Head(q), Tail(q))
  <2> HIDE DEF q
  <2> QED
    BY <1>1, <1>2, <1>4, Popped DEF QueueOrder, q
<1>6. ASSUME NEW r \in Shells PROVE QueueOrder(r)'
  <2>1. CASE r = s
    <3>1. /\ pipeline'[r] = Tail(q) /\ built'[r] = built[s] /\ shown'[r] = shown[s]
          /\ shown[s] <= built[s]
      BY <1>1, <1>3, <1>4, <2>1 DEF QueueOrder
    <3> DEFINE rest == Tail(q)
    <3> HIDE DEF rest
    <3>2. /\ Ascending(rest) /\ Above(shown[s], rest) /\ UpTo(built[s], rest)
          /\ pipeline'[r] = rest
      BY Zenon, <1>5, <3>1 DEF rest
    <3> QED
      BY Zenon, <3>1, <3>2 DEF QueueOrder, Above, UpTo, Ascending
  <2>2. CASE r # s
    BY <1>1, <1>3, <2>2 DEF OrderInv, TreeOrder, QueueOrder, Above, UpTo, Ascending
  <2> QED
    BY <2>1, <2>2
<1>7. ASSUME NEW u \in Threads, NEW r \in Shells, InHand(u, r)' PROVE HandOrder(u, r)'
  <2>1. CASE u = t
    <3>1. r = s
      BY <1>3, <1>7, <2>1 DEF InHand, InDraw, InTheDraw
    <3> QED
      BY ZenonT(60), <1>1, <1>3, <1>5, <2>1, <3>1 DEF HandOrder, Above
  <2>2. CASE u # t
    <3>1. InHand(u, r) /\ draw'[u] = draw[u]
      BY <1>3, <1>7, <2>2 DEF InHand, InDraw, InTheDraw
    <3>2. r # s
      BY <1>3, <1>7, <2>2 DEF SingleConsumer, InHand, InDraw, InTheDraw, DoDrawPhases
    <3> QED
      BY <1>1, <1>3, <3>1, <3>2 DEF OrderInv, TreeOrder, HandOrder, Above
  <2> QED
    BY <2>1, <2>2
<1>8. ASSUME NEW u \in Threads PROVE Retries(u)'
  BY <1>1, <1>3 DEF OrderInv, TreeOrder, Retries
<1> QED
  <2>1. \A u \in Threads, r \in Shells : HandOrder(u, r)'
    BY <1>7 DEF HandOrder
  <2> QED
    BY <1>1, <1>6, <1>8, <2>1 DEF TreeOrder

\* A newer tree is queued.
LEMMA RenderKeepsOrder ==
  ASSUME OrderInv, NEW s \in Shells, NEW x \in Trees, Render(s, x)
  PROVE  TreeOrder' /\ UNCHANGED shown
<1> DEFINE q == pipeline[s]
           new == Append(q, x)
<1>1. UNCHANGED <<draw, shown, resubmitted>> /\ built[s] < x
  BY TreesAreNumbers, TreesAssumption DEF Render, OrderInv
<1>2. /\ pipeline \in [Shells -> Seq(Trees \cup {0})] /\ built \in [Shells -> Trees \cup {0}]
      /\ shown[s] \in Nat /\ built[s] \in Nat /\ q \in Seq(Nat) /\ x \in Nat
  BY TreesAreNumbers, TreesAssumption DEF OrderInv, IInv, TreeTypes, TypeInvariant
<1>3. /\ pipeline'[s] = new /\ built'[s] = x
      /\ \A r \in Shells : r # s => pipeline'[r] = pipeline[r] /\ built'[r] = built[r]
  BY <1>2 DEF Render
<1>4. QueueOrder(s)
  BY DEF OrderInv, TreeOrder
<1>5. shown[s] < x
  BY <1>1, <1>2, <1>4 DEF QueueOrder
<1>6. QueueOrder(s)'
  <2>1. shown'[s] <= built'[s]
    BY <1>1, <1>2, <1>3, <1>5
  <2>2. /\ Ascending(new) /\ Above(shown[s], new) /\ UpTo(x, new)
    BY <1>1, <1>2, <1>4, <1>5, Pushed DEF QueueOrder, new
  <2> HIDE DEF new
  <2> QED
    BY <1>1, <1>3, <2>1, <2>2 DEF QueueOrder, Above, UpTo, Ascending
<1>7. ASSUME NEW r \in Shells, r # s PROVE QueueOrder(r)'
  BY <1>1, <1>3, <1>7 DEF OrderInv, TreeOrder, QueueOrder, Above, UpTo, Ascending
<1>8. ASSUME NEW u \in Threads, NEW r \in Shells, InHand(u, r)' PROVE HandOrder(u, r)'
  <2>1. InHand(u, r) /\ draw' = draw
    BY <1>1, <1>8 DEF InHand, InDraw, InTheDraw
  <2>2. /\ shown[r] < draw[u].tree /\ draw[u].tree <= built[r]
        /\ Above(draw[u].tree, pipeline[r]) /\ draw[u].tree \in Nat
    BY <2>1, TreesAreNumbers DEF OrderInv, TreeOrder, HandOrder
  <2>3. CASE r = s
    <3>1. draw[u].tree < x /\ draw[u].tree <= x
      BY <1>1, <1>2, <2>2, <2>3
    <3>2. Above(draw[u].tree, new)
      BY <1>1, <1>2, <1>4, <2>2, <2>3, <3>1, Pushed DEF QueueOrder, new
    <3> HIDE DEF new
    <3> QED
      BY <1>1, <1>3, <2>1, <2>2, <2>3, <3>1, <3>2 DEF HandOrder, Above
  <2>4. CASE r # s
    BY <1>1, <1>3, <2>1, <2>2, <2>4 DEF HandOrder, Above
  <2> QED
    BY <2>3, <2>4
<1>9. ASSUME NEW u \in Threads PROVE Retries(u)'
  BY <1>1 DEF OrderInv, TreeOrder, Retries
<1> QED
  <2>1. \A u \in Threads, r \in Shells : HandOrder(u, r)'
    BY <1>8 DEF HandOrder
  <2> QED
    BY <1>1, <1>6, <1>7, <1>9, <2>1 DEF TreeOrder

LEMMA StepsKeepOrder ==
  ASSUME OrderInv, SingleConsumer', [Next]_vars
  PROVE  TreeOrder' /\ \A s \in Shells : shown[s] <= shown'[s]
<1>1. ASSUME shown' = shown PROVE \A s \in Shells : shown[s] <= shown'[s]
  BY <1>1, TreesAreNumbers DEF OrderInv
<1>2. ASSUME NEW t \in Threads, ContinueDraw(t), ~Submit(t), ~SubmitAborts(t)
      PROVE  TreeOrder' /\ UNCHANGED shown
  BY <1>2, DrawsKeepOrder, EndKeepsOrder DEF ContinueDraw
<1>3. ASSUME UNCHANGED orderVars PROVE TreeOrder' /\ UNCHANGED shown
  BY <1>3, OrderStutters DEF OrderInv, orderVars
<1>4. ASSUME NEW t \in Threads, SubmitAborts(t) PROVE UNCHANGED orderVars
  BY <1>4 DEF SubmitAborts, rasterVars, orderVars
<1>5. ASSUME NEW t \in Threads, NEW s \in Shells,
             SkipDraw(t, s) \/ RunSetup(t, s) \/ RunTeardown(t, s)
      PROVE  UNCHANGED orderVars
  BY <1>5 DEF SkipDraw, RunSetup, RunTeardown, rasterVars, orderVars
<1>6. ASSUME ContinuePlatform PROVE UNCHANGED orderVars
  BY <1>6 DEF ContinuePlatform, OnPlatformViewCreated, OnPlatformViewDestroyed,
                 rasterVars, orderVars
<1>7. ASSUME NEW s \in Shells, DisableForCreate(s) \/ DisableForDestroy(s)
      PROVE  UNCHANGED orderVars
  BY <1>7 DEF DisableForCreate, DisableForDestroy, rasterVars, orderVars
<1>8. CASE UNCHANGED vars
  <2>1. UNCHANGED orderVars
    BY <1>8 DEF vars, rasterVars, orderVars
  <2> QED
    BY <1>1, <1>3, <2>1
<1>9. CASE \E t \in Threads : RunTask(t)
  <2>1. PICK t \in Threads, s \in Shells :
           SkipDraw(t, s) \/ BeginDraw(t, s) \/ RunSetup(t, s) \/ RunTeardown(t, s)
    BY <1>9 DEF RunTask
  <2> QED
    BY <1>1, <1>3, <1>5, <2>1, BeginKeepsOrder
<1>10. CASE \E t \in Threads : ContinueDraw(t)
  BY <1>1, <1>2, <1>3, <1>4, <1>10, SubmitKeepsOrder
<1>11. CASE \E s \in Shells, x \in Trees : Render(s, x)
  BY <1>1, <1>11, RenderKeepsOrder
<1>12. CASE ContinuePlatform
  BY <1>1, <1>3, <1>6, <1>12
<1>13. CASE \E s \in Shells : DisableForCreate(s) \/ DisableForDestroy(s)
  BY <1>1, <1>3, <1>7, <1>13
<1> QED
  BY <1>8, <1>9, <1>10, <1>11, <1>12, <1>13 DEF Next, ThreadStep

\* As long as no two Draws of one shell overlap, which is what the pipeline was made
\* for, the surface of every shell shows its trees in the order the framework
\* rendered them: through merged and unmerged threads, frames that are skipped,
\* drawn twice and pushed back, and surfaces that come and go.
THEOREM InOrderWithOneConsumer == Spec /\ []SingleConsumer => TreesInOrder
<1>1. Init => TreeOrder
  <2>1. SUFFICES ASSUME Init PROVE TreeOrder
    OBVIOUS
  <2>2. ASSUME NEW s \in Shells PROVE QueueOrder(s)
    BY <2>1 DEF Init, QueueOrder, Ascending, Above, UpTo
  <2>3. ASSUME NEW t \in Threads PROVE Retries(t) /\ \A s \in Shells : ~InHand(t, s)
    BY <2>1 DEF Init, NoDraw, Retries, InHand, InDraw, InTheDraw, DoDrawPhases
  <2> QED
    BY <2>2, <2>3 DEF TreeOrder, HandOrder
<1>2. OrderInv /\ SingleConsumer' /\ [Next]_vars => TreeOrder'
  BY StepsKeepOrder
<1>3. OrderInv /\ SingleConsumer' /\ [Next]_vars
         => [\A s \in Shells : shown[s] <= shown'[s]]_vars
  BY StepsKeepOrder
<1>4. IInv /\ TypeInvariant /\ SingleConsumer /\ TreeOrder => OrderInv
  BY DEF OrderInv
<1> QED
  BY <1>1, <1>2, <1>3, <1>4, Invariance, ViewsTypeCorrect, PTL DEF Spec, TreesInOrder
=============================================================================
