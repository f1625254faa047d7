----------------------------- MODULE WindowsResize -----------------------------
(***************************************************************************)
(* A window of the Windows embedder is resized                             *)
(* (shell/platform/windows/flutter_windows_view.cc): the platform thread   *)
(* tells the framework, and waits until the raster thread has resized the  *)
(* surface and presented a frame of the new size, or for a limited time.   *)
(* The raster thread keeps a surface of its own                            *)
(* (shell/gpu/gpu_surface_gl_skia.cc), and asks for the window's           *)
(* framebuffer only when that one has not the size of the frame; the shell *)
(* discards frames that have not the size it was told last.                *)
(***************************************************************************)
EXTENDS Integers, Sequences

CONSTANTS
    Sizes,       \* sizes of the window, none of them empty
    MaxResizes,  \* bound on the changes of the size
    MaxFrames    \* bound on the frames between the UI and the raster thread

ASSUME MaxResizesAssumption == MaxResizes \in Nat
ASSUME MaxFramesInFlightAssumption == MaxFrames \in Nat \ {0}

VARIABLES
    window,        \* the size the platform thread was told last
    expected,      \* expected_frame_size_ of the shell
    resizes,       \* changes so far
    status,        \* resize_status_
    target,        \* resize_target_width_ and resize_target_height_
    resizer,       \* OnWindowSizeChanged: "idle", "telling" the shell, "waiting"
    metrics,       \* sizes on their way to the UI thread
    viewport,      \* the size the framework lays out for
    needsFrame,    \* the framework has scheduled a frame for its viewport
    frames,        \* sizes of the frames for the raster thread
    raster,        \* what the raster thread does with a frame
    frame,         \* the size of that frame
    onscreen,      \* the size of onscreen_surface_
    windowSurface, \* the size of the surface of the window
    presentedSize, \* history: the size of the frame that was presented last
    timedOut,      \* history: a wait has ended without a frame
    overtaken      \* history: the UI thread had the size before the shell expected it

resizeVars == <<window, expected, resizes, status, target, resizer, metrics, viewport,
                needsFrame, frames, raster, frame, onscreen, windowSurface, presentedSize,
                timedOut, overtaken>>
resizerVars == <<window, expected, resizes, target, resizer, timedOut>>
uiVars == <<metrics, viewport, needsFrame, overtaken>>
drawVars == <<frames, raster, frame, onscreen, windowSurface, presentedSize>>

\* Every variable has its type.
ResizeTypeOK ==
    /\ window \in Sizes /\ expected \in Sizes /\ target \in Sizes /\ viewport \in Sizes
    /\ frame \in Sizes /\ onscreen \in Sizes
    /\ windowSurface \in Sizes /\ presentedSize \in Sizes
    /\ resizes \in 0..MaxResizes
    /\ status \in {"kDone", "kResizeStarted", "kFrameGenerated"}
    /\ resizer \in {"idle", "telling", "waiting"}
    /\ needsFrame \in BOOLEAN /\ timedOut \in BOOLEAN /\ overtaken \in BOOLEAN
    /\ metrics \in Seq(Sizes) /\ frames \in Seq(Sizes)
    /\ raster \in {"idle", "acquire", "present", "presented"}

\* A frame of the size of the window was presented.
ResizeInit ==
    \E size \in Sizes :
        /\ window = size /\ expected = size /\ target = size /\ viewport = size
        /\ frame = size /\ onscreen = size
        /\ windowSurface = size /\ presentedSize = size
        /\ resizes = 0 /\ status = "kDone" /\ resizer = "idle"
        /\ metrics = <<>> /\ needsFrame = FALSE
        /\ frames = <<>> /\ raster = "idle" /\ timedOut = FALSE /\ overtaken = FALSE

(***************************************************************************)
(* The platform thread.                                                    *)
(***************************************************************************)
SurfaceWillUpdate(size) == size # windowSurface

\* OnWindowSizeChanged under resize_mutex_, as far as the task for the UI thread.
OnWindowSizeChanged(size) ==
    /\ resizer = "idle" /\ resizes < MaxResizes /\ size # window
    /\ resizes' = resizes + 1
    /\ window' = size
    /\ resizer' = "telling"
    /\ metrics' = Append(metrics, size)
    /\ IF SurfaceWillUpdate(size)
       THEN status' = "kResizeStarted" /\ target' = size
       ELSE UNCHANGED <<status, target>>
    /\ UNCHANGED <<expected, viewport, needsFrame, drawVars, timedOut, overtaken>>

\* The rest of OnPlatformViewSetViewportMetrics; then the wait, which lets go of the
\* mutex, or the end.
ExpectFrameSize ==
    /\ resizer = "telling"
    /\ expected' = window
    /\ resizer' = IF SurfaceWillUpdate(window) THEN "waiting" ELSE "idle"
    /\ UNCHANGED <<window, resizes, status, target, timedOut, uiVars, drawVars>>

ResizeIsDone ==
    /\ resizer = "waiting" /\ status = "kDone"
    /\ resizer' = "idle"
    /\ UNCHANGED <<window, expected, resizes, status, target, timedOut, uiVars, drawVars>>

\* kWindowResizeTimeout has passed.
ResizeTimesOut ==
    /\ resizer = "waiting" /\ status # "kDone"
    /\ resizer' = "idle" /\ timedOut' = TRUE
    /\ UNCHANGED <<window, expected, resizes, status, target, uiVars, drawVars>>

\* ForceRedraw, when a plugin or the system asks for it.
ForceRedraw ==
    /\ resizer = "idle" /\ status = "kDone" /\ ~needsFrame
    /\ needsFrame' = TRUE
    /\ UNCHANGED <<resizerVars, status, metrics, viewport, overtaken, drawVars>>

(***************************************************************************)
(* The UI thread.                                                          *)
(***************************************************************************)
SetViewportMetrics ==
    /\ metrics # <<>>
    /\ viewport' = Head(metrics) /\ metrics' = Tail(metrics)
    /\ needsFrame' = TRUE
    /\ overtaken' = (overtaken \/ resizer = "telling")
    /\ UNCHANGED <<resizerVars, status, drawVars>>

BuildFrame ==
    /\ needsFrame /\ Len(frames) < MaxFrames
    /\ needsFrame' = FALSE
    /\ frames' = Append(frames, viewport)
    /\ UNCHANGED <<resizerVars, status, metrics, viewport, overtaken, raster, frame, onscreen,
                   windowSurface, presentedSize>>

(***************************************************************************)
(* The raster thread.                                                      *)
(***************************************************************************)
Discarded(size) == size # expected

\* OnAnimatorDraw's task: the frame is discarded, or a surface is acquired for it.
DrawFrame ==
    /\ raster = "idle" /\ frames # <<>>
    /\ frames' = Tail(frames)
    /\ frame' = Head(frames)
    /\ raster' = IF Discarded(Head(frames)) THEN "idle" ELSE "acquire"
    /\ UNCHANGED <<resizerVars, status, uiVars, onscreen, windowSurface, presentedSize>>

\* Both are called with resize_mutex_ free.  The surface of the window gets the size the
\* resize waits for.
ResizeMutexIsFree == resizer # "telling"

GetFrameBufferId_Later(size) ==   \* mutant: the surface is resized by the next frame
    IF status = "kResizeStarted" /\ target = size
    THEN status' = "kFrameGenerated" /\ windowSurface' = windowSurface
    ELSE UNCHANGED <<status, windowSurface>>
GetFrameBufferId(size) ==
    IF status = "kResizeStarted" /\ target = size
    THEN windowSurface' = size /\ status' = "kFrameGenerated"
    ELSE UNCHANGED <<status, windowSurface>>

\* CreateOrUpdateSurfaces.
AcquireFrame ==
    /\ raster = "acquire" /\ ResizeMutexIsFree
    /\ onscreen' = frame
    /\ raster' = "present"
    /\ IF onscreen = frame THEN UNCHANGED <<status, windowSurface>> ELSE GetFrameBufferId(frame)
    /\ UNCHANGED <<resizerVars, uiVars, frames, frame, presentedSize>>

\* SwapBuffers, in PresentSurface; the platform thread waits no more.
SwapBuffers_Silent ==    \* mutant: resize_status_ stays kFrameGenerated
    /\ raster = "present" /\ ResizeMutexIsFree
    /\ IF status = "kResizeStarted"
       THEN raster' = "idle" /\ UNCHANGED <<status, presentedSize>>
       ELSE raster' = "presented" /\ presentedSize' = frame /\ UNCHANGED status
    /\ UNCHANGED <<resizerVars, uiVars, frames, frame, onscreen, windowSurface>>
SwapBuffers ==
    /\ raster = "present" /\ ResizeMutexIsFree
    /\ IF status = "kResizeStarted"
       THEN raster' = "idle" /\ UNCHANGED <<status, presentedSize>>
       ELSE raster' = "presented" /\ presentedSize' = frame /\ status' = "kDone"
    /\ UNCHANGED <<resizerVars, uiVars, frames, frame, onscreen, windowSurface>>

\* GLContextFBOResetAfterPresent: the framebuffer is asked for again.
ResetFrameBuffer ==
    /\ raster = "presented" /\ ResizeMutexIsFree
    /\ raster' = "idle"
    /\ GetFrameBufferId(onscreen)
    /\ UNCHANGED <<resizerVars, uiVars, frames, frame, onscreen, presentedSize>>

-----------------------------------------------------------------------------
RasterWork == DrawFrame \/ AcquireFrame \/ SwapBuffers \/ ResetFrameBuffer

ResizeNext ==
    \/ \E size \in Sizes : OnWindowSizeChanged(size)
    \/ ExpectFrameSize \/ ResizeIsDone \/ ResizeTimesOut \/ ForceRedraw
    \/ SetViewportMetrics \/ BuildFrame \/ RasterWork

ResizeSpec == ResizeInit /\ [][ResizeNext]_resizeVars

\* Each thread goes on with its work; the wait need not time out.
ResizeFairness ==
    /\ WF_resizeVars(SetViewportMetrics) /\ WF_resizeVars(BuildFrame)
    /\ WF_resizeVars(RasterWork) /\ WF_resizeVars(ExpectFrameSize \/ ResizeIsDone)

-----------------------------------------------------------------------------
\* When the platform thread goes on and no wait was cut short, what is shown has the
\* size of the window, and so has its surface.
ResizedWindowIsShown ==
    resizer = "idle" /\ ~timedOut
        => status = "kDone" /\ windowSurface = window /\ presentedSize = window

\* While a resize is in progress and no wait was cut short, a frame that is presented
\* has the size it waits for, drawn on a surface of that size.
NoOtherFrameIsShown ==
    [][~timedOut /\ status # "kDone" /\ status' = "kDone"
           => frame = target /\ windowSurface = target /\ onscreen = target]_resizeVars

\* The framework and the raster thread end the wait, without its timeout, unless
\* the frame was there so soon that the shell did not expect it yet.
ResizeIsAnswered == []<>(resizer # "waiting" \/ status = "kDone" \/ timedOut \/ overtaken)

\* A resize comes to its end with a frame of the new size, and no other one.
ResizeEndsWithItsFrame == NoOtherFrameIsShown /\ ResizeIsAnswered

(***************************************************************************)
(* What the code says of itself and does not keep.                         *)
(***************************************************************************)
\* "Platform thread will be blocked while this is not done"
\* (flutter_windows_view.h:397): nothing but a frame of the target's size ends
\* what is in progress, and until then no frame is shown.
BlockedWhileNotDone == status # "kDone" => resizer # "idle"
=============================================================================
