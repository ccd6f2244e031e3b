----------------------------- MODULE MainWindow -----------------------------
(***************************************************************************)
(* The window: mouse input that becomes touches for the sender, and the    *)
(* pictures the message loop puts on the screen (src/app/main.cpp          *)
(* WndProcHandle, SendTouch and Run; src/render/renderer.cpp).             *)
(*                                                                         *)
(* Handlers and drawing run on the main thread.  The decode thread         *)
(* publishes frames and the listener replaces the session at any moment,   *)
(* also between a handler's decision to send a touch and the lock it sends *)
(* it under.  Input and pictures meet in the letterbox rectangle: a touch  *)
(* is sent in coordinates of the picture presented last.                   *)
(***************************************************************************)
EXTENDS Integers

CONSTANTS
    Pixels,         \* mouse positions relative to the letterbox rectangle
    Width,          \* its last pixel: positions outside are clamped
    Sizes,          \* sizes of videos and of the window
    MaxFrames,      \* bound: frames decoded in a run
    MaxSessions,    \* bound: sessions installed in a run
    MaxFailures     \* bound: D3D calls that fail in a run

ASSUME WindowAssumption ==
    /\ Pixels \subseteq Int /\ Sizes \subseteq Nat \ {0}
    /\ {Width, MaxFrames, MaxSessions, MaxFailures} \subseteq Nat

VARIABLES
    latest,         \* App::latestFrame: number and size
    taken,          \* the main loop's copy of it
    lastPresented,  \* App::lastPresentedFrame
    redrawNeeded,   \* App::redrawNeeded
    clientW,        \* Renderer::clientW_
    rtv,            \* Renderer::rtv_ is set
    uploaded,       \* the frame in uploadTex_, 0 when there is none
    lastVideoW,     \* Renderer::lastVideoW_, 0 before the first frame
    screen,         \* what was presented: frame, its size, window size
    failed,         \* the last Present did not put its frame on the screen
    failures,       \* failures so far
    at,             \* where the main thread is: loop, touch, draw
    mouseDown,      \* App::mouseDown
    pointer,        \* where the mouse was last
    lastTouch,      \* App::lastTouchX, lastTouchY
    touch,          \* the phase SendTouch is about to send
    session,        \* App::session: its number, 0 for none
    sessions,       \* sessions installed so far
    clean,          \* sessions installed with no drag on and a rectangle known
    drag            \* the button as the sender of each session was told

pictureVars == <<latest, taken, lastPresented, redrawNeeded, clientW, rtv,
                 uploaded, lastVideoW, screen, failed, failures>>
mouseVars   == <<mouseDown, pointer, lastTouch, touch>>
sessionVars == <<session, sessions, clean, drag>>
windowVars == <<pictureVars, at, mouseVars, sessionVars>>

NoFrame == [n |-> 0, w |-> 0]

-----------------------------------------------------------------------------
(* Mouse messages.                                                         *)

ToVideo(px) == IF px < 0 THEN 0 ELSE IF px > Width THEN Width ELSE px

\* Renderer::VideoRect knows a rectangle once a frame has been presented.
RectKnown == lastVideoW > 0

\* WindowToVideo succeeded: the handler stores the position.
SeePointer(px) ==
    /\ pointer' = px
    /\ lastTouch' = IF RectKnown THEN ToVideo(px) ELSE lastTouch

\* SendTouch up to the lock.
BeginTouch(phase) == at' = "touch" /\ touch' = phase

Ignore == UNCHANGED <<at, touch>>

\* Mutant: a second press during a drag is not ignored.
LButtonDownAgain(px) ==
    /\ at = "loop"
    /\ mouseDown' = TRUE
    /\ SeePointer(px)
    /\ IF RectKnown THEN BeginTouch("began") ELSE Ignore
    /\ UNCHANGED <<pictureVars, sessionVars>>

LButtonDown(px) ==
    /\ at = "loop" /\ ~mouseDown
    /\ mouseDown' = TRUE
    /\ SeePointer(px)
    /\ IF RectKnown THEN BeginTouch("began") ELSE Ignore
    /\ UNCHANGED <<pictureVars, sessionVars>>

\* Mutant: the final position is not read.
LButtonUpHere(px) ==
    /\ at = "loop" /\ mouseDown
    /\ mouseDown' = FALSE
    /\ pointer' = px /\ UNCHANGED lastTouch
    /\ BeginTouch("ended")
    /\ UNCHANGED <<pictureVars, sessionVars>>

\* ReleaseCapture sends WM_CAPTURECHANGED, which finds mouseDown reset.
LButtonUp(px) ==
    /\ at = "loop" /\ mouseDown
    /\ mouseDown' = FALSE
    /\ SeePointer(px)
    /\ BeginTouch("ended")
    /\ UNCHANGED <<pictureVars, sessionVars>>

\* Less than 8 ms since lastTouchSentMs_, a move is not sent.
MouseMove(px, throttled) ==
    /\ at = "loop"
    /\ SeePointer(px)
    /\ IF RectKnown /\ mouseDown /\ ~throttled THEN BeginTouch("moved") ELSE Ignore
    /\ UNCHANGED <<pictureVars, mouseDown, sessionVars>>

\* Mutant: losing the capture only resets mouseDown.
CaptureChangedSilently ==
    /\ at = "loop" /\ mouseDown
    /\ mouseDown' = FALSE
    /\ Ignore
    /\ UNCHANGED <<pictureVars, pointer, lastTouch, sessionVars>>

CaptureChanged ==
    /\ at = "loop" /\ mouseDown
    /\ mouseDown' = FALSE
    /\ BeginTouch("cancelled")
    /\ UNCHANGED <<pictureVars, pointer, lastTouch, sessionVars>>

\* The sender's left button, after a touch it should or should not have got.
Told(button, phase) ==
    CASE phase = "began" /\ button = "up"                     -> "down"
      [] phase = "moved" /\ button = "down"                   -> "down"
      [] phase \in {"ended", "cancelled"} /\ button = "down"  -> "up"
      [] OTHER -> "stray"

\* SendTouch with sessionMutex: whatever session there is now.
SendTouch ==
    /\ at = "touch"
    /\ at' = "loop" /\ touch' = "none"
    /\ drag' = [s \in DOMAIN drag |-> IF s = session THEN Told(drag[s], touch) ELSE drag[s]]
    /\ UNCHANGED <<pictureVars, mouseDown, pointer, lastTouch, session, sessions, clean>>

-----------------------------------------------------------------------------
(* Sessions come and go on other threads and in other parts of the loop.   *)

\* OnAccept installs a session.
Install ==
    /\ sessions < MaxSessions
    /\ sessions' = sessions + 1
    /\ session' = sessions + 1
    /\ clean' = IF RectKnown /\ ~mouseDown /\ touch = "none"
                THEN clean \cup {sessions + 1} ELSE clean
    /\ UNCHANGED <<pictureVars, at, mouseVars, drag>>

Reap ==
    /\ at = "loop" /\ session # 0
    /\ session' = 0
    /\ UNCHANGED <<pictureVars, at, mouseVars, sessions, clean, drag>>

-----------------------------------------------------------------------------
(* Pictures.                                                               *)

\* onFrame, on the decode thread.
Publish(w) ==
    /\ latest.n < MaxFrames
    /\ latest' = [n |-> latest.n + 1, w |-> w]
    /\ UNCHANGED <<taken, lastPresented, redrawNeeded, clientW, rtv, uploaded,
                   lastVideoW, screen, failed, failures, at, mouseVars,
                   sessionVars>>

\* Renderer::Resize: nothing to do, ResizeBuffers fails and the old size
\* stays, or the new size is taken over; the view may not come back.
Resize(w, resizes, views) ==
    IF w = clientW /\ rtv THEN UNCHANGED <<clientW, rtv, failures>>
    ELSE /\ clientW' = IF resizes THEN w ELSE clientW
         /\ rtv' = views
         /\ (resizes /\ views) \/ failures < MaxFailures
         /\ failures' = IF resizes /\ views THEN failures ELSE failures + 1

\* Mutant: WM_SIZE does not ask for a redraw.
SizeNoRedraw(w, resizes, views) ==
    /\ at = "loop"
    /\ Resize(w, resizes, views)
    /\ UNCHANGED <<redrawNeeded, latest, taken, lastPresented, uploaded, lastVideoW, screen,
                   failed, at, mouseVars, sessionVars>>

\* WM_SIZE of a window that is not minimized.
Size(w, resizes, views) ==
    /\ at = "loop"
    /\ Resize(w, resizes, views)
    /\ redrawNeeded' = TRUE
    /\ UNCHANGED <<latest, taken, lastPresented, uploaded, lastVideoW, screen,
                   failed, at, mouseVars, sessionVars>>

Paint ==
    /\ at = "loop" /\ ~redrawNeeded
    /\ redrawNeeded' = TRUE
    /\ UNCHANGED <<latest, taken, lastPresented, clientW, rtv, uploaded,
                   lastVideoW, screen, failed, failures, at, mouseVars,
                   sessionVars>>

\* The loop wakes (frame, message or 100 ms) and finds something to draw.
TakeLatest ==
    /\ at = "loop"
    /\ redrawNeeded \/ latest # lastPresented
    /\ taken' = latest
    /\ redrawNeeded' = FALSE
    /\ at' = "draw"
    /\ UNCHANGED <<latest, lastPresented, clientW, rtv, uploaded, lastVideoW,
                   screen, failed, failures, mouseVars, sessionVars>>

\* Mutant: the frame that is latest by now counts as presented.
DrawnLatest ==
    /\ at = "draw"
    /\ at' = "loop"
    /\ lastPresented' = latest
    /\ taken' = NoFrame
    /\ UNCHANGED <<latest, redrawNeeded, clientW, rtv, mouseVars,
                   sessionVars>>

\* What every Present leaves behind in the loop, whether it worked or not.
Drawn ==
    /\ at = "draw"
    /\ at' = "loop"
    /\ lastPresented' = taken
    /\ taken' = NoFrame
    /\ UNCHANGED <<latest, redrawNeeded, clientW, rtv, mouseVars,
                   sessionVars>>

Shows(n) == screen' = [n |-> n, w |-> taken.w, client |-> clientW]

\* Mutant: the rectangle for input is not updated.
SetVideoRectNever == lastVideoW' = IF lastVideoW = 0 THEN taken.w ELSE lastVideoW

\* The rectangle for input is that of the frame about to be drawn.
SetVideoRect == lastVideoW' = IF taken = NoFrame THEN lastVideoW ELSE taken.w

Present ==
    /\ Drawn /\ rtv
    /\ SetVideoRect
    /\ uploaded' = IF taken = NoFrame THEN uploaded ELSE taken
    /\ Shows(taken.n)
    /\ failed' = FALSE
    /\ UNCHANGED failures

\* No render target: Present returns at once.
PresentNothing ==
    /\ Drawn /\ ~rtv
    /\ failed' = TRUE
    /\ UNCHANGED <<uploaded, lastVideoW, screen, failures>>

CountFailure == failures < MaxFailures /\ failures' = failures + 1 /\ failed' = TRUE

\* The texture cannot be made, or not be mapped: then its old picture is drawn.
UploadFails(mapOnly) ==
    /\ Drawn /\ rtv /\ taken # NoFrame
    /\ SetVideoRect
    /\ uploaded' = IF mapOnly /\ uploaded.w = taken.w THEN uploaded ELSE NoFrame
    /\ Shows(uploaded'.n)
    /\ CountFailure

\* The swap chain's Present fails.
SwapFails ==
    /\ Drawn /\ rtv
    /\ SetVideoRect
    /\ uploaded' = IF taken = NoFrame THEN uploaded ELSE taken
    /\ UNCHANGED screen
    /\ CountFailure

Draw == Present \/ PresentNothing \/ (\E m \in BOOLEAN : UploadFails(m)) \/ SwapFails

-----------------------------------------------------------------------------
WindowInit ==
    /\ latest = NoFrame /\ taken = NoFrame /\ lastPresented = NoFrame
    /\ redrawNeeded = TRUE
    /\ clientW \in Sizes /\ rtv = TRUE
    /\ uploaded = NoFrame /\ lastVideoW = 0
    /\ screen = [n |-> 0, w |-> 0, client |-> 0]
    /\ failed = FALSE /\ failures = 0
    /\ at = "loop"
    /\ mouseDown = FALSE /\ pointer = 0 /\ lastTouch = 0 /\ touch = "none"
    /\ session = 0 /\ sessions = 0 /\ clean = {}
    /\ drag = [s \in 1..MaxSessions |-> "up"]

Message ==
    \/ \E px \in Pixels : \/ LButtonDown(px) \/ LButtonUp(px)
                          \/ \E throttled \in BOOLEAN : MouseMove(px, throttled)
    \/ CaptureChanged \/ Paint
    \/ \E w \in Sizes, resizes, views \in BOOLEAN : Size(w, resizes, views)

WindowNext ==
    \/ Message \/ SendTouch
    \/ Install \/ Reap
    \/ (\E w \in Sizes : Publish(w)) \/ TakeLatest \/ Draw

WindowSpec == WindowInit /\ [][WindowNext]_windowVars

(* The loop comes round at least every 100 ms, and between bursts of       *)
(* messages it draws.  Nothing obliges user, sender or decoder to act.     *)
WindowFairness ==
    WF_windowVars(SendTouch) /\ SF_windowVars(TakeLatest) /\ WF_windowVars(Draw)

WindowFairSpec == WindowSpec /\ WindowFairness

-----------------------------------------------------------------------------
(* Properties.                                                             *)

(* The current sender is never left with a pressed button: while it has one *)
(* pressed, the mouse button is down or the release is being sent, through  *)
(* lost captures and replaced sessions (main.cpp:293-317, 346-352).         *)
ReleaseIsSent ==
    session # 0 /\ drag[session] = "down" =>
        mouseDown \/ touch \in {"ended", "cancelled"}

(* A session installed with the mouse button up and a picture presented     *)
(* gets only well-formed drags: began, moves, one end (main.cpp:184-187).   *)
(* The others may begin with the end of a drag they never saw start.        *)
CleanSessionsSeeWholeDrags == \A s \in clean : drag[s] # "stray"

(* Moves are throttled, but a drag ends where the mouse was last: no final  *)
(* move is swallowed (main.cpp:306-335, 346-351).                           *)
EndsAtPointer ==
    touch \in {"ended", "cancelled"} /\ session \in clean => lastTouch = ToVideo(pointer)

(* When nothing is left to draw and the last Present worked, the screen     *)
(* shows the latest frame at the current window size (main.cpp:789-801).    *)
ScreenCurrent ==
    at = "loop" /\ ~redrawNeeded /\ latest = lastPresented /\ ~failed =>
        screen = [n |-> latest.n, w |-> latest.w, client |-> clientW]

(* Then input is mapped with the rectangle of the picture that is on the    *)
(* screen, over changes of video and window size (renderer.cpp:326-339,     *)
(* "Same letterbox math as Present()").                                     *)
InputMapsToScreen ==
    at # "draw" /\ ~redrawNeeded /\ ~failed /\ screen.n # 0 =>
        lastVideoW = screen.w /\ clientW = screen.client

(* A decoded frame, or a later one, reaches the screen unless its Present   *)
(* failed: none is taken for presented by mistake (main.cpp:789-801).       *)
FrameReachesScreen == \A n \in 1..MaxFrames :
    (latest.n = n) ~> (screen.n >= n \/ failed)
=============================================================================
