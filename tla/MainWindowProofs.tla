-------------------------- MODULE MainWindowProofs --------------------------
(* Proofs about MainWindow, for every set of positions and sizes and any    *)
(* number of frames, sessions and failing calls: what the senders are told  *)
(* of the mouse button, and what the screen shows.                          *)
EXTENDS MainWindow, TLAPS

-----------------------------------------------------------------------------
(* Drags.                                                                  *)

IsFrame(f) == f = NoFrame \/ (f.n \in Nat \ {0} /\ f.w \in Nat \ {0})

WindowTypeOK ==
    /\ IsFrame(latest) /\ IsFrame(taken) /\ lastVideoW \in Nat
    /\ sessions \in 0..MaxSessions /\ session \in 0..sessions
    /\ clean \subseteq 1..sessions
    /\ drag \in [1..MaxSessions -> {"up", "down", "stray"}]

\* What the main thread is about to send agrees with the mouse button.
TouchInv ==
    /\ touch \in {"none", "began", "moved", "ended", "cancelled"}
    /\ at = "touch" <=> touch # "none"
    /\ touch \in {"began", "moved"} => mouseDown
    /\ touch \in {"ended", "cancelled"} => ~mouseDown

\* No sender has been told anything before its session.
Fresh == \A s \in 1..MaxSessions : s > sessions => drag[s] = "up"

\* A clean session has been told all there was, up to the touch to be sent.
FollowsButton ==
    session \in clean =>
        /\ RectKnown
        /\ touch \in {"moved", "ended", "cancelled"} => drag[session] = "down"
        /\ touch = "began" => drag[session] = "up"
        /\ touch = "none" => drag[session] = IF mouseDown THEN "down" ELSE "up"
        /\ mouseDown \/ touch \in {"ended", "cancelled"} => lastTouch = ToVideo(pointer)

DragInv == /\ WindowTypeOK /\ TouchInv /\ Fresh /\ FollowsButton
           /\ ReleaseIsSent /\ CleanSessionsSeeWholeDrags

-----------------------------------------------------------------------------
LEMMA InitDragInv == WindowInit => DragInv
<1> USE WindowAssumption
<1>1. WindowInit => WindowTypeOK  BY DEF WindowInit, WindowTypeOK, IsFrame
<1>2. WindowInit => TouchInv  BY DEF WindowInit, TouchInv
<1>3. WindowInit => Fresh /\ FollowsButton  BY DEF WindowInit, Fresh, FollowsButton
<1>4. WindowInit => ReleaseIsSent /\ CleanSessionsSeeWholeDrags
      BY DEF WindowInit, ReleaseIsSent, CleanSessionsSeeWholeDrags
<1> QED BY <1>1, <1>2, <1>3, <1>4 DEF DragInv

\* The mouse messages of WndProcHandle.
Mouse == \/ \E px \in Pixels : \/ LButtonDown(px) \/ LButtonUp(px)
                               \/ \E throttled \in BOOLEAN : MouseMove(px, throttled)
         \/ CaptureChanged

LEMMA MouseDragInv == ASSUME DragInv, Mouse PROVE DragInv'
<1> USE DEF DragInv
<1>1. WindowTypeOK' /\ Fresh'
      BY DEF Mouse, LButtonDown, LButtonUp, MouseMove, CaptureChanged, pictureVars,
             sessionVars, WindowTypeOK, Fresh
<1>2. CleanSessionsSeeWholeDrags'
      BY DEF Mouse, LButtonDown, LButtonUp, MouseMove, CaptureChanged, sessionVars,
             CleanSessionsSeeWholeDrags
<1>3. TouchInv'
      BY DEF Mouse, LButtonDown, LButtonUp, MouseMove, CaptureChanged, BeginTouch, Ignore,
             TouchInv
<1>4. ReleaseIsSent'
      BY DEF Mouse, LButtonDown, LButtonUp, MouseMove, CaptureChanged, BeginTouch, Ignore,
             sessionVars, TouchInv, ReleaseIsSent
<1>5. FollowsButton'
  <2> USE DEF pictureVars, sessionVars, BeginTouch, Ignore, SeePointer, RectKnown, TouchInv,
              FollowsButton
  <2>1. CASE \E px \in Pixels : LButtonDown(px)  BY <2>1 DEF LButtonDown
  <2>2. CASE \E px \in Pixels : LButtonUp(px)    BY <2>2 DEF LButtonUp
  <2>3. CASE \E px \in Pixels, throttled \in BOOLEAN : MouseMove(px, throttled)
        BY <2>3 DEF MouseMove
  <2>4. CASE CaptureChanged  BY <2>4 DEF CaptureChanged
  <2> QED BY <2>1, <2>2, <2>3, <2>4 DEF Mouse
<1> QED BY <1>1, <1>2, <1>3, <1>4, <1>5

LEMMA SendTouchDragInv == ASSUME DragInv, SendTouch PROVE DragInv'
<1> USE DEF DragInv
<1>1. /\ at' = "loop" /\ touch' = "none"
      /\ drag' = [s \in DOMAIN drag |-> IF s = session THEN Told(drag[s], touch) ELSE drag[s]]
      /\ UNCHANGED <<latest, taken, lastVideoW, mouseDown, pointer, lastTouch, session,
                     sessions, clean>>
      BY DEF SendTouch, pictureVars
<1>2. DOMAIN drag = 1..MaxSessions  BY DEF WindowTypeOK
<1>3. \A b \in {"up", "down", "stray"} : Told(b, touch) \in {"up", "down", "stray"}
      BY DEF Told
<1>4. WindowTypeOK'  BY <1>1, <1>2, <1>3 DEF WindowTypeOK
<1>5. TouchInv'  BY <1>1 DEF TouchInv
<1>6. \A s \in 1..MaxSessions :
          drag'[s] = IF s = session THEN Told(drag[s], touch) ELSE drag[s]
      BY <1>1, <1>2
<1>7. Fresh'
  <2>1. \A s \in 1..MaxSessions : s > sessions => s # session
        BY WindowAssumption DEF WindowTypeOK
  <2> QED BY <1>1, <1>6, <2>1 DEF Fresh
<1>8. ReleaseIsSent'
  <2> SUFFICES ASSUME session # 0, drag'[session] = "down" PROVE mouseDown
      BY <1>1 DEF ReleaseIsSent
  <2>1. session \in 1..MaxSessions  BY WindowAssumption DEF WindowTypeOK
  <2>2. Told(drag[session], touch) = "down"  BY <1>6, <2>1
  <2>3. touch \in {"began", "moved"}  BY <2>2 DEF Told, TouchInv
  <2> QED BY <2>3 DEF TouchInv
<1>9. ASSUME session \in clean
      PROVE  Told(drag[session], touch) = IF touch \in {"began", "moved"} THEN "down" ELSE "up"
  <2>1. touch # "none"  BY DEF SendTouch, TouchInv
  <2> QED BY <1>9, <2>1 DEF FollowsButton, TouchInv, Told
<1>10. CleanSessionsSeeWholeDrags'
  <2>1. clean \subseteq 1..MaxSessions  BY WindowAssumption DEF WindowTypeOK
  <2> QED BY <1>1, <1>6, <1>9, <2>1 DEF CleanSessionsSeeWholeDrags
<1>11. FollowsButton'
  <2> SUFFICES ASSUME session \in clean PROVE FollowsButton'
      BY <1>1 DEF FollowsButton
  <2>1. session \in 1..MaxSessions  BY WindowAssumption DEF WindowTypeOK
  <2>2. drag'[session] = IF touch \in {"began", "moved"} THEN "down" ELSE "up"
        BY <1>6, <1>9, <2>1
  <2>3. drag'[session] = IF mouseDown THEN "down" ELSE "up"
    <3>1. touch # "none"  BY DEF SendTouch, TouchInv
    <3> QED BY <2>2, <3>1 DEF TouchInv
  <2> QED BY <1>1, <2>3 DEF FollowsButton, RectKnown
<1> QED BY <1>4, <1>5, <1>7, <1>8, <1>10, <1>11

LEMMA InstallDragInv == ASSUME DragInv, Install PROVE DragInv'
<1> USE WindowAssumption DEF DragInv, mouseVars, pictureVars
<1>1. /\ sessions' = sessions + 1 /\ session' = sessions + 1 /\ session' \in 1..MaxSessions
      /\ clean' \subseteq clean \cup {session'} /\ drag' = drag
      /\ UNCHANGED <<latest, taken, lastVideoW, at, mouseDown, pointer, lastTouch, touch>>
      BY DEF Install, WindowTypeOK
<1>2. WindowTypeOK'  BY <1>1 DEF WindowTypeOK
<1>3. drag'[session'] = "up"  BY <1>1 DEF Fresh, WindowTypeOK
<1>4. Fresh'  BY <1>1 DEF Fresh, WindowTypeOK
<1>5. TouchInv'  BY <1>1 DEF TouchInv
<1>6. session' \in clean' => RectKnown /\ ~mouseDown /\ touch = "none"
      BY <1>1 DEF Install, WindowTypeOK
<1>7. FollowsButton'  BY <1>1, <1>3, <1>6 DEF FollowsButton, RectKnown
<1>8. ReleaseIsSent'  BY <1>3 DEF ReleaseIsSent
<1>9. CleanSessionsSeeWholeDrags'  BY <1>1, <1>3 DEF CleanSessionsSeeWholeDrags
<1> QED BY <1>2, <1>4, <1>5, <1>7, <1>8, <1>9

\* A step that leaves the mouse and the sessions alone.
LEMMA PictureDragInv ==
    ASSUME DragInv, UNCHANGED <<mouseVars, sessionVars>>, at = "touch" <=> at' = "touch",
           IsFrame(latest'), IsFrame(taken'), lastVideoW' \in Nat,
           lastVideoW > 0 => lastVideoW' > 0
    PROVE  DragInv'
<1> USE DEF DragInv, mouseVars, sessionVars
<1>1. WindowTypeOK' /\ Fresh'  BY DEF WindowTypeOK, Fresh
<1>2. TouchInv'  BY DEF TouchInv
<1>3. FollowsButton'  BY DEF FollowsButton, RectKnown
<1>4. ReleaseIsSent' /\ CleanSessionsSeeWholeDrags'
      BY DEF ReleaseIsSent, CleanSessionsSeeWholeDrags
<1> QED BY <1>1, <1>2, <1>3, <1>4

\* Every outcome of Present leaves a rectangle that was known known.
LEMMA DrawRect ==
    ASSUME WindowTypeOK, Draw
    PROVE  /\ lastVideoW' \in Nat /\ (lastVideoW > 0 => lastVideoW' > 0)
           /\ taken' = NoFrame /\ latest' = latest /\ at = "draw" /\ at' = "loop"
           /\ UNCHANGED <<mouseVars, sessionVars>>
BY DEF Draw, Present, PresentNothing, UploadFails, SwapFails, Drawn, SetVideoRect,
       WindowTypeOK, IsFrame, NoFrame

LEMMA NextDragInv == DragInv /\ [WindowNext]_windowVars => DragInv'
<1> SUFFICES ASSUME DragInv, [WindowNext]_windowVars PROVE DragInv'
    OBVIOUS
<1> USE DEF DragInv
<1>1. CASE Mouse      BY <1>1, MouseDragInv
<1>2. CASE SendTouch  BY <1>2, SendTouchDragInv
<1>3. CASE Install    BY <1>3, InstallDragInv
<1>4. CASE Reap
  <2>1. /\ session' = 0
        /\ UNCHANGED <<latest, taken, lastVideoW, at, mouseDown, touch, sessions, clean, drag>>
        BY <1>4 DEF Reap, pictureVars, mouseVars
  <2>2. 0 \notin clean  BY WindowAssumption DEF WindowTypeOK
  <2>3. WindowTypeOK' /\ Fresh' /\ TouchInv'
        BY <2>1, WindowAssumption DEF WindowTypeOK, Fresh, TouchInv
  <2>4. FollowsButton' /\ ReleaseIsSent' /\ CleanSessionsSeeWholeDrags'
        BY <2>1, <2>2 DEF FollowsButton, ReleaseIsSent, CleanSessionsSeeWholeDrags
  <2> QED BY <2>3, <2>4
<1>5. CASE \E w \in Sizes : Publish(w)
  <2>1. IsFrame(latest') /\ IsFrame(latest) /\ IsFrame(taken) /\ lastVideoW \in Nat
        BY <1>5, WindowAssumption, SMTT(30) DEF Publish, WindowTypeOK, IsFrame, NoFrame
  <2> QED BY <1>5, <2>1, PictureDragInv DEF Publish, TouchInv
<1>6. CASE Paint \/ \E w \in Sizes, resizes, views \in BOOLEAN : Size(w, resizes, views)
  <2>1. /\ UNCHANGED <<latest, taken, lastVideoW, at, mouseVars, sessionVars>> /\ at = "loop"
        BY <1>6 DEF Paint, Size
  <2> QED BY <2>1, PictureDragInv DEF WindowTypeOK
<1>7. CASE TakeLatest
  <2>1. /\ UNCHANGED <<latest, lastVideoW, mouseVars, sessionVars>>
        /\ taken' = latest /\ at = "loop" /\ at' = "draw"
        BY <1>7 DEF TakeLatest
  <2> QED BY <2>1, PictureDragInv DEF WindowTypeOK
<1>8. CASE Draw
  <2>1. IsFrame(taken')  BY <1>8, DrawRect DEF IsFrame
  <2> QED BY <1>8, <2>1, DrawRect, PictureDragInv DEF WindowTypeOK
<1>9. CASE UNCHANGED windowVars
      BY <1>9, PictureDragInv DEF windowVars, pictureVars, WindowTypeOK
<1> QED BY <1>1, <1>2, <1>3, <1>4, <1>5, <1>6, <1>7, <1>8, <1>9 DEF WindowNext, Message, Mouse

LEMMA DragInvariant == WindowSpec => []DragInv
BY InitDragInv, NextDragInv, PTL DEF WindowSpec

(* The current sender is never left with a pressed button: the mouse button *)
(* is down, or the release is being sent (main.cpp:293-317, 346-352).       *)
THEOREM ReleaseIsSentCorrect == WindowSpec => []ReleaseIsSent
<1>1. DragInv => ReleaseIsSent  BY DEF DragInv
<1> QED BY <1>1, DragInvariant, PTL

(* A session that began with the button up and a picture on the screen is    *)
(* told whole drags only (main.cpp:184-187).                                *)
THEOREM CleanSessionsSeeWholeDragsCorrect == WindowSpec => []CleanSessionsSeeWholeDrags
<1>1. DragInv => CleanSessionsSeeWholeDrags  BY DEF DragInv
<1> QED BY <1>1, DragInvariant, PTL

(* Its drags end where the mouse was last, although moves are throttled      *)
(* (main.cpp:306-335, 346-351).                                             *)
THEOREM EndsAtPointerCorrect == WindowSpec => []EndsAtPointer
<1>1. DragInv => EndsAtPointer  BY DEF DragInv, FollowsButton, EndsAtPointer
<1> QED BY <1>1, DragInvariant, PTL

-----------------------------------------------------------------------------
(* The screen.                                                             *)

\* Frames come in order; what is being drawn is none the loop has not seen.
FramesOrdered ==
    /\ latest.n \in Nat /\ taken.n \in Nat /\ lastPresented.n \in Nat
    /\ taken.n <= latest.n /\ lastPresented.n <= latest.n

\* The screen as the loop leaves it, whatever else the main thread is doing.
ScreenIsLatest ==
    at # "draw" /\ ~redrawNeeded /\ latest = lastPresented /\ ~failed =>
        screen = [n |-> latest.n, w |-> latest.w, client |-> clientW]

\* A frame that is latest while it is drawn is on the screen afterwards.
ScreenInv == FramesOrdered /\ ScreenIsLatest /\ InputMapsToScreen

LEMMA InitScreenInv == WindowInit => ScreenInv
BY DEF WindowInit, ScreenInv, FramesOrdered, ScreenIsLatest, InputMapsToScreen, NoFrame

LEMMA DrawScreenInv == ASSUME ScreenInv, Draw PROVE ScreenInv'
<1> USE DEF ScreenInv
<1>1. /\ lastPresented' = taken /\ taken' = NoFrame /\ UNCHANGED <<latest, clientW>>
      BY DEF Draw, Present, PresentNothing, UploadFails, SwapFails, Drawn
<1>2. FramesOrdered'  BY <1>1 DEF FramesOrdered, NoFrame
<1>3. CASE failed'  BY <1>2, <1>3 DEF ScreenIsLatest, InputMapsToScreen
<1>4. CASE Present
  <2>1. screen' = [n |-> taken.n, w |-> taken.w, client |-> clientW]
        BY <1>4 DEF Present, Shows
  <2>2. ScreenIsLatest'  BY <1>1, <2>1 DEF ScreenIsLatest
  <2>3. screen'.n # 0 => lastVideoW' = screen'.w
        BY <1>4, <2>1 DEF Present, SetVideoRect, NoFrame
  <2>4. InputMapsToScreen'  BY <1>1, <2>1, <2>3 DEF InputMapsToScreen
  <2> QED BY <1>2, <2>2, <2>4
<1> QED BY <1>3, <1>4 DEF Draw, PresentNothing, UploadFails, SwapFails, CountFailure

LEMMA NextScreenInv == ScreenInv /\ [WindowNext]_windowVars => ScreenInv'
<1> SUFFICES ASSUME ScreenInv, [WindowNext]_windowVars PROVE ScreenInv'
    OBVIOUS
<1> USE DEF ScreenInv, FramesOrdered, ScreenIsLatest, InputMapsToScreen
<1>1. CASE \E px \in Pixels : LButtonDown(px) \/ LButtonUp(px)
      BY <1>1 DEF LButtonDown, LButtonUp, BeginTouch, Ignore, pictureVars
<1>2. CASE \E px \in Pixels, throttled \in BOOLEAN : MouseMove(px, throttled)
      BY <1>2 DEF MouseMove, BeginTouch, Ignore, pictureVars
<1>3. CASE CaptureChanged  BY <1>3 DEF CaptureChanged, BeginTouch, pictureVars
<1>4. CASE SendTouch       BY <1>4 DEF SendTouch, pictureVars
<1>5. CASE Install \/ Reap BY <1>5 DEF Install, Reap, pictureVars
<1>6. CASE \E w \in Sizes : Publish(w)
  <2>1. latest'.n = latest.n + 1 /\ UNCHANGED <<taken, lastPresented>>  BY <1>6 DEF Publish
  <2>2. latest' # lastPresented'  BY <2>1
  <2> QED BY <1>6, <2>1, <2>2 DEF Publish
<1>7. CASE Paint \/ \E w \in Sizes, resizes, views \in BOOLEAN : Size(w, resizes, views)
      BY <1>7 DEF Paint, Size
<1>8. CASE TakeLatest  BY <1>8 DEF TakeLatest
<1>9. CASE Draw        BY <1>9, DrawScreenInv
<1>10. CASE UNCHANGED windowVars  BY <1>10 DEF windowVars, pictureVars
<1> QED BY <1>1, <1>2, <1>3, <1>4, <1>5, <1>6, <1>7, <1>8, <1>9, <1>10 DEF WindowNext, Message

LEMMA ScreenInvariant == WindowSpec => []ScreenInv
BY InitScreenInv, NextScreenInv, PTL DEF WindowSpec

(* When nothing is left to draw and the last Present worked, the screen      *)
(* shows the latest frame at the window's size (main.cpp:789-801).          *)
THEOREM ScreenCurrentCorrect == WindowSpec => []ScreenCurrent
<1>1. ScreenInv => ScreenCurrent  BY DEF ScreenInv, ScreenIsLatest, ScreenCurrent
<1> QED BY <1>1, ScreenInvariant, PTL

(* Then input is mapped with the rectangle of the picture on the screen      *)
(* (renderer.cpp:326-339).                                                  *)
THEOREM InputMapsToScreenCorrect == WindowSpec => []InputMapsToScreen
<1>1. ScreenInv => InputMapsToScreen  BY DEF ScreenInv
<1> QED BY <1>1, ScreenInvariant, PTL
=============================================================================
