----------------------- MODULE SessionLifecycleProofs -----------------------
(* Proofs about SessionLifecycle, for every set of connections and of      *)
(* addresses: no use after free, no join under sessionMutex, what the      *)
(* reuse of an address can and cannot do, one sender at a time, what is    *)
(* left when main returns, and the refinement of OneSender.                *)
EXTENDS SessionLifecycle, TLAPS

-----------------------------------------------------------------------------
(* Type correctness.                                                       *)

LEMMA InitTypeOK == Init => TypeOK
BY ThreadsDistinct DEF Init, TypeOK, Thread, ReadPlaces

ObjTypeOK ==
    /\ phase \in [Conn -> {"unborn", "accepted", "live", "destroying", "dead"}]
    /\ addr \in [Conn -> Addr \cup {None}]
    /\ closed \in [Conn -> BOOLEAN]
    /\ joining \in [Thread -> Conn \cup {None}]

\* Letting a reference go keeps the types of what ~Session writes.
LEMMA LetGoTypeOK ==
    ASSUME TypeOK, NEW t \in Thread, NEW c \in Conn \cup {None}, LetGo(t, c)
    PROVE  ObjTypeOK'
<1>1. CASE c # None /\ phase[c] = "live" /\ ~Held(c)'
      BY <1>1, ZenonT(40) DEF LetGo, TypeOK, ObjTypeOK
<1>2. CASE ~(c # None /\ phase[c] = "live" /\ ~Held(c)')
      BY <1>2 DEF LetGo, TypeOK, ObjTypeOK, objVars
<1> QED BY <1>1, <1>2

LEMMA ListenerTypeOK == ASSUME TypeOK, ListenerStep PROVE TypeOK'
<1> USE DEF TypeOK, Thread, objVars, sendVars, appVars, mainVars, readVars
<1>1. CASE \E c \in Conn : Accept(c)  BY <1>1 DEF Accept
<1>2. CASE Snapshot                   BY <1>2 DEF Snapshot
<1>3. CASE CloseReplaced              BY <1>3 DEF CloseReplaced
<1>4. ASSUME NEW a \in Addr, Make(a) PROVE TypeOK'
  <2>1. addr' \in [Conn -> Addr \cup {None}]  BY <1>4 DEF Make
  <2>2. phase' \in [Conn -> {"unborn", "accepted", "live", "destroying", "dead"}]
        BY <1>4 DEF Make
  <2> QED BY <1>4, <2>1, <2>2 DEF Make
<1>5. CASE Install
  <2>1. PICK d \in {session} : LetGo(Listener, d)  BY <1>5 DEF Install, Release
  <2>2. ObjTypeOK'  BY <2>1, LetGoTypeOK
  <2> QED BY <1>5, <2>2 DEF Install, ObjTypeOK
<1>6. CASE UnlockInstalled            BY <1>6 DEF UnlockInstalled
<1>7. CASE Start
  <2>1. rpc' \in [Conn -> ReadPlaces]  BY <1>7 DEF Start, ReadPlaces
  <2> QED BY <1>7, <2>1 DEF Start
<1>8. CASE SendFirstHello             BY <1>8 DEF SendFirstHello
<1>9. CASE DropNew
  <2>1. PICK d \in {lNew} : LetGo(Listener, d)  BY <1>9 DEF DropNew, Release
  <2>2. ObjTypeOK'  BY <2>1, LetGoTypeOK
  <2> QED BY <1>9, <2>2 DEF DropNew, ObjTypeOK
<1>10. CASE DropReplaced
  <2>1. PICK d \in {lReplaced} : LetGo(Listener, d)  BY <1>10 DEF DropReplaced, Release
  <2>2. ObjTypeOK'  BY <2>1, LetGoTypeOK
  <2> QED BY <1>10, <2>2 DEF DropReplaced, ObjTypeOK
<1>11. CASE ListenerExit              BY <1>11 DEF ListenerExit
<1> QED BY <1>1, <1>2, <1>3, <1>4, <1>5, <1>6, <1>7, <1>8, <1>9, <1>10, <1>11
        DEF ListenerStep, OnAcceptStep

LEMMA ReadTypeOK == ASSUME TypeOK, NEW c \in Conn, ReadStep(c) PROVE TypeOK'
<1> USE DEF TypeOK, Thread, objVars, sendVars, appVars, mainVars, listenVars, Reading
<1>1. CASE OnControl(c)           BY <1>1 DEF OnControl, ReadPlaces
<1>2. CASE HandleControlStats(c)  BY <1>2 DEF HandleControlStats, ReadPlaces
<1>3. CASE OnControlReturn(c)
  <2>1. PICK d \in {c} : LetGo(c, d)  BY <1>3 DEF OnControlReturn, Release
  <2>2. ObjTypeOK'  BY <2>1, LetGoTypeOK
  <2>3. rpc' \in [Conn -> ReadPlaces]  BY <1>3 DEF OnControlReturn, ReadPlaces
  <2>4. rRef' \in [Conn -> BOOLEAN]  BY <1>3 DEF OnControlReturn
  <2> QED BY <1>3, <2>2, <2>3, <2>4 DEF OnControlReturn, ObjTypeOK
<1>4. CASE SendPing(c)            BY <1>4 DEF SendPing, readVars
<1>5. CASE RequestKeyframe(c)     BY <1>5 DEF RequestKeyframe, ReadPlaces
<1>6. CASE KeyframeRequested(c)   BY <1>6 DEF KeyframeRequested, ReadPlaces
<1>7. CASE SeeClosed(c)           BY <1>7 DEF SeeClosed, ReadPlaces
<1>8. CASE LoseConnection(c)      BY <1>8 DEF LoseConnection, ReadPlaces
<1>9. CASE OnClosed(c)            BY <1>9 DEF OnClosed, ReadPlaces
<1>10. CASE OnClosedDrop(c)
  <2>1. PICK d \in {c} : LetGo(c, d)  BY <1>10 DEF OnClosedDrop, Release
  <2>2. ObjTypeOK'  BY <2>1, LetGoTypeOK
  <2>3. rpc' \in [Conn -> ReadPlaces]  BY <1>10 DEF OnClosedDrop, ReadPlaces
  <2>4. rRef' \in [Conn -> BOOLEAN]  BY <1>10 DEF OnClosedDrop
  <2> QED BY <1>10, <2>2, <2>3, <2>4 DEF OnClosedDrop, ObjTypeOK
<1>11. CASE OnClosedReturn(c)     BY <1>11 DEF OnClosedReturn, ReadPlaces
<1> QED BY <1>1, <1>2, <1>3, <1>4, <1>5, <1>6, <1>7, <1>8, <1>9, <1>10, <1>11
        DEF ReadStep, CallbackReturn, Ending

LEMMA MainTypeOK == ASSUME TypeOK, MainStep \/ DecoderStep PROVE TypeOK'
<1> USE DEF TypeOK, Thread, objVars, sendVars, appVars, listenVars, readVars
<1>1. CASE SendInput              BY <1>1 DEF SendInput
<1>2. CASE InputSent              BY <1>2 DEF InputSent
<1>3. CASE ReapEndedSession       BY <1>3 DEF ReapEndedSession
<1>4. CASE MaybeSendResizeHello   BY <1>4 DEF MaybeSendResizeHello
<1>5. CASE DropLocal
  <2>1. PICK d \in {mRef} : LetGo(Main, d)  BY <1>5 DEF DropLocal, Release
  <2>2. ObjTypeOK'  BY <2>1, LetGoTypeOK
  <2> QED BY <1>5, <2>2 DEF DropLocal, ObjTypeOK
<1>6. CASE BackToLoop             BY <1>6 DEF BackToLoop
<1>7. CASE CloseWindow            BY <1>7 DEF CloseWindow
<1>8. CASE ClosingSent            BY <1>8 DEF ClosingSent
<1>9. CASE TakeSession            BY <1>9 DEF TakeSession
<1>10. CASE CloseTaken            BY <1>10 DEF CloseTaken
<1>11. CASE ResetTaken
  <2>1. PICK d \in {mRef} : LetGo(Main, d)  BY <1>11 DEF ResetTaken, Release
  <2>2. ObjTypeOK'  BY <2>1, LetGoTypeOK
  <2> QED BY <1>11, <2>2 DEF ResetTaken, ObjTypeOK
<1>12. CASE TearDownRest          BY <1>12 DEF TearDownRest, TearDownStep
<1>13. CASE DestroyApp
  <2>1. PICK d \in {session} : LetGo(Main, d)  BY <1>13 DEF DestroyApp, Release
  <2>2. ObjTypeOK'  BY <2>1, LetGoTypeOK
  <2> QED BY <1>13, <2>2 DEF DestroyApp, ObjTypeOK
<1>14. CASE DecoderRequestKeyframe  BY <1>14 DEF DecoderRequestKeyframe, mainVars
<1>15. CASE DecoderUnlock         BY <1>15 DEF DecoderUnlock, mainVars
<1>16. CASE DecoderExit           BY <1>16 DEF DecoderExit, mainVars
<1> QED BY <1>1, <1>2, <1>3, <1>4, <1>5, <1>6, <1>7, <1>8, <1>9, <1>10, <1>11,
           <1>12, <1>13, <1>14, <1>15, <1>16
        DEF MainStep, MainReturn, TearDownSteps, DecoderStep

LEMMA SocketTypeOK ==
    ASSUME TypeOK, (\E t \in Thread : SocketStep(t)) \/ PeerStep PROVE TypeOK'
<1> USE ThreadsDistinct DEF TypeOK, objVars, appVars, listenVars, mainVars, readVars
<1>1. ASSUME NEW t \in Thread, SendBegin(t) PROVE TypeOK'
      BY <1>1 DEF SendBegin
<1>2. ASSUME NEW t \in Thread, SendOk(t) PROVE TypeOK'
      BY <1>2 DEF SendOk, Deliver, Message
<1>3. ASSUME NEW t \in Thread, SendFail(t) PROVE TypeOK'
      BY <1>3 DEF SendFail
<1>4. ASSUME NEW t \in Thread, JoinDone(t) PROVE TypeOK'
      BY <1>4 DEF JoinDone, sendVars
<1>5. ASSUME NEW c \in Conn, PeerResume(c) PROVE TypeOK'
      BY <1>5 DEF PeerResume
<1> QED BY <1>1, <1>2, <1>3, <1>4, <1>5 DEF SocketStep, PeerStep

LEMMA NextTypeOK == TypeOK /\ [Next]_vars => TypeOK'
<1> SUFFICES ASSUME TypeOK, [Next]_vars PROVE TypeOK'
    OBVIOUS
<1>1. CASE UNCHANGED vars
      BY <1>1 DEF TypeOK, vars, objVars, sendVars, appVars, listenVars, mainVars, readVars
<1>2. CASE Next
      BY <1>2, <1>1, ListenerTypeOK, ReadTypeOK, MainTypeOK, SocketTypeOK DEF Next, Stop
<1> QED BY <1>1, <1>2

(* Every variable always has its type (TypeOK of SessionLifecycle). *)
THEOREM TypeCorrect == Spec => []TypeOK
BY InitTypeOK, NextTypeOK, PTL DEF Spec

-----------------------------------------------------------------------------
(* Ownership is inductive once the type invariant is known.                *)

LEMMA InitOwnership == Init => Ownership
BY ThreadsDistinct, SMTT(30)
   DEF Init, Ownership, RefsAreLive, OneDestroyer, ListenerPlace, MainPlace,
       ReaderPlace, MutexPlace, SendPlace, Held, ListenerHolds, DecodeRunning,
       Thread

LEMMA ListenerOwnership ==
    ASSUME TypeOK, Ownership, ~Halted, ListenerStep
    PROVE  Ownership'
<1> USE ThreadsDistinct
        DEF Ownership, RefsAreLive, OneDestroyer, ListenerPlace, MainPlace,
            ReaderPlace, MutexPlace, SendPlace, Held, ListenerHolds, Free, Alive,
            Reading, ReadPlaces, DecodeRunning, Halted, Terminated, Thread, TypeOK,
            objVars, sendVars, appVars, listenVars, mainVars, readVars
<1>1. ASSUME NEW c \in Conn, Accept(c) PROVE Ownership'
      BY <1>1 DEF Accept
<1>2. CASE Snapshot
      BY <1>2 DEF Snapshot
<1>3. CASE CloseReplaced
      BY <1>3 DEF CloseReplaced
<1>4. ASSUME NEW a \in Addr, Make(a) PROVE Ownership'
      BY <1>4 DEF Make
<1>5. CASE Install
  \* `replaced` still points to the session being overwritten: not the last.
  <2>1. UNCHANGED <<objVars, joining>>  BY <1>5 DEF Install, Release, LetGo
  <2> QED BY <1>5, <2>1 DEF Install
<1>6. CASE UnlockInstalled
      BY <1>6 DEF UnlockInstalled
<1>7. CASE Start
      BY <1>7 DEF Start
<1>8. CASE SendFirstHello
      BY <1>8 DEF SendFirstHello
<1>9. CASE DropNew
  \* The listener may be the last owner of the new session: it joins.
  <2>1. RefsAreLive'    BY <1>9 DEF DropNew, Release, LetGo
  <2>2. OneDestroyer'   BY <1>9, SMTT(30) DEF DropNew, Release, LetGo
  <2>3. ListenerPlace'  BY <1>9 DEF DropNew, Release, LetGo
  <2>4. MainPlace'      BY <1>9 DEF DropNew, Release, LetGo
  <2>5. ReaderPlace'    BY <1>9 DEF DropNew, Release, LetGo
  <2>6. MutexPlace'     BY <1>9 DEF DropNew, Release, LetGo
  <2>7. SendPlace'      BY <1>9 DEF DropNew, Release, LetGo
  <2> QED BY <2>1, <2>2, <2>3, <2>4, <2>5, <2>6, <2>7
<1>10. CASE DropReplaced
  <2>1. RefsAreLive'    BY <1>10 DEF DropReplaced, Release, LetGo
  <2>2. OneDestroyer'   BY <1>10 DEF DropReplaced, Release, LetGo
  <2>3. ListenerPlace'  BY <1>10 DEF DropReplaced, Release, LetGo
  <2>4. MainPlace'      BY <1>10 DEF DropReplaced, Release, LetGo
  <2>5. ReaderPlace'    BY <1>10 DEF DropReplaced, Release, LetGo
  <2>6. MutexPlace'     BY <1>10 DEF DropReplaced, Release, LetGo
  <2>7. SendPlace'      BY <1>10 DEF DropReplaced, Release, LetGo
  <2> QED BY <2>1, <2>2, <2>3, <2>4, <2>5, <2>6, <2>7
<1>11. CASE ListenerExit
      BY <1>11, SMTT(30) DEF ListenerExit
<1> QED BY <1>1, <1>2, <1>3, <1>4, <1>5, <1>6, <1>7, <1>8, <1>9, <1>10, <1>11
        DEF ListenerStep, OnAcceptStep

LEMMA ReadOwnership ==
    ASSUME TypeOK, Ownership, ~Halted, NEW c \in Conn, ReadStep(c)
    PROVE  Ownership'
<1> USE ThreadsDistinct
        DEF Ownership, RefsAreLive, OneDestroyer, ListenerPlace, MainPlace,
            ReaderPlace, MutexPlace, SendPlace, Held, ListenerHolds, Free, Alive,
            Reading, ReadPlaces, DecodeRunning, Halted, Terminated, Thread, TypeOK,
            objVars, sendVars, appVars, listenVars, mainVars, readVars
<1>1. CASE OnControl(c)
      BY <1>1, SMTT(30) DEF OnControl
<1>2. CASE HandleControlStats(c)
      BY <1>2, SMTT(30) DEF HandleControlStats
<1>3. CASE OnControlReturn(c)
  \* The only join on a read thread is that of its own Session.
  <2>1. RefsAreLive'    BY <1>3 DEF OnControlReturn, Release, LetGo
  <2>2. OneDestroyer'   BY <1>3 DEF OnControlReturn, Release, LetGo
  <2>3. ListenerPlace'  BY <1>3 DEF OnControlReturn, Release, LetGo
  <2>4. MainPlace'      BY <1>3 DEF OnControlReturn, Release, LetGo
  <2>5. ReaderPlace'    BY <1>3 DEF OnControlReturn, Release, LetGo
  <2>6. MutexPlace'     BY <1>3 DEF OnControlReturn, Release, LetGo
  <2>7. SendPlace'      BY <1>3 DEF OnControlReturn, Release, LetGo
  <2> QED BY <2>1, <2>2, <2>3, <2>4, <2>5, <2>6, <2>7
<1>4. CASE SendPing(c)
      BY <1>4 DEF SendPing
<1>5. CASE RequestKeyframe(c)
      BY <1>5, SMTT(30) DEF RequestKeyframe
<1>6. CASE KeyframeRequested(c)
      BY <1>6, SMTT(30) DEF KeyframeRequested
<1>7. CASE SeeClosed(c)
      BY <1>7 DEF SeeClosed
<1>8. CASE LoseConnection(c)
      BY <1>8 DEF LoseConnection
<1>9. CASE OnClosed(c)
      BY <1>9, SMTT(30) DEF OnClosed
<1>10. CASE OnClosedDrop(c)
  <2>1. RefsAreLive'    BY <1>10 DEF OnClosedDrop, Release, LetGo
  <2>2. OneDestroyer'   BY <1>10 DEF OnClosedDrop, Release, LetGo
  <2>3. ListenerPlace'  BY <1>10 DEF OnClosedDrop, Release, LetGo
  <2>4. MainPlace'      BY <1>10 DEF OnClosedDrop, Release, LetGo
  <2>5. ReaderPlace'    BY <1>10 DEF OnClosedDrop, Release, LetGo
  <2>6. MutexPlace'     BY <1>10 DEF OnClosedDrop, Release, LetGo
  <2>7. SendPlace'      BY <1>10 DEF OnClosedDrop, Release, LetGo
  <2> QED BY <2>1, <2>2, <2>3, <2>4, <2>5, <2>6, <2>7
<1>11. CASE OnClosedReturn(c)
      BY <1>11, SMTT(30) DEF OnClosedReturn
<1> QED BY <1>1, <1>2, <1>3, <1>4, <1>5, <1>6, <1>7, <1>8, <1>9, <1>10, <1>11
        DEF ReadStep, CallbackReturn, Ending

LEMMA MainOwnership ==
    ASSUME TypeOK, Ownership, ~Halted, MainStep \/ DecoderStep
    PROVE  Ownership'
<1> USE ThreadsDistinct
        DEF Ownership, RefsAreLive, OneDestroyer, ListenerPlace, MainPlace,
            ReaderPlace, MutexPlace, SendPlace, Held, ListenerHolds, Free, Alive,
            Reading, ReadPlaces, DecodeRunning, Halted, Terminated, Thread, TypeOK,
            objVars, sendVars, appVars, listenVars, mainVars, readVars
<1>1. CASE SendInput
      BY <1>1 DEF SendInput
<1>2. CASE InputSent
      BY <1>2 DEF InputSent
<1>3. CASE ReapEndedSession
  <2>1. RefsAreLive'    BY <1>3 DEF ReapEndedSession
  <2>2. OneDestroyer'   BY <1>3 DEF ReapEndedSession
  <2>3. ListenerPlace'  BY <1>3 DEF ReapEndedSession
  <2>4. MainPlace'      BY <1>3 DEF ReapEndedSession
  <2>5. ReaderPlace'    BY <1>3 DEF ReapEndedSession
  <2>6. MutexPlace'     BY <1>3 DEF ReapEndedSession
  <2>7. SendPlace'      BY <1>3 DEF ReapEndedSession
  <2> QED BY <2>1, <2>2, <2>3, <2>4, <2>5, <2>6, <2>7
<1>4. CASE MaybeSendResizeHello
      BY <1>4 DEF MaybeSendResizeHello
<1>5. CASE DropLocal
  <2>1. RefsAreLive'    BY <1>5 DEF DropLocal, Release, LetGo
  <2>2. OneDestroyer'   BY <1>5 DEF DropLocal, Release, LetGo
  <2>3. ListenerPlace'  BY <1>5 DEF DropLocal, Release, LetGo
  <2>4. MainPlace'      BY <1>5 DEF DropLocal, Release, LetGo
  <2>5. ReaderPlace'    BY <1>5 DEF DropLocal, Release, LetGo
  <2>6. MutexPlace'     BY <1>5 DEF DropLocal, Release, LetGo
  <2>7. SendPlace'      BY <1>5 DEF DropLocal, Release, LetGo
  <2> QED BY <2>1, <2>2, <2>3, <2>4, <2>5, <2>6, <2>7
<1>6. CASE BackToLoop
      BY <1>6 DEF BackToLoop
<1>7. CASE CloseWindow
      BY <1>7 DEF CloseWindow
<1>8. CASE ClosingSent
      BY <1>8 DEF ClosingSent
<1>9. CASE TakeSession
      BY <1>9 DEF TakeSession
<1>10. CASE CloseTaken
      BY <1>10 DEF CloseTaken
<1>11. CASE ResetTaken
  <2>1. RefsAreLive'    BY <1>11 DEF ResetTaken, Release, LetGo
  <2>2. OneDestroyer'   BY <1>11 DEF ResetTaken, Release, LetGo
  <2>3. ListenerPlace'  BY <1>11 DEF ResetTaken, Release, LetGo
  <2>4. MainPlace'      BY <1>11 DEF ResetTaken, Release, LetGo
  <2>5. ReaderPlace'    BY <1>11 DEF ResetTaken, Release, LetGo
  <2>6. MutexPlace'     BY <1>11 DEF ResetTaken, Release, LetGo
  <2>7. SendPlace'      BY <1>11 DEF ResetTaken, Release, LetGo
  <2> QED BY <2>1, <2>2, <2>3, <2>4, <2>5, <2>6, <2>7
<1>12. CASE TearDownRest
      BY <1>12 DEF TearDownRest, TearDownStep
<1>13. CASE DestroyApp
  \* No reader can be sending on the session: its own Session would be held
  \* by nobody but itself, or be joined by it.
  <2>1. RefsAreLive'    BY <1>13 DEF DestroyApp, Release, LetGo
  <2>2. OneDestroyer'   BY <1>13 DEF DestroyApp, Release, LetGo
  <2>3. ListenerPlace'  BY <1>13 DEF DestroyApp, Release, LetGo
  <2>4. MainPlace'      BY <1>13 DEF DestroyApp, Release, LetGo
  <2>5. ReaderPlace'    BY <1>13 DEF DestroyApp, Release, LetGo
  <2>6. MutexPlace'     BY <1>13 DEF DestroyApp, Release, LetGo
  <2>7. SendPlace'      BY <1>13 DEF DestroyApp, Release, LetGo
  <2> QED BY <2>1, <2>2, <2>3, <2>4, <2>5, <2>6, <2>7
<1>14. CASE DecoderRequestKeyframe
      BY <1>14 DEF DecoderRequestKeyframe
<1>15. CASE DecoderUnlock
      BY <1>15, SMTT(30) DEF DecoderUnlock
<1>16. CASE DecoderExit
      BY <1>16, SMTT(30) DEF DecoderExit
<1> QED BY <1>1, <1>2, <1>3, <1>4, <1>5, <1>6, <1>7, <1>8, <1>9, <1>10, <1>11, <1>12, <1>13, <1>14, <1>15, <1>16
        DEF MainStep, MainReturn, TearDownSteps, DecoderStep

LEMMA SocketOwnership ==
    ASSUME TypeOK, Ownership, ~Halted, (\E t \in Thread : SocketStep(t)) \/ PeerStep
    PROVE  Ownership'
<1> USE ThreadsDistinct
        DEF Ownership, RefsAreLive, OneDestroyer, ListenerPlace, MainPlace,
            ReaderPlace, MutexPlace, SendPlace, Held, ListenerHolds, Free, Alive,
            Reading, ReadPlaces, DecodeRunning, Halted, Terminated, Thread, TypeOK,
            objVars, sendVars, appVars, listenVars, mainVars, readVars
<1>1. ASSUME NEW t \in Thread, SendBegin(t) PROVE Ownership'
  <2>1. /\ sendTo' = [sendTo EXCEPT ![t] = None] \/ sendTo' = sendTo
        /\ UNCHANGED <<objVars, joining, appVars, listenVars, mainVars, dpc, readVars>>
        BY <1>1 DEF SendBegin
  <2> QED BY <2>1
<1>2. ASSUME NEW t \in Thread, SendOk(t) PROVE Ownership'
  <2>1. /\ sendTo' = [sendTo EXCEPT ![t] = None]
        /\ UNCHANGED <<phase, addr, joining, appVars, listenVars, mainVars, dpc, readVars>>
        BY <1>2 DEF SendOk
  <2> QED BY <2>1
<1>3. ASSUME NEW t \in Thread, SendFail(t) PROVE Ownership'
  <2>1. /\ sendTo' = [sendTo EXCEPT ![t] = None]
        /\ UNCHANGED <<phase, addr, joining, appVars, listenVars, mainVars, dpc, readVars>>
        BY <1>3 DEF SendFail
  <2> QED BY <2>1
<1>4. ASSUME NEW t \in Thread, JoinDone(t) PROVE Ownership'
  <2>1. RefsAreLive'    BY <1>4, SMTT(30) DEF JoinDone
  <2>2. OneDestroyer'   BY <1>4, SMTT(30) DEF JoinDone
  <2>3. ListenerPlace'  BY <1>4 DEF JoinDone
  <2>4. MainPlace'      BY <1>4 DEF JoinDone
  <2>5. ReaderPlace'    BY <1>4 DEF JoinDone
  <2>6. MutexPlace'     BY <1>4 DEF JoinDone
  <2>7. SendPlace'      BY <1>4, SMTT(30) DEF JoinDone
  <2> QED BY <2>1, <2>2, <2>3, <2>4, <2>5, <2>6, <2>7
<1>5. ASSUME NEW c \in Conn, PeerResume(c) PROVE Ownership'
      BY <1>5 DEF PeerResume
<1> QED BY <1>1, <1>2, <1>3, <1>4, <1>5
        DEF SocketStep, PeerStep

LEMMA NextOwnership == TypeOK /\ Ownership /\ [Next]_vars => Ownership'
<1> SUFFICES ASSUME TypeOK, Ownership, [Next]_vars PROVE Ownership'
    OBVIOUS
<1>1. CASE UNCHANGED vars
      BY <1>1, SMTT(30) DEF Ownership, RefsAreLive, OneDestroyer, ListenerPlace, MainPlace,
                  ReaderPlace, MutexPlace, SendPlace, Held, ListenerHolds,
                  DecodeRunning, Alive, vars, objVars, sendVars, appVars,
                  listenVars, mainVars, readVars
<1>2. CASE Next
      BY <1>1, <1>2, ListenerOwnership, ReadOwnership, MainOwnership, SocketOwnership
      DEF Next, Stop
<1> QED BY <1>1, <1>2

(* References, places in the code, locks and uses always agree (Ownership). *)
THEOREM OwnershipCorrect == Spec => []Ownership
<1>1. Init => TypeOK /\ Ownership  BY InitTypeOK, InitOwnership
<1>2. TypeOK /\ Ownership /\ [Next]_vars => (TypeOK /\ Ownership)'
      BY NextTypeOK, NextOwnership
<1> QED BY <1>1, <1>2, PTL DEF Spec

-----------------------------------------------------------------------------
(* What ownership is for.                                                  *)

LEMMA OwnersUseLive == TypeOK /\ Ownership => NoUseAfterFree
<1> SUFFICES ASSUME TypeOK, Ownership PROVE NoUseAfterFree
    OBVIOUS
<1> USE DEF Ownership
<1>1. ASSUME NEW c \in Conn, Held(c) PROVE Alive(c)
      BY <1>1 DEF RefsAreLive, Alive
<1>2. ASSUME NEW t \in Thread, sendTo[t] # None PROVE Alive(sendTo[t])
  <2>1. sendTo[t] \in Conn  BY <1>2 DEF TypeOK
  <2>2. CASE t \in Conn
        BY <1>1, <1>2, <2>1, <2>2 DEF SendPlace, ReaderPlace, Held
  <2>3. CASE t = Listener
        BY <1>1, <1>2, <2>1, <2>3 DEF SendPlace, Held, ListenerHolds
  <2>4. CASE t \in {Main, Decoder}
        BY <1>1, <1>2, <2>1, <2>4 DEF SendPlace, Held
  <2> QED BY <2>2, <2>3, <2>4 DEF Thread
<1>3. \A c \in Conn : rpc[c] \notin {"none", "done"} => Alive(c)
      BY DEF ReaderPlace
<1> QED BY <1>2, <1>3 DEF NoUseAfterFree

(* No thread sends on a destroyed Session and no read thread outlives its *)
(* Session, although four of the uses are through raw pointers.           *)
THEOREM NoUseAfterFreeCorrect == Spec => []NoUseAfterFree
BY TypeCorrect, OwnershipCorrect, OwnersUseLive, PTL

LEMMA JoinersHoldNothing == Ownership => NoJoinUnderSessionMutex
BY ThreadsDistinct
   DEF Ownership, OneDestroyer, ListenerPlace, MainPlace, MutexPlace,
       NoJoinUnderSessionMutex

(* The listener, main and decode threads never run ~Session, and so never *)
(* join a read thread, with sessionMutex held.                            *)
THEOREM NoJoinUnderSessionMutexCorrect == Spec => []NoJoinUnderSessionMutex
BY OwnershipCorrect, JoinersHoldNothing, PTL

-----------------------------------------------------------------------------
(* Addresses.  A mark left by onClosed is the address of a session whose   *)
(* loop has ended, and two Sessions that exist have two addresses.         *)

Made(c) == phase[c] \notin {"unborn", "accepted"}
AddressOfMade == \A c \in Conn : Made(c) <=> addr[c] # None
AddressesDiffer == \A c, d \in Conn : Alive(c) /\ Alive(d) /\ addr[c] = addr[d] => c = d
MarkIsOfEnded == endedSession # None => \E d \in Conn : addr[d] = endedSession /\ Ended(d)
Marks == AddressOfMade /\ AddressesDiffer /\ MarkIsOfEnded

LEMMA InitMarks == Init => Marks
BY DEF Init, Marks, AddressOfMade, AddressesDiffer, MarkIsOfEnded, Made, Alive

\* All but Make and OnClosed: addresses stay, nothing comes to life, the dead
\* and the ended stay so, and a mark is at most cleared.
Quiet ==
    /\ addr' = addr
    /\ endedSession' \in {None, endedSession}
    /\ \A c \in Conn : /\ Made(c)' <=> Made(c)
                       /\ Alive(c)' => Alive(c)
                       /\ phase[c] = "dead" => phase'[c] = "dead"
                       /\ Ended(c) => Ended(c)'

\* Letting a reference go touches no address and revives no Session.
LEMMA LetGoIsQuiet ==
    ASSUME TypeOK, NEW t \in Thread, NEW r, Release(t, r),
           UNCHANGED endedSession, \A c \in Conn : Ended(c) => Ended(c)'
    PROVE  Quiet
BY DEF Release, LetGo, TypeOK, Alive, Made, Quiet, objVars

LEMMA ListenerIsQuiet ==
    ASSUME TypeOK, Ownership, ListenerStep PROVE Quiet \/ \E a \in Addr : Make(a)
<1> USE DEF Alive, Made, Ended, Quiet, Thread, objVars, sendVars, appVars,
            mainVars, readVars
<1>1. CASE \E c \in Conn : Accept(c)  BY <1>1 DEF Accept, TypeOK
<1>2. CASE Snapshot \/ CloseReplaced \/ UnlockInstalled \/ SendFirstHello \/ ListenerExit
      BY <1>2 DEF Snapshot, CloseReplaced, UnlockInstalled, SendFirstHello, ListenerExit
<1>3. CASE Install \/ DropNew \/ DropReplaced
  <2>1. UNCHANGED <<endedSession, rpc>>  BY <1>3 DEF Install, DropNew, DropReplaced
  <2>2. \E r \in {session, lNew, lReplaced} : Release(Listener, r)
        BY <1>3 DEF Install, DropNew, DropReplaced
  <2> QED BY <2>1, <2>2, LetGoIsQuiet
<1>4. CASE Start
  <2>1. lNew \in Conn /\ rpc[lNew] = "none"
        BY <1>4 DEF Start, Ownership, ListenerPlace, TypeOK
  <2> QED BY <1>4, <2>1 DEF Start, TypeOK
<1> QED BY <1>1, <1>2, <1>3, <1>4 DEF ListenerStep, OnAcceptStep

LEMMA ReadIsQuiet ==
    ASSUME TypeOK, NEW c \in Conn, ReadStep(c) PROVE Quiet \/ OnClosed(c)
<1> USE DEF Alive, Made, Ended, Quiet, Thread, objVars, sendVars, appVars,
            mainVars, listenVars, readVars, TypeOK, Reading
<1>1. CASE OnControl(c)           BY <1>1 DEF OnControl
<1>2. CASE HandleControlStats(c)  BY <1>2 DEF HandleControlStats
<1>3. CASE OnControlReturn(c) \/ OnClosedDrop(c)
  <2>1. UNCHANGED endedSession /\ \A d \in Conn : Ended(d) => Ended(d)'
        BY <1>3 DEF OnControlReturn, OnClosedDrop
  <2>2. Release(c, c)  BY <1>3 DEF OnControlReturn, OnClosedDrop
  <2> QED BY <2>1, <2>2, LetGoIsQuiet
<1>4. CASE SendPing(c)            BY <1>4 DEF SendPing
<1>5. CASE RequestKeyframe(c)     BY <1>5 DEF RequestKeyframe
<1>6. CASE KeyframeRequested(c)   BY <1>6 DEF KeyframeRequested
<1>7. CASE SeeClosed(c) \/ LoseConnection(c)  BY <1>7 DEF SeeClosed, LoseConnection
<1>8. CASE OnClosedReturn(c)      BY <1>8 DEF OnClosedReturn
<1> QED BY <1>1, <1>2, <1>3, <1>4, <1>5, <1>6, <1>7, <1>8
        DEF ReadStep, CallbackReturn, Ending

LEMMA MainIsQuiet == ASSUME TypeOK, MainStep \/ DecoderStep PROVE Quiet
<1> USE DEF Alive, Made, Ended, Quiet, Thread, objVars, sendVars, appVars,
            mainVars, listenVars, readVars
<1>1. CASE SendInput \/ InputSent \/ ReapEndedSession \/ MaybeSendResizeHello
      BY <1>1 DEF SendInput, InputSent, ReapEndedSession, MaybeSendResizeHello
<1>2. CASE DropLocal \/ ResetTaken \/ DestroyApp
  <2>1. UNCHANGED <<endedSession, rpc>>
        BY <1>2 DEF DropLocal, ResetTaken, DestroyApp
  <2>2. \E r \in {mRef, session} : Release(Main, r)
        BY <1>2 DEF DropLocal, ResetTaken, DestroyApp
  <2> QED BY <2>1, <2>2, LetGoIsQuiet
<1>3. CASE BackToLoop \/ CloseWindow \/ ClosingSent \/ TakeSession \/ CloseTaken
      BY <1>3 DEF BackToLoop, CloseWindow, ClosingSent, TakeSession, CloseTaken
<1>4. CASE TearDownRest \/ DecoderStep
      BY <1>4 DEF TearDownRest, TearDownStep, DecoderStep, DecoderRequestKeyframe,
                  DecoderUnlock, DecoderExit
<1> QED BY <1>1, <1>2, <1>3, <1>4 DEF MainStep, MainReturn, TearDownSteps

LEMMA SocketIsQuiet ==
    ASSUME TypeOK, Ownership, (\E t \in Thread : SocketStep(t)) \/ PeerStep
    PROVE  Quiet
<1> USE DEF Alive, Made, Ended, Quiet, objVars, appVars, readVars
<1>1. ASSUME NEW t \in Thread, SendBegin(t) \/ SendOk(t) \/ SendFail(t) PROVE Quiet
      BY <1>1 DEF SendBegin, SendOk, SendFail
<1>2. ASSUME NEW t \in Thread, JoinDone(t) PROVE Quiet
      BY <1>2 DEF JoinDone, TypeOK, Ownership, OneDestroyer
<1>3. CASE PeerStep  BY <1>3 DEF PeerStep, PeerResume
<1> QED BY <1>1, <1>2, <1>3 DEF SocketStep

LEMMA NextIsQuiet ==
    ASSUME TypeOK, Ownership, [Next]_vars
    PROVE  Quiet \/ (\E a \in Addr : Make(a)) \/ (\E c \in Conn : OnClosed(c))
<1>1. CASE UNCHANGED vars
      BY <1>1 DEF Quiet, Made, Alive, Ended, vars, objVars, appVars, readVars
<1>2. CASE Next
      BY <1>1, <1>2, ListenerIsQuiet, ReadIsQuiet, MainIsQuiet, SocketIsQuiet
      DEF Next, Stop
<1> QED BY <1>1, <1>2

\* What Make does: a new address, for a connection that had none.
LEMMA MakeIsFresh ==
    ASSUME TypeOK, Ownership, NEW a \in Addr, Make(a)
    PROVE  /\ lNew \in Conn /\ phase[lNew] = "accepted" /\ rpc[lNew] = "none" /\ a # None
           /\ addr' = [addr EXCEPT ![lNew] = a]
           /\ phase' = [phase EXCEPT ![lNew] = "live"]
           /\ \A c \in Conn : Alive(c) => addr[c] # a
           /\ UNCHANGED <<endedSession, rpc>>
BY AddrNotNull DEF Make, Ownership, ListenerPlace, TypeOK, FreeAddr, Alive, appVars, readVars

LEMMA NextMarks == TypeOK /\ Ownership /\ Marks /\ [Next]_vars => Marks'
<1> SUFFICES ASSUME TypeOK, Ownership, Marks, [Next]_vars PROVE Marks'
    OBVIOUS
<1> USE DEF Marks
<1>1. CASE Quiet
      BY <1>1 DEF Quiet, AddressOfMade, AddressesDiffer, MarkIsOfEnded
<1>2. ASSUME NEW a \in Addr, Make(a) PROVE Marks'
  <2>1. AddressOfMade'    BY <1>2, MakeIsFresh DEF AddressOfMade, Made, TypeOK
  <2>2. AddressesDiffer'  BY <1>2, MakeIsFresh DEF AddressesDiffer, Alive, TypeOK
  <2>3. MarkIsOfEnded'    BY <1>2, MakeIsFresh DEF MarkIsOfEnded, Ended, TypeOK
  <2> QED BY <2>1, <2>2, <2>3
<1>3. ASSUME NEW c \in Conn, OnClosed(c) PROVE Marks'
  <2>1. UNCHANGED objVars /\ rpc' = [rpc EXCEPT ![c] = "closing"]
        BY <1>3 DEF OnClosed
  <2>2. endedSession' \in {endedSession, addr[c]}
        BY <1>3 DEF OnClosed
  <2>3. (\A d \in Conn : Ended(d) => Ended(d)') /\ Ended(c)'  BY <2>1 DEF Ended, TypeOK
  <2>4. MarkIsOfEnded'  BY <2>1, <2>2, <2>3 DEF MarkIsOfEnded, objVars
  <2> QED BY <2>1, <2>4 DEF AddressOfMade, AddressesDiffer, Made, Alive, objVars
<1> QED BY <1>1, <1>2, <1>3, NextIsQuiet

(* Two Sessions that exist never share an address, and endedSession, when  *)
(* set, is the address of a session whose read loop has ended.             *)
THEOREM MarksCorrect == Spec => []Marks
<1>1. Init => Marks  BY InitMarks
<1>2. TypeOK /\ Ownership /\ Marks /\ [Next]_vars => Marks'  BY NextMarks
<1> QED BY <1>1, <1>2, TypeCorrect, OwnershipCorrect, PTL DEF Spec

LEMMA MarksGuardReaper == TypeOK /\ Ownership /\ Marks => ReapNeedsEnd
<1> SUFFICES ASSUME TypeOK, Ownership, Marks, session # None, endedSession = addr[session]
             PROVE  Ended(session) \/ ReusesAddress(session)
    BY DEF ReapNeedsEnd
<1>1. session \in Conn /\ Alive(session)
      BY DEF TypeOK, Ownership, RefsAreLive, Held, Alive
<1>2. endedSession # None  BY <1>1 DEF Marks, AddressOfMade, Made, Alive
<1>3. PICK d \in Conn : addr[d] = addr[session] /\ Ended(d)
      BY <1>2 DEF Marks, MarkIsOfEnded
<1>4. CASE d = session  BY <1>3, <1>4
<1>5. CASE d # session
  \* Two addresses for two Sessions that exist: d does not exist any more.
  <2>1. ~Alive(d)  BY <1>1, <1>3, <1>5 DEF Marks, AddressesDiffer
  <2>2. phase[d] = "dead"
        BY <1>3, <2>1 DEF Ended, Alive, Ownership, ReaderPlace
  <2> QED BY <1>1, <1>3, <1>5, <2>2 DEF ReusesAddress
<1> QED BY <1>4, <1>5

(* The reaper takes a session only when its read loop has ended, or when   *)
(* it lies at the address of a session destroyed earlier.                  *)
THEOREM ReapNeedsEndCorrect == Spec => []ReapNeedsEnd
BY TypeCorrect, OwnershipCorrect, MarksCorrect, MarksGuardReaper, PTL

-----------------------------------------------------------------------------
(* Hello.  When OnAccept has come back from SendHello, hello is on the     *)
(* wire or the Session is closed.                                          *)

FirstHello == lpc = "dropNew" /\ sendTo[Listener] = None =>
                 closed[lNew] \/ wire[lNew] \in {"hello", "lateHello"}

\* Steps of other threads: hello stays on the wire, closed stays closed, and
\* they do not touch what the listener is doing.
HelloKept == \A c \in Conn :
    /\ closed[c] => closed'[c]
    /\ wire[c] \in {"hello", "lateHello"} => wire'[c] \in {"hello", "lateHello"}

LEMMA HelloKeptKeepsFirstHello ==
    ASSUME TypeOK, Ownership, FirstHello, HelloKept,
           UNCHANGED <<lpc, lNew>>, sendTo'[Listener] = sendTo[Listener]
    PROVE  FirstHello'
BY DEF FirstHello, HelloKept, Ownership, ListenerPlace, TypeOK

LEMMA LetGoKeepsHello ==
    ASSUME TypeOK, NEW t \in Thread, NEW r, Release(t, r), UNCHANGED wire
    PROVE  HelloKept
BY DEF Release, LetGo, TypeOK, HelloKept, objVars

LEMMA ListenerFirstHello ==
    ASSUME TypeOK, Ownership, FirstHello, ListenerStep PROVE FirstHello'
<1> USE DEF TypeOK, Thread, FirstHello
<1>1. ASSUME lpc' # "dropNew" PROVE FirstHello'  BY <1>1
<1>2. CASE SendFirstHello
  <2>1. lNew \in Conn  BY <1>2 DEF SendFirstHello, Ownership, ListenerPlace
  <2>2. sendTo'[Listener] # None  BY <1>2, <2>1, ThreadsDistinct DEF SendFirstHello
  <2> QED BY <2>2
<1> QED BY <1>1, <1>2
        DEF ListenerStep, OnAcceptStep, Accept, Snapshot, CloseReplaced, Make, Install,
            UnlockInstalled, Start, DropNew, DropReplaced, ListenerExit

LEMMA ReadFirstHello ==
    ASSUME TypeOK, Ownership, FirstHello, NEW c \in Conn, ReadStep(c) PROVE FirstHello'
<1> USE ThreadsDistinct, HelloKeptKeepsFirstHello
        DEF TypeOK, Thread, HelloKept, objVars, sendVars, listenVars, Reading
<1>1. CASE OnControl(c) \/ SeeClosed(c) \/ LoseConnection(c)
      BY <1>1 DEF OnControl, SeeClosed, LoseConnection
<1>2. CASE HandleControlStats(c) \/ SendPing(c) \/ RequestKeyframe(c)
      BY <1>2 DEF HandleControlStats, SendPing, RequestKeyframe
<1>3. CASE OnControlReturn(c) \/ OnClosedDrop(c)
  <2>1. UNCHANGED <<wire, sendTo, lpc, lNew>> /\ Release(c, c)
        BY <1>3 DEF OnControlReturn, OnClosedDrop
  <2> QED BY <2>1, LetGoKeepsHello
<1>4. CASE KeyframeRequested(c) \/ OnClosed(c) \/ OnClosedReturn(c)
      BY <1>4 DEF KeyframeRequested, OnClosed, OnClosedReturn
<1> QED BY <1>1, <1>2, <1>3, <1>4 DEF ReadStep, CallbackReturn, Ending

LEMMA MainFirstHello ==
    ASSUME TypeOK, Ownership, FirstHello, MainStep \/ DecoderStep PROVE FirstHello'
<1> USE ThreadsDistinct, HelloKeptKeepsFirstHello
        DEF TypeOK, Thread, HelloKept, objVars, sendVars, listenVars
<1>1. CASE SendInput \/ InputSent \/ ReapEndedSession \/ MaybeSendResizeHello
      BY <1>1 DEF SendInput, InputSent, ReapEndedSession, MaybeSendResizeHello
<1>2. CASE DropLocal \/ ResetTaken \/ DestroyApp
  <2>1. UNCHANGED <<wire, sendTo, lpc, lNew>>
        BY <1>2 DEF DropLocal, ResetTaken, DestroyApp
  <2>2. \E r \in {mRef, session} : Release(Main, r)
        BY <1>2 DEF DropLocal, ResetTaken, DestroyApp
  <2> QED BY <2>1, <2>2, LetGoKeepsHello
<1>3. CASE BackToLoop \/ CloseWindow \/ ClosingSent \/ TakeSession
      BY <1>3 DEF BackToLoop, CloseWindow, ClosingSent, TakeSession
<1>4. CASE CloseTaken  BY <1>4 DEF CloseTaken
<1>5. CASE TearDownRest \/ DecoderStep
      BY <1>5 DEF TearDownRest, TearDownStep, DecoderStep, DecoderRequestKeyframe,
                  DecoderUnlock, DecoderExit
<1> QED BY <1>1, <1>2, <1>3, <1>4, <1>5 DEF MainStep, MainReturn, TearDownSteps

LEMMA SocketFirstHello ==
    ASSUME TypeOK, Ownership, FirstHello, (\E t \in Thread : SocketStep(t)) \/ PeerStep
    PROVE  FirstHello'
<1> USE ThreadsDistinct DEF TypeOK, Thread, HelloKept, objVars, sendVars, listenVars
<1>1. ASSUME NEW t \in Thread, t # Listener, SendBegin(t) \/ SendFail(t) PROVE FirstHello'
      BY <1>1, HelloKeptKeepsFirstHello DEF SendBegin, SendFail
<1>2. ASSUME NEW t \in Thread, t # Listener, SendOk(t) PROVE FirstHello'
      BY <1>2, HelloKeptKeepsFirstHello DEF SendOk, Deliver
<1>3. CASE SendBegin(Listener) \/ SendOk(Listener) \/ SendFail(Listener)
  \* These decide it: the Session is closed, or the listener's message, which
  \* is hello, goes out.
  <2>1. sendTo[Listener] \in Conn /\ sendTo[Listener] = lNew
        BY <1>3 DEF SendBegin, SendOk, SendFail, Ownership, SendPlace
  <2>2. lNew' = lNew  BY <1>3 DEF SendBegin, SendOk, SendFail
  <2>3. CASE SendBegin(Listener)
        BY <2>1, <2>2, <2>3 DEF SendBegin, FirstHello
  <2>4. CASE SendOk(Listener)
        BY <2>1, <2>2, <2>4 DEF SendOk, Deliver, Message, FirstHello
  <2>5. CASE SendFail(Listener)
        BY <2>1, <2>2, <2>5 DEF SendFail, FirstHello
  <2> QED BY <1>3, <2>3, <2>4, <2>5
<1>4. ASSUME NEW t \in Thread, JoinDone(t) PROVE FirstHello'
      BY <1>4, HelloKeptKeepsFirstHello DEF JoinDone
<1>5. CASE PeerStep
      BY <1>5, HelloKeptKeepsFirstHello DEF PeerStep, PeerResume
<1> QED BY <1>1, <1>2, <1>3, <1>4, <1>5 DEF SocketStep

LEMMA NextFirstHello == TypeOK /\ Ownership /\ FirstHello /\ [Next]_vars => FirstHello'
<1> SUFFICES ASSUME TypeOK, Ownership, FirstHello, [Next]_vars PROVE FirstHello'
    OBVIOUS
<1>1. CASE UNCHANGED vars
      BY <1>1 DEF FirstHello, vars, objVars, sendVars, listenVars
<1>2. CASE Next
      BY <1>1, <1>2, ListenerFirstHello, ReadFirstHello, MainFirstHello, SocketFirstHello
      DEF Next, Stop
<1> QED BY <1>1, <1>2

(* No connection OnAccept is done with has been left without its hello:    *)
(* hello was sent, or the session is closed.                               *)
THEOREM HelloSentOrClosedCorrect == Spec => []HelloSentOrClosed
<1>1. Init => FirstHello  BY DEF Init, FirstHello
<1>2. TypeOK /\ Ownership /\ FirstHello /\ [Next]_vars => FirstHello'  BY NextFirstHello
<1>3. FirstHello => HelloSentOrClosed  BY DEF FirstHello, HelloSentOrClosed, Free
<1> QED BY <1>1, <1>2, <1>3, TypeCorrect, OwnershipCorrect, PTL DEF Spec

-----------------------------------------------------------------------------
(* Replacement.  A session that receives is the published one, or the one  *)
(* TearDown has taken and not yet closed; what OnAccept is about to        *)
(* overwrite is closed by then.                                            *)

Published(c) == session = c \/ (mpc = "close" /\ mRef = c) \/ AddressReused
OnePublished ==
    /\ mpc # "exited" => \A c \in Conn : Receiving(c) => Published(c)
    /\ mpc = "exited" => \A c, d \in Conn : Receiving(c) /\ Receiving(d) => c = d \/ AddressReused
ReplacedIsClosed == lpc \in {"make", "install"} /\ lReplaced # None => closed[lReplaced]
NewIsPublished == lpc \in {"unlock", "start"} => closed[lNew] \/ Published(lNew) \/ mpc = "exited"
Replacement == OnePublished /\ ReplacedIsClosed /\ NewIsPublished

\* An address stays reused.
LEMMA ReusedForGood ==
    ASSUME TypeOK, Ownership, Marks, [Next]_vars, AddressReused PROVE AddressReused'
<1>1. PICK c \in Conn, d \in Conn : d # c /\ phase[d] = "dead" /\ addr[d] = addr[c]
      BY DEF AddressReused, ReusesAddress
<1>2. addr[c] # None  BY <1>1 DEF Marks, AddressOfMade, Made
<1>3. CASE Quiet  BY <1>1, <1>3 DEF Quiet, AddressReused, ReusesAddress
<1>4. ASSUME NEW a \in Addr, Make(a) PROVE AddressReused'
  <2>1. lNew \notin {c, d}  BY <1>1, <1>2, <1>4, MakeIsFresh DEF Marks, AddressOfMade, Made
  <2>2. phase'[d] = "dead" /\ addr'[d] = addr'[c]
        BY <1>1, <1>4, <2>1, MakeIsFresh DEF TypeOK
  <2> QED BY <1>1, <2>2 DEF AddressReused, ReusesAddress
<1>5. ASSUME NEW r \in Conn, OnClosed(r) PROVE AddressReused'
      BY <1>1, <1>5 DEF OnClosed, AddressReused, ReusesAddress, objVars
<1> QED BY <1>3, <1>4, <1>5, NextIsQuiet

\* Steps that leave the references alone: nothing begins to receive.
Settled ==
    /\ UNCHANGED <<session, listenVars, mpc, mRef>>
    /\ \A c \in Conn : /\ closed[c] => closed'[c]
                       /\ Receiving(c)' => Receiving(c)

LEMMA SettledKeepsReplacement ==
    ASSUME TypeOK, Ownership, Replacement, Settled, AddressReused => AddressReused'
    PROVE  Replacement'
<1>1. OnePublished'  BY DEF Settled, Replacement, OnePublished, Published
<1>2. ReplacedIsClosed'
      BY DEF Settled, Replacement, ReplacedIsClosed, listenVars, TypeOK
<1>3. NewIsPublished'
      BY DEF Settled, Replacement, NewIsPublished, Published, listenVars, TypeOK,
             Ownership, ListenerPlace
<1> QED BY <1>1, <1>2, <1>3 DEF Replacement

LEMMA ReadSettled == ASSUME TypeOK, NEW c \in Conn, ReadStep(c) PROVE Settled
<1> USE DEF TypeOK, Settled, Receiving, Reading, ReadPlaces, objVars, appVars, mainVars
<1>1. CASE OnControl(c) \/ SeeClosed(c) \/ LoseConnection(c)
      BY <1>1 DEF OnControl, SeeClosed, LoseConnection
<1>2. CASE HandleControlStats(c) \/ SendPing(c) \/ RequestKeyframe(c)
      BY <1>2 DEF HandleControlStats, SendPing, RequestKeyframe, readVars
<1>3. CASE OnControlReturn(c) \/ OnClosedDrop(c)
  <2>1. \A d \in Conn : closed[d] => closed'[d]
        BY <1>3 DEF OnControlReturn, OnClosedDrop, Release, LetGo
  <2> QED BY <1>3, <2>1 DEF OnControlReturn, OnClosedDrop
<1>4. CASE KeyframeRequested(c) \/ OnClosed(c) \/ OnClosedReturn(c)
      BY <1>4 DEF KeyframeRequested, OnClosed, OnClosedReturn
<1> QED BY <1>1, <1>2, <1>3, <1>4 DEF ReadStep, CallbackReturn, Ending

LEMMA SocketSettled ==
    ASSUME TypeOK, DecoderStep \/ (\E t \in Thread : SocketStep(t)) \/ PeerStep
    PROVE  Settled
<1> USE DEF TypeOK, Settled, Receiving, objVars, appVars, mainVars, readVars
<1>1. ASSUME NEW t \in Thread, SendBegin(t) \/ SendOk(t) PROVE Settled
      BY <1>1 DEF SendBegin, SendOk
<1>2. ASSUME NEW t \in Thread, SendFail(t) PROVE Settled
      BY <1>2 DEF SendFail
<1>3. ASSUME NEW t \in Thread, JoinDone(t) PROVE Settled
      BY <1>3 DEF JoinDone
<1>4. CASE PeerStep  BY <1>4 DEF PeerStep, PeerResume
<1>5. CASE DecoderStep
      BY <1>5 DEF DecoderStep, DecoderRequestKeyframe, DecoderUnlock, DecoderExit
<1> QED BY <1>1, <1>2, <1>3, <1>4, <1>5 DEF SocketStep

\* Letting a reference go closes, if anything.
LEMMA LetGoSettles ==
    ASSUME TypeOK, NEW t \in Thread, NEW r, Release(t, r), UNCHANGED rpc
    PROVE  \A c \in Conn : (closed[c] => closed'[c]) /\ (Receiving(c)' => Receiving(c))
BY DEF Release, LetGo, TypeOK, Receiving, objVars

LEMMA ListenerReplacement ==
    ASSUME TypeOK, Ownership, Replacement, ~Halted, ListenerStep,
           AddressReused => AddressReused'
    PROVE  Replacement'
<1> USE DEF Replacement, OnePublished, ReplacedIsClosed, NewIsPublished, Published,
            Receiving, TypeOK, Thread
<1>1. CASE (\E c \in Conn : Accept(c)) \/ Snapshot \/ SendFirstHello \/ ListenerExit
      BY <1>1 DEF Accept, Snapshot, SendFirstHello, ListenerExit,
                  objVars, appVars, mainVars, readVars
<1>2. CASE CloseReplaced
      BY <1>2 DEF CloseReplaced, appVars, mainVars, readVars
<1>3. ASSUME NEW a \in Addr, Make(a) PROVE Replacement'
      BY <1>3 DEF Make, appVars, mainVars, readVars
<1>4. CASE Install
  \* The session overwritten is the one kept in `replaced`, closed before.
  <2>1. UNCHANGED <<mpc, mRef, lNew, rpc, lReplaced>> /\ session' = lNew /\ lpc' = "unlock"
        BY <1>4 DEF Install, mainVars, readVars
  <2>2. \A c \in Conn : (closed[c] => closed'[c]) /\ (Receiving(c)' => Receiving(c))
        BY <1>4, <2>1, LetGoSettles DEF Install
  <2>3. session # None => closed[session]
        BY <1>4 DEF Install, Ownership, ListenerPlace
  <2>4. OnePublished'
        BY <2>1, <2>2, <2>3, ThreadsDistinct
  <2> QED BY <2>1, <2>4
<1>5. CASE UnlockInstalled
      BY <1>5 DEF UnlockInstalled, objVars, mainVars, readVars
<1>6. CASE Start
  \* The main thread has not left, so the new session is published or closed.
  <2>1. lNew \in Conn /\ mpc # "exited"
        BY <1>6 DEF Start, Ownership, ListenerPlace, MainPlace
  <2>2. \A c \in Conn : Receiving(c)' => Receiving(c) \/ (c = lNew /\ ~closed[lNew])
        BY <1>6, <2>1 DEF Start, objVars
  <2>3. UNCHANGED <<closed, session, mpc, mRef>> /\ lpc' = "hello"
        BY <1>6 DEF Start, objVars, appVars, mainVars
  <2>4. closed[lNew] \/ Published(lNew)
        BY <1>6, <2>1 DEF Start
  <2> QED BY <2>1, <2>2, <2>3, <2>4
<1>7. CASE DropNew \/ DropReplaced
  <2>1. UNCHANGED <<session, mpc, mRef, rpc>> /\ lpc' \in {"dropReplaced", "accept"}
        BY <1>7 DEF DropNew, DropReplaced, appVars, mainVars, readVars
  <2>2. \A c \in Conn : (closed[c] => closed'[c]) /\ (Receiving(c)' => Receiving(c))
        BY <1>7, <2>1, LetGoSettles DEF DropNew, DropReplaced
  <2> QED BY <2>1, <2>2
<1> QED BY <1>1, <1>2, <1>3, <1>4, <1>5, <1>6, <1>7 DEF ListenerStep, OnAcceptStep

LEMMA MainReplacement ==
    ASSUME TypeOK, Ownership, Marks, Replacement, MainStep,
           AddressReused => AddressReused'
    PROVE  Replacement'
<1> USE DEF TypeOK, Thread
<1>1. CASE SendInput \/ InputSent \/ MaybeSendResizeHello \/ BackToLoop \/ CloseWindow
           \/ ClosingSent \/ TearDownRest
  <2>1. /\ UNCHANGED <<session, listenVars, closed, rpc>>
        /\ mpc \notin {"close", "exited"} /\ mpc' \notin {"close", "exited"}
        BY <1>1 DEF SendInput, InputSent, MaybeSendResizeHello, BackToLoop, CloseWindow,
                    ClosingSent, TearDownRest, TearDownStep, objVars, appVars, readVars
  <2> QED BY <2>1 DEF Replacement, OnePublished, ReplacedIsClosed, NewIsPublished,
                      Published, Receiving, listenVars
<1>2. CASE ReapEndedSession
  \* What it takes has ended, or its address has been used before.
  <2>1. /\ UNCHANGED <<listenVars, closed, rpc>> /\ session \in Conn
        /\ mpc \notin {"close", "exited"} /\ mpc' \notin {"close", "exited"}
        BY <1>2 DEF ReapEndedSession, objVars, readVars
  <2>2. Ended(session) \/ AddressReused
        BY <1>2, <2>1, MarksGuardReaper DEF ReapEndedSession, ReapNeedsEnd, AddressReused
  <2>3. CASE AddressReused
        BY <2>1, <2>3 DEF Replacement, OnePublished, ReplacedIsClosed, NewIsPublished,
                          Published, Receiving, listenVars
  <2>4. CASE Ended(session)
    <3>1. ~Receiving(session)  BY <2>4 DEF Ended, Receiving
    <3>2. lpc \in {"unlock", "start"} => lNew # session
          BY <2>4 DEF Ended, Ownership, ListenerPlace
    <3> QED BY <2>1, <3>1, <3>2
            DEF Replacement, OnePublished, ReplacedIsClosed, NewIsPublished,
                Published, Receiving, listenVars
  <2> QED BY <2>2, <2>3, <2>4
<1>3. CASE TakeSession
  <2>1. /\ UNCHANGED <<listenVars, closed, rpc>> /\ mpc = "take" /\ mpc' = "close"
        /\ mRef' = session
        BY <1>3 DEF TakeSession, objVars, readVars
  <2> QED BY <2>1 DEF Replacement, OnePublished, ReplacedIsClosed, NewIsPublished,
                      Published, Receiving, listenVars
<1>4. CASE CloseTaken
  <2>1. /\ UNCHANGED <<listenVars, session, mRef, rpc>> /\ mpc = "close" /\ mpc' = "reset"
        /\ \A c \in Conn : closed'[c] <=> closed[c] \/ c = mRef
        BY <1>4 DEF CloseTaken, appVars, readVars
  <2>2. lpc \in {"unlock", "start"} => lNew \in Conn
        BY DEF Ownership, ListenerPlace
  <2> QED BY <2>1, <2>2
          DEF Replacement, OnePublished, ReplacedIsClosed, NewIsPublished,
              Published, Receiving, listenVars
<1>5. CASE DropLocal \/ ResetTaken \/ DestroyApp
  <2>1. /\ UNCHANGED <<listenVars, rpc>> /\ mpc \notin {"close", "exited"}
        /\ \/ UNCHANGED session /\ mpc' \in {"dropped", "stopDecode"}
           \/ mpc = "tornDown" /\ mpc' = "exited"
        BY <1>5 DEF DropLocal, ResetTaken, DestroyApp, appVars, readVars
  <2>2. \E r \in {mRef, session} : Release(Main, r)
        BY <1>5 DEF DropLocal, ResetTaken, DestroyApp
  <2>3. \A c \in Conn : (closed[c] => closed'[c]) /\ (Receiving(c)' => Receiving(c))
        BY <2>1, <2>2, LetGoSettles
  <2>4. lpc \in {"unlock", "start"} => lNew \in Conn
        BY DEF Ownership, ListenerPlace
  <2>5. \A c \in Conn : Receiving(c) => session = c \/ AddressReused
        BY <2>1 DEF Replacement, OnePublished, Published
  <2>6. OnePublished'
        BY <2>1, <2>3, <2>5 DEF Replacement, OnePublished, Published
  <2>7. ReplacedIsClosed' /\ NewIsPublished'
        BY <2>1, <2>3, <2>4 DEF Replacement, ReplacedIsClosed, NewIsPublished,
                                Published, listenVars
  <2> QED BY <2>6, <2>7 DEF Replacement
<1> QED BY <1>1, <1>2, <1>3, <1>4, <1>5 DEF MainStep, MainReturn, TearDownSteps

LEMMA NextReplacement ==
    TypeOK /\ Ownership /\ Marks /\ Replacement /\ [Next]_vars => Replacement'
<1> SUFFICES ASSUME TypeOK, Ownership, Marks, Replacement, [Next]_vars PROVE Replacement'
    OBVIOUS
<1>1. AddressReused => AddressReused'  BY ReusedForGood
<1>2. CASE UNCHANGED vars
      BY <1>1, <1>2, SettledKeepsReplacement
      DEF Settled, Receiving, vars, objVars, appVars, listenVars, mainVars, readVars
<1>3. CASE Next
      BY <1>1, <1>2, <1>3, ListenerReplacement, MainReplacement, ReadSettled,
         SocketSettled, SettledKeepsReplacement
      DEF Next, Stop
<1> QED BY <1>2, <1>3

LEMMA ReplacementCorrect == Spec => []Replacement
<1>1. Init => Replacement
      BY DEF Init, Replacement, OnePublished, ReplacedIsClosed, NewIsPublished, Receiving
<1>2. TypeOK /\ Ownership /\ Marks /\ Replacement /\ [Next]_vars => Replacement'
      BY NextReplacement
<1> QED BY <1>1, <1>2, TypeCorrect, OwnershipCorrect, MarksCorrect, PTL DEF Spec

LEMMA PublishedIsOne == Replacement => OneReceiver
BY DEF Replacement, OnePublished, Published, OneReceiver

(* No two sessions receive at once, but for the one TearDown is about to   *)
(* close and for what the reuse of an address makes of the reaper.         *)
THEOREM OneReceiverCorrect == Spec => []OneReceiver
BY ReplacementCorrect, PublishedIsOne, PTL

-----------------------------------------------------------------------------
(* The end of the program: what is left when main returns.                 *)

\* An accepted socket is OnAccept's until its Session is made; ~App leaves no
\* session; and main does not return from a program that was terminated.
AcceptedIsNew == \A c \in Conn :
    phase[c] = "accepted" => lNew = c /\ lpc \in {"snapshot", "close", "make"}
AppIsGone == mpc = "exited" => session = None
ReturnsAlive == mpc = "exited" /\ joining[Main] = None => ~Terminated
Return == AcceptedIsNew /\ AppIsGone /\ ReturnsAlive

LEMMA InitReturn == Init => Return
BY DEF Init, Return, AcceptedIsNew, AppIsGone, ReturnsAlive

LEMMA LetGoAccepts ==
    ASSUME TypeOK, NEW t \in Thread, NEW r, Release(t, r)
    PROVE  \A c \in Conn : phase'[c] = "accepted" => phase[c] = "accepted"
BY DEF Release, LetGo, TypeOK, objVars

\* Only OnAccept's thread moves the connection it has accepted.
LEMMA ListenerAccepts ==
    ASSUME TypeOK, Ownership, Return, ListenerStep PROVE AcceptedIsNew'
<1> USE DEF Return, AcceptedIsNew, TypeOK, objVars
<1>1. ASSUME NEW c \in Conn, Accept(c) PROVE AcceptedIsNew'
      BY <1>1 DEF Accept, Ownership, ListenerPlace
<1>2. CASE Snapshot \/ CloseReplaced  BY <1>2 DEF Snapshot, CloseReplaced
<1>3. ASSUME NEW a \in Addr, Make(a) PROVE AcceptedIsNew'
      BY <1>3 DEF Make, Ownership, ListenerPlace
<1>4. CASE UnlockInstalled \/ Start \/ SendFirstHello \/ ListenerExit
      BY <1>4 DEF UnlockInstalled, Start, SendFirstHello, ListenerExit
<1>5. CASE Install \/ DropNew \/ DropReplaced
  <2>1. \A c \in Conn : phase[c] # "accepted"
        BY <1>5 DEF Install, DropNew, DropReplaced
  <2>2. \E r \in {session, lNew, lReplaced} : Release(Listener, r)
        BY <1>5 DEF Install, DropNew, DropReplaced
  <2> QED BY <2>1, <2>2, LetGoAccepts DEF Thread
<1> QED BY <1>1, <1>2, <1>3, <1>4, <1>5 DEF ListenerStep, OnAcceptStep

LEMMA ReadAccepts ==
    ASSUME TypeOK, Return, NEW c \in Conn, ReadStep(c) PROVE AcceptedIsNew'
<1> USE DEF Return, AcceptedIsNew, objVars, listenVars
<1>1. CASE OnControlReturn(c) \/ OnClosedDrop(c)
  <2>1. UNCHANGED listenVars /\ Release(c, c)
        BY <1>1 DEF OnControlReturn, OnClosedDrop
  <2> QED BY <2>1, LetGoAccepts DEF Thread
<1>2. CASE ~(OnControlReturn(c) \/ OnClosedDrop(c))
      BY <1>2 DEF ReadStep, CallbackReturn, Ending, OnControl, HandleControlStats, SendPing,
                  RequestKeyframe, SeeClosed, LoseConnection, KeyframeRequested, OnClosed,
                  OnClosedReturn
<1> QED BY <1>1, <1>2

LEMMA MainAccepts ==
    ASSUME TypeOK, Return, MainStep \/ DecoderStep PROVE AcceptedIsNew'
<1> USE DEF Return, AcceptedIsNew, objVars, listenVars
<1>1. CASE DropLocal \/ ResetTaken \/ DestroyApp
  <2>1. UNCHANGED listenVars  BY <1>1 DEF DropLocal, ResetTaken, DestroyApp
  <2>2. \E r \in {mRef, session} : Release(Main, r)
        BY <1>1 DEF DropLocal, ResetTaken, DestroyApp
  <2> QED BY <2>1, <2>2, LetGoAccepts DEF Thread
<1>2. CASE SendInput \/ InputSent \/ ReapEndedSession \/ MaybeSendResizeHello
      BY <1>2 DEF SendInput, InputSent, ReapEndedSession, MaybeSendResizeHello
<1>3. CASE BackToLoop \/ CloseWindow \/ ClosingSent \/ TakeSession \/ CloseTaken
      BY <1>3 DEF BackToLoop, CloseWindow, ClosingSent, TakeSession, CloseTaken
<1>4. CASE TearDownRest \/ DecoderStep
      BY <1>4 DEF TearDownRest, TearDownStep, DecoderStep, DecoderRequestKeyframe,
                  DecoderUnlock, DecoderExit
<1> QED BY <1>1, <1>2, <1>3, <1>4 DEF MainStep, MainReturn, TearDownSteps

LEMMA SocketAccepts ==
    ASSUME TypeOK, Return, (\E t \in Thread : SocketStep(t)) \/ PeerStep PROVE AcceptedIsNew'
<1> USE DEF Return, AcceptedIsNew, TypeOK, objVars, listenVars
<1>1. ASSUME NEW t \in Thread, SendBegin(t) \/ SendOk(t) \/ SendFail(t) PROVE AcceptedIsNew'
      BY <1>1 DEF SendBegin, SendOk, SendFail
<1>2. ASSUME NEW t \in Thread, JoinDone(t) PROVE AcceptedIsNew'
      BY <1>2 DEF JoinDone
<1>3. CASE PeerStep  BY <1>3 DEF PeerStep, PeerResume
<1> QED BY <1>1, <1>2, <1>3 DEF SocketStep

\* Until ~App has run main is not at its end, and after it session stays null.
LEMMA NextAppIsGone ==
    ASSUME TypeOK, Ownership, Return, Next PROVE AppIsGone'
<1> USE DEF Return, AppIsGone, appVars, mainVars
<1>1. CASE ListenerStep
  <2>1. mpc' = mpc /\ (session' = session \/ lpc = "install")
        BY <1>1 DEF ListenerStep, OnAcceptStep, Accept, Snapshot, CloseReplaced, Make, Install,
                    UnlockInstalled, Start, SendFirstHello, DropNew, DropReplaced, ListenerExit
  <2> QED BY <2>1 DEF Ownership, MainPlace
<1>2. CASE MainStep
      BY <1>2 DEF MainStep, MainReturn, TearDownSteps, SendInput, InputSent, ReapEndedSession,
                  MaybeSendResizeHello, DropLocal, BackToLoop, CloseWindow, ClosingSent,
                  TakeSession, CloseTaken, ResetTaken, TearDownRest, TearDownStep, DestroyApp
<1>3. CASE DecoderStep \/ PeerStep
      BY <1>3 DEF DecoderStep, DecoderRequestKeyframe, DecoderUnlock, DecoderExit,
                  PeerStep, PeerResume
<1>4. ASSUME NEW c \in Conn, ReadStep(c) PROVE AppIsGone'
      BY <1>4 DEF ReadStep, CallbackReturn, Ending, OnControl, HandleControlStats, OnControlReturn,
                  SendPing, RequestKeyframe, KeyframeRequested, SeeClosed, LoseConnection,
                  OnClosed, OnClosedDrop, OnClosedReturn
<1>5. ASSUME NEW t \in Thread, SocketStep(t) PROVE AppIsGone'
      BY <1>5 DEF SocketStep, SendBegin, SendOk, SendFail, JoinDone
<1>6. CASE Stop  BY <1>6 DEF Stop, vars
<1> QED BY <1>1, <1>2, <1>3, <1>4, <1>5, <1>6 DEF Next

\* Who is in ~Session: one more by letting go, one less by the end of a join.
LetsGo == \E t \in Thread, c \in Conn : joining' = [joining EXCEPT ![t] = c]
JoiningStep == joining' = joining \/ LetsGo \/ \E t \in Thread : JoinDone(t)

LEMMA ReleaseJoins ==
    ASSUME TypeOK, NEW t \in Thread, NEW r \in Conn \cup {None}, Release(t, r)
    PROVE  JoiningStep
BY DEF Release, LetGo, JoiningStep, LetsGo

LEMMA NextJoining == ASSUME TypeOK, Ownership, Next PROVE JoiningStep
<1>1. CASE ListenerStep
  <2>1. CASE Install \/ DropNew \/ DropReplaced
    <3>1. \E r \in {session, lNew, lReplaced} : Release(Listener, r)
          BY <2>1 DEF Install, DropNew, DropReplaced
    <3> QED BY <3>1, ReleaseJoins DEF Thread, TypeOK
  <2>2. CASE ~(Install \/ DropNew \/ DropReplaced)
        BY <1>1, <2>2 DEF JoiningStep, ListenerStep, OnAcceptStep, Accept, Snapshot,
           CloseReplaced, Make, UnlockInstalled, Start, SendFirstHello, ListenerExit
  <2> QED BY <2>1, <2>2
<1>2. CASE MainStep
  <2>1. CASE DropLocal \/ ResetTaken \/ DestroyApp
    <3>1. \E r \in {mRef, session} : Release(Main, r)
          BY <2>1 DEF DropLocal, ResetTaken, DestroyApp
    <3> QED BY <3>1, ReleaseJoins DEF Thread, TypeOK
  <2>2. CASE ~(DropLocal \/ ResetTaken \/ DestroyApp)
        BY <1>2, <2>2 DEF JoiningStep, MainStep, MainReturn, TearDownSteps, SendInput,
           InputSent, ReapEndedSession, MaybeSendResizeHello, BackToLoop, CloseWindow,
           ClosingSent, TakeSession, CloseTaken, TearDownRest, TearDownStep
  <2> QED BY <2>1, <2>2
<1>3. ASSUME NEW c \in Conn, ReadStep(c) PROVE JoiningStep
  <2>1. CASE OnControlReturn(c) \/ OnClosedDrop(c)
        BY <2>1, ReleaseJoins DEF OnControlReturn, OnClosedDrop, Thread
  <2>2. CASE ~(OnControlReturn(c) \/ OnClosedDrop(c))
        BY <1>3, <2>2 DEF JoiningStep, ReadStep, CallbackReturn, Ending, OnControl,
           HandleControlStats, SendPing, RequestKeyframe, KeyframeRequested, SeeClosed,
           LoseConnection, OnClosed, OnClosedReturn
  <2> QED BY <2>1, <2>2
<1>4. CASE DecoderStep \/ PeerStep
      BY <1>4 DEF JoiningStep, DecoderStep, DecoderRequestKeyframe, DecoderUnlock, DecoderExit,
                  PeerStep, PeerResume
<1>5. ASSUME NEW t \in Thread, SocketStep(t) PROVE JoiningStep
      BY <1>5 DEF JoiningStep, SocketStep, SendBegin, SendOk, SendFail
<1>6. CASE Stop  BY <1>6 DEF Stop, vars, JoiningStep
<1> QED BY <1>1, <1>2, <1>3, <1>4, <1>5, <1>6 DEF Next

\* ~App itself joins on the main thread; from then on main is still joining,
\* or the end of its own join is the step.
LEMMA NextReturnsAlive ==
    ASSUME TypeOK, Ownership, Return, Next PROVE ReturnsAlive'
<1> SUFFICES ASSUME ~Halted, mpc' = "exited", joining'[Main] = None
             PROVE  ~Terminated'
    BY DEF Next, Stop, Return, ReturnsAlive, Terminated, vars, mainVars
<1> USE ThreadsDistinct DEF TypeOK, Terminated, Thread
<1>1. ~Terminated /\ (mpc = "exited" => joining[Main] # None)  BY DEF Halted
<1>2. CASE \E t \in Thread : JoinDone(t)  BY <1>1, <1>2 DEF JoinDone
<1>3. CASE joining' = joining  BY <1>1, <1>3
<1>4. CASE LetsGo
  <2>1. PICK t \in Thread, c \in Conn : joining' = [joining EXCEPT ![t] = c]
        BY <1>4 DEF LetsGo
  <2>2. t # Main  BY <2>1
  <2>3. mpc # "exited"  BY <1>1, <2>1, <2>2
  <2>4. DestroyApp
        BY <2>3 DEF Next, Stop, Halted, ListenerStep, OnAcceptStep, Accept, Snapshot,
           CloseReplaced, Make, Install, UnlockInstalled, Start, SendFirstHello, DropNew,
           DropReplaced, ListenerExit, mainVars, MainStep, MainReturn, TearDownSteps, SendInput,
           InputSent, ReapEndedSession, MaybeSendResizeHello, DropLocal, BackToLoop,
           CloseWindow, ClosingSent, TakeSession, CloseTaken, ResetTaken, TearDownRest,
           TearDownStep, ReadStep, CallbackReturn, Ending, OnControl, HandleControlStats,
           OnControlReturn, SendPing, RequestKeyframe, KeyframeRequested, SeeClosed,
           LoseConnection, OnClosed, OnClosedDrop, OnClosedReturn, DecoderStep,
           DecoderRequestKeyframe, DecoderUnlock, DecoderExit, PeerStep, PeerResume,
           SocketStep, SendBegin, SendOk, SendFail, JoinDone, vars
  <2>5. \A d \in Conn : joining'[d] = joining[d]
        BY <2>4 DEF DestroyApp, Release, LetGo
  <2> QED BY <1>1, <2>5
<1> QED BY <1>2, <1>3, <1>4, NextJoining DEF JoiningStep

LEMMA NextReturn == TypeOK /\ Ownership /\ Return /\ [Next]_vars => Return'
<1> SUFFICES ASSUME TypeOK, Ownership, Return, [Next]_vars PROVE Return'
    OBVIOUS
<1>1. CASE UNCHANGED vars
      BY <1>1 DEF Return, AcceptedIsNew, AppIsGone, ReturnsAlive, Terminated, vars, objVars,
                  appVars, listenVars, mainVars
<1>2. CASE Next
  <2>1. AcceptedIsNew'
        BY <1>1, <1>2, ListenerAccepts, ReadAccepts, MainAccepts, SocketAccepts
        DEF Next, Stop, Return
  <2> QED BY <1>2, <2>1, NextAppIsGone, NextReturnsAlive DEF Return
<1> QED BY <1>1, <1>2

LEMMA NothingLeft ==
    ASSUME TypeOK, Ownership, Return PROVE ExitLeavesOnlyCallbacks
<1> SUFFICES ASSUME mpc = "exited", Free(Main), NEW c \in Conn, ~rRef[c] PROVE Gone(c)
    BY DEF ExitLeavesOnlyCallbacks
<1>1. lpc = "exited" /\ lNew = None /\ lReplaced = None /\ mRef = None /\ session = None
      BY DEF Ownership, ListenerPlace, MainPlace, Return, AppIsGone
<1>2. ~Held(c)  BY <1>1, ThreadsDistinct DEF Held, ListenerHolds
<1>3. phase[c] # "live"  BY <1>2 DEF Ownership, RefsAreLive
<1>4. phase[c] # "accepted"  BY <1>1 DEF Return, AcceptedIsNew
<1>5. phase[c] # "destroying"
  <2> SUFFICES ASSUME NEW t \in Thread, joining[t] = c PROVE FALSE
      BY DEF Ownership, OneDestroyer
  <2>1. c # None  BY ThreadsDistinct
  <2>2. t \notin {Main, Decoder, Listener}
        BY <1>1, <2>1 DEF Free, Ownership, OneDestroyer, ListenerPlace
  <2>3. t = c  BY <2>1, <2>2 DEF Thread, Ownership, OneDestroyer
  <2> QED BY <2>3 DEF Free, Return, ReturnsAlive, Terminated
<1>6. phase[c] \in {"unborn", "dead"}  BY <1>3, <1>4, <1>5 DEF TypeOK
<1>7. rpc[c] \in {"none", "done"}  BY <1>6 DEF Ownership, ReaderPlace, Alive
<1> QED BY <1>6, <1>7 DEF Gone

(* When main returns, every Session is destroyed and its read thread has    *)
(* ended, except one whose read thread is inside a callback.                *)
THEOREM ExitLeavesOnlyCallbacksCorrect == Spec => []ExitLeavesOnlyCallbacks
<1>1. Init => Return  BY InitReturn
<1>2. TypeOK /\ Ownership /\ Return /\ [Next]_vars => Return'  BY NextReturn
<1>3. TypeOK /\ Ownership /\ Return => ExitLeavesOnlyCallbacks  BY NothingLeft
<1> QED BY <1>1, <1>2, <1>3, TypeCorrect, OwnershipCorrect, PTL DEF Spec

-----------------------------------------------------------------------------
(* What all this comes to: the receiver serves one sender at a time.       *)

\* Accepted, and not yet started.
Waiting(c) ==
    lNew = c /\ lpc \in {"snapshot", "close", "make", "install", "unlock", "start"}
life == [c \in Conn |-> IF phase[c] = "unborn" THEN "absent"
                        ELSE IF Waiting(c) THEN "waiting"
                        ELSE IF Receiving(c) THEN "served" ELSE "over"]
door == IF mpc \in {"loop", "unlock", "drop", "dropped", "quit", "take"} THEN "open"
        ELSE IF Listening THEN "leaving" ELSE "shut"
Sender == INSTANCE OneSender

\* Nobody comes or is served; at most one session stops receiving.
Receives == \A d \in Conn : Receiving(d)' => Receiving(d)
OneStops == \A d, e \in Conn :
    Receiving(d) /\ ~Receiving(d)' /\ Receiving(e) /\ ~Receiving(e)' => d = e
NoneComes == \A d \in Conn : /\ phase'[d] = "unborn" <=> phase[d] = "unborn"
                             /\ Waiting(d)' <=> Waiting(d)
Calm == Receives /\ OneStops /\ NoneComes

\* How a session stops receiving: one is closed, or one read loop ends.
LEMMA OneClosedIsCalm ==
    ASSUME TypeOK, NEW c, UNCHANGED rpc, \A d \in Conn : closed'[d] <=> closed[d] \/ d = c
    PROVE  Receives /\ OneStops
BY DEF Receives, OneStops, Receiving

LEMMA LetGoIsCalm ==
    ASSUME TypeOK, NEW t \in Thread, NEW r \in Conn \cup {None}, Release(t, r), UNCHANGED rpc
    PROVE  /\ Receives /\ OneStops
           /\ \A d \in Conn : phase'[d] = "unborn" <=> phase[d] = "unborn"
<1>1. \/ UNCHANGED <<phase, closed>>
      \/ /\ phase[r] = "live" /\ phase' = [phase EXCEPT ![r] = "destroying"]
         /\ closed' = [closed EXCEPT ![r] = TRUE]
      BY DEF Release, LetGo, objVars
<1>2. CASE UNCHANGED <<phase, closed>>
      BY <1>2 DEF Receives, OneStops, Receiving
<1>3. CASE phase[r] = "live" /\ phase' = [phase EXCEPT ![r] = "destroying"]
           /\ closed' = [closed EXCEPT ![r] = TRUE]
  <2>1. \A d \in Conn : closed'[d] <=> closed[d] \/ d = r  BY <1>3 DEF TypeOK
  <2>2. Receives /\ OneStops  BY <2>1, OneClosedIsCalm
  <2>3. \A d \in Conn : phase'[d] = IF d = r THEN "destroying" ELSE phase[d]
        BY <1>3 DEF TypeOK
  <2> QED BY <1>3, <2>2, <2>3
<1> QED BY <1>1, <1>2, <1>3

LEMMA ListenerCalm ==
    ASSUME TypeOK, Ownership, ListenerStep
    PROVE  Calm \/ Start \/ \E c \in Conn : Accept(c)
<1> USE DEF Calm, NoneComes, Waiting
<1>1. CASE Snapshot \/ UnlockInstalled \/ SendFirstHello \/ ListenerExit
  <2>1. UNCHANGED <<objVars, rpc, lNew>>
        BY <1>1 DEF Snapshot, UnlockInstalled, SendFirstHello, ListenerExit, readVars
  <2>2. Receives /\ OneStops  BY <2>1 DEF Receives, OneStops, Receiving, objVars
  <2>3. \/ lpc = "snapshot" /\ lpc' = "close"
        \/ lpc = "unlock" /\ lpc' = "start"
        \/ lpc = "hello" /\ lpc' = "dropNew"
        \/ lpc = "accept" /\ lpc' = "exited"
        BY <1>1 DEF Snapshot, UnlockInstalled, SendFirstHello, ListenerExit
  <2> QED BY <2>1, <2>2, <2>3 DEF objVars
<1>2. CASE CloseReplaced
  <2>1. UNCHANGED <<phase, rpc, lNew>> /\ lpc = "close" /\ lpc' = "make"
        BY <1>2 DEF CloseReplaced, readVars
  <2>2. \A d \in Conn : closed'[d] <=> closed[d] \/ d = lReplaced
        BY <1>2 DEF CloseReplaced
  <2> QED BY <2>1, <2>2, OneClosedIsCalm
<1>3. ASSUME NEW a \in Addr, Make(a) PROVE Calm
  <2>1. /\ UNCHANGED <<closed, rpc, lNew>> /\ lpc = "make" /\ lpc' = "install"
        /\ lNew \in Conn /\ phase[lNew] = "accepted"
        /\ phase' = [phase EXCEPT ![lNew] = "live"]
        BY <1>3, MakeIsFresh DEF Make, readVars
  <2>2. Receives /\ OneStops  BY <2>1 DEF Receives, OneStops, Receiving
  <2>3. \A d \in Conn : phase'[d] = "unborn" <=> phase[d] = "unborn"  BY <2>1 DEF TypeOK
  <2> QED BY <2>1, <2>2, <2>3
<1>4. CASE Install \/ DropNew \/ DropReplaced
  <2>1. UNCHANGED rpc  BY <1>4 DEF Install, DropNew, DropReplaced, readVars
  <2>2. \E r \in {session, lNew, lReplaced} : Release(Listener, r)
        BY <1>4 DEF Install, DropNew, DropReplaced
  <2>3. /\ Receives /\ OneStops
        /\ \A d \in Conn : phase'[d] = "unborn" <=> phase[d] = "unborn"
        BY <2>1, <2>2, LetGoIsCalm DEF TypeOK, Thread
  <2>4. \/ lpc = "install" /\ lpc' = "unlock" /\ lNew' = lNew
        \/ lpc \in {"dropNew", "dropReplaced"} /\ lpc' \in {"dropReplaced", "accept"}
        BY <1>4 DEF Install, DropNew, DropReplaced
  <2> QED BY <2>3, <2>4
<1> QED BY <1>1, <1>2, <1>3, <1>4 DEF ListenerStep, OnAcceptStep

LEMMA ReadCalm == ASSUME TypeOK, NEW c \in Conn, ReadStep(c) PROVE Calm
<1>1. CASE OnControlReturn(c) \/ OnClosedDrop(c)
  \* What lets go is this thread's own reference.
  <2>1. /\ Release(c, c) /\ UNCHANGED listenVars
        /\ \A d \in Conn : d # c => rpc'[d] = rpc[d]
        /\ \/ rpc[c] \in {"control", "handled"} /\ rpc'[c] = "recv"
           \/ rpc[c] = "closing" /\ rpc'[c] = "unlock"
        BY <1>1 DEF OnControlReturn, OnClosedDrop, TypeOK
  <2>2. \A d \in Conn : /\ closed[d] => closed'[d]
                        /\ d # c => closed'[d] = closed[d]
                        /\ phase'[d] = "unborn" <=> phase[d] = "unborn"
        BY <2>1 DEF Release, LetGo, TypeOK, objVars
  <2>3. Receives /\ OneStops  BY <2>1, <2>2 DEF Receives, OneStops, Receiving
  <2>4. NoneComes  BY <2>1, <2>2 DEF NoneComes, Waiting, listenVars
  <2> QED BY <2>3, <2>4 DEF Calm
<1>2. CASE ~(OnControlReturn(c) \/ OnClosedDrop(c))
  <2>1. UNCHANGED <<objVars, listenVars>>
        BY <1>2 DEF ReadStep, CallbackReturn, Ending, OnControl, HandleControlStats, SendPing,
           RequestKeyframe, KeyframeRequested, SeeClosed, LoseConnection, OnClosed, OnClosedReturn
  <2>2. \A d \in Conn : d # c => rpc'[d] = rpc[d]
        BY <1>2 DEF ReadStep, CallbackReturn, Ending, OnControl, HandleControlStats, SendPing,
           RequestKeyframe, KeyframeRequested, SeeClosed, LoseConnection, OnClosed, OnClosedReturn,
           TypeOK, readVars
  <2>3. Receiving(c)' => Receiving(c)
        BY ReadSettled DEF Settled
  <2>4. Receives /\ OneStops  BY <2>1, <2>2, <2>3 DEF Receives, OneStops, Receiving, objVars
  <2>5. NoneComes  BY <2>1 DEF NoneComes, Waiting, listenVars, objVars
  <2> QED BY <2>4, <2>5 DEF Calm
<1> QED BY <1>1, <1>2

LEMMA SocketCalm ==
    ASSUME TypeOK, Ownership, DecoderStep \/ (\E t \in Thread : SocketStep(t)) \/ PeerStep
    PROVE  Calm
<1> USE DEF Calm, Receives, OneStops, Receiving, NoneComes, Waiting, TypeOK,
            objVars, listenVars, readVars
<1>1. ASSUME NEW t \in Thread, SendBegin(t) \/ SendOk(t) PROVE Calm
      BY <1>1 DEF SendBegin, SendOk
<1>2. ASSUME NEW t \in Thread, SendFail(t) PROVE Calm
  <2>1. \A d \in Conn : closed'[d] <=> closed[d] \/ d = sendTo[t]
        BY <1>2 DEF SendFail
  <2>2. UNCHANGED <<phase, rpc, lNew, lpc>>  BY <1>2 DEF SendFail
  <2> QED BY <2>1, <2>2
<1>3. ASSUME NEW t \in Thread, JoinDone(t) PROVE Calm
  \* The Session destroyed was not unborn.
  <2>1. UNCHANGED <<closed, rpc, lNew, lpc>> /\ joining[t] # None
        /\ phase' = [phase EXCEPT ![joining[t]] = "dead"]
        BY <1>3 DEF JoinDone
  <2>2. phase[joining[t]] = "destroying"  BY <2>1 DEF Ownership, OneDestroyer
  <2> QED BY <2>1, <2>2
<1>4. CASE PeerStep  BY <1>4 DEF PeerStep, PeerResume
<1>5. CASE DecoderStep
      BY <1>5 DEF DecoderStep, DecoderRequestKeyframe, DecoderUnlock, DecoderExit
<1> QED BY <1>1, <1>2, <1>3, <1>4, <1>5 DEF SocketStep

\* Main closes the session it has taken; and only it moves the door.
LEMMA MainCalm ==
    ASSUME TypeOK, MainStep
    PROVE  /\ Calm
           /\ \/ UNCHANGED door
              \/ /\ UNCHANGED <<phase, closed, rpc, lNew, lpc>>
                 /\ \/ door = "open" /\ door' = "leaving"
                    \/ door = "leaving" /\ door' = "shut"
<1>1. UNCHANGED <<lNew, lpc, rpc>>
      BY DEF MainStep, MainReturn, TearDownSteps, SendInput, InputSent, ReapEndedSession,
             MaybeSendResizeHello, DropLocal, BackToLoop, CloseWindow, ClosingSent,
             TakeSession, CloseTaken, ResetTaken, TearDownRest, TearDownStep, DestroyApp,
             listenVars, readVars
<1>2. CASE DropLocal \/ ResetTaken \/ DestroyApp
  <2>1. \E r \in {mRef, session} : Release(Main, r)
        BY <1>2 DEF DropLocal, ResetTaken, DestroyApp
  <2>2. /\ Receives /\ OneStops
        /\ \A d \in Conn : phase'[d] = "unborn" <=> phase[d] = "unborn"
        BY <1>1, <2>1, LetGoIsCalm DEF TypeOK, Thread
  <2>3. Calm  BY <1>1, <2>2 DEF Calm, NoneComes, Waiting
  <2>4. UNCHANGED door
        BY <1>2 DEF DropLocal, ResetTaken, DestroyApp, door, Listening
  <2> QED BY <2>3, <2>4
<1>3. CASE CloseTaken
  <2>1. \A d \in Conn : closed'[d] <=> closed[d] \/ d = mRef
        BY <1>3 DEF CloseTaken
  <2>2. UNCHANGED phase  BY <1>3 DEF CloseTaken
  <2>3. Calm  BY <1>1, <2>1, <2>2, OneClosedIsCalm DEF Calm, NoneComes, Waiting
  <2>4. UNCHANGED door  BY <1>3 DEF CloseTaken, door, Listening
  <2> QED BY <2>3, <2>4
<1>4. CASE SendInput \/ InputSent \/ ReapEndedSession \/ MaybeSendResizeHello \/ BackToLoop
           \/ CloseWindow \/ ClosingSent \/ TakeSession \/ TearDownRest
  <2>1. UNCHANGED <<phase, closed>>
        BY <1>4 DEF SendInput, InputSent, ReapEndedSession, MaybeSendResizeHello, BackToLoop,
           CloseWindow, ClosingSent, TakeSession, TearDownRest, TearDownStep, objVars
  <2>2. Calm  BY <1>1, <2>1 DEF Calm, Receives, OneStops, Receiving, NoneComes, Waiting
  <2>3. \/ UNCHANGED door
        \/ door = "open" /\ door' = "leaving"
        \/ door = "leaving" /\ door' = "shut"
    <3>1. CASE ~(TakeSession \/ TearDownRest)
          BY <1>4, <3>1 DEF SendInput, InputSent, ReapEndedSession, MaybeSendResizeHello,
             BackToLoop, CloseWindow, ClosingSent, door, Listening
    <3>2. CASE TakeSession  BY <3>2 DEF TakeSession, door, Listening
    <3>3. CASE TearDownRest  BY <3>3 DEF TearDownRest, TearDownStep, door, Listening
    <3> QED BY <3>1, <3>2, <3>3
  <2> QED BY <1>1, <2>1, <2>2, <2>3
<1> QED BY <1>2, <1>3, <1>4 DEF MainStep, MainReturn, TearDownSteps

\* A calm step ends the life of at most one connection that was served.
LEMMA CalmEnds ==
    ASSUME TypeOK, Ownership, Calm
    PROVE  UNCHANGED life \/ \E c \in Conn : life[c] = "served" /\ life' = [life EXCEPT ![c] = "over"]
<1>1. ASSUME NEW d \in Conn, Receiving(d) PROVE phase[d] # "unborn" /\ ~Waiting(d)
      BY <1>1 DEF Receiving, Waiting, Ownership, ReaderPlace, ListenerPlace, Alive
<1>2. \A d \in Conn : (Receiving(d)' <=> Receiving(d)) => life'[d] = life[d]
      BY DEF Calm, NoneComes, life
<1>3. CASE \A d \in Conn : Receiving(d)' <=> Receiving(d)
      BY <1>2, <1>3 DEF life
<1>4. ASSUME NEW c \in Conn, Receiving(c), ~Receiving(c)'
      PROVE  life[c] = "served" /\ life' = [life EXCEPT ![c] = "over"]
  <2>1. life[c] = "served"  BY <1>1, <1>4 DEF life
  <2>2. life'[c] = "over"  BY <1>1, <1>4 DEF life, Calm, NoneComes
  <2>3. \A d \in Conn : d # c => life'[d] = life[d]
        BY <1>2, <1>4 DEF Calm, Receives, OneStops
  <2> QED BY <2>1, <2>2, <2>3 DEF life
<1> QED BY <1>3, <1>4 DEF Calm, Receives

LEMMA AcceptComes ==
    ASSUME TypeOK, Ownership, NEW c \in Conn, Accept(c) PROVE Sender!Come(c)
<1>1. /\ lpc = "accept" /\ lNew = None /\ phase[c] = "unborn" /\ Listening
      /\ lpc' = "snapshot" /\ lNew' = c /\ UNCHANGED <<closed, rpc, mpc>>
      /\ phase' = [phase EXCEPT ![c] = "accepted"]
      BY DEF Accept, Ownership, ListenerPlace, mainVars, readVars
<1>2. life[c] = "absent" /\ life'[c] = "waiting"
      BY <1>1 DEF life, Waiting, TypeOK
<1>3. \A d \in Conn : ~Waiting(d) /\ (d # c => ~Waiting(d)')
      BY <1>1 DEF Waiting
<1>4. \A d \in Conn : life[d] # "waiting"  BY <1>3 DEF life
<1>5. \A d \in Conn : d # c => life'[d] = life[d]
      BY <1>1, <1>3 DEF life, Receiving, TypeOK
<1>6. life' = [life EXCEPT ![c] = "waiting"]  BY <1>2, <1>5 DEF life
<1>7. door # "shut" /\ UNCHANGED door  BY <1>1 DEF door, Listening
<1> QED BY <1>2, <1>4, <1>6, <1>7 DEF Sender!Come, Sender!Becomes

\* The read thread of a session that has been closed meanwhile begins in vain.
LEMMA StartServes ==
    ASSUME TypeOK, Ownership, Replacement, ~AddressReused, Start
    PROVE  Sender!Serve(lNew) \/ Sender!End(lNew)
<1>1. /\ lpc = "start" /\ lNew \in Conn /\ lpc' = "hello" /\ UNCHANGED <<phase, closed, mpc, lNew>>
      /\ rpc[lNew] = "none" /\ rpc' = [rpc EXCEPT ![lNew] = "recv"]
      BY DEF Start, Ownership, ListenerPlace, TypeOK, objVars, mainVars
<1>2. phase[lNew] = "live"
      BY <1>1 DEF Ownership, RefsAreLive, Held, ListenerHolds
<1>3. life[lNew] = "waiting"  BY <1>1, <1>2 DEF life, Waiting
<1>4. life'[lNew] = IF closed[lNew] THEN "over" ELSE "served"
      BY <1>1, <1>2 DEF life, Waiting, Receiving, TypeOK
<1>5. \A d \in Conn : d # lNew => life'[d] = life[d]
      BY <1>1 DEF life, Waiting, Receiving, TypeOK
<1>6. UNCHANGED door  BY <1>1 DEF door, Listening
<1>7. CASE closed[lNew]
  <2>1. life' = [life EXCEPT ![lNew] = "over"]  BY <1>4, <1>5, <1>7 DEF life
  <2> QED BY <1>3, <1>6, <2>1 DEF Sender!End, Sender!Becomes
<1>8. CASE ~closed[lNew]
  <2>1. life' = [life EXCEPT ![lNew] = "served"]  BY <1>4, <1>5, <1>8 DEF life
  <2>2. mpc # "exited"  BY <1>1 DEF Ownership, MainPlace
  <2>3. \/ session = lNew
        \/ mpc = "close" /\ mRef = lNew
        BY <1>1, <1>8, <2>2 DEF Replacement, NewIsPublished, Published
  <2>4. ASSUME NEW d \in Conn, life[d] = "served"
        PROVE  d # lNew /\ (session = d \/ (mpc = "close" /\ mRef = d))
    <3>1. Receiving(d)  BY <2>4 DEF life
    <3> QED BY <1>1, <2>2, <3>1 DEF Replacement, OnePublished, Published, Receiving
  <2>5. mpc = "close" => door # "open"  BY DEF door
  <2>6. ASSUME NEW d \in Conn, NEW e \in Conn, life[d] = "served", life[e] = "served"
        PROVE  door # "open" /\ d = e
    <3>1. /\ d # lNew /\ (session = d \/ (mpc = "close" /\ mRef = d))
          /\ e # lNew /\ (session = e \/ (mpc = "close" /\ mRef = e))
          BY <2>4, <2>6
    <3> QED BY <2>3, <2>5, <3>1
  <2> QED BY <1>3, <1>6, <2>1, <2>6 DEF Sender!Serve, Sender!Becomes
<1> QED BY <1>7, <1>8

\* Only the main thread moves the door.
LEMMA DoorIsMains ==
    ASSUME ListenerStep \/ (\E c \in Conn : ReadStep(c)) \/ DecoderStep
           \/ (\E t \in Thread : SocketStep(t)) \/ PeerStep
    PROVE  UNCHANGED door
<1>1. ASSUME UNCHANGED mpc PROVE UNCHANGED door  BY <1>1 DEF door, Listening
<1>2. CASE ListenerStep
      BY <1>1, <1>2 DEF ListenerStep, OnAcceptStep, Accept, Snapshot, CloseReplaced, Make,
         Install, UnlockInstalled, Start, SendFirstHello, DropNew, DropReplaced, ListenerExit,
         mainVars
<1>3. ASSUME NEW c \in Conn, ReadStep(c) PROVE UNCHANGED door
      BY <1>1, <1>3 DEF ReadStep, CallbackReturn, Ending, OnControl, HandleControlStats,
         OnControlReturn, SendPing, RequestKeyframe, KeyframeRequested, SeeClosed,
         LoseConnection, OnClosed, OnClosedDrop, OnClosedReturn, mainVars
<1>4. CASE DecoderStep \/ PeerStep
      BY <1>1, <1>4 DEF DecoderStep, DecoderRequestKeyframe, DecoderUnlock, DecoderExit,
         PeerStep, PeerResume, mainVars
<1>5. ASSUME NEW t \in Thread, SocketStep(t) PROVE UNCHANGED door
      BY <1>1, <1>5 DEF SocketStep, SendBegin, SendOk, SendFail, JoinDone, mainVars
<1> QED BY <1>2, <1>3, <1>4, <1>5

LEMMA NextServes ==
    TypeOK /\ Ownership /\ Replacement /\ ~AddressReused /\ [Next]_vars
        => [Sender!Next]_(Sender!vars)
<1> SUFFICES ASSUME TypeOK, Ownership, Replacement, ~AddressReused, [Next]_vars
             PROVE  [Sender!Next]_(Sender!vars)
    OBVIOUS
<1>1. ASSUME Calm, UNCHANGED door PROVE [Sender!Next]_(Sender!vars)
  <2>1. CASE UNCHANGED life  BY <1>1, <2>1 DEF Sender!vars
  <2>2. ASSUME NEW c \in Conn, life[c] = "served", life' = [life EXCEPT ![c] = "over"]
        PROVE  Sender!Next
        BY <1>1, <2>2 DEF Sender!Next, Sender!End, Sender!Becomes
  <2> QED BY <1>1, <2>1, <2>2, CalmEnds
<1>2. CASE UNCHANGED vars
  <2>1. UNCHANGED <<life, door>>
        BY <1>2 DEF vars, objVars, listenVars, mainVars, readVars, life, door, Waiting,
           Receiving, Listening
  <2> QED BY <2>1 DEF Sender!vars
<1>3. CASE ListenerStep
  <2>1. CASE Calm  BY <1>1, <1>3, <2>1, DoorIsMains
  <2>2. ASSUME NEW c \in Conn, Accept(c) PROVE Sender!Next
        BY <2>2, AcceptComes DEF Sender!Next
  <2>3. CASE Start
    <3>1. lNew \in Conn  BY <2>3 DEF Start, Ownership, ListenerPlace, TypeOK
    <3> QED BY <2>3, <3>1, StartServes DEF Sender!Next
  <2> QED BY <1>3, <2>1, <2>2, <2>3, ListenerCalm
<1>4. ASSUME NEW c \in Conn, ReadStep(c) PROVE [Sender!Next]_(Sender!vars)
      BY <1>1, <1>4, ReadCalm, DoorIsMains
<1>5. CASE DecoderStep \/ (\E t \in Thread : SocketStep(t)) \/ PeerStep
      BY <1>1, <1>5, SocketCalm, DoorIsMains
<1>6. CASE MainStep
  <2>1. CASE UNCHANGED door  BY <1>1, <1>6, <2>1, MainCalm
  <2>2. CASE door' # door
    <3>1. /\ UNCHANGED <<phase, closed, rpc, lNew, lpc>>
          /\ \/ door = "open" /\ door' = "leaving"
             \/ door = "leaving" /\ door' = "shut"
          BY <1>6, <2>2, MainCalm
    <3>2. UNCHANGED life  BY <3>1 DEF life, Waiting, Receiving
    <3> QED BY <3>1, <3>2 DEF Sender!Next, Sender!Move
  <2> QED BY <2>1, <2>2
<1> QED BY <1>2, <1>3, <1>4, <1>5, <1>6 DEF Next, Stop

(* While no Session is made at the address of a destroyed one, the program *)
(* implements OneSender: connections come one at a time, each is served at *)
(* most once, and only when nobody else is, but for the session TearDown   *)
(* has taken (OnAccept, ReapEndedSession, TearDown, main.cpp:539-622,      *)
(* 846-862), for any number of connections and whatever the threads do.    *)
THEOREM ImplementsOneSender == Spec /\ [](~AddressReused) => Sender!Spec
<1>1. Init => Sender!Init
  <2> SUFFICES ASSUME Init PROVE Sender!Init
      OBVIOUS
  <2>1. life = [c \in Conn |-> "absent"]  BY DEF Init, life
  <2>2. door = "open"  BY DEF Init, door
  <2> QED BY <2>1, <2>2 DEF Sender!Init
<1> QED BY <1>1, NextServes, TypeCorrect, OwnershipCorrect, ReplacementCorrect, PTL
        DEF Spec, Sender!Spec
=============================================================================
