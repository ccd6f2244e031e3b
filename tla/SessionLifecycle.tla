-------------------------- MODULE SessionLifecycle --------------------------
(***************************************************************************)
(* Who owns a connection, who may use it and who destroys it.              *)
(*                                                                         *)
(* The receiver serves one sender at a time.  Four kinds of threads touch  *)
(* the Session objects (src/net/session.cpp) through the application       *)
(* (src/app/main.cpp):                                                     *)
(*   Listener  accepts a socket and runs App::OnAccept;                    *)
(*   Main      the Win32 thread: input, adaptive hello, reaping, TearDown; *)
(*   Decoder   the decode thread, which asks for keyframes;                *)
(*   c \in Conn  the read thread of the Session made for connection c.     *)
(* A shared_ptr is a variable that names the connection it points to; the  *)
(* reference count of a Session is the number of variables naming it, and  *)
(* whoever lets the last one go runs ~Session, which joins the read thread.*)
(***************************************************************************)
CONSTANTS
    Conn,            \* the inbound connections of one run of the program
    Addr,            \* heap addresses a Session object can be allocated at
    Listener, Main, Decoder,   \* the three threads that are not read threads
    None,            \* a null pointer, and an unlocked mutex
    StallingPeers,   \* connections whose sender may stop reading its socket
    Activity         \* what senders and user do in this instance

ASSUME ThreadsDistinct ==
    /\ Listener # Main /\ Listener # Decoder /\ Main # Decoder
    /\ None \notin {Listener, Main, Decoder}
    /\ {Listener, Main, Decoder, None} \cap Conn = {}
ASSUME AddrNotNull == None \notin Addr
ASSUME StallingPeersKnown == StallingPeers \subseteq Conn
ASSUME ActivityKnown ==
    Activity \subseteq {"input", "resize", "control", "stats", "ping", "dropKf",
                        "decoderKf", "quit"}

VARIABLES
    phase,         \* life of the Session object of each connection
    addr,          \* where it is (or was) allocated
    closed,        \* Session::closed_
    wire,          \* what the sender has received from us, up to hello order
    stalled,       \* connections whose sender is not reading: send() blocks
    sendMutex,     \* Session::sendMutex_: the thread inside ::send
    sendTo,        \* the Session a thread is running SendControl on
    joining,       \* the Session a thread is running ~Session of
    sessionMutex,  \* App::sessionMutex: its holder
    session,       \* App::session
    endedSession,  \* App::endedSession, a raw pointer: an address
    lpc, lNew, lReplaced,   \* Listener: OnAccept's s and replaced
    mpc, mRef,     \* Main: the local shared_ptr (toDestroy, active or s)
    dpc,           \* Decoder
    rpc, rRef      \* read threads: rRef is the sp locked from the weak_ptr

objVars    == <<phase, addr, closed>>
sendVars   == <<wire, stalled, sendMutex, sendTo>>
appVars    == <<sessionMutex, session, endedSession>>
listenVars == <<lpc, lNew, lReplaced>>
mainVars   == <<mpc, mRef>>
readVars   == <<rpc, rRef>>
vars == <<objVars, sendVars, joining, appVars, listenVars, mainVars, dpc, readVars>>

Thread == Conn \cup {Listener, Main, Decoder}

\* A local of OnAccept exists only once the object has been made.
ListenerHolds(c) == (lNew = c /\ lpc \notin {"snapshot", "close", "make"})
                    \/ lReplaced = c

\* Some shared_ptr points to c: its reference count is not zero.
Held(c) == session = c \/ ListenerHolds(c) \/ mRef = c \/ rRef[c]

\* A destructor that joins its own thread throws out of ~Session.
Terminated == \E c \in Conn : joining[c] = c

\* The thread is neither inside SendControl nor inside ~Session.
Free(t) == sendTo[t] = None /\ joining[t] = None

\* TcpListener::running_, reset by Stop in TearDown.
Listening == mpc \notin {"joinListener", "tornDown", "exited"}

\* App::decodeRunning, reset in TearDown.
DecodeRunning == mpc \notin {"joinDecode", "stopListener", "joinListener",
                             "tornDown", "exited"}

-----------------------------------------------------------------------------
(* Session: construction, destruction, Close and SendControl.              *)

FreeAddr == {a \in Addr : \A c \in Conn :
                phase[c] \in {"live", "destroying"} => addr[c] # a}

(* Thread t has let go of a reference to c (the other primed variables say *)
(* which).  If it was the last, t runs ~Session: Close, then join.         *)
LetGo(t, c) ==
    IF c # None /\ phase[c] = "live" /\ ~Held(c)'
    THEN /\ phase' = [phase EXCEPT ![c] = "destroying"]
         /\ closed' = [closed EXCEPT ![c] = TRUE]
         /\ joining' = [joining EXCEPT ![t] = c]
         /\ UNCHANGED addr
    ELSE UNCHANGED <<objVars, joining>>

\* The quantifier evaluates ref before the step: Held(c)' primes only Held.
Release(t, ref) == \E c \in {ref} : LetGo(t, c)

\* The rest of ~Session: the read thread has ended, closesocket, free.
JoinDone(t) ==
    LET c == joining[t] IN
    /\ c # None
    /\ rpc[c] \in {"none", "done"}
    /\ joining' = [joining EXCEPT ![t] = None]
    /\ phase' = [phase EXCEPT ![c] = "dead"]
    /\ UNCHANGED <<addr, closed, sendVars, appVars, listenVars, mainVars, dpc, readVars>>

\* Mutant: the resize path builds a message of another type.
MessageUnclassified(t) == IF t = Listener \/ (t = Main /\ mpc = "drop") THEN "hello" ELSE "closing"

\* What the thread is sending: the listener and the resize path send hello.
Message(t) == IF t = Listener \/ (t = Main /\ mpc = "drop") THEN "hello" ELSE "other"

\* The receiver-to-sender stream, as far as the place of hello is concerned.
Deliver(w, m) == CASE w = "silent" -> m
                   [] w = "other" /\ m = "hello" -> "lateHello"
                   [] OTHER -> w

\* SendControl: take sendMutex_, then look at closed_; ::send is entered, and
\* the sender may by then have stopped reading.
SendBegin(t) ==
    LET c == sendTo[t] IN
    /\ c # None
    /\ sendMutex[c] = None
    /\ IF closed[c] THEN /\ sendTo' = [sendTo EXCEPT ![t] = None]
                         /\ UNCHANGED <<sendMutex, stalled>>
                    ELSE /\ sendMutex' = [sendMutex EXCEPT ![c] = t]
                         /\ stalled' \in {stalled, stalled \cup ({c} \cap StallingPeers)}
                         /\ UNCHANGED sendTo
    /\ UNCHANGED <<objVars, wire, joining, appVars, listenVars,
                   mainVars, dpc, readVars>>

\* ::send returns: blocked while the peer does not read, unless shut down.
SendOk(t) ==
    LET c == sendTo[t] IN
    /\ c # None
    /\ sendMutex[c] = t
    /\ c \notin stalled /\ ~closed[c]
    /\ wire' = [wire EXCEPT ![c] = Deliver(@, Message(t))]
    /\ sendMutex' = [sendMutex EXCEPT ![c] = None]
    /\ sendTo' = [sendTo EXCEPT ![t] = None]
    /\ UNCHANGED <<objVars, stalled, joining, appVars, listenVars, mainVars,
                   dpc, readVars>>

\* Mutant: a failed send() does not Close().
SendFailKeepsOpen(t) ==
    LET c == sendTo[t] IN
    /\ c # None
    /\ sendMutex[c] = t
    /\ c \notin stalled \/ closed[c]
    /\ closed' = closed
    /\ sendMutex' = [sendMutex EXCEPT ![c] = None]
    /\ sendTo' = [sendTo EXCEPT ![t] = None]
    /\ UNCHANGED <<phase, addr, wire, stalled, joining, appVars, listenVars,
                   mainVars, dpc, readVars>>

\* Mutant: a failed ::send is tried again for ever.
SendFailRetries(t) ==
    LET c == sendTo[t] IN
    /\ c # None
    /\ sendMutex[c] = t
    /\ c \notin stalled \/ closed[c]
    /\ UNCHANGED vars

\* ::send fails (shutdown, reset by peer): Close() and report false.
SendFail(t) ==
    LET c == sendTo[t] IN
    /\ c # None
    /\ sendMutex[c] = t
    /\ c \notin stalled \/ closed[c]
    /\ closed' = [closed EXCEPT ![c] = TRUE]
    /\ sendMutex' = [sendMutex EXCEPT ![c] = None]
    /\ sendTo' = [sendTo EXCEPT ![t] = None]
    /\ UNCHANGED <<phase, addr, wire, stalled, joining, appVars, listenVars,
                   mainVars, dpc, readVars>>

\* The sender drains its receive buffer again.
PeerResume(c) ==
    /\ c \in stalled
    /\ stalled' = stalled \ {c}
    /\ UNCHANGED <<objVars, wire, sendMutex, sendTo, joining, appVars,
                   listenVars, mainVars, dpc, readVars>>

-----------------------------------------------------------------------------
(* Listener thread: the accept loop and App::OnAccept.                     *)

Accept(c) ==
    /\ lpc = "accept" /\ Free(Listener) /\ Listening
    /\ phase[c] = "unborn"
    /\ phase' = [phase EXCEPT ![c] = "accepted"]
    /\ lNew' = c
    /\ lpc' = "snapshot"
    /\ UNCHANGED <<addr, closed, sendVars, joining, appVars, lReplaced,
                   mainVars, dpc, readVars>>

\* Mutant: OnAccept keeps no copy of the replaced session.
SnapshotNothing ==
    /\ lpc = "snapshot"
    /\ sessionMutex = None
    /\ lReplaced' = None
    /\ lpc' = "close"
    /\ UNCHANGED <<objVars, sendVars, joining, appVars, lNew, mainVars, dpc, readVars>>

Snapshot ==
    /\ lpc = "snapshot"
    /\ sessionMutex = None
    /\ lReplaced' = session
    /\ lpc' = "close"
    /\ UNCHANGED <<objVars, sendVars, joining, appVars, lNew, mainVars, dpc, readVars>>

\* Mutant: replaced->Close() is missing.
CloseReplacedSkipped ==
    /\ lpc = "close"
    /\ closed' = [c \in Conn |-> closed[c]]
    /\ lpc' = "make"
    /\ UNCHANGED <<phase, addr, sendVars, joining, appVars, lNew, lReplaced,
                   mainVars, dpc, readVars>>

CloseReplaced ==
    /\ lpc = "close"
    /\ closed' = [c \in Conn |-> closed[c] \/ c = lReplaced]
    /\ lpc' = "make"
    /\ UNCHANGED <<phase, addr, sendVars, joining, appVars, lNew, lReplaced,
                   mainVars, dpc, readVars>>

\* make_shared<Session>.
Make(a) ==
    /\ lpc = "make"
    /\ a \in FreeAddr
    /\ addr' = [addr EXCEPT ![lNew] = a]
    /\ phase' = [phase EXCEPT ![lNew] = "live"]
    /\ lpc' = "install"
    /\ UNCHANGED <<closed, sendVars, joining, appVars, lNew, lReplaced,
                   mainVars, dpc, readVars>>

\* `session = s` lets the old session go with sessionMutex held.
Install ==
    /\ lpc = "install"
    /\ sessionMutex = None
    /\ sessionMutex' = Listener
    /\ session' = lNew
    /\ lpc' = "unlock"
    /\ UNCHANGED <<sendVars, endedSession, lNew, lReplaced, mainVars, dpc, readVars>>
    /\ Release(Listener, session)

UnlockInstalled ==
    /\ lpc = "unlock" /\ Free(Listener)
    /\ sessionMutex' = None
    /\ lpc' = "start"
    /\ UNCHANGED <<objVars, sendVars, joining, session, endedSession, lNew,
                   lReplaced, mainVars, dpc, readVars>>

\* Session::Start: the read thread begins.
Start ==
    /\ lpc = "start"
    /\ rpc' = [rpc EXCEPT ![lNew] = "recv"]
    /\ lpc' = "hello"
    /\ UNCHANGED <<objVars, sendVars, joining, appVars, lNew, lReplaced,
                   mainVars, dpc, rRef>>

SendFirstHello ==
    /\ lpc = "hello"
    /\ sendTo' = [sendTo EXCEPT ![Listener] = lNew]
    /\ lpc' = "dropNew"
    /\ UNCHANGED <<objVars, wire, stalled, sendMutex, joining, appVars, lNew,
                   lReplaced, mainVars, dpc, readVars>>

\* OnAccept returns: s is let go first, then replaced.
DropNew ==
    /\ lpc = "dropNew" /\ Free(Listener)
    /\ lNew' = None
    /\ lpc' = "dropReplaced"
    /\ UNCHANGED <<sendVars, appVars, lReplaced, mainVars, dpc, readVars>>
    /\ Release(Listener, lNew)

\* Mutant: OnAccept's `replaced` outlives the call.
DropReplacedKeeps ==
    /\ lpc = "dropReplaced" /\ Free(Listener)
    /\ lpc' = "accept"
    /\ UNCHANGED <<objVars, sendVars, joining, appVars, lNew, lReplaced,
                   mainVars, dpc, readVars>>

DropReplaced ==
    /\ lpc = "dropReplaced" /\ Free(Listener)
    /\ lReplaced' = None
    /\ lpc' = "accept"
    /\ UNCHANGED <<sendVars, appVars, lNew, mainVars, dpc, readVars>>
    /\ Release(Listener, lReplaced)

\* accept() fails once the listening socket is closed, and running_ is false.
ListenerExit ==
    /\ lpc = "accept" /\ Free(Listener)
    /\ ~Listening
    /\ lpc' = "exited"
    /\ UNCHANGED <<objVars, sendVars, joining, appVars, lNew, lReplaced,
                   mainVars, dpc, readVars>>

-----------------------------------------------------------------------------
(* The read thread of connection c: Session::ReadLoop and the callbacks    *)
(* OnAccept installed.                                                     *)

Reading(c) == rpc[c] = "recv" /\ Free(c)

\* onControl: lock the weak_ptr; it has expired once ~Session runs.
OnControl(c) ==
    /\ "control" \in Activity
    /\ Reading(c)
    /\ phase[c] = "live"
    /\ rRef' = [rRef EXCEPT ![c] = TRUE]
    /\ rpc' = [rpc EXCEPT ![c] = "control"]
    /\ UNCHANGED <<objVars, sendVars, joining, appVars, listenVars, mainVars, dpc>>

\* HandleControl: every 5 s the stats are sent on the session itself.
HandleControlStats(c) ==
    /\ "stats" \in Activity
    /\ rpc[c] = "control"
    /\ sendTo' = [sendTo EXCEPT ![c] = c]
    /\ rpc' = [rpc EXCEPT ![c] = "handled"]
    /\ UNCHANGED <<objVars, wire, stalled, sendMutex, joining, appVars,
                   listenVars, mainVars, dpc, rRef>>

OnControlReturn(c) ==
    /\ rpc[c] \in {"control", "handled"} /\ Free(c)
    /\ rRef' = [rRef EXCEPT ![c] = FALSE]
    /\ rpc' = [rpc EXCEPT ![c] = "recv"]
    /\ UNCHANGED <<sendVars, appVars, listenVars, mainVars, dpc>>
    /\ Release(c, c)

SendPing(c) ==
    /\ "ping" \in Activity
    /\ Reading(c)
    /\ sendTo' = [sendTo EXCEPT ![c] = c]
    /\ UNCHANGED <<objVars, wire, stalled, sendMutex, joining, appVars,
                   listenVars, mainVars, dpc, readVars>>

\* onVideo dropped a frame: MaybeRequestKeyframe asks the current session,
\* whichever it is, with sessionMutex held.
RequestKeyframe(c) ==
    /\ "dropKf" \in Activity
    /\ Reading(c)
    /\ sessionMutex = None /\ session # None
    /\ sessionMutex' = c
    /\ sendTo' = [sendTo EXCEPT ![c] = session]
    /\ rpc' = [rpc EXCEPT ![c] = "kfUnlock"]
    /\ UNCHANGED <<objVars, wire, stalled, sendMutex, joining, session,
                   endedSession, listenVars, mainVars, dpc, rRef>>

KeyframeRequested(c) ==
    /\ rpc[c] = "kfUnlock" /\ Free(c)
    /\ sessionMutex' = None
    /\ rpc' = [rpc EXCEPT ![c] = "recv"]
    /\ UNCHANGED <<objVars, sendVars, joining, session, endedSession,
                   listenVars, mainVars, dpc, rRef>>

\* The loop ends: closed_ is set; or EOF, liveness timeout, corrupt frame,
\* recv error, none of which closes the socket.
SeeClosed(c) ==
    /\ Reading(c) /\ closed[c]
    /\ rpc' = [rpc EXCEPT ![c] = "ended"]
    /\ UNCHANGED <<objVars, sendVars, joining, appVars, listenVars, mainVars,
                   dpc, rRef>>

LoseConnection(c) ==
    /\ Reading(c) /\ ~closed[c]
    /\ rpc' = [rpc EXCEPT ![c] = "ended"]
    /\ UNCHANGED <<objVars, sendVars, joining, appVars, listenVars, mainVars,
                   dpc, rRef>>

\* Mutant: onClosed records the current session, whosever loop ended.
OnClosedRecordsCurrent(c) ==
    /\ rpc[c] = "ended"
    /\ sessionMutex = None
    /\ sessionMutex' = c
    /\ rRef' = [rRef EXCEPT ![c] = phase[c] = "live"]
    /\ endedSession' = IF session # None THEN addr[session]
                       ELSE endedSession
    /\ rpc' = [rpc EXCEPT ![c] = "closing"]
    /\ UNCHANGED <<objVars, sendVars, joining, session, listenVars, mainVars, dpc>>

\* Mutant: onClosed never tells the reaper.
OnClosedRecordsNothing(c) ==
    /\ rpc[c] = "ended"
    /\ sessionMutex = None
    /\ sessionMutex' = c
    /\ rRef' = [rRef EXCEPT ![c] = phase[c] = "live"]
    /\ UNCHANGED endedSession
    /\ rpc' = [rpc EXCEPT ![c] = "closing"]
    /\ UNCHANGED <<objVars, sendVars, joining, session, listenVars, mainVars, dpc>>

\* onClosed: under sessionMutex, note the session for the reaper if current.
OnClosed(c) ==
    /\ rpc[c] = "ended"
    /\ sessionMutex = None
    /\ sessionMutex' = c
    /\ rRef' = [rRef EXCEPT ![c] = phase[c] = "live"]
    /\ endedSession' = IF phase[c] = "live" /\ session = c THEN addr[c]
                       ELSE endedSession
    /\ rpc' = [rpc EXCEPT ![c] = "closing"]
    /\ UNCHANGED <<objVars, sendVars, joining, session, listenVars, mainVars, dpc>>

\* sp goes out of scope before the lock does.
OnClosedDrop(c) ==
    /\ rpc[c] = "closing"
    /\ rRef' = [rRef EXCEPT ![c] = FALSE]
    /\ rpc' = [rpc EXCEPT ![c] = "unlock"]
    /\ UNCHANGED <<sendVars, appVars, listenVars, mainVars, dpc>>
    /\ Release(c, c)

OnClosedReturn(c) ==
    /\ rpc[c] = "unlock" /\ Free(c)
    /\ sessionMutex' = None
    /\ rpc' = [rpc EXCEPT ![c] = "done"]
    /\ UNCHANGED <<objVars, sendVars, joining, session, endedSession,
                   listenVars, mainVars, dpc, rRef>>

-----------------------------------------------------------------------------
(* Decode thread: H264Decoder's onRequestKeyframe callback.                *)

DecoderRequestKeyframe ==
    /\ "decoderKf" \in Activity
    /\ dpc = "run"
    /\ sessionMutex = None /\ session # None
    /\ sessionMutex' = Decoder
    /\ sendTo' = [sendTo EXCEPT ![Decoder] = session]
    /\ dpc' = "unlock"
    /\ UNCHANGED <<objVars, wire, stalled, sendMutex, joining, session,
                   endedSession, listenVars, mainVars, readVars>>

DecoderUnlock ==
    /\ dpc = "unlock" /\ Free(Decoder)
    /\ sessionMutex' = None
    /\ dpc' = "run"
    /\ UNCHANGED <<objVars, sendVars, joining, session, endedSession,
                   listenVars, mainVars, readVars>>

DecoderExit ==
    /\ dpc = "run" /\ ~DecodeRunning
    /\ dpc' = "exited"
    /\ UNCHANGED <<objVars, sendVars, joining, appVars, listenVars, mainVars, readVars>>

-----------------------------------------------------------------------------
(* Main thread: the message loop of App::Run, then App::TearDown.          *)

\* SendTouch and WM_MOUSEWHEEL: the event is sent with sessionMutex held.
SendInput ==
    /\ "input" \in Activity
    /\ mpc = "loop"
    /\ sessionMutex = None /\ session # None
    /\ sessionMutex' = Main
    /\ sendTo' = [sendTo EXCEPT ![Main] = session]
    /\ mpc' = "unlock"
    /\ UNCHANGED <<objVars, wire, stalled, sendMutex, joining, session,
                   endedSession, listenVars, mRef, dpc, readVars>>

InputSent ==
    /\ mpc = "unlock" /\ Free(Main)
    /\ sessionMutex' = None
    /\ mpc' = "loop"
    /\ UNCHANGED <<objVars, sendVars, joining, session, endedSession,
                   listenVars, mRef, dpc, readVars>>

ReapEndedSession ==
    /\ mpc = "loop"
    /\ sessionMutex = None
    /\ session # None /\ endedSession = addr[session]
    /\ mRef' = session
    /\ session' = None
    /\ endedSession' = None
    /\ mpc' = "drop"
    /\ UNCHANGED <<objVars, sendVars, joining, sessionMutex, listenVars, dpc, readVars>>

\* Mutant: session.get() is kept instead of a shared_ptr copy.
ResizeHelloRawPointer ==
    /\ "resize" \in Activity
    /\ mpc = "loop"
    /\ sessionMutex = None /\ session # None
    /\ mRef' = None
    /\ sendTo' = [sendTo EXCEPT ![Main] = session]
    /\ mpc' = "drop"
    /\ UNCHANGED <<objVars, wire, stalled, sendMutex, joining, appVars,
                   listenVars, dpc, readVars>>

MaybeSendResizeHello ==
    /\ "resize" \in Activity
    /\ mpc = "loop"
    /\ sessionMutex = None /\ session # None
    /\ mRef' = session
    /\ sendTo' = [sendTo EXCEPT ![Main] = session]
    /\ mpc' = "drop"
    /\ UNCHANGED <<objVars, wire, stalled, sendMutex, joining, appVars,
                   listenVars, dpc, readVars>>

\* The end of ReapEndedSession and MaybeSendResizeHello: their shared_ptr.
DropLocal ==
    /\ mpc = "drop" /\ Free(Main)
    /\ mRef' = None
    /\ mpc' = "dropped"
    /\ UNCHANGED <<sendVars, appVars, listenVars, dpc, readVars>>
    /\ Release(Main, mRef)

BackToLoop ==
    /\ mpc = "dropped" /\ Free(Main)
    /\ mpc' = "loop"
    /\ UNCHANGED <<objVars, sendVars, joining, appVars, listenVars, mRef, dpc, readVars>>

\* WM_CLOSE: SendClosing with sessionMutex held, then leave the loop.
CloseWindow ==
    /\ "quit" \in Activity
    /\ mpc = "loop"
    /\ sessionMutex = None
    /\ sessionMutex' = Main
    /\ sendTo' = [sendTo EXCEPT ![Main] = session]
    /\ mpc' = "quit"
    /\ UNCHANGED <<objVars, wire, stalled, sendMutex, joining, session,
                   endedSession, listenVars, mRef, dpc, readVars>>

ClosingSent ==
    /\ mpc = "quit" /\ Free(Main)
    /\ sessionMutex' = None
    /\ mpc' = "take"
    /\ UNCHANGED <<objVars, sendVars, joining, session, endedSession,
                   listenVars, mRef, dpc, readVars>>

TakeSession ==
    /\ mpc = "take"
    /\ sessionMutex = None
    /\ mRef' = session
    /\ session' = None
    /\ mpc' = "close"
    /\ UNCHANGED <<objVars, sendVars, joining, sessionMutex, endedSession,
                   listenVars, dpc, readVars>>

CloseTaken ==
    /\ mpc = "close"
    /\ closed' = [c \in Conn |-> closed[c] \/ c = mRef]
    /\ mpc' = "reset"
    /\ UNCHANGED <<phase, addr, sendVars, joining, appVars, listenVars, mRef,
                   dpc, readVars>>

\* Mutant: TearDown keeps its shared_ptr.
ResetTakenLeaks ==
    /\ mpc = "reset"
    /\ mRef' = mRef
    /\ mpc' = "stopDecode"
    /\ UNCHANGED <<sendVars, appVars, listenVars, dpc, readVars>>
    /\ Release(Main, mRef)

ResetTaken ==
    /\ mpc = "reset"
    /\ mRef' = None
    /\ mpc' = "stopDecode"
    /\ UNCHANGED <<sendVars, appVars, listenVars, dpc, readVars>>
    /\ Release(Main, mRef)

\* decodeRunning = false, then join the decode thread; running_ = false and
\* closesocket, then join the listener thread.
TearDownStep(from, to, ready) ==
    /\ mpc = from /\ Free(Main) /\ ready
    /\ mpc' = to
    /\ UNCHANGED <<objVars, sendVars, joining, appVars, listenVars, mRef, dpc, readVars>>

\* Mutant: the decode thread is joined before decodeRunning is reset.
TearDownJoinsFirst ==
    \/ TearDownStep("stopDecode", "joinDecode", dpc = "exited")
    \/ TearDownStep("joinDecode", "stopListener", TRUE)
    \/ TearDownStep("stopListener", "joinListener", TRUE)
    \/ TearDownStep("joinListener", "tornDown", lpc = "exited")

TearDownRest ==
    \/ TearDownStep("stopDecode", "joinDecode", TRUE)
    \/ TearDownStep("joinDecode", "stopListener", dpc = "exited")
    \/ TearDownStep("stopListener", "joinListener", TRUE)
    \/ TearDownStep("joinListener", "tornDown", lpc = "exited")

\* ~App at the end of main(): the member `session` is destroyed.
DestroyApp ==
    /\ mpc = "tornDown"
    /\ session' = None
    /\ mpc' = "exited"
    /\ UNCHANGED <<sendVars, sessionMutex, endedSession, listenVars, mRef, dpc, readVars>>
    /\ Release(Main, session)

-----------------------------------------------------------------------------
Init ==
    /\ phase = [c \in Conn |-> "unborn"]
    /\ addr = [c \in Conn |-> None]
    /\ closed = [c \in Conn |-> FALSE]
    /\ wire = [c \in Conn |-> "silent"]
    /\ stalled = {}
    /\ sendMutex = [c \in Conn |-> None]
    /\ sendTo = [t \in Thread |-> None]
    /\ joining = [t \in Thread |-> None]
    /\ sessionMutex = None /\ session = None /\ endedSession = None
    /\ lpc = "accept" /\ lNew = None /\ lReplaced = None
    /\ mpc = "loop" /\ mRef = None
    /\ dpc = "run"
    /\ rpc = [c \in Conn |-> "none"]
    /\ rRef = [c \in Conn |-> FALSE]

\* Once a thread is inside OnAccept it goes on without being asked.
OnAcceptStep == Snapshot \/ CloseReplaced \/ (\E a \in Addr : Make(a)) \/ Install
                \/ UnlockInstalled \/ Start \/ SendFirstHello \/ DropNew \/ DropReplaced
ListenerStep == (\E c \in Conn : Accept(c)) \/ OnAcceptStep \/ ListenerExit

\* The way out of the read loop once closed_ is seen or the loop has ended.
Ending(c) == SeeClosed(c) \/ OnClosed(c) \/ OnClosedDrop(c) \/ OnClosedReturn(c)
CallbackReturn(c) == OnControlReturn(c) \/ KeyframeRequested(c)
ReadStep(c) == OnControl(c) \/ HandleControlStats(c) \/ SendPing(c)
               \/ RequestKeyframe(c) \/ LoseConnection(c) \/ CallbackReturn(c) \/ Ending(c)

TearDownSteps == ClosingSent \/ TakeSession \/ CloseTaken \/ ResetTaken
                 \/ TearDownRest \/ DestroyApp
MainReturn == InputSent \/ DropLocal \/ BackToLoop
MainStep == SendInput \/ ReapEndedSession \/ MaybeSendResizeHello \/ CloseWindow
            \/ MainReturn \/ TearDownSteps

DecoderStep == DecoderRequestKeyframe \/ DecoderUnlock \/ DecoderExit

SocketStep(t) == SendBegin(t) \/ SendOk(t) \/ SendFail(t) \/ JoinDone(t)

PeerStep == \E c \in Conn : PeerResume(c)

\* std::terminate, or main() has returned: nothing runs any more.
Halted == Terminated \/ (mpc = "exited" /\ joining[Main] = None)
Stop == Halted /\ UNCHANGED vars

Next ==
    \/ /\ ~Halted
       /\ \/ ListenerStep \/ MainStep \/ DecoderStep
          \/ \E c \in Conn : ReadStep(c)
          \/ \E t \in Thread : SocketStep(t)
          \/ PeerStep
    \/ Stop

Spec == Init /\ [][Next]_vars

\* Steps a run takes finitely often, however much is sent: each is on the way
\* of one connection in, of one connection out, or of the program out.
Once == \/ OnAcceptStep \/ ListenerExit \/ SocketStep(Listener)
        \/ ReapEndedSession \/ TearDownSteps \/ DecoderExit
        \/ \E c \in Conn : Ending(c)

(***************************************************************************)
(* Fairness: the operating system schedules every thread that can go on,   *)
(* std::mutex lets a waiter in sooner or later although others keep taking *)
(* it, and Run reaches ReapEndedSession in every round of the message      *)
(* loop.  Strong fairness of the steps that lock is stated of Once as a    *)
(* whole: since it can only be taken finitely often, it amounts to strong  *)
(* fairness of each.  Nothing obliges a sender to connect, to send, to     *)
(* disconnect or to resume reading, nor the user to act.                   *)
(***************************************************************************)
Fairness ==
    /\ SF_vars(~Halted /\ Once)
    /\ \A c \in Conn : WF_vars(~Halted /\ (CallbackReturn(c) \/ SocketStep(c)))
    /\ WF_vars(~Halted /\ (MainReturn \/ SocketStep(Main)))
    /\ WF_vars(~Halted /\ (DecoderUnlock \/ SocketStep(Decoder)))

FairSpec == Spec /\ Fairness

-----------------------------------------------------------------------------
(* Properties.                                                             *)

\* Where a read thread can be in ReadLoop and its callbacks.
ReadPlaces == {"none", "recv", "control", "handled", "kfUnlock", "ended",
               "closing", "unlock", "done"}

(* Every variable ranges over the values the code can give it. *)
TypeOK ==
    /\ phase \in [Conn -> {"unborn", "accepted", "live", "destroying", "dead"}]
    /\ addr \in [Conn -> Addr \cup {None}]
    /\ closed \in [Conn -> BOOLEAN]
    /\ wire \in [Conn -> {"silent", "hello", "other", "lateHello"}]
    /\ stalled \subseteq Conn
    /\ sendMutex \in [Conn -> Thread \cup {None}]
    /\ sendTo \in [Thread -> Conn \cup {None}]
    /\ joining \in [Thread -> Conn \cup {None}]
    /\ sessionMutex \in Thread \cup {None}
    /\ session \in Conn \cup {None}
    /\ endedSession \in Addr \cup {None}
    /\ lpc \in {"accept", "snapshot", "close", "make", "install", "unlock",
                "start", "hello", "dropNew", "dropReplaced", "exited"}
    /\ lNew \in Conn \cup {None} /\ lReplaced \in Conn \cup {None}
    /\ mpc \in {"loop", "unlock", "drop", "dropped", "quit", "take", "close",
                "reset", "stopDecode", "joinDecode", "stopListener",
                "joinListener", "tornDown", "exited"}
    /\ mRef \in Conn \cup {None}
    /\ dpc \in {"run", "unlock", "exited"}
    /\ rpc \in [Conn -> ReadPlaces]
    /\ rRef \in [Conn -> BOOLEAN]

Alive(c) == phase[c] \in {"live", "destroying"}

(* The raw and unlocked uses of a Session never meet a destroyed one: while *)
(* a thread is in SendControl, or the read thread runs, the object exists   *)
(* (main.cpp:366-379, 501-504 use session.get() with only the mutex held).  *)
NoUseAfterFree ==
    /\ \A t \in Thread : sendTo[t] # None => Alive(sendTo[t])
    /\ \A c \in Conn : rpc[c] \notin {"none", "done"} => Alive(c)

(* ~Session joins a read thread whose onClosed locks sessionMutex, so the   *)
(* listener, main and decode threads never run it with that mutex held      *)
(* (comment at main.cpp:850-852; the `replaced` copy in OnAccept and        *)
(* toDestroy in ReapEndedSession exist for this).                           *)
NoJoinUnderSessionMutex ==
    \A t \in {Listener, Main, Decoder} : joining[t] # None => sessionMutex # t

(* Why the two properties above hold: an inductive invariant.               *)

\* References are exactly to live objects, and a live object has one.
RefsAreLive == \A c \in Conn : Held(c) <=> phase[c] = "live"

\* Every Session being destroyed has one thread in ~Session, and the only
\* read thread that could be is its own.
OneDestroyer ==
    /\ \A c \in Conn : phase[c] = "destroying" => \E t \in Thread : joining[t] = c
    /\ \A t \in Thread : joining[t] # None => phase[joining[t]] = "destroying"
    /\ \A t, u \in Thread : joining[t] = joining[u] /\ joining[t] # None => t = u
    /\ \A r \in Conn : joining[r] \in {None, r}
    /\ joining[Decoder] = None

\* Where the listener is in OnAccept says what its locals are, and that the
\* session it is about to overwrite is the one it keeps in `replaced`.
ListenerPlace ==
    /\ lNew = None <=> lpc \in {"accept", "dropReplaced", "exited"}
    /\ lpc \in {"accept", "snapshot", "exited"} => lReplaced = None
    /\ lpc \in {"close", "make", "install"} => session \in {lReplaced, None}
    /\ lpc \in {"snapshot", "close", "make"} => phase[lNew] = "accepted"
    /\ lpc \in {"snapshot", "close", "make", "install", "unlock", "start"} => rpc[lNew] = "none"
    /\ joining[Listener] # None => lpc \in {"dropReplaced", "accept"}

MainPlace ==
    /\ mRef # None => mpc \in {"drop", "close", "reset"}
    /\ joining[Main] # None => mpc \in {"dropped", "stopDecode", "exited"}
    /\ ~DecodeRunning /\ mpc # "joinDecode" => dpc = "exited"
    /\ mpc \in {"tornDown", "exited"} => lpc = "exited"

\* A read thread runs only while its Session exists, and keeps it alive only
\* inside onControl and onClosed.
ReaderPlace == \A c \in Conn :
    /\ rpc[c] \notin {"none", "done"} => Alive(c)
    /\ rpc[c] = "done" => phase[c] \in {"live", "destroying", "dead"}
    /\ rRef[c] => rpc[c] \in {"control", "handled", "closing"}

\* Who holds sessionMutex is in a critical section.
MutexPlace ==
    /\ sessionMutex = Listener <=> lpc = "unlock"
    /\ sessionMutex = Main <=> mpc \in {"unlock", "quit"}
    /\ sessionMutex = Decoder <=> dpc = "unlock"
    /\ \A c \in Conn : sessionMutex = c <=> rpc[c] \in {"kfUnlock", "closing", "unlock"}

\* What a thread sends on: its own reference, the session it has locked, or
\* the Session whose read thread it is.
SendPlace ==
    /\ sendTo[Listener] # None => lpc = "dropNew" /\ sendTo[Listener] = lNew
    /\ sendTo[Main] # None => \/ mpc \in {"unlock", "quit"} /\ sendTo[Main] = session
                              \/ mpc = "drop" /\ sendTo[Main] = mRef
    /\ sendTo[Decoder] # None => dpc = "unlock" /\ sendTo[Decoder] = session
    /\ \A r \in Conn : sendTo[r] # None =>
          \/ rpc[r] \in {"recv", "handled", "kfUnlock"} /\ sendTo[r] = r
          \/ rpc[r] = "kfUnlock" /\ sendTo[r] = session

Ownership == RefsAreLive /\ OneDestroyer /\ ListenerPlace /\ MainPlace
             /\ ReaderPlace /\ MutexPlace /\ SendPlace

\* The read loop of c has reported its end; c lies where a dead Session lay.
Ended(c) == rpc[c] \in {"closing", "unlock", "done"}
ReusesAddress(c) == \E d \in Conn : d # c /\ phase[d] = "dead" /\ addr[d] = addr[c]

(* New connection wins: a Session is closed before its successor is         *)
(* published, so apart from the one TearDown is about to close no two       *)
(* sessions receive at once (main.cpp:540-550), unless an address has been  *)
(* reused and the reaper has taken a session that is still running.         *)
Receiving(c) == rpc[c] \in {"recv", "control", "handled", "kfUnlock"} /\ ~closed[c]
AddressReused == \E e \in Conn : ReusesAddress(e)
OneReceiver ==
    \A c, d \in Conn : Receiving(c) /\ Receiving(d) /\ c # d =>
        \/ mpc = "close" /\ mRef \in {c, d}
        \/ AddressReused

(* No accepted connection is left without its hello: when OnAccept is done  *)
(* with it, hello went out or the Session is closed (main.cpp:602-606,      *)
(* session.cpp:64-83).  That hello comes first is HelloFirst's matter.      *)
HelloSentOrClosed ==
    lpc = "dropNew" /\ Free(Listener) =>
        closed[lNew] \/ wire[lNew] \in {"hello", "lateHello"}

(* "hello MUST be the first message we send" (main.cpp:602).                *)
HelloFirst == \A c \in Conn : wire[c] \in {"silent", "hello"}

(* When main returns every Session is destroyed and its read thread has     *)
(* ended, except one whose read thread is inside a callback: no other       *)
(* reference keeps a session alive (main.cpp:552-556, TearDown, ~App).      *)
Gone(c) == phase[c] \in {"unborn", "dead"} /\ rpc[c] \in {"none", "done"}
ExitLeavesOnlyCallbacks ==
    mpc = "exited" /\ Free(Main) => \A c \in Conn : Gone(c) \/ rRef[c]

(* The reaper takes a session whose loop has not ended only if its address  *)
(* is that of an earlier, destroyed session (main.cpp:612-620).             *)
ReapNeedsEnd ==
    session # None /\ endedSession = addr[session] =>
        Ended(session) \/ ReusesAddress(session)

(* "The session whose read loop just ended" (main.cpp:151-154): what the    *)
(* reaper would take is a session whose read loop has ended.                *)
ReapOnlyEnded ==
    session # None /\ endedSession = addr[session] => Ended(session)

(* "~Session (which joins the read thread) never runs on the read thread    *)
(* itself" (main.cpp:152-153).                                              *)
NoSelfJoin == \A c \in Conn : joining[c] # c

(* Senders that stop reading resume: no send() blocks for ever. *)
PeersKeepReading == []<>(stalled = {})

(* Every session whose read loop has ended is destroyed in the end, by the  *)
(* reaper, by its successor's OnAccept or by TearDown: endedSession loses   *)
(* none (main.cpp:584-594, 612-622).                                        *)
EndedIsDestroyed == PeersKeepReading =>
    \A c \in Conn : (rpc[c] = "done") ~> (phase[c] = "dead" \/ Terminated)

(* An accepted connection becomes the session if senders keep reading       *)
(* (main.cpp:539-600).                                                      *)
NewConnectionWins == \A c \in Conn :
    (phase[c] = "accepted") ~> (session = c \/ Terminated)
NewConnectionWinsIfRead == PeersKeepReading => NewConnectionWins

(* Closing the window ends the program, although SendClosing, the input     *)
(* path, both keyframe requests and TearDown wait for the one sessionMutex, *)
(* which is held across ::send: it is the sender that must go on reading    *)
(* (main.cpp:270-278, 366-379, 501-504, 846-875).                           *)
ShutdownCompletes == PeersKeepReading =>
    ((mpc = "quit") ~> (mpc = "exited" \/ Terminated))
=============================================================================
