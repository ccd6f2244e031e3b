---------------------------- MODULE AppLifecycle ----------------------------
(***************************************************************************)
(* Set-up and tear-down of the receiver (src/app/main.cpp), and the        *)
(* threads it starts and joins: the decode thread around the video queue,  *)
(* the listener, and the mDNS responder.  Read threads appear as far as    *)
(* they push samples.  Who owns a Session, who joins its read thread and   *)
(* who waits for sessionMutex is the matter of SessionLifecycle: here the  *)
(* steps that do (DropSession, StartSession, AcceptReturns, Submit) happen *)
(* at any time, or never.                                                  *)
(***************************************************************************)
EXTENDS VideoQueue, MdnsAdvertiser

CONSTANT MaxConn     \* bound: connections made in a run

ASSUME ConnAssumption == MaxConn \in Nat

\* Connections are numbered in the order in which they are accepted.
Conn == 1..MaxConn

VARIABLES
    main,            \* where the main thread is
    again,           \* main will call TearDown once more: Setup has called it
    decodeRunning,   \* App::decodeRunning
    decoding,        \* the decode thread: "none", "loop", "pop", "submit", "ended"
    listening,       \* TcpListener::running_, and its socket is open
    accepting,       \* the listener thread: "none", "accept", "onAccept", "started", "ended"
    reader           \* the read thread of each connection: "none", "reads", "ended"

mainVars     == <<main, again>>
decodeVars   == <<decodeRunning, decoding>>
listenerVars == <<listening, accepting>>
vars == <<queueVars, mdnsVars, mainVars, decodeVars, listenerVars, reader>>

Gone == {"none", "ended"}    \* a thread that is not there, or joinable at once

-----------------------------------------------------------------------------
(* App::Setup, on the main thread.                                         *)

MainGoes(from, to) == main = from /\ main' = to /\ UNCHANGED again

\* No D3D device or window: nothing has been started yet.
SetupFails ==
    /\ MainGoes("setup", "session")
    /\ UNCHANGED <<queueVars, mdnsVars, decodeVars, listenerVars, reader>>

StartDecodeThread ==
    /\ MainGoes("setup", "listen")
    /\ decodeRunning' = TRUE /\ decoding' = "loop"
    /\ UNCHANGED <<queueVars, mdnsVars, listenerVars, reader>>

\* The port is taken: Setup tears down, fails, and main tears down again.
ListenFails ==
    /\ main = "listen" /\ main' = "session" /\ again' = TRUE
    /\ UNCHANGED <<queueVars, mdnsVars, decodeVars, listenerVars, reader>>

Listen ==
    /\ MainGoes("listen", "advertise")
    /\ listening' = TRUE /\ accepting' = "accept"
    /\ UNCHANGED <<queueVars, mdnsVars, decodeVars, reader>>

\* mdns.Start returns in the end, or waits in its self test.
Advertise ==
    /\ \/ MainGoes("advertise", "run") /\ (StartFails \/ SelfTest)
       \/ main = "advertise" /\ UNCHANGED mainVars /\ StartOpens
    /\ UNCHANGED <<queueVars, decodeVars, listenerVars, reader>>

AdvertiseAnyway ==
    /\ MainGoes("advertise", "run") /\ SelfTestError
    /\ UNCHANGED <<queueVars, decodeVars, listenerVars, reader>>

\* WM_QUIT ends App::Run.
Quit ==
    /\ MainGoes("run", "session")
    /\ UNCHANGED <<queueVars, mdnsVars, decodeVars, listenerVars, reader>>

-----------------------------------------------------------------------------
(* App::TearDown.                                                          *)

\* Take the session, close it and drop the reference: waits for sessionMutex
\* and for a read thread, or has nothing to do.
DropSession ==
    /\ MainGoes("session", "queue")
    /\ UNCHANGED <<queueVars, mdnsVars, decodeVars, listenerVars, reader>>

ShutdownQueue ==
    /\ MainGoes("queue", "notify")
    /\ ShutdownFlag
    /\ UNCHANGED <<mdnsVars, decodeVars, listenerVars, reader>>

NotifyQueue ==
    /\ MainGoes("notify", "flag")
    /\ ShutdownNotify
    /\ UNCHANGED <<mdnsVars, decodeVars, listenerVars, reader>>

StopDecoding ==
    /\ MainGoes("flag", "joinDecoder")
    /\ decodeRunning' = FALSE
    /\ UNCHANGED <<queueVars, mdnsVars, decoding, listenerVars, reader>>

JoinDecodeThread ==
    /\ MainGoes("joinDecoder", "decoder") /\ decoding \in Gone
    /\ UNCHANGED <<queueVars, mdnsVars, decodeVars, listenerVars, reader>>

\* decoder->Shutdown.
ShutdownDecoder ==
    /\ MainGoes("decoder", "listener")
    /\ UNCHANGED <<queueVars, mdnsVars, decodeVars, listenerVars, reader>>

\* listener.Stop: the flag and closesocket, which ends accept; the join.
StopListener ==
    /\ MainGoes("listener", "joinListener")
    /\ listening' = FALSE
    /\ UNCHANGED <<queueVars, mdnsVars, decodeVars, accepting, reader>>

\* Mutant: the listener thread is not waited for.
JoinListenerNot ==
    /\ MainGoes("joinListener", "mdns")
    /\ UNCHANGED <<queueVars, mdnsVars, decodeVars, listenerVars, reader>>

JoinListener ==
    /\ MainGoes("joinListener", "mdns") /\ accepting \in Gone
    /\ UNCHANGED <<queueVars, mdnsVars, decodeVars, listenerVars, reader>>

StopMdns ==
    /\ MainGoes("mdns", "joinMdns")
    /\ StopFlag
    /\ UNCHANGED <<queueVars, decodeVars, listenerVars, reader>>

\* Then the window, the renderer and, when main has returned, App go.
JoinMdns ==
    /\ main = "joinMdns"
    /\ main' = IF again THEN "session" ELSE "exited"
    /\ again' = FALSE
    /\ StopClose
    /\ UNCHANGED <<queueVars, decodeVars, listenerVars, reader>>

-----------------------------------------------------------------------------
(* The listener thread.                                                    *)

\* accept returns a client, and running_ is still set.
Accept ==
    /\ accepting = "accept" /\ listening /\ \E c \in Conn : reader[c] = "none"
    /\ accepting' = "onAccept"
    /\ UNCHANGED <<queueVars, mdnsVars, mainVars, decodeVars, listening, reader>>

AcceptEnds ==
    /\ accepting = "accept" /\ ~listening
    /\ accepting' = "ended"
    /\ UNCHANGED <<queueVars, mdnsVars, mainVars, decodeVars, listening, reader>>

\* OnAccept has closed the old session, installed and started the new one.
StartSession(c) ==
    /\ accepting = "onAccept" /\ accepting' = "started"
    /\ reader[c] = "none" /\ \A d \in 1..c - 1 : reader[d] # "none"
    /\ reader' = [reader EXCEPT ![c] = "reads"]
    /\ UNCHANGED <<queueVars, mdnsVars, mainVars, decodeVars, listening>>

\* It has sent the hello and dropped the old session.
AcceptReturns ==
    /\ accepting = "started" /\ accepting' = "accept"
    /\ UNCHANGED <<queueVars, mdnsVars, mainVars, decodeVars, listening, reader>>

-----------------------------------------------------------------------------
(* The read threads.                                                       *)

OnVideo(c) ==
    /\ reader[c] = "reads" /\ main # "exited"
    /\ Push
    /\ UNCHANGED <<mdnsVars, mainVars, decodeVars, listenerVars, reader>>

ReadLoopEnds(c) ==
    /\ reader[c] = "reads"
    /\ reader' = [reader EXCEPT ![c] = "ended"]
    /\ UNCHANGED <<queueVars, mdnsVars, mainVars, decodeVars, listenerVars>>

-----------------------------------------------------------------------------
(* The decode thread.                                                      *)

CheckRunning ==
    /\ decoding = "loop"
    /\ decoding' = IF decodeRunning THEN "pop" ELSE "ended"
    /\ UNCHANGED <<queueVars, mdnsVars, mainVars, decodeRunning, listenerVars, reader>>

CallPopWait ==
    /\ decoding = "pop"
    /\ PopWait \/ SpuriousWakeup \/ TimeOut
    /\ UNCHANGED <<mdnsVars, mainVars, decodeVars, listenerVars, reader>>

\* A sample to submit, or nothing.
PopReturns ==
    /\ decoding = "pop"
    /\ decoding' = IF waiter = "got" THEN "submit" ELSE "loop"
    /\ Leave
    /\ UNCHANGED <<mdnsVars, mainVars, decodeRunning, listenerVars, reader>>

Submit ==
    /\ decoding = "submit" /\ decoding' = "loop"
    /\ UNCHANGED <<queueVars, mdnsVars, mainVars, decodeRunning, listenerVars, reader>>

DecodeStep == CheckRunning \/ PopReturns \/ Submit

-----------------------------------------------------------------------------
MdnsStep == /\ Responder \/ SelectFails \/ Network
            /\ UNCHANGED <<queueVars, mainVars, decodeVars, listenerVars, reader>>

Init ==
    /\ QueueInit /\ MdnsInit
    /\ main = "setup" /\ again = FALSE
    /\ decodeRunning = FALSE /\ decoding = "none"
    /\ listening = FALSE /\ accepting = "none"
    /\ reader = [c \in Conn |-> "none"]

SetUp    == SetupFails \/ StartDecodeThread \/ ListenFails \/ Listen \/ Advertise
TearDown == ShutdownQueue \/ NotifyQueue \/ StopDecoding
            \/ JoinDecodeThread \/ ShutdownDecoder \/ StopListener \/ JoinListener
            \/ StopMdns \/ JoinMdns

Next ==
    \/ SetUp \/ AdvertiseAnyway \/ Quit \/ DropSession \/ TearDown
    \/ Accept \/ AcceptEnds \/ AcceptReturns
    \/ \E c \in Conn : StartSession(c) \/ OnVideo(c) \/ ReadLoopEnds(c)
    \/ CallPopWait \/ DecodeStep
    \/ MdnsStep

Spec == Init /\ [][Next]_vars

(* The threads run, and the decoder returns from Submit: that is a premise, *)
(* for its request for a keyframe is a send (main.cpp:501-504).  What waits *)
(* for a session, the 200 ms of PopWait and an error of recvfrom need not   *)
(* come.                                                                    *)
Fairness ==
    /\ WF_vars(SetUp) /\ WF_vars(TearDown)
    /\ WF_vars(decoding = "pop" /\ PopWait /\ CallPopWait) /\ WF_vars(DecodeStep)
    /\ WF_vars(Responder /\ MdnsStep)

FairSpec == Spec /\ Fairness

-----------------------------------------------------------------------------
(* Properties.                                                             *)

(* "Push a frame; drops the oldest if at capacity" (video_queue.h:24) and    *)
(* otherwise loses, doubles and reorders nothing: between the read threads   *)
(* and the decode thread the queue is a lossy buffer of kCapacity samples,   *)
(* and the decode thread keeps taking them until the shutdown, even if no    *)
(* PopWait ever times out.                                                   *)
IsLossyBuffer == Buffer!FairSpec

(* What TearDown takes down nobody uses any more, also when it runs twice   *)
(* (main.cpp:521-523, 863-875): the decoder is shut down when no decode     *)
(* thread can submit to it, and when the window and App go there is no      *)
(* decode, listener or mDNS thread and no socket of the advertiser.  It is  *)
(* not so of read threads: ExitLeavesOnlyCallbacks of SessionLifecycle.     *)
AllJoined ==
    /\ main = "decoder" => decoding \in Gone
    /\ main = "exited" => {decoding, accepting, responder} \subseteq Gone /\ ~open

(* "works even if the OS's own mDNS holds port 5353 and we cannot receive    *)
(* queries" (mdns_advertise.h:9-13): a started advertiser gets round to its  *)
(* announcements.                                                           *)
AnnouncesWithoutReceiving == (starter = "selftest" /\ ~canReceive) ~> responder # "none"
=============================================================================
