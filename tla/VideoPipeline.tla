---------------------------- MODULE VideoPipeline ----------------------------
(***************************************************************************)
(* From the read threads through the video queue to the decoder, and the   *)
(* keyframe requests that repair a broken reference chain.                 *)
(*                                                                         *)
(* A read thread pushes each access unit into the bounded queue            *)
(* (src/app/video_queue.h), which drops its oldest one when full; the      *)
(* decode thread pops and submits them (src/video/h264_decoder.cpp).       *)
(* A P frame decodes correctly only right after its predecessor of the     *)
(* same stream.  Two rate limiters, one for queue drops (src/app/main.cpp) *)
(* and one in the decoder, guard the requests for an IDR.                  *)
(***************************************************************************)
EXTENDS Integers, Sequences, FiniteSets

CONSTANTS
    Conn,         \* connections, each made at most once
    None,         \* no session
    Sps,          \* parameter sets (resolutions) the sender uses
    kCapacity,    \* VideoQueue::kCapacity
    MaxFailures   \* bound: decode errors and failed MFT creations in a run

ASSUME NoneNotConn == None \notin Conn
ASSUME CapacityPositive == kCapacity \in Nat \ {0}
ASSUME FailuresBounded == MaxFailures \in Nat

VARIABLES
    session,      \* the current connection
    reading,      \* connections whose read thread still delivers frames
    asking,       \* where each read thread is in MaybeRequestKeyframe
    sps,          \* what the sender of each connection encodes with
    needIdr,      \* its next frame must be an IDR (first frame, new size)
    kfWanted,     \* connections whose sender has been sent a kf
    queue,        \* VideoQueue::queue_
    lastPushed,   \* connection of the frame pushed last
    dropLimited,  \* less than 500 ms since lastKfSendMs_ (queue drops)
    decLimited,   \* less than 500 ms since lastKfRequestMs (decoder)
    mftReady,     \* H264Decoder::mftReady_
    lastSps,      \* H264Decoder::lastSps_
    chain,        \* the MFT's reference chain: "none", "good", "broken"
    fedSps,       \* parameter set of the IDR the MFT was fed last
    failures,     \* failures so far
    lastDrop      \* what the last queue drop led to, "asked" before the first;
                  \* "foreign": a frame came behind another connection's

connVars == <<session, reading, sps, needIdr>>
decVars  == <<mftReady, lastSps, chain, fedSps, failures>>
vars == <<connVars, asking, kfWanted, queue, lastPushed, dropLimited,
          decLimited, decVars, lastDrop>>

NoSps == 0
Frame == [conn : Conn, idr : BOOLEAN, broken : BOOLEAN, sps : Sps]

-----------------------------------------------------------------------------
(* Connections.                                                            *)

\* OnAccept publishes a new session; the old one's read thread goes on with
\* the frames it has already received.
Connect(c) ==
    /\ needIdr[c] = "unborn"
    /\ session' = c
    /\ reading' = reading \cup {c}
    /\ needIdr' = [needIdr EXCEPT ![c] = "yes"]
    /\ UNCHANGED <<sps, asking, kfWanted, queue, lastPushed, dropLimited,
                   decLimited, decVars, lastDrop>>

\* The read loop ends; the main loop reaps the session if it is current.
ReadLoopEnds(c) ==
    /\ c \in reading /\ asking[c] = "no"
    /\ reading' = reading \ {c}
    /\ session' = IF session = c THEN None ELSE session
    /\ UNCHANGED <<sps, needIdr, asking, kfWanted, queue, lastPushed,
                   dropLimited, decLimited, decVars, lastDrop>>

\* The sender changes its capture size: new parameter sets, then an IDR.
ChangeSize(c, s) ==
    /\ c = session /\ needIdr[c] = "no" /\ s # sps[c]
    /\ sps' = [sps EXCEPT ![c] = s]
    /\ needIdr' = [needIdr EXCEPT ![c] = "yes"]
    /\ UNCHANGED <<session, reading, asking, kfWanted, queue, lastPushed,
                   dropLimited, decLimited, decVars, lastDrop>>

\* session->SendKeyframeRequest(), if there is a session.
KfSent == IF session = None THEN kfWanted ELSE kfWanted \cup {session}

-----------------------------------------------------------------------------
(* Read thread: onVideo.                                                   *)

\* A P frame behind anything but its predecessor refers to a lost frame.
Broken(f, lost) == IF f.idr THEN f ELSE [f EXCEPT !.broken = @ \/ lost]

\* VideoQueue::Push: drop the oldest when full.
Push(q, f) ==
    IF Len(q) >= kCapacity
    THEN LET r == Append(Tail(q), f) IN [r EXCEPT ![1] = Broken(r[1], TRUE)]
    ELSE Append(q, f)

OnVideo(c, idr) ==
    LET f == [conn |-> c, idr |-> idr, broken |-> FALSE, sps |-> sps[c]]
        g == Broken(f, lastPushed \notin {None, c})
    IN
    /\ c \in reading /\ asking[c] = "no"
    /\ needIdr[c] = "yes" => idr
    /\ idr => needIdr[c] = "yes" \/ c \in kfWanted
    /\ queue' = Push(queue, g)
    /\ lastPushed' = c
    /\ asking' = [asking EXCEPT ![c] = IF Len(queue) >= kCapacity THEN "check" ELSE "no"]
    /\ needIdr' = [needIdr EXCEPT ![c] = "no"]
    /\ kfWanted' = IF idr THEN kfWanted \ {c} ELSE kfWanted
    /\ lastDrop' = IF g.broken THEN "foreign" ELSE lastDrop
    /\ UNCHANGED <<session, reading, sps, dropLimited, decLimited, decVars>>

\* MaybeRequestKeyframe("queue drop", 500).  lastKfSendMs_ is not locked: two
\* read threads may look at it before one of them has set it.
CheckLimit(c) ==
    /\ asking[c] = "check"
    /\ IF dropLimited
       THEN asking' = [asking EXCEPT ![c] = "no"] /\ lastDrop' = "suppressed"
       ELSE asking' = [asking EXCEPT ![c] = "set"] /\ UNCHANGED lastDrop
    /\ UNCHANGED <<connVars, kfWanted, queue, lastPushed, dropLimited, decLimited, decVars>>

SetLimit(c) ==
    /\ asking[c] = "set"
    /\ asking' = [asking EXCEPT ![c] = "send"]
    /\ dropLimited' = TRUE
    /\ UNCHANGED <<connVars, kfWanted, queue, lastPushed, decLimited, decVars, lastDrop>>

\* Mutant: the request that was let through is not sent.
SendRequestNever(c) ==
    /\ asking[c] = "send"
    /\ asking' = [asking EXCEPT ![c] = "no"]
    /\ lastDrop' = "asked"
    /\ UNCHANGED <<connVars, kfWanted, queue, lastPushed, dropLimited, decLimited, decVars>>

SendRequest(c) ==
    /\ asking[c] = "send"
    /\ asking' = [asking EXCEPT ![c] = "no"]
    /\ lastDrop' = "asked" /\ kfWanted' = KfSent
    /\ UNCHANGED <<connVars, queue, lastPushed, dropLimited, decLimited, decVars>>

MaybeRequestKeyframe(c) == CheckLimit(c) \/ SetLimit(c) \/ SendRequest(c)

-----------------------------------------------------------------------------
(* Decode thread: H264Decoder::Submit.                                     *)

\* Mutant: the decoder's limiter lets no request through.
RequestKeyframeNever == IF decLimited THEN UNCHANGED <<kfWanted, decLimited>>
                       ELSE decLimited' = TRUE /\ UNCHANGED kfWanted

\* H264Decoder::RequestKeyframe.
RequestKeyframe == IF decLimited THEN UNCHANGED <<kfWanted, decLimited>>
                   ELSE decLimited' = TRUE /\ kfWanted' = KfSent

\* ResetMft: the chain is gone with the MFT.
ResetMft == mftReady' = FALSE /\ chain' = "none" /\ UNCHANGED fedSps

\* Mutant: a changed parameter set does not rebuild the MFT.
RebuildNever(f) == ~mftReady /\ f.idr

\* Submit builds the MFT for f: not ready, or an IDR with new parameters.
Rebuild(f) == f.idr /\ (~mftReady \/ f.sps # lastSps)

\* Mutant: any frame is fed to a decoder that is not ready.
FeedableAlways(f) == TRUE

\* A decoder that is not ready takes nothing but a keyframe.
Feedable(f) == mftReady \/ f.idr

Pop == queue # <<>> /\ queue' = Tail(queue)

\* Not ready and no keyframe: ask for one and drop the frame.
SubmitRefused ==
    /\ Pop
    /\ ~Feedable(Head(queue))
    /\ RequestKeyframe
    /\ UNCHANGED <<connVars, asking, lastPushed, dropLimited, decVars, lastDrop>>

\* SetupMft where needed, then FeedAccessUnit, both successful.
SubmitAccepted ==
    LET f == Head(queue) IN
    /\ Pop
    /\ Feedable(f)
    /\ mftReady' = TRUE
    /\ lastSps' = IF Rebuild(f) THEN f.sps ELSE lastSps
    /\ fedSps' = IF f.idr THEN f.sps ELSE fedSps
    /\ chain' = IF f.idr THEN "good" ELSE IF f.broken THEN "broken" ELSE chain
    /\ UNCHANGED <<connVars, asking, kfWanted, lastPushed, dropLimited,
                   decLimited, failures, lastDrop>>

\* No MFT could be set up: lastSps_ stays what it was.
SetupFailed ==
    /\ Pop
    /\ Rebuild(Head(queue))
    /\ failures < MaxFailures
    /\ failures' = failures + 1
    /\ ResetMft /\ UNCHANGED lastSps
    /\ RequestKeyframe
    /\ UNCHANGED <<connVars, asking, lastPushed, dropLimited, lastDrop>>

\* FeedAccessUnit fails on an MFT that may have been set up just now.
FeedFailed ==
    LET f == Head(queue) IN
    /\ Pop
    /\ Feedable(f)
    /\ failures < MaxFailures
    /\ failures' = failures + 1
    /\ ResetMft
    /\ lastSps' = IF Rebuild(f) THEN f.sps ELSE lastSps
    /\ RequestKeyframe
    /\ UNCHANGED <<connVars, asking, lastPushed, dropLimited, lastDrop>>

-----------------------------------------------------------------------------
(* 500 ms pass.                                                            *)

DropWindowEnds ==
    /\ dropLimited
    /\ dropLimited' = FALSE
    /\ UNCHANGED <<connVars, asking, kfWanted, queue, lastPushed, decLimited,
                   decVars, lastDrop>>

DecoderWindowEnds ==
    /\ decLimited
    /\ decLimited' = FALSE
    /\ UNCHANGED <<connVars, asking, kfWanted, queue, lastPushed, dropLimited,
                   decVars, lastDrop>>

-----------------------------------------------------------------------------
Init ==
    /\ session = None /\ reading = {} /\ kfWanted = {}
    /\ sps \in [Conn -> Sps]
    /\ needIdr = [c \in Conn |-> "unborn"] /\ asking = [c \in Conn |-> "no"]
    /\ queue = <<>> /\ lastPushed = None
    /\ dropLimited = FALSE /\ decLimited = FALSE
    /\ mftReady = FALSE /\ lastSps = NoSps /\ chain = "none" /\ fedSps = NoSps
    /\ failures = 0
    /\ lastDrop = "asked"

ReadStep(c) == ReadLoopEnds(c) \/ (\E idr \in BOOLEAN : OnVideo(c, idr))
               \/ MaybeRequestKeyframe(c)
PeerStep(c) == Connect(c) \/ \E s \in Sps : ChangeSize(c, s)
Submit == SubmitRefused \/ SubmitAccepted \/ SetupFailed \/ FeedFailed
TimePasses == DropWindowEnds \/ DecoderWindowEnds

Next == (\E c \in Conn : PeerStep(c) \/ ReadStep(c)) \/ Submit \/ TimePasses

Spec == Init /\ [][Next]_vars

(* The threads run, time passes, the sender keeps streaming and answers a  *)
(* kf with an IDR sooner or later (docs/RESEARCH.md:63-64).                *)
Fairness ==
    /\ WF_vars(\E c \in Conn, idr \in BOOLEAN : c = session /\ OnVideo(c, idr))
    /\ WF_vars(\E c \in Conn : c = session /\ OnVideo(c, TRUE))
    /\ \A c \in Conn : WF_vars(MaybeRequestKeyframe(c))
    /\ WF_vars(Submit) /\ WF_vars(DecoderWindowEnds)

FairSpec == Spec /\ Fairness

-----------------------------------------------------------------------------
(* Properties.                                                             *)

(* The queue never holds more than its capacity (video_queue.h:26-37), and  *)
(* every variable is in its range.                                          *)
TypeOK ==
    /\ session \in Conn \cup {None} /\ lastPushed \in Conn \cup {None}
    /\ asking \in [Conn -> {"no", "check", "set", "send"}]
    /\ reading \subseteq Conn /\ kfWanted \subseteq Conn
    /\ sps \in [Conn -> Sps]
    /\ needIdr \in [Conn -> {"unborn", "yes", "no"}]
    /\ queue \in Seq(Frame) /\ Len(queue) <= kCapacity
    /\ dropLimited \in BOOLEAN /\ decLimited \in BOOLEAN
    /\ mftReady \in BOOLEAN
    /\ {lastSps, fedSps} \subseteq Sps \cup {NoSps}
    /\ chain \in {"none", "good", "broken"}
    /\ failures \in 0..MaxFailures
    /\ lastDrop \in {"asked", "suppressed", "foreign"}

(* A decoder that runs has been started by a keyframe, whatever was dropped *)
(* or failed before (h264_decoder.cpp:312-337).                             *)
StartedByKeyframe == mftReady => chain # "none"

(* The parameter sets the MFT was built for are those of the last IDR it    *)
(* was fed, across drops, failures and new connections, so a size change is *)
(* never missed (h264_decoder.cpp:322-337).                                 *)
BuiltForStream == mftReady => lastSps = fedSps

(* A broken picture has an answer under way, a keyframe queued, owed or      *)
(* asked for, unless the limiter suppressed the request (main.cpp:570-576)   *)
(* or frames of a replaced connection came in between, which nobody notices. *)
BreakIsAnswered ==
    chain = "broken" \/ (\E i \in DOMAIN queue : queue[i].broken) =>
        \/ (\E c \in Conn : asking[c] # "no") \/ lastDrop \in {"suppressed", "foreign"}
        \/ \E i \in DOMAIN queue : queue[i].idr
        \/ session = None \/ session \in kfWanted \/ needIdr[session] = "yes"

(* The premise of the liveness properties: in the end a session stays and   *)
(* the decode thread keeps up, so the queue is never full.                  *)
KeepsUp == <>[](session # None /\ Len(queue) < kCapacity)

(* After any failure the decoder is restarted: its requests, one every      *)
(* 500 ms at most, are repeated until a keyframe comes                      *)
(* (h264_decoder.cpp:312-321, 347-351).                                     *)
DecoderRestarts == KeepsUp => []<>mftReady

(* The picture is repaired if the last drop's request was not suppressed.   *)
PictureRecoversIfAsked ==
    KeepsUp /\ <>[](lastDrop \notin {"suppressed", "foreign"}) => []<>(chain = "good")

(* "without an IDR the picture stays corrupted" (main.cpp:571-575): a drop  *)
(* leads to an IDR.                                                         *)
PictureRecovers == KeepsUp => []<>(chain = "good")
=============================================================================
