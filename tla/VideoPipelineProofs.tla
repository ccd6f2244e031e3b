------------------------ MODULE VideoPipelineProofs ------------------------
(* Proofs about VideoPipeline, for every number of connections, parameter   *)
(* sets and failures and every capacity of the queue: the decoder is always *)
(* started by a keyframe of its stream, and a broken picture has an answer. *)
EXTENDS VideoPipeline, SequenceTheorems, TLAPS

-----------------------------------------------------------------------------
(* The decoder.                                                            *)

LEMMA SubmitStarted ==
    ASSUME StartedByKeyframe, Submit PROVE StartedByKeyframe'
<1> USE DEF StartedByKeyframe
<1>1. CASE SubmitRefused   BY <1>1 DEF SubmitRefused, decVars
<1>2. CASE SubmitAccepted  BY <1>2 DEF SubmitAccepted, Feedable
<1>3. CASE SetupFailed     BY <1>3 DEF SetupFailed, ResetMft
<1>4. CASE FeedFailed      BY <1>4 DEF FeedFailed, ResetMft
<1> QED BY <1>1, <1>2, <1>3, <1>4 DEF Submit

LEMMA SubmitBuilt ==
    ASSUME BuiltForStream, Submit PROVE BuiltForStream'
<1> USE DEF BuiltForStream
<1>1. CASE SubmitRefused   BY <1>1 DEF SubmitRefused, decVars
<1>2. CASE SubmitAccepted  BY <1>2 DEF SubmitAccepted, Feedable, Rebuild
<1>3. CASE SetupFailed     BY <1>3 DEF SetupFailed, ResetMft
<1>4. CASE FeedFailed      BY <1>4 DEF FeedFailed, ResetMft
<1> QED BY <1>1, <1>2, <1>3, <1>4 DEF Submit

\* Nobody but the decode thread touches the decoder.
LEMMA DecoderIsOwn == [Next]_vars => Submit \/ UNCHANGED decVars
<1> SUFFICES ASSUME [Next]_vars, ~Submit PROVE UNCHANGED decVars
    OBVIOUS
<1>1. CASE \E c \in Conn : PeerStep(c)  BY <1>1 DEF PeerStep, Connect, ChangeSize
<1>2. CASE \E c \in Conn : ReadStep(c)
      BY <1>2 DEF ReadStep, ReadLoopEnds, OnVideo, MaybeRequestKeyframe, CheckLimit,
                  SetLimit, SendRequest
<1>3. CASE TimePasses  BY <1>3 DEF TimePasses, DropWindowEnds, DecoderWindowEnds
<1>4. CASE UNCHANGED vars  BY <1>4 DEF vars
<1> QED BY <1>1, <1>2, <1>3, <1>4 DEF Next

(* A decoder that runs was started by a keyframe, whatever was dropped,      *)
(* failed or replaced before (h264_decoder.cpp:312-337).                    *)
THEOREM StartedByKeyframeCorrect == Spec => []StartedByKeyframe
<1>1. Init => StartedByKeyframe  BY DEF Init, StartedByKeyframe
<1>2. StartedByKeyframe /\ [Next]_vars => StartedByKeyframe'
  <2>1. StartedByKeyframe /\ UNCHANGED decVars => StartedByKeyframe'
        BY DEF StartedByKeyframe, decVars
  <2> QED BY <2>1, DecoderIsOwn, SubmitStarted
<1> QED BY <1>1, <1>2, PTL DEF Spec

(* The MFT was built for the parameter sets of the keyframe it was fed last, *)
(* so a change of the sender's size never goes unnoticed                    *)
(* (h264_decoder.cpp:322-337).                                              *)
THEOREM BuiltForStreamCorrect == Spec => []BuiltForStream
<1>1. Init => BuiltForStream  BY DEF Init, BuiltForStream
<1>2. BuiltForStream /\ [Next]_vars => BuiltForStream'
  <2>1. BuiltForStream /\ UNCHANGED decVars => BuiltForStream'
        BY DEF BuiltForStream, decVars
  <2> QED BY <2>1, DecoderIsOwn, SubmitBuilt
<1> QED BY <1>1, <1>2, PTL DEF Spec

-----------------------------------------------------------------------------
(* Breaks of the reference chain.                                          *)

QueueTypeOK ==
    /\ queue \in Seq(Frame)
    /\ asking \in [Conn -> {"no", "check", "set", "send"}]
    /\ sps \in [Conn -> Sps]
    /\ needIdr \in [Conn -> {"unborn", "yes", "no"}]
    /\ session \in Conn \cup {None}

\* What answers a break wherever it is: a request under way or sent, a first
\* frame still to come, or one of the cases nobody answers.
Excused ==
    \/ \E c \in Conn : asking[c] # "no"
    \/ lastDrop \in {"suppressed", "foreign"}
    \/ session = None \/ session \in kfWanted \/ needIdr[session] = "yes"

\* A keyframe behind the first n frames of the queue.
KeyframeBehind(q, n) == \E j \in DOMAIN q : j > n /\ q[j].idr

\* A break in the queue is answered behind it: the inductive invariant.
AnsweredBehind ==
    \/ Excused
    \/ /\ chain = "broken" => KeyframeBehind(queue, 0)
       /\ \A i \in DOMAIN queue : queue[i].broken => KeyframeBehind(queue, i)

BreakInv == QueueTypeOK /\ AnsweredBehind

-----------------------------------------------------------------------------
LEMMA BrokenType ==
    ASSUME NEW f \in Frame, NEW lost \in BOOLEAN
    PROVE  Broken(f, lost) \in Frame /\ Broken(f, lost).idr = f.idr
BY DEF Broken, Frame

LEMMA PushType ==
    ASSUME NEW q \in Seq(Frame), NEW f \in Frame
    PROVE  Push(q, f) \in Seq(Frame)
<1>1. CASE Len(q) >= kCapacity
  <2> DEFINE r == Append(Tail(q), f)
  <2>1. q # <<>> /\ Tail(q) \in Seq(Frame)  BY <1>1, CapacityPositive
  <2>2. r \in Seq(Frame) /\ 1 \in 1..Len(r)  BY <2>1
  <2> HIDE DEF r
  <2>3. Broken(r[1], TRUE) \in Frame
    <3>1. r[1] \in Frame  BY <2>2
    <3> QED BY <3>1, BrokenType
  <2>4. [r EXCEPT ![1] = Broken(r[1], TRUE)] \in Seq(Frame)
        BY <2>2, <2>3, ExceptSeq
  <2> QED BY <1>1, <2>4 DEF Push, r
<1>2. CASE ~(Len(q) >= kCapacity)  BY <1>2 DEF Push
<1> QED BY <1>1, <1>2

LEMMA AppendBehind ==
    ASSUME NEW q \in Seq(Frame), NEW f \in Frame, NEW n \in Nat,
           KeyframeBehind(q, n) \/ (f.idr /\ n <= Len(q))
    PROVE  KeyframeBehind(Append(q, f), n)
<1> DEFINE r == Append(q, f)
<1>1. /\ Len(r) = Len(q) + 1 /\ DOMAIN r = 1..Len(r) /\ DOMAIN q = 1..Len(q)
      /\ Len(q) \in Nat /\ r[Len(q) + 1] = f
      /\ \A j \in 1..Len(q) : r[j] = q[j]
      OBVIOUS
<1> HIDE DEF r
<1>2. CASE KeyframeBehind(q, n)
  <2>1. PICK j \in 1..Len(q) : j > n /\ q[j].idr  BY <1>1, <1>2 DEF KeyframeBehind
  <2>2. j \in DOMAIN r /\ r[j].idr  BY <1>1, <2>1
  <2>3. KeyframeBehind(r, n)  BY <2>1, <2>2 DEF KeyframeBehind
  <2> QED BY <2>3 DEF r
<1>3. CASE f.idr /\ n <= Len(q)
  <2>1. Len(q) + 1 \in DOMAIN r /\ Len(q) + 1 > n  BY <1>1, <1>3
  <2>2. KeyframeBehind(r, n)  BY <1>1, <1>3, <2>1 DEF KeyframeBehind
  <2> QED BY <2>2 DEF r
<1> QED BY <1>2, <1>3

LEMMA TailBehind ==
    ASSUME NEW q \in Seq(Frame), q # <<>>, NEW n \in Nat, KeyframeBehind(q, n + 1)
    PROVE  KeyframeBehind(Tail(q), n)
<1>1. PICK j \in DOMAIN q : j > n + 1 /\ q[j].idr  BY DEF KeyframeBehind
<1>2. /\ Len(q) \in Nat /\ j \in 1..Len(q) /\ Len(Tail(q)) = Len(q) - 1
      /\ Tail(q) \in Seq(Frame)
      OBVIOUS
<1>3. j - 1 \in 1..Len(Tail(q)) /\ j - 1 > n  BY <1>1, <1>2
<1>4. Tail(q)[j - 1] = q[j]  BY <1>2, <1>3
<1>5. j - 1 \in DOMAIN Tail(q)  BY <1>2, <1>3
<1> QED BY <1>1, <1>3, <1>4, <1>5 DEF KeyframeBehind

\* A keyframe that is not the head is behind it.
LEMMA NotHead ==
    ASSUME NEW q \in Seq(Frame), ~Head(q).idr, KeyframeBehind(q, 0)
    PROVE  KeyframeBehind(q, 1)
<1>1. PICK j \in DOMAIN q : j > 0 /\ q[j].idr  BY DEF KeyframeBehind
<1>2. q # <<>> /\ Head(q) = q[1] /\ j \in Nat  BY <1>1
<1>3. j > 1
  <2>1. j # 1  BY <1>1, <1>2
  <2> QED BY <1>1, <1>2, <2>1
<1> QED BY <1>1, <1>3 DEF KeyframeBehind

-----------------------------------------------------------------------------
(* Every step keeps the types ...                                          *)

LEMMA InitBreakInv == Init => BreakInv
<1> SUFFICES ASSUME Init PROVE BreakInv
    OBVIOUS
<1>1. queue \in Seq(Frame)  BY DEF Init
<1>2. QueueTypeOK  BY <1>1 DEF Init, QueueTypeOK
<1>3. AnsweredBehind  BY DEF Init, AnsweredBehind, Excused
<1> QED BY <1>2, <1>3 DEF BreakInv

LEMMA OnVideoType ==
    ASSUME QueueTypeOK, NEW c \in Conn, NEW idr \in BOOLEAN, OnVideo(c, idr)
    PROVE  QueueTypeOK'
<1> DEFINE f == [conn |-> c, idr |-> idr, broken |-> FALSE, sps |-> sps[c]]
           g == Broken(f, lastPushed \notin {None, c})
<1>1. f \in Frame  BY DEF QueueTypeOK, Frame
<1>2. g \in Frame  BY <1>1, BrokenType
<1>3. queue' = Push(queue, g)  BY DEF OnVideo
<1> HIDE DEF g
<1>4. queue' \in Seq(Frame)  BY <1>2, <1>3, PushType DEF QueueTypeOK
<1> QED BY <1>4 DEF OnVideo, QueueTypeOK

LEMMA SubmitType == ASSUME QueueTypeOK, Submit PROVE QueueTypeOK'
<1>1. queue # <<>> /\ queue' = Tail(queue)
      BY DEF Submit, SubmitRefused, SubmitAccepted, SetupFailed, FeedFailed, Pop
<1>2. queue' \in Seq(Frame)  BY <1>1 DEF QueueTypeOK
<1>3. UNCHANGED <<connVars, asking>>
      BY DEF Submit, SubmitRefused, SubmitAccepted, SetupFailed, FeedFailed
<1> QED BY <1>2, <1>3 DEF QueueTypeOK, connVars

LEMMA NextType == QueueTypeOK /\ [Next]_vars => QueueTypeOK'
<1> SUFFICES ASSUME QueueTypeOK, [Next]_vars PROVE QueueTypeOK'
    OBVIOUS
<1>1. ASSUME NEW c \in Conn, PeerStep(c) PROVE QueueTypeOK'
      BY <1>1 DEF PeerStep, Connect, ChangeSize, QueueTypeOK
<1>2. ASSUME NEW c \in Conn, ReadStep(c) PROVE QueueTypeOK'
  <2>1. CASE ReadLoopEnds(c)  BY <2>1 DEF ReadLoopEnds, QueueTypeOK
  <2>2. CASE \E idr \in BOOLEAN : OnVideo(c, idr)  BY <2>2, OnVideoType
  <2>3. CASE CheckLimit(c)   BY <2>3 DEF CheckLimit, QueueTypeOK, connVars
  <2>4. CASE SetLimit(c)     BY <2>4 DEF SetLimit, QueueTypeOK, connVars
  <2>5. CASE SendRequest(c)  BY <2>5 DEF SendRequest, QueueTypeOK, connVars
  <2> QED BY <1>2, <2>1, <2>2, <2>3, <2>4, <2>5 DEF ReadStep, MaybeRequestKeyframe
<1>3. CASE Submit  BY <1>3, SubmitType
<1>4. CASE TimePasses
      BY <1>4 DEF TimePasses, DropWindowEnds, DecoderWindowEnds, QueueTypeOK, connVars
<1>5. CASE UNCHANGED vars  BY <1>5 DEF vars, connVars, QueueTypeOK
<1> QED BY <1>1, <1>2, <1>3, <1>4, <1>5 DEF Next

-----------------------------------------------------------------------------
(* ... and the answers.                                                    *)

LEMMA OnVideoAnswered ==
    ASSUME BreakInv, NEW c \in Conn, NEW idr \in BOOLEAN, OnVideo(c, idr)
    PROVE  AnsweredBehind'
<1> DEFINE f == [conn |-> c, idr |-> idr, broken |-> FALSE, sps |-> sps[c]]
           g == Broken(f, lastPushed \notin {None, c})
<1>1. f \in Frame /\ f.idr = idr  BY DEF BreakInv, QueueTypeOK, Frame
<1>2. g \in Frame /\ g.idr = idr  BY <1>1, BrokenType
<1>3. /\ queue' = Push(queue, g) /\ (g.broken => lastDrop' = "foreign")
      /\ ~g.broken => lastDrop' = lastDrop
      /\ chain' = chain /\ session' = session
      /\ asking' = [asking EXCEPT ![c] = IF Len(queue) >= kCapacity THEN "check" ELSE "no"]
      /\ asking[c] = "no" /\ needIdr' = [needIdr EXCEPT ![c] = "no"]
      /\ needIdr[c] = "yes" => idr
      /\ ~idr => kfWanted' = kfWanted
      BY DEF OnVideo, decVars
<1> HIDE DEF f, g
<1>4. CASE Len(queue) >= kCapacity
  <2>1. asking'[c] # "no"  BY <1>3, <1>4 DEF BreakInv, QueueTypeOK
  <2> QED BY <2>1 DEF AnsweredBehind, Excused
<1>5. CASE g.broken  BY <1>3, <1>5 DEF AnsweredBehind, Excused
<1>6. CASE ~(Len(queue) >= kCapacity) /\ ~g.broken
  <2>1. queue' = Append(queue, g)  BY <1>3, <1>6 DEF Push
  <2>2. /\ queue \in Seq(Frame) /\ DOMAIN queue = 1..Len(queue) /\ Len(queue) \in Nat
        /\ DOMAIN queue' = 1..(Len(queue) + 1) /\ queue'[Len(queue) + 1] = g
        /\ \A i \in 1..Len(queue) : queue'[i] = queue[i]
        BY <1>2, <2>1 DEF BreakInv, QueueTypeOK
  <2>3. \A i \in DOMAIN queue' : queue'[i].broken => i \in DOMAIN queue /\ queue[i].broken
    <3> SUFFICES ASSUME NEW i \in DOMAIN queue', queue'[i].broken
                 PROVE  i \in DOMAIN queue /\ queue[i].broken
        OBVIOUS
    <3>1. i # Len(queue) + 1  BY <1>6, <2>2
    <3>2. i \in 1..Len(queue)  BY <2>2, <3>1
    <3> QED BY <2>2, <3>2
  <2>4. CASE idr
    <3>1. g.idr  BY <1>2, <2>4
    <3>2. ASSUME NEW n \in Nat, n <= Len(queue) PROVE KeyframeBehind(queue', n)
          BY <1>2, <2>1, <2>2, <3>1, <3>2, AppendBehind
    <3>3. KeyframeBehind(queue', 0)  BY <2>2, <3>2
    <3>4. ASSUME NEW i \in DOMAIN queue' , queue'[i].broken PROVE KeyframeBehind(queue', i)
      <4>1. i \in Nat /\ i <= Len(queue)  BY <2>2, <2>3, <3>4
      <4> QED BY <3>2, <4>1
    <3> QED BY <3>3, <3>4 DEF AnsweredBehind
  <2>5. CASE ~idr /\ Excused
    <3>1. asking' = asking  BY <1>3, <1>6 DEF BreakInv, QueueTypeOK
    <3>2. session # None /\ needIdr[session] = "yes" => needIdr'[session] = "yes"
          BY <1>3, <2>5 DEF BreakInv, QueueTypeOK
    <3>3. Excused'  BY <1>3, <1>6, <2>5, <3>1, <3>2 DEF Excused
    <3> QED BY <3>3 DEF AnsweredBehind
  <2>6. CASE ~Excused
    <3>1. /\ chain = "broken" => KeyframeBehind(queue, 0)
          /\ \A i \in DOMAIN queue : queue[i].broken => KeyframeBehind(queue, i)
          BY <2>6 DEF BreakInv, AnsweredBehind
    <3>2. chain' = "broken" => KeyframeBehind(queue', 0)
          BY <1>2, <1>3, <2>1, <2>2, <3>1, AppendBehind
    <3>3. ASSUME NEW i \in DOMAIN queue' , queue'[i].broken PROVE KeyframeBehind(queue', i)
      <4>1. i \in Nat /\ KeyframeBehind(queue, i)  BY <2>2, <2>3, <3>1, <3>3
      <4> QED BY <1>2, <2>1, <2>2, <4>1, AppendBehind
    <3> QED BY <3>2, <3>3 DEF AnsweredBehind
  <2> QED BY <2>4, <2>5, <2>6
<1> QED BY <1>4, <1>5, <1>6

LEMMA SubmitAnswered == ASSUME BreakInv, Submit PROVE AnsweredBehind'
<1>1. /\ queue # <<>> /\ queue' = Tail(queue) /\ kfWanted \subseteq kfWanted'
      /\ UNCHANGED <<session, needIdr, asking, lastDrop>>
      BY DEF Submit, SubmitRefused, SubmitAccepted, SetupFailed, FeedFailed, Pop,
             RequestKeyframe, KfSent, connVars
<1>2. chain' = "broken" => ~Head(queue).idr /\ (chain = "broken" \/ Head(queue).broken)
  <2>1. CASE SubmitRefused   BY <2>1 DEF SubmitRefused, Feedable, decVars
  <2>2. CASE SubmitAccepted  BY <2>2 DEF SubmitAccepted
  <2>3. CASE SetupFailed     BY <2>3 DEF SetupFailed, ResetMft
  <2>4. CASE FeedFailed      BY <2>4 DEF FeedFailed, ResetMft
  <2> QED BY <2>1, <2>2, <2>3, <2>4 DEF Submit
<1>3. CASE Excused
  <2>1. Excused'  BY <1>1, <1>3 DEF Excused
  <2> QED BY <2>1 DEF AnsweredBehind
<1>4. CASE ~Excused
  <2>1. /\ chain = "broken" => KeyframeBehind(queue, 0)
        /\ \A i \in DOMAIN queue : queue[i].broken => KeyframeBehind(queue, i)
        BY <1>4 DEF BreakInv, AnsweredBehind
  <2>2. /\ queue \in Seq(Frame) /\ DOMAIN queue = 1..Len(queue) /\ Len(queue) \in Nat
        /\ 1 \in DOMAIN queue /\ Head(queue) = queue[1]
        /\ DOMAIN Tail(queue) = 1..(Len(queue) - 1)
        /\ \A i \in DOMAIN Tail(queue) : Tail(queue)[i] = queue[i + 1]
        BY <1>1 DEF BreakInv, QueueTypeOK
  <2>3. ASSUME chain' = "broken" PROVE KeyframeBehind(queue', 0)
    <3>1. KeyframeBehind(queue, 1)  BY <1>2, <2>1, <2>2, <2>3, NotHead
    <3>2. KeyframeBehind(queue, 0 + 1)  BY <3>1
    <3> QED BY <1>1, <2>2, <3>2, TailBehind
  <2>4. ASSUME NEW i \in DOMAIN queue' , queue'[i].broken PROVE KeyframeBehind(queue', i)
    <3>1. i \in Nat /\ i + 1 \in DOMAIN queue /\ queue[i + 1].broken  BY <1>1, <2>2, <2>4
    <3>2. KeyframeBehind(queue, i + 1)  BY <2>1, <3>1
    <3> QED BY <1>1, <2>2, <3>1, <3>2, TailBehind
  <2> QED BY <2>3, <2>4 DEF AnsweredBehind
<1> QED BY <1>3, <1>4

LEMMA NextAnswered == BreakInv /\ [Next]_vars => AnsweredBehind'
<1> SUFFICES ASSUME BreakInv, [Next]_vars PROVE AnsweredBehind'
    OBVIOUS
<1> USE DEF BreakInv
<1>1. ASSUME NEW c \in Conn, PeerStep(c) PROVE AnsweredBehind'
  <2>1. session' = c /\ needIdr'[c] = "yes"
        BY <1>1 DEF PeerStep, Connect, ChangeSize, QueueTypeOK
  <2> QED BY <2>1 DEF AnsweredBehind, Excused
<1>2. ASSUME NEW c \in Conn, ReadStep(c) PROVE AnsweredBehind'
  <2>1. CASE ReadLoopEnds(c)
        BY <2>1 DEF ReadLoopEnds, AnsweredBehind, Excused, KeyframeBehind, decVars
  <2>2. CASE \E idr \in BOOLEAN : OnVideo(c, idr)  BY <2>2, OnVideoAnswered
  <2>3. CASE CheckLimit(c)
        BY <2>3 DEF CheckLimit, AnsweredBehind, Excused, QueueTypeOK
  <2>4. CASE SetLimit(c)
        BY <2>4 DEF SetLimit, AnsweredBehind, Excused, QueueTypeOK
  <2>5. CASE SendRequest(c)
        BY <2>5 DEF SendRequest, AnsweredBehind, Excused, KfSent, connVars
  <2> QED BY <1>2, <2>1, <2>2, <2>3, <2>4, <2>5 DEF ReadStep, MaybeRequestKeyframe
<1>3. CASE Submit  BY <1>3, SubmitAnswered
<1>4. CASE TimePasses
      BY <1>4 DEF TimePasses, DropWindowEnds, DecoderWindowEnds, AnsweredBehind, Excused,
                  KeyframeBehind, connVars, decVars
<1>5. CASE UNCHANGED vars
      BY <1>5 DEF vars, connVars, decVars, AnsweredBehind, Excused, KeyframeBehind
<1> QED BY <1>1, <1>2, <1>3, <1>4, <1>5 DEF Next

(* A broken picture has an answer under way: a keyframe behind the break in  *)
(* the queue, one the sender owes or was asked for, or a request about to be *)
(* sent; the exceptions are a suppressed request and frames of a replaced    *)
(* connection (main.cpp:570-576).                                           *)
THEOREM BreakIsAnsweredCorrect == Spec => []BreakIsAnswered
<1>1. BreakInv => BreakIsAnswered
      BY DEF BreakInv, AnsweredBehind, Excused, KeyframeBehind, BreakIsAnswered
<1>2. BreakInv /\ [Next]_vars => BreakInv'  BY NextType, NextAnswered DEF BreakInv
<1> QED BY <1>1, <1>2, InitBreakInv, PTL DEF Spec
=============================================================================
