------------------------- MODULE AppLifecycleProofs -------------------------
(* Proofs about VideoQueue and AppLifecycle, for every capacity and any     *)
(* number of connections, samples and packets: no wakeup is lost, the queue *)
(* is a lossy buffer, the program uses it as VideoQueue allows, and what    *)
(* TearDown takes down nobody uses.                                         *)
EXTENDS AppLifecycle, SequenceTheorems, TLAPS

-----------------------------------------------------------------------------
(* What the queue's operations return.                                     *)

LEMMA DropOldestType ==
    ASSUME NEW q \in Seq(Nat), Len(q) <= kCapacity, NEW s \in Nat
    PROVE  /\ DropOldest(q, s) \in Seq(Nat)
           /\ Len(DropOldest(q, s)) = IF Len(q) >= kCapacity THEN Len(q) ELSE Len(q) + 1
           /\ Len(DropOldest(q, s)) <= kCapacity
<1>1. CASE Len(q) >= kCapacity
  <2>1. q # <<>> /\ Tail(q) \in Seq(Nat) /\ Len(Tail(q)) = Len(q) - 1
        BY <1>1, QueueAssumption
  <2> QED BY <1>1, <2>1, QueueAssumption DEF DropOldest
<1>2. CASE ~(Len(q) >= kCapacity)  BY <1>2, QueueAssumption DEF DropOldest
<1> QED BY <1>1, <1>2

\* q holds the samples up to the n-th.
UpTo(q, n) == \A i \in 1..Len(q) : q[i] = n - Len(q) + i

\* Push keeps the samples pushed last.
LEMMA DropOldestLatest ==
    ASSUME NEW q \in Seq(Nat), Len(q) <= kCapacity, NEW n \in Nat, UpTo(q, n)
    PROVE  UpTo(DropOldest(q, n + 1), n + 1)
<1> DEFINE r == DropOldest(q, n + 1)
<1> SUFFICES ASSUME NEW i \in 1..Len(r) PROVE r[i] = n + 1 - Len(r) + i
    BY DEF UpTo
<1> USE DEF UpTo
<1>1. CASE Len(q) >= kCapacity
  <2>1. Len(r) = Len(q) /\ r = Append(Tail(q), n + 1) /\ Len(q) > 0
        BY <1>1, DropOldestType, QueueAssumption DEF DropOldest
  <2>2. Tail(q) \in Seq(Nat) /\ Len(Tail(q)) = Len(q) - 1  BY <2>1
  <2> HIDE DEF r
  <2>3. CASE i = Len(r)  BY <2>1, <2>2, <2>3
  <2>4. CASE i # Len(r)
    <3>1. i \in Nat /\ i >= 1 /\ i <= Len(q) - 1 /\ Len(q) \in Nat  BY <2>1, <2>4
    <3>5. i \in 1..Len(Tail(q)) /\ i + 1 \in 1..Len(q)  BY <2>2, <3>1
    <3>2. r[i] = Tail(q)[i]  BY <2>1, <2>2, <3>5
    <3>3. Tail(q)[i] = q[i + 1]  BY <2>1, <3>5
    <3>4. q[i + 1] = n - Len(q) + (i + 1)  BY <3>5
    <3> QED BY <2>1, <3>1, <3>2, <3>3, <3>4
  <2> QED BY <2>3, <2>4
<1>2. CASE ~(Len(q) >= kCapacity)
  <2>1. Len(r) = Len(q) + 1 /\ r = Append(q, n + 1)
        BY <1>2, DropOldestType, QueueAssumption DEF DropOldest
  <2> HIDE DEF r
  <2>2. CASE i = Len(r)  BY <2>1, <2>2
  <2>3. CASE i # Len(r)
    <3>1. i \in 1..Len(q)  BY <2>1, <2>3
    <3>2. r[i] = q[i]  BY <2>1, <3>1
    <3>3. q[i] = n - Len(q) + i  BY <3>1
    <3> QED BY <2>1, <3>1, <3>2, <3>3
  <2> QED BY <2>2, <2>3
<1> QED BY <1>1, <1>2

\* So does PopWait.
LEMMA TailLatest ==
    ASSUME NEW q \in Seq(Nat), q # <<>>, NEW n \in Nat, UpTo(q, n)
    PROVE  UpTo(Tail(q), n)
<1>1. Tail(q) \in Seq(Nat) /\ Len(Tail(q)) = Len(q) - 1 /\ Len(q) > 0  OBVIOUS
<1> SUFFICES ASSUME NEW i \in 1..Len(Tail(q)) PROVE Tail(q)[i] = n - Len(Tail(q)) + i
    BY DEF UpTo
<1>2. i + 1 \in 1..Len(q)  BY <1>1
<1>3. Tail(q)[i] = q[i + 1]  BY <1>1
<1>4. q[i + 1] = n - Len(q) + (i + 1)  BY <1>2 DEF UpTo
<1> QED BY <1>1, <1>2, <1>3, <1>4

-----------------------------------------------------------------------------
(* The inductive invariant.                                                *)

QueueInv == QueueTypeOK /\ WakeupPending /\ Latest /\ Len(queue) <= pushed

LEMMA InitQueueInv == QueueInit => QueueInv
<1> SUFFICES ASSUME QueueInit PROVE QueueInv
    OBVIOUS
<1>1. queue = <<>> /\ Len(queue) = 0 /\ pushed = 0 /\ waiter = "out"  BY DEF QueueInit
<1>2. queue \in Seq(Nat) /\ 0 <= kCapacity  BY <1>1, QueueAssumption
<1>3. pushed \in Nat /\ popped \in Nat  BY DEF QueueInit, NoSample
<1>4. shuttingDown \in BOOLEAN /\ unnotified \in BOOLEAN /\ waiter \in Places
      BY DEF QueueInit, Places
<1>5. QueueTypeOK  BY <1>1, <1>2, <1>3, <1>4 DEF QueueTypeOK
<1> QED BY <1>1, <1>5 DEF QueueInv, WakeupPending, Latest

\* PopWait hands a sample out, or returns empty-handed.
LEMMA ReturnQueueInv == ASSUME QueueInv, Return PROVE QueueInv'
<1> USE DEF QueueInv, QueueTypeOK, Places
<1>1. CASE queue = <<>>
  <2>1. QueueTypeOK' /\ WakeupPending' /\ (Len(queue) <= pushed)'
        BY <1>1 DEF Return, WakeupPending
  <2>2. Latest'  BY <1>1 DEF Return, Latest
  <2> QED BY <2>1, <2>2
<1>2. CASE queue # <<>>
  <2>1. /\ Tail(queue) \in Seq(Nat) /\ Len(Tail(queue)) = Len(queue) - 1
        /\ Head(queue) \in Nat
        BY <1>2
  <2>2. /\ waiter' = "got" /\ popped' = Head(queue) /\ queue' = Tail(queue)
        /\ UNCHANGED <<pushed, shuttingDown, unnotified>>
        BY <1>2 DEF Return
  <2>4. WakeupPending'  BY <2>2 DEF WakeupPending
  <2>5. Len(Tail(queue)) <= kCapacity /\ Len(Tail(queue)) <= pushed
    <3> DEFINE n == Len(queue)  m == Len(Tail(queue))
    <3>1. n \in Nat /\ m = n - 1 /\ n <= kCapacity /\ n <= pushed /\ pushed \in Nat
          BY <2>1
    <3> HIDE DEF n, m
    <3>2. m <= kCapacity /\ m <= pushed  BY <3>1, QueueAssumption
    <3> QED BY <3>2 DEF m
  <2>6. QueueTypeOK' /\ (Len(queue) <= pushed)'  BY <2>1, <2>2, <2>5
  <2>3. Latest'
    <3>1. queue' = Tail(queue) /\ pushed' = pushed  BY <1>2 DEF Return
    <3>2. UpTo(Tail(queue), pushed)  BY <1>2, TailLatest DEF Latest, UpTo
    <3> QED BY <3>1, <3>2 DEF Latest, UpTo
  <2> QED BY <2>3, <2>4, <2>6
<1> QED BY <1>1, <1>2

\* Sleeping is for an empty queue that has not been shut down.
LEMMA SleepQueueInv == ASSUME QueueInv, ~Ready, Sleep PROVE QueueInv'
BY DEF QueueInv, QueueTypeOK, WakeupPending, Latest, Ready, Sleep, Places

LEMMA PushQueueInv == ASSUME QueueInv, Push PROVE QueueInv'
<1> USE DEF QueueInv, QueueTypeOK
<1>1. queue' = DropOldest(queue, pushed + 1) /\ pushed' = pushed + 1  BY DEF Push
<1>2. QueueTypeOK' /\ (Len(queue) <= pushed)'
      BY <1>1, DropOldestType, QueueAssumption DEF Push, Notify, Places
<1>3. WakeupPending'  BY DEF Push, Notify, WakeupPending
<1>4. Latest'
  <2>1. UpTo(queue', pushed + 1)  BY <1>1, DropOldestLatest DEF Latest, UpTo
  <2> QED BY <1>1, <2>1 DEF Latest, UpTo
<1> QED BY <1>2, <1>3, <1>4

LEMMA NextQueueInv == QueueInv /\ [QueueNext]_queueVars => QueueInv'
<1> SUFFICES ASSUME QueueInv, [QueueNext]_queueVars PROVE QueueInv'
    OBVIOUS
<1> DEFINE Rest == UNCHANGED <<queue, pushed, popped>>
<1>1. CASE Push  BY <1>1, PushQueueInv
<1>2. CASE PopWait
      BY <1>2, ReturnQueueInv, SleepQueueInv DEF PopWait, Enter, WakeUp, GiveUp
<1>3. CASE Rest /\ QueueTypeOK' /\ WakeupPending'
      BY <1>3 DEF QueueInv, Latest
<1>4. CASE Leave
  <2>1. Rest /\ QueueTypeOK' /\ WakeupPending'
        BY <1>4 DEF Leave, QueueInv, QueueTypeOK, WakeupPending, Places
  <2> QED BY <2>1, <1>3
<1>5. CASE SpuriousWakeup \/ TimeOut
  <2>1. Rest /\ QueueTypeOK' /\ WakeupPending'
        BY <1>5 DEF SpuriousWakeup, TimeOut, QueueInv, QueueTypeOK, WakeupPending, Places
  <2> QED BY <2>1, <1>3
<1>6. CASE ShutdownFlag
  <2>1. Rest /\ QueueTypeOK' /\ WakeupPending'
        BY <1>6 DEF ShutdownFlag, QueueInv, QueueTypeOK, WakeupPending
  <2> QED BY <2>1, <1>3
<1>7. CASE ShutdownNotify
  <2>1. Rest /\ QueueTypeOK' /\ WakeupPending'
        BY <1>7 DEF ShutdownNotify, Notify, QueueInv, QueueTypeOK, WakeupPending, Places
  <2> QED BY <2>1, <1>3
<1>8. CASE UNCHANGED queueVars
  <2>1. Rest /\ QueueTypeOK' /\ WakeupPending'
        BY <1>8 DEF queueVars, QueueInv, QueueTypeOK, WakeupPending
  <2> QED BY <2>1, <1>3
<1> QED BY <1>1, <1>2, <1>4, <1>5, <1>6, <1>7, <1>8 DEF QueueNext

LEMMA QueueInvariant == QueueSpec => []QueueInv
BY InitQueueInv, NextQueueInv, PTL DEF QueueSpec

(* The queue never holds more than its capacity, and every variable has its *)
(* type, whatever its users do (video_queue.h:26-61).                       *)
THEOREM QueueTypeCorrect == QueueSpec => []QueueTypeOK
<1>1. QueueInv => QueueTypeOK  BY DEF QueueInv
<1> QED BY <1>1, QueueInvariant, PTL

-----------------------------------------------------------------------------
(* The refinement.                                                         *)

LEMMA InitBuffer == QueueInit => Buffer!Init
<1> SUFFICES ASSUME QueueInit PROVE Buffer!Init
    OBVIOUS
<1>1. Len(queue) = 0 /\ pushed = 0  BY DEF QueueInit
<1>2. pushed - Len(queue) = 0  BY <1>1
<1> QED BY <1>1, <1>2 DEF QueueInit, Buffer!Init, NoSample

\* PopWait takes the sample behind those that are gone, or changes nothing.
LEMMA ReturnBuffer == ASSUME QueueInv, Return PROVE [Buffer!Next]_(Buffer!vars)
<1> USE DEF QueueInv, QueueTypeOK
<1>1. CASE queue = <<>>
      BY <1>1 DEF Return, Buffer!vars
<1>2. CASE queue # <<>>
  <2>1. Len(queue) > 0 /\ Len(Tail(queue)) = Len(queue) - 1 /\ Head(queue) = queue[1]
        BY <1>2
  <2>2. queue[1] = pushed - Len(queue) + 1  BY <2>1 DEF Latest
  <2>3. Buffer!Take  BY <1>2, <2>1, <2>2 DEF Return, Buffer!Take
  <2> QED BY <2>3 DEF Buffer!Next
<1> QED BY <1>1, <1>2

LEMMA NextBuffer == QueueInv /\ [QueueNext]_queueVars => [Buffer!Next]_(Buffer!vars)
<1> SUFFICES ASSUME QueueInv, [QueueNext]_queueVars PROVE [Buffer!Next]_(Buffer!vars)
    OBVIOUS
<1> USE DEF QueueInv, QueueTypeOK
<1>1. CASE Push
  <2>1. /\ queue' = DropOldest(queue, pushed + 1) /\ pushed' = pushed + 1
        /\ popped' = popped /\ shuttingDown' = shuttingDown
        BY <1>1 DEF Push
  <2>2. Len(queue') = IF Len(queue) >= kCapacity THEN Len(queue) ELSE Len(queue) + 1
        BY <2>1, DropOldestType
  <2>3. Len(queue) \in Nat /\ pushed \in Nat /\ kCapacity \in Nat  BY QueueAssumption
  <2>4. pushed - (pushed - Len(queue)) = kCapacity <=> Len(queue) >= kCapacity
        BY <2>3
  <2>5. pushed' - Len(queue') = IF pushed - (pushed - Len(queue)) = kCapacity
                                THEN pushed - Len(queue) + 1 ELSE pushed - Len(queue)
    <3>1. CASE Len(queue) >= kCapacity
      <4>1. pushed' - Len(queue') = pushed - Len(queue) + 1  BY <2>1, <2>2, <2>3, <3>1
      <4> QED BY <2>4, <3>1, <4>1
    <3>2. CASE ~(Len(queue) >= kCapacity)
      <4>1. pushed' - Len(queue') = pushed - Len(queue)  BY <2>1, <2>2, <2>3, <3>2
      <4> QED BY <2>4, <3>2, <4>1
    <3> QED BY <3>1, <3>2
  <2>6. Buffer!Put  BY <2>1, <2>5, Zenon DEF Buffer!Put
  <2> QED BY <2>6 DEF Buffer!Next
<1>2. CASE Return  BY <1>2, ReturnBuffer
<1>3. CASE ShutdownFlag
  <2>1. Buffer!Close  BY <1>3 DEF ShutdownFlag, Buffer!Close
  <2> QED BY <2>1 DEF Buffer!Next
<1>4. CASE UNCHANGED <<queue, pushed, popped, shuttingDown>>
      BY <1>4 DEF Buffer!vars
<1>5. CASE PopWait
      BY <1>2, <1>4, <1>5 DEF PopWait, Enter, WakeUp, GiveUp, Sleep
<1>6. CASE Leave \/ SpuriousWakeup \/ TimeOut \/ ShutdownNotify \/ UNCHANGED queueVars
      BY <1>4, <1>6 DEF Leave, SpuriousWakeup, TimeOut, ShutdownNotify, queueVars
<1> QED BY <1>1, <1>3, <1>5, <1>6 DEF QueueNext

(* "Push a frame; drops the oldest if at capacity" (video_queue.h:24): every *)
(* step of the queue is one of the lossy buffer, or does not concern it: the *)
(* samples come out in order, each at most once, and none is lost that was  *)
(* not among the oldest of a full queue.                                    *)
THEOREM ImplementsBuffer == QueueSpec => Buffer!Spec
BY InitBuffer, NextBuffer, QueueInvariant, PTL DEF QueueSpec, Buffer!Spec

-----------------------------------------------------------------------------
(* The queue within the program.                                           *)

LEMMA NextQueue == [Next]_vars => [QueueNext]_queueVars
<1> SUFFICES ASSUME [Next]_vars PROVE [QueueNext]_queueVars
    OBVIOUS
<1>1. CASE SetUp
      BY <1>1 DEF SetUp, SetupFails, StartDecodeThread, ListenFails, Listen, Advertise
<1>2. CASE AdvertiseAnyway \/ Quit \/ DropSession
      BY <1>2 DEF AdvertiseAnyway, Quit, DropSession
<1>3. CASE TearDown
  <2>1. ShutdownFlag \/ ShutdownNotify \/ UNCHANGED queueVars
        BY <1>3 DEF TearDown, ShutdownQueue, NotifyQueue, StopDecoding, JoinDecodeThread,
                    ShutdownDecoder, StopListener, JoinListener, StopMdns, JoinMdns
  <2> QED BY <2>1 DEF QueueNext
<1>4. CASE Accept \/ AcceptEnds \/ AcceptReturns
      BY <1>4 DEF Accept, AcceptEnds, AcceptReturns
<1>5. CASE \E c \in Conn : StartSession(c) \/ OnVideo(c) \/ ReadLoopEnds(c)
  <2>1. Push \/ UNCHANGED queueVars  BY <1>5 DEF StartSession, OnVideo, ReadLoopEnds
  <2> QED BY <2>1 DEF QueueNext
<1>6. CASE CallPopWait  BY <1>6 DEF CallPopWait, QueueNext
<1>7. CASE DecodeStep
  <2>1. Leave \/ UNCHANGED queueVars
        BY <1>7 DEF DecodeStep, CheckRunning, PopReturns, Submit
  <2> QED BY <2>1 DEF QueueNext
<1>8. CASE MdnsStep  BY <1>8 DEF MdnsStep
<1>9. CASE UNCHANGED vars  BY <1>9 DEF vars
<1> QED BY <1>1, <1>2, <1>3, <1>4, <1>5, <1>6, <1>7, <1>8, <1>9 DEF Next

LEMMA UsesQueue == Spec => QueueSpec
<1>1. Init => QueueInit  BY DEF Init
<1> QED BY <1>1, NextQueue, PTL DEF Spec, QueueSpec

(* No lost wakeup: whatever the threads do, and in whatever order, the      *)
(* decode thread never sleeps on while there is a sample for it or after    *)
(* the queue's shutdown (video_queue.h:26-61).                              *)
THEOREM NoLostWakeup == Spec => []WakeupPending
<1>1. QueueInv => WakeupPending  BY DEF QueueInv
<1> QED BY <1>1, UsesQueue, QueueInvariant, PTL

(* What the decode thread gets are samples of a lossy buffer of kCapacity:   *)
(* the safety part of IsLossyBuffer (video_queue.h:24-50).                  *)
THEOREM ProgramImplementsBuffer == Spec => Buffer!Spec
BY UsesQueue, ImplementsBuffer, PTL

-----------------------------------------------------------------------------
(* What has been joined.                                                   *)

\* The places of TearDown behind the join of the decode thread, and behind
\* that of the listener thread.
NoDecoder  == {"decoder", "listener", "joinListener", "mdns", "joinMdns", "exited"}
NoListener == {"mdns", "joinMdns", "exited"}

\* The threads are not there yet, or were joined and do not come back.
Joined ==
    /\ main = "setup" => decoding = "none" /\ ~again
    /\ main \in {"setup", "listen"} => accepting = "none"
    /\ main \in NoDecoder => decoding \in Gone
    /\ main \in NoListener => accepting \in Gone
    /\ main = "exited" => responder \in Gone /\ ~open

LEMMA InitJoined == Init => Joined
BY DEF Init, Joined, NoDecoder, NoListener

\* A responder that is not there does nothing, and no packet opens a socket.
LEMMA MdnsStepJoined ==
    ASSUME Joined, MdnsStep PROVE Joined'
<1> USE DEF MdnsStep, mainVars, decodeVars, listenerVars
<1>1. UNCHANGED <<main, again, decoding, accepting>>  OBVIOUS
<1>2. UNCHANGED open
      BY DEF Responder, Burst, ThreadEnds, SelectFails, NoPacket, HandlePacket, Reannounce,
             Announces, Goes, Network, PeriodPasses, PacketArrives, socketVars
<1>3. responder \in Gone => responder' \in Gone
      BY DEF Responder, Burst, ThreadEnds, SelectFails, NoPacket, HandlePacket, Reannounce,
             Announces, Goes, Network, PeriodPasses, PacketArrives, Gone
<1> QED BY <1>1, <1>2, <1>3 DEF Joined

LEMMA MainJoined ==
    ASSUME Joined, SetUp \/ AdvertiseAnyway \/ Quit \/ DropSession \/ TearDown
    PROVE  Joined'
<1> USE DEF Joined, NoDecoder, NoListener, MainGoes, mainVars, decodeVars, listenerVars
<1>1. CASE SetupFails         BY <1>1 DEF SetupFails
<1>2. CASE StartDecodeThread  BY <1>2 DEF StartDecodeThread
<1>3. CASE ListenFails        BY <1>3 DEF ListenFails
<1>4. CASE Listen             BY <1>4 DEF Listen
<1>5. CASE Advertise          BY <1>5 DEF Advertise
<1>6. CASE AdvertiseAnyway    BY <1>6 DEF AdvertiseAnyway
<1>7. CASE Quit               BY <1>7 DEF Quit
<1>8. CASE DropSession        BY <1>8 DEF DropSession
<1>9. CASE ShutdownQueue      BY <1>9 DEF ShutdownQueue
<1>10. CASE NotifyQueue       BY <1>10 DEF NotifyQueue
<1>11. CASE StopDecoding      BY <1>11 DEF StopDecoding
<1>12. CASE JoinDecodeThread  BY <1>12 DEF JoinDecodeThread
<1>13. CASE ShutdownDecoder   BY <1>13 DEF ShutdownDecoder
<1>14. CASE StopListener      BY <1>14 DEF StopListener
<1>15. CASE JoinListener      BY <1>15 DEF JoinListener
<1>16. CASE StopMdns          BY <1>16 DEF StopMdns
<1>17. CASE JoinMdns
  <2>1. responder' \in Gone /\ ~open'  BY <1>17 DEF JoinMdns, StopClose, Gone
  <2> QED BY <1>17, <2>1 DEF JoinMdns
<1> QED BY <1>1, <1>2, <1>3, <1>4, <1>5, <1>6, <1>7, <1>8, <1>9, <1>10, <1>11, <1>12,
           <1>13, <1>14, <1>15, <1>16, <1>17 DEF SetUp, TearDown

LEMMA NextJoined == Joined /\ [Next]_vars => Joined'
<1> SUFFICES ASSUME Joined, [Next]_vars PROVE Joined'
    OBVIOUS
<1> USE DEF Joined, NoDecoder, NoListener, Gone, mainVars, decodeVars, listenerVars,
            mdnsVars, socketVars
<1>1. CASE SetUp \/ AdvertiseAnyway \/ Quit \/ DropSession \/ TearDown
      BY <1>1, MainJoined
<1>2. CASE Accept \/ AcceptEnds \/ AcceptReturns
      BY <1>2 DEF Accept, AcceptEnds, AcceptReturns
<1>3. ASSUME NEW c \in Conn, StartSession(c) \/ OnVideo(c) \/ ReadLoopEnds(c) PROVE Joined'
      BY <1>3 DEF StartSession, OnVideo, ReadLoopEnds
<1>4. CASE CallPopWait   BY <1>4 DEF CallPopWait
<1>5. CASE DecodeStep    BY <1>5 DEF DecodeStep, CheckRunning, PopReturns, Submit
<1>6. CASE MdnsStep      BY <1>6, MdnsStepJoined
<1>7. CASE UNCHANGED vars  BY <1>7 DEF vars
<1> QED BY <1>1, <1>2, <1>3, <1>4, <1>5, <1>6, <1>7 DEF Next

(* After any failure of Setup and any moment of the quit, whatever waits    *)
(* for how long: nobody submits to the decoder that is shut down, and App   *)
(* goes without a decode, listener or mDNS thread (main.cpp:846-875).       *)
THEOREM AllJoinedCorrect == Spec => []AllJoined
<1>1. Joined => AllJoined  BY DEF Joined, AllJoined, NoDecoder, NoListener, Gone
<1> QED BY <1>1, InitJoined, NextJoined, PTL DEF Spec
=============================================================================
