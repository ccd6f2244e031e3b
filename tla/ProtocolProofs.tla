--------------------------- MODULE ProtocolProofs ---------------------------
(* Proofs about reading the protocol.  FrameDecoder, for every payload,      *)
(* every bound and every way to cut the stream: the decoder keeps its place, *)
(* and what a Feed delivers is intact but for what the compaction            *)
(* overwrites.  AnnexB, for all NAL units: a payload is taken apart as it    *)
(* was put together.  ControlMessages, for all members: searching a flat     *)
(* object is as good as parsing it.                                          *)
EXTENDS FrameDecoder, AnnexB, ControlMessages,
        SharedLemmas, FiniteSetTheorems, SequenceTheorems, WellFoundedInduction, TLAPS

-----------------------------------------------------------------------------
(* What the sender writes.                                                 *)

LEMMA LengthIsReadBack ==
    ASSUME NEW v \in Nat, NEW bytes, NEW at \in Nat,
           \A i \in 1..4 : bytes[at + i] = WriteInt32BE(v)[i]
    PROVE  ReadInt32BE(bytes, at) = v
<1> DEFINE b1 == bytes[at + 1]  b2 == bytes[at + 2]  b3 == bytes[at + 3]  b4 == bytes[at + 4]
           low == v \div 256  mid == v \div 65536
<1>1. b1 = v \div 16777216 /\ b2 = mid % 256 /\ b3 = low % 256 /\ b4 = v % 256
      BY SMT DEF WriteInt32BE
<1> HIDE DEF b1, b2, b3, b4
<1>2. mid = low \div 256  BY SMT
<1>3. b1 = mid \div 256  BY <1>1, SMT
<1>4. b4 = v - 256 * low  BY <1>1, SMT
<1>5. low \in Nat /\ mid \in Nat /\ b1 \in Nat  BY <1>1, SMT
<1>6. b3 = low - 256 * mid  BY <1>1, <1>2, SMT
<1>7. b2 = mid - 256 * b1  BY <1>1, <1>3, SMT
<1>8. b1 * 16777216 + b2 * 65536 + b3 * 256 + b4 = v
  <2> HIDE DEF low, mid
  <2> QED BY <1>4, <1>5, <1>6, <1>7, SMT
<1> QED BY <1>8, SMT DEF ReadInt32BE, b1, b2, b3, b4

LEMMA HeaderType ==
    ASSUME NEW v \in Nat PROVE WriteInt32BE(v) \in Seq(Nat) /\ Len(WriteInt32BE(v)) = 4
<1>1. /\ v \div 16777216 \in Nat /\ (v \div 65536) % 256 \in Nat
      /\ (v \div 256) % 256 \in Nat /\ v % 256 \in Nat
      BY SMT
<1> QED BY <1>1, SMT DEF WriteInt32BE

\* What is written for one frame.
Chunk(k, len) == IF Corrupt(len) THEN WriteInt32BE(len) ELSE EncodeFrame(k, len)
ChunkLen(len) == IF Corrupt(len) THEN 4 ELSE 4 + len

LEMMA WrittenUnfolds ==
    ASSUME NEW ls \in Seq(Nat)
    PROVE  /\ Written(ls)[0] = <<>>
           /\ \A k \in 1..Len(ls) : Written(ls)[k] = Written(ls)[k - 1] \o Chunk(k, ls[k])
<1> DEFINE Def(f, k) == IF k = 0 THEN <<>> ELSE f[k - 1] \o Chunk(k, ls[k])
           S == {n \in Nat : \E f : f = [k \in 0..n |-> Def(f, k)]}
<1>1. 0 \in S
  <2> DEFINE f == [k \in 0..0 |-> <<>>]
  <2>1. f = [k \in 0..0 |-> Def(f, k)]  OBVIOUS
  <2> QED BY <2>1
<1>2. ASSUME NEW n \in S PROVE n + 1 \in S
  <2>1. PICK f : f = [k \in 0..n |-> Def(f, k)]  OBVIOUS
  <2> DEFINE g == [k \in 0..(n + 1) |-> IF k = n + 1 THEN Def(f, k) ELSE f[k]]
  <2>2. ASSUME NEW k \in 0..(n + 1) PROVE g[k] = Def(g, k)
    <3>1. CASE k = 0  BY <2>1, <3>1
    <3>2. CASE k # 0
      <4>1. g[k - 1] = f[k - 1]  BY <3>2
      <4>2. g[k] = Def(f, k)
        <5>1. CASE k = n + 1  BY <5>1
        <5>2. CASE k # n + 1
          <6>1. k \in 0..n /\ g[k] = f[k]  BY <5>2
          <6> HIDE DEF Def, g
          <6> QED BY <2>1, <6>1
        <5> QED BY <5>1, <5>2
      <4> QED BY <3>2, <4>1, <4>2
    <3> QED BY <3>1, <3>2
  <2>3. g = [k \in 0..(n + 1) |-> Def(g, k)]
    <3>1. g = [k \in 0..(n + 1) |-> g[k]]  OBVIOUS
    <3> HIDE DEF g, Def
    <3> QED BY <2>2, <3>1
  <2> HIDE DEF g, Def
  <2> QED BY <2>3
<1>3. Len(ls) \in S
  <2> HIDE DEF S
  <2>1. S \in SUBSET Nat  BY DEF S
  <2>2. S = Nat  BY <1>1, <1>2, <2>1, SetInduction
  <2> QED BY <2>2
<1>4. Written(ls) = [k \in 0..Len(ls) |-> Def(Written(ls), k)]
  <2>1. \E f : f = [k \in 0..Len(ls) |-> Def(f, k)]  BY <1>3
  <2>2. Written(ls) = CHOOSE f : f = [k \in 0..Len(ls) |-> Def(f, k)]
        BY Zenon DEF Written, Chunk
  <2> HIDE DEF Def
  <2> QED BY <2>1, <2>2
<1> HIDE DEF Def
<1>5. \A k \in 0..Len(ls) : Written(ls)[k] = Def(Written(ls), k)  BY <1>4
<1>6. Written(ls)[0] = <<>>  BY <1>5 DEF Def
<1>7. ASSUME NEW k \in 1..Len(ls)
      PROVE  Written(ls)[k] = Written(ls)[k - 1] \o Chunk(k, ls[k])
  <2>1. k \in 0..Len(ls) /\ k # 0  OBVIOUS
  <2> QED BY <1>5, <2>1, Zenon DEF Def
<1> QED BY <1>6, <1>7

LEMMA FramingConstants ==
    /\ MaxFrames \in Nat /\ kMaxFrameSize \in Nat /\ Lengths \subseteq 0..kMaxFrameSize
    /\ \A k \in 1..MaxFrames, i \in 1..kMaxFrameSize : PayloadByte(k, i) \in 0..255
BY FramingAssumption, SMT

\* Where the k-th frame of a stream ends.
End(ls, k) == Len(Written(ls)[k])

LEMMA StreamsType ==
    ASSUME NEW ls \in Streams
    PROVE  /\ ls \in Seq(Nat) /\ Len(ls) <= MaxFrames
           /\ \A k \in 1..Len(ls) : ls[k] \in Nat /\ ls[k] <= kMaxFrameSize + 1
           /\ \A k \in 1..Len(ls) : Corrupt(ls[k]) => k = Len(ls)
<1>1. PICK n \in 0..MaxFrames : ls \in [1..n -> Lengths \cup {kMaxFrameSize + 1}]
      BY DEF Streams, BoundedSeq, SeqOf
<1>2. Lengths \cup {kMaxFrameSize + 1} \subseteq 0..(kMaxFrameSize + 1)
      BY FramingConstants, SMT
<1>3. n \in Nat /\ MaxFrames \in Nat /\ kMaxFrameSize \in Nat  BY FramingConstants, SMT
<1>4. ls \in [1..n -> Nat]  BY <1>1, <1>2, <1>3, SMT
<1>5. ls \in Seq(Nat) /\ Len(ls) = n  BY <1>3, <1>4, SMT
<1>6. \A k \in 1..Len(ls) : ls[k] \in Nat /\ ls[k] <= kMaxFrameSize + 1
      BY <1>1, <1>2, <1>3, <1>5, SMT
<1>7. ASSUME NEW k \in 1..Len(ls), Corrupt(ls[k]) PROVE k = Len(ls)
      BY <1>3, <1>5, <1>7, SMT DEF Streams
<1> QED BY <1>1, <1>3, <1>5, <1>6, <1>7, SMT

LEMMA ChunkType ==
    ASSUME NEW k \in 1..MaxFrames, NEW len \in Nat, len <= kMaxFrameSize + 1
    PROVE  /\ Chunk(k, len) \in Seq(Nat) /\ Len(Chunk(k, len)) = ChunkLen(len)
           /\ \A i \in 1..4 : Chunk(k, len)[i] = WriteInt32BE(len)[i]
           /\ ~Corrupt(len) => \A i \in 1..len : Chunk(k, len)[4 + i] = PayloadByte(k, i)
<1> DEFINE head == WriteInt32BE(len)  body == Payload(k, len)
<1>1. head \in Seq(Nat) /\ Len(head) = 4  BY HeaderType
<1>2. CASE Corrupt(len)  BY <1>1, <1>2, Zenon DEF Chunk, ChunkLen
<1>3. CASE ~Corrupt(len)
  <2>1. kMaxFrameSize \in Nat /\ len <= kMaxFrameSize
        BY <1>3, FramingConstants, SMT DEF Corrupt
  <2>2. \A i \in 1..len : PayloadByte(k, i) \in Nat
    <3>1. \A i \in 1..len : i \in 1..kMaxFrameSize  BY <2>1, SMT
    <3>2. 0..255 \subseteq Nat  BY SMT
    <3> QED BY <3>1, <3>2, FramingConstants, Zenon
  <2>3. body \in Seq(Nat) /\ Len(body) = len /\ \A i \in 1..len : body[i] = PayloadByte(k, i)
        BY <2>2, SMT DEF Payload
  <2>4. Chunk(k, len) = head \o body  BY <1>3, Zenon DEF Chunk, EncodeFrame
  <2>5. ChunkLen(len) = 4 + len  BY <1>3, Zenon DEF ChunkLen
  <2> HIDE DEF head, body
  <2>10. head \in Seq(Nat) /\ body \in Seq(Nat)  BY <1>1, <2>3
  <2>9. /\ head \o body \in Seq(Nat)
        /\ Len(head \o body) = Len(head) + Len(body)
        /\ \A i \in 1..Len(head) : (head \o body)[i] = head[i]
        /\ \A i \in 1..Len(body) : (head \o body)[Len(head) + i] = body[i]
        BY <2>10, Concatenated
  <2>6. /\ head \o body \in Seq(Nat) /\ Len(head \o body) = 4 + len
        /\ \A i \in 1..4 : (head \o body)[i] = head[i]
        /\ \A i \in 1..len : (head \o body)[4 + i] = body[i]
        BY <1>1, <2>3, <2>9
  <2>7. \A i \in 1..4 : Chunk(k, len)[i] = WriteInt32BE(len)[i]
        BY <2>4, <2>6, Zenon DEF head
  <2>8. \A i \in 1..len : Chunk(k, len)[4 + i] = PayloadByte(k, i)
        BY <2>3, <2>4, <2>6, Zenon
  <2> QED BY <2>4, <2>5, <2>6, <2>7, <2>8, Zenon
<1> QED BY <1>2, <1>3

LEMMA ChunkLenType == ASSUME NEW len \in Nat PROVE ChunkLen(len) \in Nat /\ ChunkLen(len) >= 4
BY SMT DEF ChunkLen

LEMMA WrittenType ==
    ASSUME NEW ls \in Streams
    PROVE  /\ \A k \in 0..Len(ls) : Written(ls)[k] \in Seq(Nat) /\ End(ls, k) \in Nat
           /\ End(ls, 0) = 0
           /\ \A k \in 1..Len(ls) : End(ls, k) = End(ls, k - 1) + ChunkLen(ls[k])
<1> DEFINE S == {n \in Nat : n <= Len(ls) => Written(ls)[n] \in Seq(Nat)}
<1>0. ls \in Seq(Nat) /\ Len(ls) \in Nat  BY StreamsType
<1>1. Written(ls)[0] = <<>>  BY <1>0, WrittenUnfolds
<1>2. ASSUME NEW k \in 1..Len(ls), Written(ls)[k - 1] \in Seq(Nat)
      PROVE  Written(ls)[k] \in Seq(Nat) /\ End(ls, k) = End(ls, k - 1) + ChunkLen(ls[k])
  <2>1. k \in 1..MaxFrames /\ ls[k] \in Nat /\ ls[k] <= kMaxFrameSize + 1
        BY <1>0, StreamsType, FramingConstants, SMT
  <2>2. Chunk(k, ls[k]) \in Seq(Nat) /\ Len(Chunk(k, ls[k])) = ChunkLen(ls[k])
        BY <2>1, ChunkType
  <2>3. Written(ls)[k] = Written(ls)[k - 1] \o Chunk(k, ls[k])  BY <1>0, WrittenUnfolds
  <2> DEFINE front == Written(ls)[k - 1]  back == Chunk(k, ls[k])
  <2>4. front \in Seq(Nat) /\ back \in Seq(Nat)  BY <1>2, <2>2
  <2> HIDE DEF front, back
  <2>5. front \o back \in Seq(Nat) /\ Len(front \o back) = Len(front) + Len(back)
        BY <2>4, Concatenated
  <2> QED BY <2>2, <2>3, <2>5 DEF End, front, back
<1>3. 0 \in S
  <2>1. <<>> \in Seq(Nat) /\ 0 \in Nat  OBVIOUS
  <2> QED BY <1>1, <2>1, Zenon
<1>4. ASSUME NEW n \in S PROVE n + 1 \in S
  <2> SUFFICES ASSUME n + 1 <= Len(ls) PROVE Written(ls)[n + 1] \in Seq(Nat)
      OBVIOUS
  <2>1. n + 1 \in 1..Len(ls) /\ Written(ls)[(n + 1) - 1] \in Seq(Nat)  BY <1>0, SMT
  <2> QED BY <1>2, <2>1
<1>5. \A n \in Nat : n <= Len(ls) => Written(ls)[n] \in Seq(Nat)
  <2> HIDE DEF S
  <2>1. S \in SUBSET Nat  BY DEF S
  <2>2. S = Nat  BY <1>3, <1>4, <2>1, SetInduction
  <2> QED BY <2>2 DEF S
<1>6. \A k \in 0..Len(ls) : Written(ls)[k] \in Seq(Nat) /\ End(ls, k) \in Nat
      BY <1>0, <1>5, SMT DEF End
<1>7. End(ls, 0) = 0  BY <1>1, SMT DEF End
<1>8. ASSUME NEW k \in 1..Len(ls) PROVE End(ls, k) = End(ls, k - 1) + ChunkLen(ls[k])
  <2>1. Written(ls)[k - 1] \in Seq(Nat)  BY <1>0, <1>5, SMT
  <2> QED BY <1>2, <2>1
<1> QED BY <1>6, <1>7, <1>8

\* What is written is a prefix of what is written later.
LEMMA WrittenGrows ==
    ASSUME NEW ls \in Streams, NEW j \in 0..Len(ls), NEW k \in j..Len(ls)
    PROVE  /\ End(ls, j) <= End(ls, k)
           /\ \A i \in 1..End(ls, j) : Written(ls)[k][i] = Written(ls)[j][i]
<1> DEFINE Grows(m) == /\ End(ls, j) <= End(ls, m)
                       /\ \A i \in 1..End(ls, j) : Written(ls)[m][i] = Written(ls)[j][i]
           S == {n \in Nat : j + n <= Len(ls) => Grows(j + n)}
<1>0. ls \in Seq(Nat) /\ Len(ls) \in Nat /\ j \in Nat /\ k \in Nat  BY StreamsType, SMT
<1>1. 0 \in S
  <2>1. End(ls, j) \in Nat  BY WrittenType
  <2> QED BY <1>0, <2>1, SMT
<1>2. ASSUME NEW n \in S PROVE n + 1 \in S
  <2> DEFINE m == j + n
  <2>0. m \in Nat /\ j + (n + 1) = m + 1 /\ n \in Nat  BY <1>0, SMT
  <2> SUFFICES ASSUME m + 1 <= Len(ls) PROVE Grows(m + 1)
      BY <2>0, SMT
  <2>1. m \in 0..Len(ls) /\ m + 1 \in 1..Len(ls) /\ (m + 1) - 1 = m  BY <1>0, <2>0, SMT
  <2>2. Grows(m)  BY <1>0, <2>1, SMT
  <2>3. Written(ls)[m] \in Seq(Nat) /\ End(ls, m) \in Nat /\ End(ls, j) \in Nat
        BY <2>1, WrittenType
  <2>4. m + 1 \in 1..MaxFrames /\ ls[m + 1] \in Nat /\ ls[m + 1] <= kMaxFrameSize + 1
        BY <1>0, <2>1, StreamsType, FramingConstants, SMT
  <2>5. Chunk(m + 1, ls[m + 1]) \in Seq(Nat)  BY <2>4, ChunkType
  <2>6. Written(ls)[m + 1] = Written(ls)[m] \o Chunk(m + 1, ls[m + 1])
        BY <1>0, <2>1, WrittenUnfolds
  <2>7. End(ls, m + 1) >= End(ls, m)
    <3>1. End(ls, m + 1) = End(ls, m) + Len(Chunk(m + 1, ls[m + 1]))
      <4> DEFINE front == Written(ls)[m]  back == Chunk(m + 1, ls[m + 1])
      <4>1. front \in Seq(Nat) /\ back \in Seq(Nat)  BY <2>3, <2>5
      <4> HIDE DEF front, back
      <4>2. Len(front \o back) = Len(front) + Len(back)  BY <4>1, Concatenated
      <4> QED BY <2>6, <4>2 DEF End, front, back
    <3>2. Len(Chunk(m + 1, ls[m + 1])) \in Nat  BY <2>5
    <3> QED BY <2>3, <3>1, <3>2
  <2>8. End(ls, m + 1) \in Nat  BY <2>1, WrittenType, SMT
  <2>9. ASSUME NEW i \in 1..End(ls, j) PROVE Written(ls)[m + 1][i] = Written(ls)[j][i]
    <3>1. i \in 1..Len(Written(ls)[m])  BY <2>2, <2>3, SMT DEF End
    <3>2. Written(ls)[m + 1][i] = Written(ls)[m][i]
      <4> DEFINE front == Written(ls)[m]  back == Chunk(m + 1, ls[m + 1])
      <4>1. front \in Seq(Nat) /\ back \in Seq(Nat) /\ i \in 1..Len(front)
            BY <2>3, <2>5, <3>1
      <4> HIDE DEF front, back
      <4>2. (front \o back)[i] = front[i]  BY <4>1, Concatenated
      <4> QED BY <2>6, <4>2 DEF front, back
    <3> QED BY <2>2, <3>2
  <2>10. End(ls, j) <= End(ls, m + 1)  BY <2>2, <2>3, <2>7, <2>8, SMT
  <2> QED BY <2>9, <2>10
<1>3. k - j \in S
  <2> HIDE DEF S
  <2>1. S \in SUBSET Nat  BY DEF S
  <2>2. S = Nat  BY <1>1, <1>2, <2>1, SetInduction
  <2> QED BY <1>0, <2>2, SMT
<1>4. Grows(j + (k - j))  BY <1>0, <1>3, SMT
<1> QED BY <1>0, <1>4, SMT

\* Where a frame's header and payload are in the stream.
LEMMA StreamBytes ==
    ASSUME NEW ls \in Streams
    PROVE  /\ Stream(ls) \in Seq(Nat) /\ Len(Stream(ls)) = End(ls, Len(ls))
           /\ \A k \in 1..Len(ls) : \A i \in 1..4 :
                  Stream(ls)[End(ls, k - 1) + i] = WriteInt32BE(ls[k])[i]
           /\ \A k \in 1..Len(ls) : ~Corrupt(ls[k]) => \A i \in 1..ls[k] :
                  Stream(ls)[End(ls, k - 1) + 4 + i] = PayloadByte(k, i)
<1>1. ls \in Seq(Nat) /\ Len(ls) \in Nat /\ Len(ls) \in 0..Len(ls)  BY StreamsType
<1>2. Stream(ls) \in Seq(Nat) /\ Len(Stream(ls)) = End(ls, Len(ls))
      BY <1>1, WrittenType DEF Stream, End
<1>3. ASSUME NEW k \in 1..Len(ls)
      PROVE  /\ \A i \in 1..4 : Stream(ls)[End(ls, k - 1) + i] = WriteInt32BE(ls[k])[i]
             /\ ~Corrupt(ls[k]) => \A i \in 1..ls[k] :
                    Stream(ls)[End(ls, k - 1) + 4 + i] = PayloadByte(k, i)
  <2> DEFINE front == Written(ls)[k - 1]  back == Chunk(k, ls[k])
  <2>1. k \in 1..MaxFrames /\ ls[k] \in Nat /\ ls[k] <= kMaxFrameSize + 1
        /\ k \in 0..Len(ls) /\ k - 1 \in 0..Len(ls)
        BY <1>1, StreamsType, FramingConstants
  <2>2. front \in Seq(Nat) /\ back \in Seq(Nat) /\ Len(back) = ChunkLen(ls[k])
        BY <2>1, WrittenType, ChunkType
  <2>3. \A i \in 1..4 : back[i] = WriteInt32BE(ls[k])[i]  BY <2>1, ChunkType
  <2>4. ~Corrupt(ls[k]) => \A i \in 1..ls[k] : back[4 + i] = PayloadByte(k, i)
        BY <2>1, ChunkType
  <2>5. Written(ls)[k] = front \o back  BY <1>1, WrittenUnfolds
  <2>6. Len(front) = End(ls, k - 1)  BY DEF End
  <2>7. \A i \in 1..End(ls, k) : Stream(ls)[i] = Written(ls)[k][i]
        BY <1>1, <2>1, WrittenGrows DEF Stream
  <2>8. End(ls, k) = End(ls, k - 1) + ChunkLen(ls[k]) /\ End(ls, k - 1) \in Nat
        BY <2>1, WrittenType
  <2>9. ChunkLen(ls[k]) \in Nat /\ ChunkLen(ls[k]) >= 4
        /\ (~Corrupt(ls[k]) => ChunkLen(ls[k]) = 4 + ls[k])
        BY <2>1, ChunkLenType DEF ChunkLen
  <2> HIDE DEF front, back
  <2>10. ASSUME NEW i \in 1..ChunkLen(ls[k]) PROVE Stream(ls)[End(ls, k - 1) + i] = back[i]
    <3>1. (front \o back)[Len(front) + i] = back[i]  BY <2>2, Concatenated
    <3>2. End(ls, k - 1) + i \in 1..End(ls, k)  BY <2>8, <2>9
    <3> QED BY <2>5, <2>6, <2>7, <3>1, <3>2
  <2>11. \A i \in 1..4 : i \in 1..ChunkLen(ls[k])  BY <2>9
  <2>12. ASSUME ~Corrupt(ls[k]), NEW i \in 1..ls[k]
         PROVE  Stream(ls)[End(ls, k - 1) + 4 + i] = PayloadByte(k, i)
    <3>1. 4 + i \in 1..ChunkLen(ls[k]) /\ End(ls, k - 1) + 4 + i = End(ls, k - 1) + (4 + i)
          BY <2>1, <2>8, <2>9, <2>12, SMTT(30)
    <3> QED BY <2>4, <2>10, <2>12, <3>1
  <2> QED BY <2>3, <2>10, <2>11, <2>12
<1> QED BY <1>2, <1>3

\* The frames' ends, as the argument needs them.
LEMMA Ends ==
    ASSUME NEW ls \in Streams
    PROVE  /\ Len(ls) \in Nat /\ End(ls, 0) = 0
           /\ \A k \in 0..Len(ls) : End(ls, k) \in Nat
           /\ \A k \in 1..Len(ls) : ls[k] \in Nat
           /\ \A k \in 1..Len(ls) :
                  /\ Corrupt(ls[k]) => k = Len(ls) /\ End(ls, k) = End(ls, k - 1) + 4
                  /\ ~Corrupt(ls[k]) => End(ls, k) = End(ls, k - 1) + 4 + ls[k]
           /\ \A j, k \in 0..Len(ls) : j <= k => End(ls, j) <= End(ls, k)
<1>1. ls \in Seq(Nat) /\ Len(ls) \in Nat /\ \A k \in 1..Len(ls) : ls[k] \in Nat
      BY StreamsType
<1>2. ASSUME NEW k \in 1..Len(ls)
      PROVE  /\ Corrupt(ls[k]) => k = Len(ls) /\ End(ls, k) = End(ls, k - 1) + 4
             /\ ~Corrupt(ls[k]) => End(ls, k) = End(ls, k - 1) + 4 + ls[k]
  <2>1. End(ls, k) = End(ls, k - 1) + ChunkLen(ls[k])  BY WrittenType
  <2>2. k - 1 \in 0..Len(ls)  BY <1>1
  <2>3. End(ls, k - 1) \in Nat  BY <2>2, WrittenType
  <2>4. Corrupt(ls[k]) => k = Len(ls)  BY StreamsType
  <2>5. ls[k] \in Nat /\ ChunkLen(ls[k]) = IF Corrupt(ls[k]) THEN 4 ELSE 4 + ls[k]
        BY <1>1 DEF ChunkLen
  <2> QED BY <2>1, <2>3, <2>4, <2>5
<1>3. ASSUME NEW j \in 0..Len(ls), NEW k \in 0..Len(ls), j <= k
      PROVE  End(ls, j) <= End(ls, k)
  <2>1. k \in j..Len(ls)  BY <1>1, <1>3
  <2> QED BY <2>1, WrittenGrows
<1> QED BY <1>1, <1>2, <1>3, WrittenType

-----------------------------------------------------------------------------
(* The extraction loop.                                                    *)

\* One round of it, with the rounds that follow.
Round(scan, buf, end, at) ==
    LET len      == ReadInt32BE(buf, at)
        stop(ok) == [pending |-> <<>>, cursor |-> at, valid |-> ok]
        rest     == scan[at + kFrameHeaderSize + len]
    IN IF end - at < kFrameHeaderSize THEN stop(TRUE)
       ELSE IF Corrupt(len) THEN stop(FALSE)
       ELSE IF Missing(end - at, len) THEN stop(TRUE)
       ELSE [rest EXCEPT !.pending = Pending(at, len) \o @]

LEMMA RoundsFollow ==
    ASSUME NEW buf, NEW end \in Nat, NEW at \in 0..end,
           at + 4 <= end => ReadInt32BE(buf, at) \in Nat,
           NEW f, NEW g, \A i \in (at + 1)..end : f[i] = g[i]
    PROVE  Round(f, buf, end, at) = Round(g, buf, end, at)
<1> DEFINE len == ReadInt32BE(buf, at)
<1>1. CASE end - at < kFrameHeaderSize  BY <1>1, Zenon DEF Round
<1>2. CASE ~(end - at < kFrameHeaderSize) /\ Corrupt(len)  BY <1>2, Zenon DEF Round
<1>3. CASE ~(end - at < kFrameHeaderSize) /\ Missing(end - at, len)  BY <1>3, Zenon DEF Round
<1>4. CASE /\ ~(end - at < kFrameHeaderSize)
           /\ ~Corrupt(len) /\ ~Missing(end - at, len)
  <2>1. len \in Nat  BY <1>4 DEF kFrameHeaderSize
  <2> HIDE DEF len
  <2>2. at + kFrameHeaderSize + len \in (at + 1)..end
        BY <1>4, <2>1 DEF Missing, kFrameHeaderSize
  <2>3. f[at + kFrameHeaderSize + len] = g[at + kFrameHeaderSize + len]  BY <2>2
  <2> QED BY <2>3, Zenon DEF Round, len
<1> QED BY <1>1, <1>2, <1>3, <1>4, Zenon

LEMMA ScanUnfolds ==
    ASSUME NEW buf, NEW end \in Nat,
           \A at \in 0..end : at + 4 <= end => ReadInt32BE(buf, at) \in Nat
    PROVE  \A at \in 0..end : Scan(buf, end)[at] = Round(Scan(buf, end), buf, end, at)
<1> DEFINE Solves(f, n) == f = [at \in (end - n)..end |-> Round(f, buf, end, at)]
           S == {n \in Nat : n <= end => \E f : Solves(f, n)}
<1>1. 0 \in S
  <2> DEFINE none == <<>>
             f == [at \in (end - 0)..end |-> Round(none, buf, end, at)]
  <2>1. ASSUME NEW at \in (end - 0)..end
        PROVE  Round(none, buf, end, at) = Round(f, buf, end, at)
    <3>1. at = end /\ at \in 0..end /\ ~(at + 4 <= end) /\ \A i \in (at + 1)..end : FALSE
          BY SMT
    <3> HIDE DEF f, none
    <3> QED BY <3>1, RoundsFollow
  <2>2. f = [at \in (end - 0)..end |-> Round(f, buf, end, at)]  BY <2>1
  <2>3. \E h : Solves(h, 0)  BY <2>2
  <2> QED BY <2>3
<1>2. ASSUME NEW n \in S PROVE n + 1 \in S
  <2> SUFFICES ASSUME n + 1 <= end PROVE \E g : Solves(g, n + 1)
      OBVIOUS
  <2>0. n \in Nat /\ n <= end  OBVIOUS
  <2>1. PICK f : Solves(f, n)  BY <2>0
  <2> DEFINE first == end - (n + 1)
             g == [at \in first..end |-> IF at = first THEN Round(f, buf, end, at) ELSE f[at]]
  <2>2. first \in 0..end /\ \A i \in (end - n)..end : i \in first..end /\ i # first
        BY <2>0
  <2>3. \A i \in (end - n)..end : g[i] = f[i]  BY <2>2
  <2>4. ASSUME NEW at \in first..end PROVE g[at] = Round(g, buf, end, at)
    <3>1. at \in 0..end /\ \A i \in (at + 1)..end : i \in (end - n)..end  BY <2>0
    <3>2. g[at] = Round(f, buf, end, at)
      <4>1. CASE at = first  BY <4>1
      <4>2. CASE at # first
        <5>1. at \in (end - n)..end  BY <2>0, <4>2
        <5>2. g[at] = f[at]  BY <2>3, <5>1
        <5> HIDE DEF g
        <5> QED BY <2>1, <5>1, <5>2
      <4> QED BY <4>1, <4>2
    <3>3. Round(f, buf, end, at) = Round(g, buf, end, at)
      <4>1. \A i \in (at + 1)..end : f[i] = g[i]  BY <2>3, <3>1
      <4> HIDE DEF g
      <4> QED BY <3>1, <4>1, RoundsFollow
    <3> QED BY <3>2, <3>3
  <2>5. g = [at \in first..end |-> Round(g, buf, end, at)]
    <3>1. g = [at \in first..end |-> g[at]]  OBVIOUS
    <3> HIDE DEF g
    <3> QED BY <2>4, <3>1
  <2>6. Solves(g, n + 1)  BY <2>5
  <2> HIDE DEF g, Solves
  <2> QED BY <2>6
<1>3. end \in S
  <2> HIDE DEF S
  <2>1. S \in SUBSET Nat  BY DEF S
  <2>2. S = Nat  BY <1>1, <1>2, <2>1, SetInduction
  <2> QED BY <2>2
<1>4. \E f : f = [at \in 0..end |-> Round(f, buf, end, at)]
  <2>1. \E f : Solves(f, end)  BY <1>3
  <2>2. end - end = 0  OBVIOUS
  <2> QED BY <2>1, <2>2
<1>5. Scan(buf, end) = CHOOSE f : f = [at \in 0..end |-> Round(f, buf, end, at)]
      BY Zenon DEF Scan, Round
<1>6. Scan(buf, end) = [at \in 0..end |-> Round(Scan(buf, end), buf, end, at)]
  <2> HIDE DEF Solves, S
  <2> QED BY <1>4, <1>5
<1> HIDE DEF Solves, S
<1> QED BY <1>6

\* The frames from the j-th to the m-th, in a buffer that starts behind the d-th.
Spans(ls, d, j, m) ==
    [i \in 1..(m - j) |-> <<End(ls, j + i - 1) - End(ls, d) + 4, ls[j + i]>>]

LEMMA SpansGrow ==
    ASSUME NEW ls \in Streams, NEW m \in 0..Len(ls), NEW d \in 0..m, NEW j \in d..m, j < m
    PROVE  Spans(ls, d, j, m) = Pending(End(ls, j) - End(ls, d), ls[j + 1]) \o Spans(ls, d, j + 1, m)
<1> DEFINE Span(k) == <<End(ls, k) - End(ls, d) + 4, ls[k + 1]>>
           first == <<Span(j)>>  rest == Spans(ls, d, j + 1, m)
<1>1. Len(ls) \in Nat /\ m \in Nat /\ d \in Nat /\ j \in Nat /\ m <= Len(ls)  BY Ends
<1>2. ASSUME NEW k \in j..(m - 1) PROVE Span(k) \in Int \X Nat
  <2>1. End(ls, k) \in Nat /\ End(ls, d) \in Nat /\ ls[k + 1] \in Nat
    <3>1. k \in 0..Len(ls) /\ d \in 0..Len(ls) /\ k + 1 \in 1..Len(ls)  BY <1>1
    <3> QED BY <3>1, Ends
  <2> QED BY <2>1, SMTT(30)
<1>3. rest = [i \in 1..(m - j - 1) |-> Span(j + i)]
  <2>1. \A i \in 1..(m - j - 1) : (j + 1) + i - 1 = j + i /\ (j + 1) + i = (j + i) + 1
        BY <1>1
  <2>2. m - (j + 1) = m - j - 1  BY <1>1
  <2> QED BY <2>1, <2>2 DEF Spans
<1>4. Spans(ls, d, j, m) = [i \in 1..(m - j) |-> Span(j + i - 1)]
  <2>1. \A i \in 1..(m - j) : j + i = (j + i - 1) + 1  BY <1>1
  <2> QED BY <2>1 DEF Spans
<1>5. Pending(End(ls, j) - End(ls, d), ls[j + 1]) = first  BY DEF Pending, kFrameHeaderSize
<1> HIDE DEF Span
<1>6. rest \in Seq(Int \X Nat) /\ Len(rest) = m - j - 1
      /\ \A i \in 1..(m - j - 1) : rest[i] = Span(j + i)
  <2>1. \A i \in 1..(m - j - 1) : j + i \in j..(m - 1)  BY <1>1
  <2>2. m - j - 1 \in Nat  BY <1>1
  <2> HIDE DEF rest
  <2> QED BY <1>2, <1>3, <2>1, <2>2
<1>7. first \in Seq(Int \X Nat) /\ Len(first) = 1 /\ first[1] = Span(j)
  <2>1. Span(j) \in Int \X Nat  BY <1>1, <1>2
  <2> QED BY <2>1
<1> HIDE DEF first, rest
<1> DEFINE both == first \o rest
<1>8. /\ both = [i \in 1..(m - j) |-> both[i]]
      /\ both[1] = Span(j)
      /\ \A i \in 2..(m - j) : both[i] = rest[i - 1]
  <2>0. first \in Seq(Int \X Nat) /\ rest \in Seq(Int \X Nat)  BY <1>6, <1>7
  <2>1. /\ both \in Seq(Int \X Nat) /\ Len(both) = Len(first) + Len(rest)
        /\ \A i \in 1..Len(first) : both[i] = first[i]
        /\ \A i \in 1..Len(rest) : both[Len(first) + i] = rest[i]
        BY <2>0, Concatenated
  <2> HIDE DEF both
  <2>2. Len(both) = m - j  BY <1>1, <1>6, <1>7, <2>1
  <2>3. ASSUME NEW i \in 2..(m - j) PROVE both[i] = rest[i - 1]
    <3>1. i - 1 \in 1..Len(rest) /\ Len(first) + (i - 1) = i  BY <1>1, <1>6, <1>7
    <3> QED BY <2>1, <3>1
  <2> QED BY <1>7, <2>1, <2>2, <2>3
<1> HIDE DEF both
<1>9. ASSUME NEW i \in 1..(m - j) PROVE both[i] = Span(j + i - 1)
  <2>1. CASE i = 1
    <3>1. j + i - 1 = j  BY <1>1, <2>1
    <3> QED BY <1>8, <2>1, <3>1
  <2>2. CASE i # 1
    <3>1. i \in 2..(m - j) /\ i - 1 \in 1..(m - j - 1) /\ j + (i - 1) = j + i - 1
          BY <1>1, <2>2
    <3> QED BY <1>6, <1>8, <3>1
  <2> QED BY <2>1, <2>2
<1>10. both = [i \in 1..(m - j) |-> Span(j + i - 1)]  BY <1>8, <1>9
<1> QED BY <1>4, <1>5, <1>10 DEF both, rest

\* What the loop finds in a buffer that holds the stream from behind the d-th
\* frame up to its byte `last`, the m-th frame being the last complete one.
LEMMA ScanFinds ==
    ASSUME NEW ls \in Streams, NEW m \in 0..Len(ls), NEW d \in 0..m,
           \A k \in 1..m : ~Corrupt(ls[k]),
           NEW last \in Nat, last <= End(ls, Len(ls)), End(ls, m) <= last,
           m < Len(ls) /\ ~Corrupt(ls[m + 1]) => last < End(ls, m + 1),
           NEW end, end = last - End(ls, d),
           NEW buf, \A i \in 1..end : buf[i] = Stream(ls)[End(ls, d) + i]
    PROVE  Scan(buf, end)[0] =
               [pending |-> Spans(ls, d, d, m),
                cursor  |-> End(ls, m) - End(ls, d),
                valid   |-> ~(/\ m < Len(ls) /\ Corrupt(ls[m + 1])
                              /\ End(ls, m) + 4 <= last)]
<1> DEFINE At(k) == End(ls, k) - End(ls, d)
           good == ~(m < Len(ls) /\ Corrupt(ls[m + 1]) /\ End(ls, m) + 4 <= last)
           Reached(j) == [pending |-> Spans(ls, d, j, m), cursor |-> At(m), valid |-> good]
           scan == Scan(buf, end)
           S == {n \in Nat : n <= m - d => scan[At(m - n)] = Reached(m - n)}
<1>1. Len(ls) \in Nat /\ m \in Nat /\ d \in Nat /\ d <= m /\ m <= Len(ls)  BY Ends
<1>2. \A k \in d..m : /\ End(ls, k) \in Nat /\ End(ls, d) \in Nat
                      /\ End(ls, d) <= End(ls, k) /\ End(ls, k) <= End(ls, m)
  <2> SUFFICES ASSUME NEW k \in d..m
               PROVE /\ End(ls, k) \in Nat /\ End(ls, d) \in Nat
                     /\ End(ls, d) <= End(ls, k) /\ End(ls, k) <= End(ls, m)
      OBVIOUS
  <2>1. k \in 0..Len(ls) /\ d \in 0..Len(ls) /\ m \in 0..Len(ls) /\ d <= k /\ k <= m
        BY <1>1
  <2> QED BY <2>1, Ends
<1>3. end \in Nat /\ \A k \in d..m : At(k) \in 0..end
  <2>1. d \in d..m /\ m \in d..m  BY <1>1
  <2>2. End(ls, d) \in Nat /\ End(ls, m) \in Nat /\ End(ls, d) <= End(ls, m)  BY <1>2, <2>1
  <2>3. end \in Nat  BY <2>2
  <2> QED BY <1>2, <2>2, <2>3
<1>4. \A i \in 1..end : buf[i] \in Nat
  <2>1. Stream(ls) \in Seq(Nat) /\ Len(Stream(ls)) = End(ls, Len(ls)) /\ End(ls, Len(ls)) \in Nat
        BY <1>1, StreamBytes, Ends
  <2>2. End(ls, d) \in Nat  BY <1>1, <1>2
  <2>3. \A i \in 1..end : End(ls, d) + i \in 1..Len(Stream(ls))
    <3> DEFINE from == End(ls, d)  whole == Len(Stream(ls))
    <3>1. from \in Nat /\ whole \in Nat /\ end = last - from /\ last <= whole
          BY <2>1, <2>2
    <3> HIDE DEF from, whole
    <3>2. \A i \in 1..end : from + i \in 1..whole  BY <3>1
    <3> QED BY <3>2 DEF from, whole
  <2>4. \A i \in 1..Len(Stream(ls)) : Stream(ls)[i] \in Nat  BY <2>1, ElementOfSeq
  <2>5. \A i \in 1..end : buf[i] = Stream(ls)[End(ls, d) + i]  OBVIOUS
  <2> QED BY <2>3, <2>4, <2>5, Zenon
<1>5. \A at \in 0..end : at + 4 <= end => ReadInt32BE(buf, at) \in Nat
  <2> SUFFICES ASSUME NEW at \in 0..end, at + 4 <= end PROVE ReadInt32BE(buf, at) \in Nat
      OBVIOUS
  <2>1. /\ at + 1 \in 1..end /\ at + 2 \in 1..end /\ at + 3 \in 1..end /\ at + 4 \in 1..end
        BY <1>3
  <2>2. /\ buf[at + 1] \in Nat /\ buf[at + 2] \in Nat /\ buf[at + 3] \in Nat
        /\ buf[at + 4] \in Nat
        BY <1>4, <2>1
  <2> DEFINE b1 == buf[at + 1]  b2 == buf[at + 2]  b3 == buf[at + 3]  b4 == buf[at + 4]
  <2>3. b1 * 16777216 + b2 * 65536 + b3 * 256 + b4 \in Nat
    <3>1. b1 \in Nat /\ b2 \in Nat /\ b3 \in Nat /\ b4 \in Nat  BY <2>2
    <3> HIDE DEF b1, b2, b3, b4
    <3> QED BY <3>1, SMT
  <2> QED BY <2>3, SMT DEF ReadInt32BE
<1>6. \A at \in 0..end : scan[at] = Round(scan, buf, end, at)  BY <1>3, <1>5, ScanUnfolds
\* A header that is complete says the length of its frame.
<1>7. ASSUME NEW k \in d..m, k < Len(ls), At(k) + 4 <= end
      PROVE  ReadInt32BE(buf, At(k)) = ls[k + 1]
  <2>1. k \in Nat /\ k + 1 \in 1..Len(ls) /\ (k + 1) - 1 = k  BY <1>1, <1>7
  <2>2. ls[k + 1] \in Nat  BY <2>1, Ends
  <2>3. At(k) \in Nat /\ End(ls, k) \in Nat /\ End(ls, d) \in Nat  BY <1>2, <1>3
  <2>4. ASSUME NEW i \in 1..4 PROVE  buf[At(k) + i] = WriteInt32BE(ls[k + 1])[i]
    <3>1. End(ls, d) + (At(k) + i) = End(ls, k) + i  BY <2>3, SMTT(30)
    <3>4. At(k) + i \in 1..end
      <4> DEFINE at == At(k)
      <4>1. at \in Nat /\ at + 4 <= end /\ end \in Nat  BY <1>3, <1>7, <2>3
      <4> HIDE DEF at
      <4>2. at + i \in 1..end  BY <4>1
      <4> QED BY <4>2 DEF at
    <3>2. Stream(ls)[End(ls, k) + i] = WriteInt32BE(ls[k + 1])[i]  BY <2>1, StreamBytes, ZenonT(40)
    <3>3. buf[At(k) + i] = Stream(ls)[End(ls, d) + (At(k) + i)]  BY <3>4
    <3> QED BY <3>1, <3>2, <3>3, Zenon
  <2> HIDE DEF At
  <2>5. \A i \in 1..4 : buf[At(k) + i] = WriteInt32BE(ls[k + 1])[i]  BY <2>4
  <2> DEFINE at == At(k)  len == ls[k + 1]
  <2>6. at \in Nat /\ len \in Nat /\ \A i \in 1..4 : buf[at + i] = WriteInt32BE(len)[i]
        BY <2>2, <2>3, <2>5
  <2> HIDE DEF At, at, len
  <2>7. ReadInt32BE(buf, at) = len  BY <2>6, LengthIsReadBack
  <2> QED BY <2>7 DEF at, len

\* Nothing more is found behind the m-th frame.
<1>8. scan[At(m)] = Reached(m)
  <2>1. m \in d..m /\ At(m) \in 0..end /\ Spans(ls, d, m, m) = <<>>
    <3>1. m - m = 0 /\ m \in d..m  BY <1>1
    <3> QED BY <1>3, <3>1 DEF Spans
  <2>2. scan[At(m)] = Round(scan, buf, end, At(m))  BY <1>6, <2>1
  <2>3. end - At(m) = last - End(ls, m) /\ last \in Nat /\ End(ls, m) \in Nat
    <3>1. End(ls, m) \in Nat /\ End(ls, d) \in Nat  BY <1>2, <2>1
    <3> QED BY <3>1
  <2>4. CASE end - At(m) < 4
    <3>1. good  BY <2>3, <2>4
    <3>2. Round(scan, buf, end, At(m)) = [pending |-> <<>>, cursor |-> At(m), valid |-> TRUE]
          BY <2>4, Zenon DEF Round, kFrameHeaderSize
    <3> HIDE DEF good
    <3> QED BY <2>1, <2>2, <3>1, <3>2
  <2>5. CASE ~(end - At(m) < 4)
    <3>1. m < Len(ls)  BY <1>1, <2>3, <2>5
    <3>2. At(m) + 4 <= end /\ End(ls, m) + 4 <= last  BY <1>3, <2>1, <2>3, <2>5
    <3>3. ReadInt32BE(buf, At(m)) = ls[m + 1]  BY <1>7, <2>1, <3>1, <3>2
    <3>4. CASE Corrupt(ls[m + 1])
      <4>1. good = FALSE  BY <3>1, <3>2, <3>4
      <4>2. Round(scan, buf, end, At(m)) = [pending |-> <<>>, cursor |-> At(m), valid |-> FALSE]
            BY <2>5, <3>3, <3>4, Zenon DEF Round, kFrameHeaderSize
      <4> HIDE DEF good
      <4> QED BY <2>1, <2>2, <4>1, <4>2
    <3>5. CASE ~Corrupt(ls[m + 1])
      <4>1. good  BY <3>5
      <4>2. m + 1 \in 1..Len(ls) /\ (m + 1) - 1 = m  BY <1>1, <3>1
      <4>3. End(ls, m + 1) = End(ls, m) + 4 + ls[m + 1] /\ ls[m + 1] \in Nat
            BY <3>5, <4>2, Ends
      <4>4. Missing(end - At(m), ls[m + 1])
            BY <2>3, <3>1, <3>5, <4>3 DEF Missing, kFrameHeaderSize
      <4>5. Round(scan, buf, end, At(m)) = [pending |-> <<>>, cursor |-> At(m), valid |-> TRUE]
            BY <3>3, <3>5, <4>4, Zenon DEF Round, kFrameHeaderSize
      <4> HIDE DEF good
      <4> QED BY <2>1, <2>2, <4>1, <4>5
    <3> QED BY <3>4, <3>5
  <2> QED BY <2>4, <2>5
\* A complete frame is found, and then those behind it.
<1>9. ASSUME NEW j \in d..m, j < m, scan[At(j + 1)] = Reached(j + 1) PROVE scan[At(j)] = Reached(j)
  <2>1. /\ j \in Nat /\ j < Len(ls) /\ j + 1 \in d..m /\ j + 1 \in 1..m /\ j + 1 \in 1..Len(ls)
        /\ (j + 1) - 1 = j
        BY <1>1, <1>9
  <2>2. End(ls, j + 1) = End(ls, j) + 4 + ls[j + 1] /\ ls[j + 1] \in Nat /\ ~Corrupt(ls[j + 1])
        BY <2>1, Ends
  <2>3. At(j) \in 0..end /\ At(j + 1) \in 0..end  BY <1>3, <2>1
  <2>4. At(j + 1) = At(j) + 4 + ls[j + 1] /\ At(j) + 4 + ls[j + 1] <= end /\ At(j) + 4 <= end
    <3>1. End(ls, j) \in Nat /\ End(ls, d) \in Nat  BY <1>2
    <3>2. At(j + 1) = At(j) + 4 + ls[j + 1]
      <4> DEFINE here == End(ls, j)  there == End(ls, j + 1)  origin == End(ls, d)
                 more == ls[j + 1]
      <4>1. there = here + 4 + more /\ {here, origin, more} \subseteq Nat  BY <2>2, <3>1
      <4> HIDE DEF here, there, origin, more
      <4>2. there - origin = here - origin + 4 + more  BY <4>1
      <4> QED BY <4>2 DEF here, there, origin, more
    <3> HIDE DEF At
    <3> QED BY <1>3, <2>2, <2>3, <3>2, SMTT(30)
  <2>5. ReadInt32BE(buf, At(j)) = ls[j + 1]  BY <1>7, <2>1, <2>4
  <2>6. ~(end - At(j) < 4) /\ ~Missing(end - At(j), ls[j + 1])
    <3> DEFINE at == At(j)  len == ls[j + 1]
    <3>1. at \in Nat /\ len \in Nat /\ end \in Nat /\ at + 4 + len <= end
          BY <1>3, <2>2, <2>3, <2>4
    <3> HIDE DEF at, len
    <3>2. ~(end - at < 4) /\ ~(end - at < 4 + len)  BY <3>1
    <3>3. ~Missing(end - at, len)  BY <3>2 DEF Missing, kFrameHeaderSize
    <3> QED BY <3>2, <3>3 DEF at, len
  <2>7. Round(scan, buf, end, At(j))
            = [scan[At(j) + 4 + ls[j + 1]] EXCEPT !.pending = Pending(At(j), ls[j + 1]) \o @]
        BY <2>2, <2>5, <2>6, Zenon DEF Round, kFrameHeaderSize
  <2>8. scan[At(j)] = [Reached(j + 1) EXCEPT !.pending = Pending(At(j), ls[j + 1]) \o @]
        BY <1>6, <1>9, <2>3, <2>4, <2>7, Zenon
  <2>9. Spans(ls, d, j, m) = Pending(At(j), ls[j + 1]) \o Spans(ls, d, j + 1, m)
        BY <1>9, SpansGrow
  <2> HIDE DEF scan, good, At
  <2> QED BY <2>8, <2>9
<1>10. 0 \in S
  <2>1. m - 0 = m  BY <1>1
  <2> QED BY <1>8, <2>1, Zenon
<1>11. ASSUME NEW n \in S PROVE n + 1 \in S
  <2> DEFINE j == m - (n + 1)
  <2> SUFFICES ASSUME n + 1 <= m - d PROVE scan[At(j)] = Reached(j)
      OBVIOUS
  <2>1. j \in d..m /\ j < m /\ j + 1 = m - n /\ n <= m - d
    <3>1. n \in Nat  OBVIOUS
    <3>2. m \in Nat /\ d \in Nat  BY <1>1
    <3> HIDE DEF scan, Reached, At, S
    <3> QED BY <3>1, <3>2
  <2>2. scan[At(m - n)] = Reached(m - n)  BY <2>1
  <2> HIDE DEF j, scan, Reached, At
  <2> QED BY <1>9, <2>1, <2>2
<1>12. m - d \in S
  <2> HIDE DEF S
  <2>1. S \in SUBSET Nat  BY DEF S
  <2>2. S = Nat  BY <1>10, <1>11, <2>1, SetInduction
  <2> QED BY <1>1, <2>2
<1>13. scan[At(d)] = Reached(d)
  <2>1. m - (m - d) = d  BY <1>1
  <2> HIDE DEF scan, Reached, At
  <2> QED BY <1>12, <2>1
<1>14. At(d) = 0  BY <1>1, <1>2
<1> QED BY <1>13, <1>14

-----------------------------------------------------------------------------
(* The buffer.                                                             *)

LEMMA AppendedBytes ==
    ASSUME buffer \in Seq(Nat), size \in Nat, size <= Len(buffer), NEW data \in Seq(Nat)
    PROVE  /\ AppendToBuffer(data) \in Seq(Nat)
           /\ Len(AppendToBuffer(data)) >= size + Len(data)
           /\ \A i \in 1..size : AppendToBuffer(data)[i] = buffer[i]
           /\ \A i \in 1..Len(data) : AppendToBuffer(data)[size + i] = data[i]
<1> DEFINE need == size + Len(data)
           cap  == IF need <= Len(buffer) THEN Len(buffer)
                   ELSE IF 2 * Len(buffer) > need THEN 2 * Len(buffer) ELSE need
           byte(i) == IF i > size /\ i <= need THEN data[i - size]
                      ELSE IF i <= Len(buffer) THEN buffer[i] ELSE 0
<1>1. AppendToBuffer(data) = [i \in 1..cap |-> byte(i)]  BY Zenon DEF AppendToBuffer
<1>2. Len(buffer) \in Nat /\ Len(data) \in Nat /\ need \in Nat  OBVIOUS
<1>3. cap \in Nat /\ cap >= need /\ cap >= Len(buffer)
  <2> HIDE DEF need
  <2> QED BY <1>2
<1>4. ASSUME NEW i \in 1..cap PROVE byte(i) \in Nat
  <2>1. CASE i > size /\ i <= need
    <3>1. i - size \in 1..Len(data)  BY <1>2, <1>3, <2>1
    <3> QED BY <2>1, <3>1, SMTT(30)
  <2>2. CASE ~(i > size /\ i <= need) /\ i <= Len(buffer)
    <3>1. i \in 1..Len(buffer)  BY <1>3, <2>2
    <3> HIDE DEF need
    <3> QED BY <2>2, <3>1
  <2>3. CASE ~(i > size /\ i <= need) /\ ~(i <= Len(buffer))
    <3> HIDE DEF need
    <3> QED BY <2>3
  <2> QED BY <2>1, <2>2, <2>3
<1>5. \A i \in 1..size : i \in 1..cap /\ byte(i) = buffer[i]  BY <1>2, <1>3
<1>6. \A i \in 1..Len(data) : size + i \in 1..cap /\ byte(size + i) = data[i]
      BY <1>2, <1>3, SMTT(30)
<1> HIDE DEF cap, byte
<1>7. AppendToBuffer(data) \in Seq(Nat) /\ Len(AppendToBuffer(data)) = cap
      BY <1>1, <1>3, <1>4
<1> QED BY <1>1, <1>3, <1>5, <1>6, <1>7

LEMMA CompactedBytes ==
    ASSUME NEW buf \in Seq(Nat), NEW from \in Nat, NEW end \in Nat,
           from <= end, end <= Len(buf)
    PROVE  /\ Compact(buf, from, end) \in Seq(Nat)
           /\ Len(Compact(buf, from, end)) = Len(buf)
           /\ \A i \in 1..(end - from) : Compact(buf, from, end)[i] = buf[from + i]
           /\ \A i \in 1..end : i > end - from => Compact(buf, from, end)[i] = buf[i]
<1> DEFINE byte(i) == IF i <= end - from THEN buf[i + from] ELSE buf[i]
<1>1. Compact(buf, from, end) = [i \in 1..Len(buf) |-> byte(i)]  BY Zenon DEF Compact
<1>2. Len(buf) \in Nat  OBVIOUS
<1>3. ASSUME NEW i \in 1..Len(buf) PROVE byte(i) \in Nat
  <2>1. CASE i <= end - from
    <3>1. i + from \in 1..Len(buf)  BY <1>2, <2>1
    <3> QED BY <2>1, <3>1
  <2>2. CASE ~(i <= end - from)  BY <2>2
  <2> QED BY <2>1, <2>2
<1>4. \A i \in 1..(end - from) : i \in 1..Len(buf) /\ i + from = from + i  BY <1>2
<1>5. \A i \in 1..end : i \in 1..Len(buf)  BY <1>2
<1>6. Compact(buf, from, end) \in Seq(Nat) /\ Len(Compact(buf, from, end)) = Len(buf)
  <2> HIDE DEF byte
  <2> QED BY <1>1, <1>2, <1>3
<1> QED BY <1>1, <1>4, <1>5, <1>6

-----------------------------------------------------------------------------
(* How far the stream has been extracted.                                  *)

LEMMA LastComplete ==
    ASSUME NEW ls \in Streams, NEW d \in 0..Len(ls), NEW last \in Nat, End(ls, d) <= last,
           \A k \in 1..d : ~Corrupt(ls[k])
    PROVE  \E m \in d..Len(ls) :
               /\ \A k \in 1..m : ~Corrupt(ls[k])
               /\ End(ls, m) <= last
               /\ m < Len(ls) /\ ~Corrupt(ls[m + 1]) => last < End(ls, m + 1)
<1> DEFINE Arrived(m) == End(ls, m) <= last /\ \A k \in 1..m : ~Corrupt(ls[k])
           T == {Len(ls) - m : m \in {j \in d..Len(ls) : Arrived(j)}}
<1>1. Len(ls) \in Nat /\ d \in Nat  BY Ends
<1>2. T \in SUBSET Nat /\ T # {}
  <2>1. d \in {j \in d..Len(ls) : Arrived(j)}  BY <1>1
  <2> QED BY <1>1, <2>1
<1>3. PICK x \in T : \A y \in T : x <= y
  <2> HIDE DEF T
  <2> QED BY <1>2, LeastElement
<1>4. PICK m \in d..Len(ls) : Arrived(m) /\ x = Len(ls) - m  BY <1>3
<1>5. ASSUME m < Len(ls), ~Corrupt(ls[m + 1]) PROVE last < End(ls, m + 1)
  <2> SUFFICES ASSUME ~(last < End(ls, m + 1)) PROVE FALSE
      OBVIOUS
  <2>1. m + 1 \in d..Len(ls) /\ m + 1 \in 0..Len(ls) /\ m \in Nat  BY <1>1, <1>5
  <2>2. End(ls, m + 1) \in Nat  BY <2>1, Ends
  <2>3. Arrived(m + 1)
    <3>1. ASSUME NEW k \in 1..(m + 1) PROVE ~Corrupt(ls[k])
      <4>1. k \in 1..m \/ k = m + 1  BY <2>1
      <4> QED BY <1>4, <1>5, <4>1
    <3>2. End(ls, m + 1) <= last  BY <2>2
    <3> QED BY <3>1, <3>2
  <2>4. Len(ls) - (m + 1) \in T
    <3> DEFINE next == m + 1
    <3>1. next \in d..Len(ls) /\ Arrived(next)  BY <2>1, <2>3
    <3> HIDE DEF next, Arrived
    <3>2. Len(ls) - next \in T  BY <3>1
    <3> QED BY <3>2 DEF next
  <2> HIDE DEF T
  <2>5. x <= Len(ls) - (m + 1)  BY <1>3, <2>4
  <2> QED BY <1>1, <1>4, <2>1, <2>5
<1> QED BY <1>4, <1>5

\* A corrupt length has arrived: it can only be the one behind the last frame.
LEMMA SeenIsNext ==
    ASSUME NEW ls \in Streams, NEW m \in 0..Len(ls), NEW last \in Nat,
           \A k \in 1..m : ~Corrupt(ls[k]),
           m < Len(ls) /\ ~Corrupt(ls[m + 1]) => last < End(ls, m + 1)
    PROVE  (\E k \in 1..Len(ls) : Corrupt(ls[k]) /\ End(ls, k - 1) + 4 <= last)
           <=> (m < Len(ls) /\ Corrupt(ls[m + 1]) /\ End(ls, m) + 4 <= last)
<1>1. Len(ls) \in Nat /\ m \in Nat  BY Ends
<1>2. ASSUME m < Len(ls), Corrupt(ls[m + 1]), End(ls, m) + 4 <= last
      PROVE  \E k \in 1..Len(ls) : Corrupt(ls[k]) /\ End(ls, k - 1) + 4 <= last
  <2>1. m + 1 \in 1..Len(ls) /\ (m + 1) - 1 = m  BY <1>1, <1>2
  <2> QED BY <1>2, <2>1
<1>3. ASSUME NEW k \in 1..Len(ls), Corrupt(ls[k]), End(ls, k - 1) + 4 <= last
      PROVE  m < Len(ls) /\ Corrupt(ls[m + 1]) /\ End(ls, m) + 4 <= last
  <2>1. k = Len(ls) /\ m < k  BY <1>1, <1>3, Ends
  <2>2. CASE m + 1 = k
    <3>1. k - 1 = m  BY <1>1, <2>2
    <3> QED BY <1>3, <2>1, <2>2, <3>1
  <2>3. CASE m + 1 # k
    <3>1. m + 1 \in 1..Len(ls) /\ m + 1 \in 0..Len(ls) /\ k - 1 \in 0..Len(ls) /\ m + 1 <= k - 1
          BY <1>1, <2>1, <2>3
    <3>2. ~Corrupt(ls[m + 1])  BY <2>1, <2>3, <3>1, Ends
    <3>3. last < End(ls, m + 1)  BY <2>1, <3>2
    <3>4. /\ End(ls, m + 1) <= End(ls, k - 1)
          /\ End(ls, m + 1) \in Nat /\ End(ls, k - 1) \in Nat
          BY <3>1, Ends
    <3> QED BY <1>3, <3>3, <3>4
  <2> QED BY <2>2, <2>3
<1> QED BY <1>2, <1>3

-----------------------------------------------------------------------------
(* The decoder keeps its place: the buffer holds what has arrived behind    *)
(* the frames that were extracted, and no complete frame.                    *)

Extracted == Len(extracted)

FramingTypeOK ==
    /\ lens \in Streams /\ wire = Stream(lens)
    /\ fed \in 0..Len(wire)
    /\ extracted \in Seq(Seq(Nat)) /\ delivered \in Nat

ExtractedInOrder ==
    /\ Extracted \in 0..Len(lens) /\ End(lens, Extracted) <= fed
    /\ \A k \in 1..Extracted : ~Corrupt(lens[k]) /\ Len(extracted[k]) = lens[k]

InPlace ==
    /\ buffer \in Seq(Nat) /\ size \in Nat /\ size <= Len(buffer)
    /\ cursor = 0 /\ size = fed - End(lens, Extracted)
    /\ \A i \in 1..size : buffer[i] = wire[End(lens, Extracted) + i]
    /\ Extracted < Len(lens) /\ ~Corrupt(lens[Extracted + 1]) => fed < End(lens, Extracted + 1)

FrameInv == /\ FramingTypeOK /\ ExtractedInOrder /\ InPlace
            /\ ~valid <=> CorruptSeen
            /\ delivered <= Extracted /\ (valid => delivered = Extracted)

LEMMA CorruptSeenIs ==
    ASSUME NEW ls \in Streams, lens = ls
    PROVE  CorruptSeen <=> \E k \in 1..Len(ls) : Corrupt(ls[k]) /\ End(ls, k - 1) + 4 <= fed
<1>1. DOMAIN lens = 1..Len(lens)  BY StreamsType
<1> QED BY <1>1 DEF CorruptSeen, Frames, FrameEnd, End, kFrameHeaderSize

LEMMA InitFrameInv == FramingInit => FrameInv
<1> SUFFICES ASSUME FramingInit PROVE FrameInv
    OBVIOUS
<1>1. lens \in Streams /\ wire = Stream(lens) /\ fed = 0 /\ extracted = <<>> /\ delivered = 0
      /\ buffer = <<>> /\ size = 0 /\ cursor = 0 /\ valid = TRUE
      BY DEF FramingInit
<1>2. Len(wire) \in Nat  BY <1>1, StreamBytes
<1>3. Extracted = 0 /\ End(lens, 0) = 0 /\ Len(lens) \in Nat  BY <1>1, Ends DEF Extracted
<1>4. ASSUME NEW k \in 1..Len(lens)
      PROVE  End(lens, k) \in Nat /\ 0 < End(lens, k) /\ ~(End(lens, k - 1) + 4 <= fed)
  <2>1. k - 1 \in 0..Len(lens) /\ k \in 0..Len(lens)  BY <1>3
  <2>2. End(lens, k - 1) \in Nat /\ lens[k] \in Nat  BY <1>1, <2>1, Ends
  <2> QED BY <1>1, <2>2, Ends
<1>5. FramingTypeOK  BY <1>1, <1>2 DEF FramingTypeOK
<1>6. ExtractedInOrder  BY <1>1, <1>3 DEF ExtractedInOrder
<1>7. InPlace
  <2>1. 0 < Len(lens) => 0 < End(lens, 1)
    <3>1. 0 < Len(lens) => 1 \in 1..Len(lens)  BY <1>3
    <3> QED BY <1>4, <3>1
  <2> QED BY <1>1, <1>3, <2>1 DEF InPlace
<1>8. ~CorruptSeen
  <2>1. CorruptSeen
            <=> \E k \in 1..Len(lens) : Corrupt(lens[k]) /\ End(lens, k - 1) + 4 <= fed
        BY <1>1, CorruptSeenIs
  <2> QED BY <1>4, <2>1
<1> QED BY <1>1, <1>3, <1>5, <1>6, <1>7, <1>8 DEF FrameInv

\* What a Feed makes of the next bytes, with the m-th frame now the last one.
Fed(m) ==
    /\ m \in Extracted..Len(lens) /\ \A k \in 1..m : ~Corrupt(lens[k])
    /\ fed' \in fed..Len(wire) /\ End(lens, m) <= fed'
    /\ m < Len(lens) /\ ~Corrupt(lens[m + 1]) => fed' < End(lens, m + 1)
    /\ valid' = ~(m < Len(lens) /\ Corrupt(lens[m + 1]) /\ End(lens, m) + 4 <= fed')
    /\ buffer' \in Seq(Nat) /\ size' \in Nat /\ size' <= Len(buffer')
    /\ cursor' = 0 /\ size' = fed' - End(lens, m)
    /\ \A i \in 1..size' : buffer'[i] = wire[End(lens, m) + i]
    /\ \A i \in 1..(fed' - End(lens, Extracted)) :
           i > size' => buffer'[i] = wire[End(lens, Extracted) + i]
    /\ fed' - End(lens, Extracted) <= Len(buffer')
    /\ extracted' = extracted \o [j \in 1..(m - Extracted) |->
                                    View(buffer', Spans(lens, Extracted, Extracted, m)[j])]
    /\ delivered' = IF valid' THEN Len(extracted') ELSE delivered

LEMMA FeedIsFed == ASSUME FrameInv, NEW n, Feed(n) PROVE \E m \in Extracted..Len(lens) : Fed(m)
<1> DEFINE d    == Extracted
           last == fed + n
           data == SubSeq(wire, fed + 1, fed + n)
           buf  == AppendToBuffer(data)
           end  == size + n
           scan == Scan(buf, end)[cursor]
           some == scan.pending # <<>>
           out  == IF some THEN Compact(buf, scan.cursor, end) ELSE buf
<1>1. /\ valid /\ n \in 1..(Len(wire) - fed) /\ fed' = last /\ buffer' = out
      /\ size' = (IF some THEN end - scan.cursor ELSE end)
      /\ cursor' = (IF some THEN 0 ELSE scan.cursor)
      /\ valid' = scan.valid
      /\ extracted' = extracted \o [j \in DOMAIN scan.pending |-> View(out, scan.pending[j])]
      /\ delivered' = IF scan.valid THEN Len(extracted') ELSE delivered
      BY Zenon DEF Feed
<1>2. /\ lens \in Streams /\ wire = Stream(lens) /\ fed \in 0..Len(wire)
      /\ d \in 0..Len(lens) /\ End(lens, d) <= fed /\ \A k \in 1..d : ~Corrupt(lens[k])
      /\ InPlace
      BY <1>1 DEF FrameInv, FramingTypeOK, ExtractedInOrder
<1>3. /\ buffer \in Seq(Nat) /\ size \in Nat /\ size <= Len(buffer)
      /\ cursor = 0 /\ size = fed - End(lens, d)
      /\ \A i \in 1..size : buffer[i] = wire[End(lens, d) + i]
      BY <1>2 DEF InPlace
<1>4. /\ Len(lens) \in Nat /\ d \in Nat /\ End(lens, d) \in Nat
      /\ wire \in Seq(Nat) /\ Len(wire) \in Nat /\ Len(wire) = End(lens, Len(lens))
      BY <1>2, Ends, StreamBytes
<1>5. n \in Nat /\ fed \in Nat /\ last \in Nat /\ last <= Len(wire) /\ last \in fed..Len(wire)
      /\ end = last - End(lens, d) /\ end \in Nat
  <2>1. n \in 1..(Len(wire) - fed)  BY <1>1
  <2>2. fed \in Nat /\ fed <= Len(wire)  BY <1>2, <1>4
  <2>3. n \in Nat /\ last \in Nat /\ last <= Len(wire) /\ last \in fed..Len(wire)
        BY <1>4, <2>1, <2>2
  <2>4. end = last - End(lens, d) /\ end \in Nat  BY <1>3, <1>4, <2>2, <2>3, SMTT(30)
  <2> QED BY <2>2, <2>3, <2>4
<1>6. data \in Seq(Nat) /\ Len(data) = n /\ \A i \in 1..n : data[i] = wire[fed + i]
  <2>1. \A i \in 1..n : fed + i \in 1..Len(wire) /\ fed + 1 + i - 1 = fed + i
        BY <1>4, <1>5
  <2>2. fed + n - (fed + 1) + 1 = n  BY <1>5
  <2>3. data = [i \in 1..n |-> wire[fed + i]]  BY <1>4, <1>5, <2>1, <2>2
  <2>4. \A i \in 1..n : wire[fed + i] \in Nat  BY <1>4, <2>1
  <2> HIDE DEF data
  <2> QED BY <1>5, <2>3, <2>4
<1>7. buf \in Seq(Nat) /\ Len(buf) >= end /\ Len(buf) \in Nat
      /\ \A i \in 1..end : buf[i] = wire[End(lens, d) + i]
  <2> HIDE DEF data
  <2>1. /\ buf \in Seq(Nat) /\ Len(buf) >= size + Len(data)
        /\ \A i \in 1..size : buf[i] = buffer[i]
        /\ \A i \in 1..Len(data) : buf[size + i] = data[i]
        BY <1>3, <1>6, AppendedBytes
  <2> HIDE DEF buf
  <2>2. ASSUME NEW i \in 1..end PROVE buf[i] = wire[End(lens, d) + i]
    <3>1. CASE i \in 1..size  BY <1>3, <2>1, <3>1
    <3>2. CASE i \notin 1..size
      <4> DEFINE origin == End(lens, d)
      <4>2. size \in Nat /\ origin \in Nat /\ fed \in Nat /\ size = fed - origin
            BY <1>3, <1>4, <1>5
      <4>3. i \in Nat /\ size < i /\ i <= size + n  BY <1>5, <3>2, <4>2
      <4> HIDE DEF origin
      <4>4. i - size \in 1..n /\ size + (i - size) = i /\ fed + (i - size) = origin + i
            BY <1>5, <4>2, <4>3
      <4>1. i - size \in 1..n /\ size + (i - size) = i
            /\ fed + (i - size) = End(lens, d) + i
            BY <4>4 DEF origin
      <4> QED BY <1>6, <2>1, <4>1
    <3> QED BY <3>1, <3>2
  <2> QED BY <1>6, <2>1, <2>2
<1>8. PICK m \in d..Len(lens) :
          /\ \A k \in 1..m : ~Corrupt(lens[k])
          /\ End(lens, m) <= last
          /\ m < Len(lens) /\ ~Corrupt(lens[m + 1]) => last < End(lens, m + 1)
  <2>1. End(lens, d) <= last  BY <1>2, <1>4, <1>5
  <2> HIDE DEF d, last
  <2> QED BY <1>2, <1>5, <2>1, LastComplete
<1>9. m \in Nat /\ m \in 0..Len(lens) /\ d \in 0..m /\ End(lens, m) \in Nat
      /\ End(lens, d) <= End(lens, m)
  <2>1. m \in Nat /\ m \in 0..Len(lens) /\ d \in 0..m  BY <1>4
  <2> QED BY <1>2, <2>1, Ends
<1> DEFINE good == ~(m < Len(lens) /\ Corrupt(lens[m + 1]) /\ End(lens, m) + 4 <= last)
           from == End(lens, m) - End(lens, d)
<1>10. scan = [pending |-> Spans(lens, d, d, m), cursor |-> from, valid |-> good]
  <2> HIDE DEF buf, end, d, last, good
  <2>1. \A i \in 1..end : buf[i] = Stream(lens)[End(lens, d) + i]  BY <1>2, <1>7
  <2>2. last <= End(lens, Len(lens))  BY <1>4, <1>5
  <2>3. Scan(buf, end)[0]
            = [pending |-> Spans(lens, d, d, m), cursor |-> End(lens, m) - End(lens, d),
               valid |-> ~(m < Len(lens) /\ Corrupt(lens[m + 1]) /\ End(lens, m) + 4 <= last)]
    <3>1. lens \in Streams /\ m \in 0..Len(lens) /\ d \in 0..m /\ last \in Nat
          /\ end = last - End(lens, d)
          BY <1>2, <1>5, <1>9
    <3> QED BY <1>8, <2>1, <2>2, <3>1, ScanFinds
  <2> QED BY <1>3, <2>3 DEF good
<1> HIDE DEF scan
<1>11. scan.pending = Spans(lens, d, d, m) /\ scan.cursor = from /\ scan.valid = good
  <2> HIDE DEF good, from
  <2> QED BY <1>10
<1>12. DOMAIN scan.pending = 1..(m - d) /\ (some <=> m # d)
  <2>1. scan.pending = [i \in 1..(m - d) |->
                            <<End(lens, d + i - 1) - End(lens, d) + 4, lens[d + i]>>]
        BY <1>11 DEF Spans
  <2>2. m = d => 1..(m - d) = {}  BY <1>4, <1>9
  <2>3. m # d => 1 \in 1..(m - d)  BY <1>4, <1>9
  <2> QED BY <2>1, <2>2, <2>3
<1>13. from \in Nat /\ from <= end /\ end - from = last - End(lens, m)
       /\ last - End(lens, m) \in Nat
  <2> DEFINE origin == End(lens, d)  here == End(lens, m)
  <2>1. origin \in Nat /\ here \in Nat /\ origin <= here /\ here <= last
        BY <1>4, <1>8, <1>9
  <2>2. from = here - origin /\ end = last - origin /\ last \in Nat  BY <1>5
  <2> HIDE DEF origin, here, from, end, last
  <2>3. from \in Nat /\ from <= end /\ end - from = last - here /\ last - here \in Nat
        BY <2>1, <2>2
  <2> QED BY <2>3 DEF here
<1>14. /\ out \in Seq(Nat) /\ Len(out) = Len(buf)
       /\ \A i \in 1..(end - from) : out[i] = wire[End(lens, m) + i]
       /\ \A i \in 1..end : i > end - from => out[i] = wire[End(lens, d) + i]
  <2>1. CASE m = d
    <3>1. out = buf /\ from = 0  BY <1>4, <1>12, <2>1
    <3> HIDE DEF out, buf, end
    <3>2. end - from = end  BY <1>5, <3>1
    <3> QED BY <1>7, <2>1, <3>1, <3>2
  <2>2. CASE m # d
    <3>1. out = Compact(buf, from, end)  BY <1>11, <1>12, <2>2
    <3> HIDE DEF out, buf, end, from
    <3>2. /\ out \in Seq(Nat) /\ Len(out) = Len(buf)
          /\ \A i \in 1..(end - from) : out[i] = buf[from + i]
          /\ \A i \in 1..end : i > end - from => out[i] = buf[i]
      <4>1. from \in Nat /\ end \in Nat /\ from <= end /\ end <= Len(buf) /\ buf \in Seq(Nat)
            BY <1>5, <1>7, <1>13
      <4> QED BY <3>1, <4>1, CompactedBytes
    <3>3. ASSUME NEW i \in 1..(end - from) PROVE out[i] = wire[End(lens, m) + i]
      <4>1. from + i \in 1..end  BY <1>5, <1>13
      <4>2. End(lens, d) + (from + i) = End(lens, m) + i  BY <1>4, <1>9 DEF from
      <4> QED BY <1>7, <3>2, <4>1, <4>2
    <3>4. ASSUME NEW i \in 1..end, i > end - from PROVE out[i] = wire[End(lens, d) + i]
          BY <1>7, <3>2, <3>4
    <3> QED BY <3>2, <3>3, <3>4
  <2> QED BY <2>1, <2>2
<1>15. size' = last - End(lens, m) /\ cursor' = 0
  <2>1. CASE m = d
    <3>1. from = 0 /\ size' = end /\ cursor' = from  BY <1>1, <1>4, <1>11, <1>12, <2>1
    <3> QED BY <1>5, <2>1, <3>1
  <2>2. CASE m # d
    <3>1. size' = end - from /\ cursor' = 0  BY <1>1, <1>11, <1>12, <2>2
    <3> QED BY <1>13, <3>1
  <2> QED BY <2>1, <2>2
<1>16. /\ extracted' = extracted \o [j \in 1..(m - d) |-> View(buffer', Spans(lens, d, d, m)[j])]
       /\ delivered' = IF valid' THEN Len(extracted') ELSE delivered
  <2> HIDE DEF out, d
  <2> QED BY <1>1, <1>11, <1>12
<1>17. valid' = good /\ fed' = last /\ buffer' = out  BY <1>1, <1>11
<1>18. Fed(m)
  <2> HIDE DEF out, buf, good
  <2>1. fed' - End(lens, Extracted) = end /\ fed' - End(lens, Extracted) <= Len(buffer')
        BY <1>5, <1>7, <1>14, <1>17
  <2>2. /\ buffer' \in Seq(Nat) /\ size' \in Nat /\ size' <= Len(buffer')
        BY <1>5, <1>7, <1>13, <1>14, <1>15, <1>17
  <2>3. \A i \in 1..size' : buffer'[i] = wire[End(lens, m) + i]
        BY <1>13, <1>14, <1>15, <1>17
  <2>4. \A i \in 1..(fed' - End(lens, Extracted)) :
            i > size' => buffer'[i] = wire[End(lens, Extracted) + i]
        BY <1>13, <1>14, <1>15, <1>17, <2>1
  <2>5. valid' = ~(m < Len(lens) /\ Corrupt(lens[m + 1]) /\ End(lens, m) + 4 <= fed')
        BY <1>17, Zenon DEF good
  <2> QED BY <1>5, <1>8, <1>15, <1>16, <1>17, <2>1, <2>2, <2>3, <2>4, <2>5 DEF Fed
<1> QED BY <1>18

\* The views a Feed returns have the lengths of their frames and are bytes.
LEMMA ViewsType ==
    ASSUME FrameInv, NEW m \in Extracted..Len(lens), Fed(m)
    PROVE  LET views == [j \in 1..(m - Extracted) |->
                             View(buffer', Spans(lens, Extracted, Extracted, m)[j])]
           IN  /\ views \in Seq(Seq(Nat)) /\ Len(views) = m - Extracted
               /\ \A j \in 1..(m - Extracted) :
                      /\ Extracted + j \in 1..Len(lens) /\ ~Corrupt(lens[Extracted + j])
                      /\ Len(views[j]) = lens[Extracted + j]
                      /\ \A i \in 1..lens[Extracted + j] :
                             LET offset == End(lens, Extracted + j - 1) - End(lens, Extracted) + 4 + i
                             IN  /\ views[j][i] = buffer'[offset]
                                 /\ offset \in 1..(fed' - End(lens, Extracted))
<1> DEFINE d == Extracted
           Offset(j, i) == End(lens, d + j - 1) - End(lens, d) + 4 + i
           views == [j \in 1..(m - d) |-> View(buffer', Spans(lens, d, d, m)[j])]
<1>1. /\ lens \in Streams /\ d \in Nat /\ m \in Nat /\ d <= m /\ m <= Len(lens)
      /\ Len(lens) \in Nat /\ \A k \in 1..m : ~Corrupt(lens[k])
      /\ End(lens, m) <= fed' /\ fed' \in Nat
  <2>1. lens \in Streams /\ d \in Nat  BY DEF FrameInv, FramingTypeOK, ExtractedInOrder
  <2>2. Len(lens) \in Nat /\ Len(wire) \in Nat /\ fed \in Nat
        BY <2>1, Ends, StreamBytes DEF FrameInv, FramingTypeOK
  <2> QED BY <2>1, <2>2 DEF Fed
<1>2. buffer' \in Seq(Nat) /\ fed' - End(lens, d) <= Len(buffer') /\ Len(buffer') \in Nat
      BY DEF Fed
<1>3. ASSUME NEW j \in 1..(m - d)
      PROVE  /\ d + j \in 1..Len(lens) /\ ~Corrupt(lens[d + j]) /\ lens[d + j] \in Nat
             /\ views[j] \in Seq(Nat) /\ Len(views[j]) = lens[d + j]
             /\ \A i \in 1..lens[d + j] : views[j][i] = buffer'[Offset(j, i)]
             /\ \A i \in 1..lens[d + j] : Offset(j, i) \in 1..(fed' - End(lens, d))
  <2>1. /\ d + j \in 1..Len(lens) /\ d + j \in 1..m /\ d + j - 1 \in 0..Len(lens)
        /\ (d + j) - 1 = d + j - 1 /\ d \in 0..Len(lens) /\ d <= d + j - 1
        /\ d + j \in 0..Len(lens) /\ m \in 0..Len(lens) /\ d + j <= m
        BY <1>1
  <2>2. lens[d + j] \in Nat /\ ~Corrupt(lens[d + j])  BY <1>1, <2>1, Ends
  <2> DEFINE origin == End(lens, d)  from == End(lens, d + j - 1)  to == End(lens, d + j)
             len == lens[d + j]
  <2>3. /\ origin \in Nat /\ from \in Nat /\ to \in Nat /\ len \in Nat
        /\ origin <= from /\ to = from + 4 + len
        BY <1>1, <2>1, <2>2, Ends
  <2>4. to <= End(lens, m) /\ End(lens, m) \in Nat  BY <1>1, <2>1, Ends
  <2>5. Spans(lens, d, d, m)[j] = <<from - origin + 4, len>>  BY DEF Spans
  <2>6. views[j] = SubSeq(buffer', from - origin + 4 + 1, from - origin + 4 + len)
    <3>1. views[j] = View(buffer', <<from - origin + 4, len>>)  BY <2>5
    <3> HIDE DEF views, origin, from, len
    <3> QED BY <3>1 DEF View
  <2> HIDE DEF views, origin, from, to, len
  <2>15. to <= fed' /\ fed' \in Nat  BY <1>1, <2>3, <2>4
  <2>7. \A i \in 1..len : from - origin + 4 + i \in 1..(fed' - origin)
    <3> DEFINE last == fed'
    <3>1. from \in Nat /\ origin \in Nat /\ len \in Nat /\ last \in Nat  BY <2>3, <2>15
    <3>2. from + 4 + len <= last  BY <2>3, <2>15
    <3> HIDE DEF last
    <3>3. \A i \in 1..len : from - origin + 4 + i \in 1..(last - origin)
          BY <2>3, <3>1, <3>2
    <3> QED BY <3>3 DEF last
  <2>8. fed' - origin <= Len(buffer') /\ fed' - origin \in Int  BY <1>1, <1>2, <2>3 DEF origin
  <2>9. /\ from - origin + 4 \in Nat /\ from - origin + 4 + len <= Len(buffer')
    <3>1. from - origin + 4 + len <= fed' - origin
      <4> DEFINE last == fed'
      <4>1. from \in Nat /\ origin \in Nat /\ len \in Nat /\ last \in Nat  BY <2>3, <2>15
      <4>2. from + 4 + len <= last  BY <2>3, <2>15
      <4> HIDE DEF last
      <4>3. from - origin + 4 + len <= last - origin  BY <4>1, <4>2
      <4> QED BY <4>3 DEF last
    <3> QED BY <1>2, <2>3, <2>8, <3>1
  <2> DEFINE start == from - origin + 4
  <2>10. start \in Nat /\ start + len <= Len(buffer')  BY <2>9
  <2> HIDE DEF start
  <2>11. /\ SubSeq(buffer', start + 1, start + len) \in Seq(Nat)
         /\ Len(SubSeq(buffer', start + 1, start + len)) = len
         /\ \A i \in 1..len : SubSeq(buffer', start + 1, start + len)[i] = buffer'[start + i]
    <3>1. start + len - (start + 1) + 1 = len  BY <2>3, <2>10
    <3>2. \A i \in 1..len : start + 1 + i - 1 = start + i /\ start + i \in 1..Len(buffer')
          BY <1>2, <2>3, <2>10
    <3>3. SubSeq(buffer', start + 1, start + len) = [i \in 1..len |-> buffer'[start + i]]
          BY <1>2, <2>3, <2>10, <3>1, <3>2
    <3>4. \A i \in 1..len : buffer'[start + i] \in Nat  BY <1>2, <3>2
    <3> DEFINE view == SubSeq(buffer', start + 1, start + len)
    <3>5. view = [i \in 1..len |-> buffer'[start + i]]  BY <3>3
    <3> HIDE DEF view
    <3>6. view \in Seq(Nat) /\ Len(view) = len /\ \A i \in 1..len : view[i] = buffer'[start + i]
          BY <2>3, <3>4, <3>5
    <3> QED BY <3>6 DEF view
  <2>12. \A i \in 1..len : Offset(j, i) = start + i  BY DEF start, origin, from
  <2>13. views[j] = SubSeq(buffer', start + 1, start + len)  BY <2>6 DEF start
  <2>14. \A i \in 1..len : Offset(j, i) \in 1..(fed' - origin)  BY <2>7, <2>12 DEF start
  <2> HIDE DEF Offset
  <2> QED BY <2>1, <2>2, <2>11, <2>12, <2>13, <2>14 DEF len, origin
<1>4. views \in Seq(Seq(Nat)) /\ Len(views) = m - d
  <2>1. m - d \in Nat  BY <1>1
  <2>2. views = [j \in 1..(m - d) |-> views[j]]  OBVIOUS
  <2> HIDE DEF views
  <2> QED BY <1>3, <2>1, <2>2
<1> HIDE DEF views
<1>5. /\ views \in Seq(Seq(Nat)) /\ Len(views) = m - d
      /\ \A j \in 1..(m - d) :
             /\ d + j \in 1..Len(lens) /\ ~Corrupt(lens[d + j])
             /\ Len(views[j]) = lens[d + j]
             /\ \A i \in 1..lens[d + j] :
                    /\ views[j][i] = buffer'[Offset(j, i)]
                    /\ Offset(j, i) \in 1..(fed' - End(lens, d))
      BY <1>3, <1>4
<1> QED BY <1>5 DEF views

LEMMA FedExtracted ==
    ASSUME FrameInv, NEW m \in Extracted..Len(lens), Fed(m)
    PROVE  /\ extracted' \in Seq(Seq(Nat))
           /\ Extracted' = m
           /\ \A k \in 1..Extracted : extracted'[k] = extracted[k]
           /\ \A k \in (Extracted + 1)..m :
                  /\ k \in 1..Len(lens) /\ ~Corrupt(lens[k])
                  /\ Len(extracted'[k]) = lens[k]
                  /\ \A i \in 1..lens[k] :
                         LET offset == End(lens, k - 1) - End(lens, Extracted) + 4 + i
                         IN  /\ extracted'[k][i] = buffer'[offset]
                             /\ offset \in 1..(fed' - End(lens, Extracted))
<1> DEFINE d == Extracted
           views == [j \in 1..(m - d) |-> View(buffer', Spans(lens, d, d, m)[j])]
           Offset(k, i) == End(lens, k - 1) - End(lens, d) + 4 + i
           whole == extracted \o views
<1>1. /\ views \in Seq(Seq(Nat)) /\ Len(views) = m - d
      /\ \A j \in 1..(m - d) :
             /\ d + j \in 1..Len(lens) /\ ~Corrupt(lens[d + j])
             /\ Len(views[j]) = lens[d + j]
             /\ \A i \in 1..lens[d + j] :
                    /\ views[j][i] = buffer'[End(lens, d + j - 1) - End(lens, d) + 4 + i]
                    /\ End(lens, d + j - 1) - End(lens, d) + 4 + i \in 1..(fed' - End(lens, d))
      BY ViewsType
<1>2. extracted \in Seq(Seq(Nat)) /\ Len(extracted) = d /\ d \in Nat /\ m \in Nat /\ d <= m
      BY DEF FrameInv, FramingTypeOK, Extracted
<1>3. extracted' = whole  BY Zenon DEF Fed
<1> HIDE DEF views
<1>4. /\ whole \in Seq(Seq(Nat)) /\ Len(whole) = m
      /\ \A k \in 1..d : whole[k] = extracted[k]
      /\ \A j \in 1..(m - d) : whole[d + j] = views[j]
  <2>0. extracted \in Seq(Seq(Nat)) /\ views \in Seq(Seq(Nat))  BY <1>1, <1>2
  <2>1. /\ whole \in Seq(Seq(Nat)) /\ Len(whole) = Len(extracted) + Len(views)
        /\ \A k \in 1..Len(extracted) : whole[k] = extracted[k]
        /\ \A j \in 1..Len(views) : whole[Len(extracted) + j] = views[j]
        BY <2>0, Concatenated
  <2> HIDE DEF whole
  <2> QED BY <1>1, <1>2, <2>1
<1> HIDE DEF whole
<1>5. ASSUME NEW k \in (d + 1)..m
      PROVE  /\ k \in 1..Len(lens) /\ ~Corrupt(lens[k]) /\ Len(whole[k]) = lens[k]
             /\ \A i \in 1..lens[k] : /\ whole[k][i] = buffer'[Offset(k, i)]
                                      /\ Offset(k, i) \in 1..(fed' - End(lens, d))
  <2> DEFINE j == k - d
  <2>1. j \in 1..(m - d) /\ d + j = k /\ d + j - 1 = k - 1  BY <1>2
  <2> HIDE DEF j
  <2>2. whole[k] = views[j]  BY <1>4, <2>1
  <2>3. End(lens, d + j - 1) = End(lens, k - 1) /\ lens[d + j] = lens[k]  BY <2>1
  <2> QED BY <1>1, <2>1, <2>2, <2>3
<1>6. extracted' = whole /\ Extracted' = m  BY <1>3, <1>4 DEF Extracted
<1> QED BY <1>4, <1>5, <1>6

LEMMA NextFrameInv == FrameInv /\ [FramingNext]_framingVars => FrameInv'
<1> SUFFICES ASSUME FrameInv, [FramingNext]_framingVars PROVE FrameInv'
    OBVIOUS
<1>1. CASE UNCHANGED framingVars
      BY <1>1 DEF framingVars, FrameInv, FramingTypeOK, ExtractedInOrder, InPlace, Extracted,
                  CorruptSeen, Frames, FrameEnd
<1>2. ASSUME NEW n, Feed(n) PROVE FrameInv'
  <2>1. PICK m \in Extracted..Len(lens) : Fed(m)  BY <1>2, FeedIsFed
  <2>2. lens' = lens /\ wire' = wire /\ valid  BY <1>2 DEF Feed
  <2>3. /\ lens \in Streams /\ wire = Stream(lens) /\ Extracted \in 0..Len(lens)
        /\ \A k \in 1..Extracted : ~Corrupt(lens[k]) /\ Len(extracted[k]) = lens[k]
        /\ End(lens, Extracted) <= fed /\ fed \in 0..Len(wire)
        BY DEF FrameInv, FramingTypeOK, ExtractedInOrder
  <2>4. Len(lens) \in Nat /\ Len(wire) \in Nat /\ Extracted \in Nat /\ m \in 0..Len(lens)
        /\ End(lens, Extracted) \in Nat /\ m \in Nat
        BY <2>3, Ends, StreamBytes
  <2>5. /\ \A k \in 1..m : ~Corrupt(lens[k])
        /\ fed' \in fed..Len(wire) /\ fed' \in Nat /\ End(lens, m) <= fed'
        /\ m < Len(lens) /\ ~Corrupt(lens[m + 1]) => fed' < End(lens, m + 1)
        BY <2>1, <2>3, <2>4 DEF Fed
  <2>6. FramingTypeOK'
    <3>1. extracted' \in Seq(Seq(Nat)) /\ delivered' \in Nat
      <4>1. extracted' \in Seq(Seq(Nat)) /\ delivered \in Nat
            BY <2>1, FedExtracted DEF FrameInv, FramingTypeOK
      <4>2. delivered' = IF valid' THEN Len(extracted') ELSE delivered
            BY <2>1, Zenon DEF Fed
      <4>3. Len(extracted') \in Nat  BY <4>1
      <4> QED BY <4>1, <4>2, <4>3
    <3> QED BY <2>2, <2>3, <2>4, <2>5, <3>1 DEF FramingTypeOK
  <2>7. ExtractedInOrder'
    <3>1. /\ Extracted' = m /\ \A k \in 1..Extracted : extracted'[k] = extracted[k]
          /\ \A k \in (Extracted + 1)..m : Len(extracted'[k]) = lens[k]
          BY <2>1, FedExtracted
    <3>2. \A k \in 1..m : Len(extracted'[k]) = lens[k]
      <4>1. \A k \in 1..m : k \in 1..Extracted \/ k \in (Extracted + 1)..m  BY <2>4
      <4> QED BY <2>3, <3>1, <4>1
    <3> QED BY <2>2, <2>4, <2>5, <3>1, <3>2 DEF ExtractedInOrder
  <2>8. InPlace'
    <3>1. Extracted' = m  BY <2>1, FedExtracted
    <3> QED BY <2>1, <2>2, <3>1 DEF Fed, InPlace
  <2>9. ~valid' <=> CorruptSeen'
    <3>1. CorruptSeen' <=> \E k \in 1..Len(lens) : Corrupt(lens[k]) /\ End(lens, k - 1) + 4 <= fed'
      <4>1. DOMAIN lens = 1..Len(lens)  BY <2>3, StreamsType
      <4> QED BY <2>2, <4>1 DEF CorruptSeen, Frames, FrameEnd, End, kFrameHeaderSize
    <3>2. (\E k \in 1..Len(lens) : Corrupt(lens[k]) /\ End(lens, k - 1) + 4 <= fed')
              <=> (m < Len(lens) /\ Corrupt(lens[m + 1]) /\ End(lens, m) + 4 <= fed')
      <4> DEFINE last == fed'
      <4>1. /\ last \in Nat
            /\ m < Len(lens) /\ ~Corrupt(lens[m + 1]) => last < End(lens, m + 1)
            BY <2>5
      <4> HIDE DEF last
      <4>2. (\E k \in 1..Len(lens) : Corrupt(lens[k]) /\ End(lens, k - 1) + 4 <= last)
                <=> (m < Len(lens) /\ Corrupt(lens[m + 1]) /\ End(lens, m) + 4 <= last)
            BY <2>3, <2>4, <2>5, <4>1, SeenIsNext
      <4> QED BY <4>2 DEF last
    <3>3. valid' = ~(m < Len(lens) /\ Corrupt(lens[m + 1]) /\ End(lens, m) + 4 <= fed')
          BY <2>1, Zenon DEF Fed
    <3> QED BY <3>1, <3>2, <3>3, Zenon
  <2>10. delivered' <= Extracted' /\ (valid' => delivered' = Extracted')
    <3>1. /\ Extracted' = m /\ Len(extracted') = Extracted' /\ Extracted <= m
          /\ delivered <= Extracted /\ delivered \in Nat
          /\ delivered' = IF valid' THEN Len(extracted') ELSE delivered
          BY <2>1, <2>4, FedExtracted DEF Fed, FrameInv, FramingTypeOK, Extracted
    <3> QED BY <2>4, <3>1
  <2> QED BY <2>6, <2>7, <2>8, <2>9, <2>10 DEF FrameInv
<1> QED BY <1>1, <1>2 DEF FramingNext

-----------------------------------------------------------------------------
(* However the stream is cut, every complete frame is extracted once, in    *)
(* order and with its length, in front of a corrupt length too, the buffer  *)
(* holds what has arrived behind it, and only a corrupt length ends the     *)
(* session and leaves frames unhandled (framing.cpp:25-62, session.cpp:143),*)
(* for every payload and any number of frames.                              *)
THEOREM DeliveredInOrderCorrect == FramingSpec => []DeliveredInOrder
<1>1. FrameInv => DeliveredInOrder
  <2> SUFFICES ASSUME FrameInv PROVE DeliveredInOrder
      OBVIOUS
  <2>1. /\ lens \in Streams /\ wire = Stream(lens) /\ fed \in 0..Len(wire)
        /\ Extracted \in 0..Len(lens) /\ End(lens, Extracted) <= fed
        /\ \A k \in 1..Extracted : ~Corrupt(lens[k]) /\ Len(extracted[k]) = lens[k]
        /\ extracted \in Seq(Seq(Nat)) /\ InPlace /\ (~valid <=> CorruptSeen)
        /\ delivered \in Nat /\ delivered <= Extracted /\ (valid => delivered = Extracted)
        BY DEF FrameInv, FramingTypeOK, ExtractedInOrder
  <2>2. /\ Len(lens) \in Nat /\ Len(wire) \in Nat /\ fed \in Nat /\ Extracted \in Nat
        /\ DOMAIN lens = 1..Len(lens) /\ DOMAIN extracted = 1..Extracted
        /\ wire \in Seq(Nat) /\ End(lens, Extracted) \in Nat
        BY <2>1, Ends, StreamBytes, StreamsType DEF Extracted
  <2>3. Complete = 1..Extracted
    <3>1. ASSUME NEW k \in 1..Extracted PROVE k \in Complete
      <4>1. k \in 1..Len(lens) /\ k \in 0..Len(lens) /\ k <= Extracted  BY <2>1, <2>2
      <4>2. End(lens, k) \in Nat /\ End(lens, k) <= End(lens, Extracted)  BY <2>1, <4>1, Ends
      <4>3. End(lens, k) <= fed  BY <2>1, <2>2, <4>2
      <4> QED BY <2>1, <2>2, <4>1, <4>3 DEF Complete, Frames, FrameEnd, End
    <3>2. ASSUME NEW k \in Complete PROVE k \in 1..Extracted
      <4>1. k \in 1..Len(lens) /\ ~Corrupt(lens[k]) /\ End(lens, k) <= fed
            BY <2>2 DEF Complete, Frames, FrameEnd, End
      <4> SUFFICES ASSUME ~(k <= Extracted) PROVE FALSE
          BY <2>2, <4>1
      <4>2. Extracted + 1 \in 1..Len(lens) /\ Extracted + 1 \in 0..Len(lens) /\ k \in 0..Len(lens)
            /\ Extracted + 1 <= k /\ Extracted < Len(lens)
            BY <2>1, <2>2, <4>1
      <4>3. ~Corrupt(lens[Extracted + 1])
        <5>1. Corrupt(lens[Extracted + 1]) => Extracted + 1 = Len(lens)
              BY <2>1, <4>2, Ends
        <5>2. Extracted + 1 = Len(lens) => Extracted + 1 = k  BY <2>2, <4>1, <4>2
        <5> QED BY <4>1, <5>1, <5>2
      <4>4. fed < End(lens, Extracted + 1)  BY <2>1, <4>2, <4>3 DEF InPlace
      <4>5. End(lens, Extracted + 1) <= End(lens, k)
            /\ End(lens, Extracted + 1) \in Nat /\ End(lens, k) \in Nat
            BY <2>1, <4>2, Ends
      <4> QED BY <2>2, <4>1, <4>4, <4>5
    <3> QED BY <3>1, <3>2
  <2>4. /\ Len(extracted) = Cardinality(Complete)
        /\ SubSeq(buffer, 1, size) = SubSeq(wire, FrameEnd(Cardinality(Complete)) + 1, fed)
    <3>1. Cardinality(Complete) = Extracted
      <4>1. Cardinality(1..Extracted) = Extracted  BY <2>2, FS_Interval
      <4> QED BY <2>3, <4>1
    <3>2. /\ buffer \in Seq(Nat) /\ size \in Nat /\ size <= Len(buffer)
          /\ size = fed - End(lens, Extracted)
          /\ \A i \in 1..size : buffer[i] = wire[End(lens, Extracted) + i]
          BY <2>1 DEF InPlace
    <3> DEFINE origin == End(lens, Extracted)
    <3>3. SubSeq(buffer, 1, size) = [i \in 1..size |-> wire[origin + i]]
      <4> HIDE DEF origin
      <4>1. \A i \in 1..size : 1 + i - 1 = i  OBVIOUS
      <4>2. SubSeq(buffer, 1, size) = [i \in 1..size |-> buffer[i]]  BY <3>2, <4>1
      <4> QED BY <3>2, <4>2 DEF origin
    <3>4. SubSeq(wire, origin + 1, fed) = [i \in 1..size |-> wire[origin + i]]
      <4>1. origin \in Nat /\ fed \in Nat /\ size = fed - origin /\ size \in Nat
            /\ fed <= Len(wire) /\ wire \in Seq(Nat)
            BY <2>1, <2>2, <3>2
      <4> HIDE DEF origin
      <4>2. fed - (origin + 1) + 1 = size /\ \A i \in 1..size : origin + 1 + i - 1 = origin + i
            BY <4>1
      <4> QED BY <4>1, <4>2
    <3> QED BY <3>1, <3>3, <3>4 DEF Extracted, FrameEnd, End
  <2>5. \A k \in DOMAIN extracted : Len(extracted[k]) = lens[k]  BY <2>1, <2>2
  <2>6. delivered <= Len(extracted) /\ (delivered < Len(extracted) => CorruptSeen)
    <3>1. Extracted = Len(extracted)  BY DEF Extracted
    <3>2. delivered <= Len(extracted)  BY <2>1, <3>1
    <3>3. CASE valid
      <4>1. delivered = Len(extracted)  BY <2>1, <3>1, <3>3
      <4> QED BY <2>1, <2>2, <3>1, <4>1
    <3>4. CASE ~valid  BY <2>1, <3>2, <3>4
    <3> QED BY <3>3, <3>4
  <2> QED BY <2>1, <2>4, <2>5, <2>6, Zenon DEF DeliveredInOrder
<1> QED BY <1>1, InitFrameInv, NextFrameInv, PTL DEF FramingSpec

(* The views point at the frames' positions before the compaction           *)
(* (framing.cpp:37-56): a byte the compaction did not overwrite is the byte *)
(* the sender framed, for every payload and any number of frames.           *)
THEOREM LastFeedIntactCorrect == FramingSpec => LastFeedIntact
<1>1. FrameInv /\ [FramingNext]_framingVars =>
        [\A k \in (Len(extracted) + 1)..Len(extracted') : \A i \in 1..lens[k] :
            LET offset == FrameEnd(k) - lens[k] - FrameEnd(Len(extracted)) + i
            IN offset > size' => extracted'[k][i] = PayloadByte(k, i)]_framingVars
  <2> SUFFICES ASSUME FrameInv, NEW n, Feed(n),
                      NEW k \in (Len(extracted) + 1)..Len(extracted'), NEW i \in 1..lens[k],
                      FrameEnd(k) - lens[k] - FrameEnd(Len(extracted)) + i > size'
               PROVE  extracted'[k][i] = PayloadByte(k, i)
      BY Zenon DEF FramingNext
  <2>1. PICK m \in Extracted..Len(lens) : Fed(m)  BY FeedIsFed
  <2> DEFINE offset == End(lens, k - 1) - End(lens, Extracted) + 4 + i
  <2>2. lens \in Streams /\ wire = Stream(lens) /\ Extracted \in 0..Len(lens) /\ Len(lens) \in Nat
        /\ Len(extracted) = Extracted /\ extracted \in Seq(Seq(Nat))
        BY Ends DEF FrameInv, FramingTypeOK, ExtractedInOrder, Extracted
  <2>3. Extracted' = m /\ k \in (Extracted + 1)..m
    <3>1. Extracted' = m  BY <2>1, FedExtracted
    <3> QED BY <3>1 DEF Extracted
  <2>4. /\ k \in 1..Len(lens) /\ ~Corrupt(lens[k])
        /\ extracted'[k][i] = buffer'[offset]
        /\ offset \in 1..(fed' - End(lens, Extracted))
        BY <2>1, <2>3, FedExtracted
  <2>5. /\ End(lens, k) = End(lens, k - 1) + 4 + lens[k] /\ lens[k] \in Nat
        /\ End(lens, k - 1) \in Nat /\ End(lens, Extracted) \in Nat
    <3>1. k - 1 \in 0..Len(lens)  BY <2>2, <2>4
    <3> QED BY <2>2, <2>4, <3>1, Ends
  <2>6. FrameEnd(k) - lens[k] - FrameEnd(Len(extracted)) + i = offset
        /\ End(lens, Extracted) + offset = End(lens, k - 1) + 4 + i
    <3>1. FrameEnd(k) = End(lens, k) /\ FrameEnd(Len(extracted)) = End(lens, Extracted)
          BY <2>2 DEF FrameEnd, End
    <3> DEFINE here == End(lens, k - 1)  origin == End(lens, Extracted)  len == lens[k]
    <3>2. /\ here \in Nat /\ origin \in Nat /\ len \in Nat /\ i \in Nat
          /\ FrameEnd(k) = here + 4 + len /\ FrameEnd(Len(extracted)) = origin
          /\ offset = here - origin + 4 + i
          BY <2>5, <3>1
    <3> HIDE DEF here, origin, len, offset
    <3>3. /\ FrameEnd(k) - len - FrameEnd(Len(extracted)) + i = offset
          /\ origin + offset = here + 4 + i
          BY <3>2
    <3> QED BY <3>3 DEF here, origin, len
  <2>7. buffer'[offset] = wire[End(lens, Extracted) + offset]
    <3>1. offset > size'  BY <2>6
    <3> HIDE DEF offset
    <3> QED BY <2>1, <2>4, <3>1 DEF Fed
  <2>8. wire[End(lens, k - 1) + 4 + i] = PayloadByte(k, i)  BY <2>2, <2>4, StreamBytes
  <2> HIDE DEF offset
  <2> QED BY <2>4, <2>6, <2>7, <2>8
<1> QED BY <1>1, InitFrameInv, NextFrameInv, PTL DEF FramingSpec, LastFeedIntact

-----------------------------------------------------------------------------
(* AnnexB: what a payload is put together from.                             *)

ByteStrings == Seq(0..255)

LEMMA BytesConcatenated ==
    ASSUME NEW front \in ByteStrings, NEW back \in ByteStrings
    PROVE  /\ front \o back \in ByteStrings
           /\ Len(front \o back) = Len(front) + Len(back)
           /\ \A i \in 1..Len(front) : (front \o back)[i] = front[i]
           /\ \A i \in 1..Len(back) : (front \o back)[Len(front) + i] = back[i]
           /\ Len(front) \in Nat /\ Len(back) \in Nat
<1>1. front \in Seq(0..255) /\ back \in Seq(0..255)  BY DEF ByteStrings
<1>2. /\ front \o back \in Seq(0..255)
      /\ Len(front \o back) = Len(front) + Len(back)
      BY <1>1, Concatenated
<1>3. \A i \in 1..Len(front) : (front \o back)[i] = front[i]  BY <1>1, Concatenated
<1>4. \A i \in 1..Len(back) : (front \o back)[Len(front) + i] = back[i]
      BY <1>1, Concatenated
<1>5. Len(front) \in Nat /\ Len(back) \in Nat  BY <1>1
<1> QED BY <1>2, <1>3, <1>4, <1>5 DEF ByteStrings

LEMMA SerializedUnfolds ==
    ASSUME NEW ns \in Seq(ByteStrings)
    PROVE  /\ Serialized(ns)[0] = <<>>
           /\ \A k \in 1..Len(ns) : Serialized(ns)[k] = Serialized(ns)[k - 1] \o StartCode \o ns[k]
<1> DEFINE N == Len(ns)
           Def(f, k) == IF k = 0 THEN <<>> ELSE f[k - 1] \o StartCode \o ns[k]
           step == [k \in 1..N |-> [v \in ByteStrings |-> v \o StartCode \o ns[k]]]
<1>1. N \in Nat  OBVIOUS
<1>2. step \in [1..N -> [ByteStrings -> ByteStrings]]
  <2>1. ASSUME NEW k \in 1..N, NEW v \in ByteStrings PROVE v \o StartCode \o ns[k] \in ByteStrings
    <3>1. StartCode \in ByteStrings /\ ns[k] \in ByteStrings  BY DEF StartCode, ByteStrings
    <3> QED BY <3>1, Concatenated DEF ByteStrings
  <2> QED BY <2>1
<1>3. <<>> \in ByteStrings  BY DEF ByteStrings
<1>4. PICK f \in [0..N -> ByteStrings] :
          f[0] = <<>> /\ \A k \in 1..N : f[k] = step[k][f[k - 1]]
  <2> DEFINE none == <<>>
  <2>1. none \in ByteStrings  BY <1>3
  <2> HIDE DEF step, N, none
  <2>2. \E f \in [0..N -> ByteStrings] :
            f[0] = none /\ \A k \in 1..N : f[k] = step[k][f[k - 1]]
        BY <1>1, <1>2, <2>1, Recursion, SMTT(30)
  <2> QED BY <2>2 DEF none
<1>5. ASSUME NEW k \in 0..N PROVE f[k] = Def(f, k)
  <2>1. CASE k = 0  BY <1>4, <2>1
  <2>2. CASE k # 0
    <3>1. k \in 1..N /\ k - 1 \in 0..N  BY <1>1, <2>2
    <3>2. f[k - 1] \in ByteStrings  BY <3>1
    <3>3. f[k] = step[k][f[k - 1]]  BY <1>4, <3>1
    <3>4. step[k][f[k - 1]] = f[k - 1] \o StartCode \o ns[k]  BY <3>1, <3>2
    <3> HIDE DEF step
    <3> QED BY <2>2, <3>3, <3>4
  <2> QED BY <2>1, <2>2
<1>6. \E h : h = [k \in 0..N |-> Def(h, k)]
  <2> HIDE DEF Def
  <2>1. f = [k \in 0..N |-> Def(f, k)]  BY <1>5
  <2> QED BY <2>1
<1>7. Serialized(ns) = CHOOSE h : h = [k \in 0..N |-> Def(h, k)]
      BY Zenon DEF Serialized
<1>8. Serialized(ns) = [k \in 0..N |-> Def(Serialized(ns), k)]
  <2> HIDE DEF Def, N
  <2> QED BY <1>6, <1>7
<1>9. \A k \in 0..N : Serialized(ns)[k] = Def(Serialized(ns), k)
  <2> HIDE DEF Def, N
  <2> QED BY <1>8
<1>10. Serialized(ns)[0] = <<>>  BY <1>1, <1>9
<1>11. ASSUME NEW k \in 1..N
       PROVE  Serialized(ns)[k] = Serialized(ns)[k - 1] \o StartCode \o ns[k]
  <2>1. k \in 0..N /\ k # 0  BY <1>1
  <2> HIDE DEF N
  <2> QED BY <1>9, <2>1, Zenon
<1> QED BY <1>10, <1>11

\* How many bytes the first k NAL units take.
Offset(ns, k) == Len(Serialized(ns)[k])

\* Each step puts a start code and a NAL unit behind what is there.
LEMMA SerializedGrows ==
    ASSUME NEW ns \in Seq(ByteStrings)
    PROVE  /\ Offset(ns, 0) = 0
           /\ \A k \in 0..Len(ns) : Serialized(ns)[k] \in ByteStrings /\ Offset(ns, k) \in Nat
           /\ \A k \in 1..Len(ns) :
                  /\ Offset(ns, k) = Offset(ns, k - 1) + 4 + Len(ns[k])
                  /\ \A i \in 1..Offset(ns, k - 1) : Serialized(ns)[k][i] = Serialized(ns)[k - 1][i]
                  /\ \A i \in 1..4 : Serialized(ns)[k][Offset(ns, k - 1) + i] = StartCode[i]
                  /\ \A i \in 1..Len(ns[k]) :
                         Serialized(ns)[k][Offset(ns, k - 1) + 4 + i] = ns[k][i]
<1> DEFINE N == Len(ns)
           ser(k) == Serialized(ns)[k]
           Step(k) == /\ ser(k) \in ByteStrings
                      /\ Len(ser(k)) = Len(ser(k - 1)) + 4 + Len(ns[k])
                      /\ \A i \in 1..Len(ser(k - 1)) : ser(k)[i] = ser(k - 1)[i]
                      /\ \A i \in 1..4 : ser(k)[Len(ser(k - 1)) + i] = StartCode[i]
                      /\ \A i \in 1..Len(ns[k]) : ser(k)[Len(ser(k - 1)) + 4 + i] = ns[k][i]
<1>1. N \in Nat  OBVIOUS
<1>2. StartCode \in ByteStrings /\ Len(StartCode) = 4  BY DEF StartCode, ByteStrings
<1>3. ASSUME NEW k \in 1..N, ser(k - 1) \in ByteStrings PROVE Step(k)
  <2> DEFINE front == ser(k - 1)  both == front \o StartCode  back == ns[k]  all == both \o back
  <2>1. ser(k) = all  BY SerializedUnfolds
  <2>2. front \in ByteStrings /\ back \in ByteStrings  BY <1>3 DEF ByteStrings
  <2> HIDE DEF front, back, ser
  <2>3. /\ both \in ByteStrings /\ Len(both) = Len(front) + 4
        /\ \A i \in 1..Len(front) : both[i] = front[i]
        /\ \A i \in 1..4 : both[Len(front) + i] = StartCode[i]
    <3> HIDE DEF both
    <3>1. /\ both \in ByteStrings /\ Len(both) = Len(front) + Len(StartCode)
          /\ \A i \in 1..Len(front) : both[i] = front[i]
          /\ \A i \in 1..Len(StartCode) : both[Len(front) + i] = StartCode[i]
          BY <1>2, <2>2, BytesConcatenated, Zenon DEF both
    <3> QED BY <1>2, <3>1
  <2> HIDE DEF both
  <2>4. /\ all \in ByteStrings /\ Len(all) = Len(both) + Len(back)
        /\ \A i \in 1..Len(both) : all[i] = both[i]
        /\ \A i \in 1..Len(back) : all[Len(both) + i] = back[i]
        BY <2>2, <2>3, BytesConcatenated
  <2> HIDE DEF all
  <2>5. Len(front) \in Nat /\ Len(back) \in Nat  BY <2>2 DEF ByteStrings
  <2>6. \A i \in 1..Len(front) : all[i] = front[i]
    <3>1. \A i \in 1..Len(front) : i \in 1..Len(both)  BY <2>3, <2>5
    <3> QED BY <2>3, <2>4, <3>1
  <2>7. \A i \in 1..4 : all[Len(front) + i] = StartCode[i]
    <3>1. \A i \in 1..4 : Len(front) + i \in 1..Len(both)  BY <2>3, <2>5
    <3> QED BY <2>3, <2>4, <3>1
  <2>8. Len(all) = Len(front) + 4 + Len(back)  BY <2>3, <2>4, <2>5
  <2> QED BY <2>1, <2>3, <2>4, <2>6, <2>7, <2>8 DEF front, back
<1>4. \A k \in 0..N : ser(k) \in ByteStrings
  <2> DEFINE T == {k \in 0..N : ser(k) \in ByteStrings}
  <2>0. ser(0) \in ByteStrings
    <3>1. ser(0) = <<>>  BY SerializedUnfolds
    <3>2. <<>> \in ByteStrings  BY DEF ByteStrings
    <3> QED BY <3>1, <3>2
  <2>1. 0 \in T
    <3> HIDE DEF ser
    <3> QED BY <1>1, <2>0
  <2>2. ASSUME NEW k \in 1..N, k - 1 \in T PROVE k \in T
    <3>1. ser(k - 1) \in ByteStrings  BY <2>2
    <3>2. Step(k)  BY <1>3, <3>1
    <3> HIDE DEF ser
    <3> QED BY <3>2
  <2>3. \A k \in 0..N : k \in T
    <3> HIDE DEF T, N
    <3> QED BY <1>1, <2>1, <2>2, BoundedInduction
  <2> QED BY <2>3
<1>5. ASSUME NEW k \in 1..N PROVE Step(k)
  <2>1. k - 1 \in 0..N  BY <1>1
  <2> QED BY <1>3, <1>4, <2>1
<1>6. Offset(ns, 0) = 0
  <2>1. Serialized(ns)[0] = <<>>  BY SerializedUnfolds
  <2> QED BY <2>1 DEF Offset
<1>7. \A k \in 0..N : Offset(ns, k) \in Nat
  <2> HIDE DEF N
  <2> QED BY <1>4 DEF Offset, ByteStrings
<1> HIDE DEF N
<1>8. \A k \in 0..N : Serialized(ns)[k] \in ByteStrings /\ Offset(ns, k) \in Nat
      BY <1>4, <1>7
<1> QED BY <1>5, <1>6, <1>8 DEF Offset, N

\* What was written stays.
LEMMA SerializedStays ==
    ASSUME NEW ns \in Seq(ByteStrings), NEW j \in 0..Len(ns)
    PROVE  \A k \in j..Len(ns) :
               /\ Offset(ns, j) <= Offset(ns, k)
               /\ \A i \in 1..Offset(ns, j) : Serialized(ns)[k][i] = Serialized(ns)[j][i]
<1> DEFINE N == Len(ns)
           Keeps(k) == /\ Offset(ns, j) <= Offset(ns, k)
                       /\ \A i \in 1..Offset(ns, j) : Serialized(ns)[k][i] = Serialized(ns)[j][i]
           T == {k \in 0..N : k >= j => Keeps(k)}
<1>1. N \in Nat /\ j \in Nat /\ Offset(ns, j) \in Nat  BY SerializedGrows
<1>2. Keeps(j)  BY <1>1
<1>3. 0 \in T
  <2>1. 0 >= j => 0 = j  BY <1>1
  <2> HIDE DEF Keeps
  <2> QED BY <1>1, <1>2, <2>1
<1>4. ASSUME NEW k \in 1..N, k - 1 \in T PROVE k \in T
  <2>1. CASE k = j  BY <1>2, <2>1
  <2>2. CASE k > j
    <3>1. k - 1 >= j /\ k - 1 \in 0..N  BY <1>1, <2>2
    <3>2. Keeps(k - 1)  BY <1>4, <3>1
    <3>3. /\ Offset(ns, k) = Offset(ns, k - 1) + 4 + Len(ns[k])
          /\ \A i \in 1..Offset(ns, k - 1) : Serialized(ns)[k][i] = Serialized(ns)[k - 1][i]
          BY SerializedGrows
    <3>4. Offset(ns, k - 1) \in Nat /\ Len(ns[k]) \in Nat
      <4>1. ns[k] \in ByteStrings  OBVIOUS
      <4> QED BY <3>1, <4>1, SerializedGrows, SMTT(30) DEF ByteStrings
    <3>5. Keeps(k)
      <4> DEFINE old == Offset(ns, j)  before == Offset(ns, k - 1)  after == Offset(ns, k)
                 more == Len(ns[k])
      <4>1. old \in Nat /\ before \in Nat /\ more \in Nat /\ old <= before
            /\ after = before + 4 + more
            BY <1>1, <3>2, <3>3, <3>4
      <4> HIDE DEF N, old, before, after, more
      <4>2. old <= after /\ \A i \in 1..old : i \in 1..before  BY <4>1
      <4>3. ASSUME NEW i \in 1..old PROVE Serialized(ns)[k][i] = Serialized(ns)[j][i]
        <5>1. Serialized(ns)[k - 1][i] = Serialized(ns)[j][i]  BY <3>2 DEF old
        <5>2. Serialized(ns)[k][i] = Serialized(ns)[k - 1][i]  BY <3>3, <4>2 DEF before
        <5> QED BY <5>1, <5>2
      <4> QED BY <4>2, <4>3 DEF old, after
    <3> HIDE DEF Keeps
    <3> QED BY <3>5
  <2>3. CASE k < j  BY <1>1, <2>3
  <2> QED BY <1>1, <2>1, <2>2, <2>3
<1>5. \A k \in 0..N : k \in T
  <2> HIDE DEF T, N
  <2> QED BY <1>1, <1>3, <1>4, BoundedInduction
<1>6. \A k \in j..N : k \in 0..N /\ k >= j  BY <1>1
<1> HIDE DEF Keeps
<1>7. \A k \in j..N : Keeps(k)  BY <1>5, <1>6
<1> QED BY <1>7 DEF Keeps

\* Where the k-th NAL unit of a payload ends and the next start code begins.
Start(p, ns, k) == Len(p) + Offset(ns, k)

\* How a payload lies in its bytes.
Layout(p, ns, bytes) ==
    /\ Len(p) \in Nat /\ Len(ns) \in Nat
    /\ bytes \in ByteStrings /\ Len(bytes) = Start(p, ns, Len(ns))
    /\ Start(p, ns, 0) = Len(p)
    /\ \A i \in 1..Len(p) : bytes[i] = p[i] /\ p[i] # 0
    /\ \A k \in 0..Len(ns) : Start(p, ns, k) \in Nat
    /\ \A j, k \in 0..Len(ns) : j <= k => Start(p, ns, j) <= Start(p, ns, k)
    /\ \A k \in 1..Len(ns) :
           /\ Len(ns[k]) \in Nat
           /\ Start(p, ns, k) = Start(p, ns, k - 1) + 4 + Len(ns[k])
           /\ \A i \in 1..4 : bytes[Start(p, ns, k - 1) + i] = StartCode[i]
           /\ \A i \in 1..Len(ns[k]) : bytes[Start(p, ns, k - 1) + 4 + i] = ns[k][i]

LEMMA PayloadBytes ==
    ASSUME NEW p \in Seq(1..255), NEW ns \in Seq(ByteStrings),
           NEW bytes, bytes = p \o WithStartCodes(ns)
    PROVE  Layout(p, ns, bytes)
<1> DEFINE N == Len(ns)  all == WithStartCodes(ns)
<1>1. N \in Nat /\ Len(p) \in Nat /\ N \in 0..N  OBVIOUS
<1>2. all \in ByteStrings /\ Len(all) = Offset(ns, N) /\ Offset(ns, N) \in Nat
      BY <1>1, SerializedGrows DEF WithStartCodes, Offset
<1>3. p \in ByteStrings /\ \A i \in 1..Len(p) : p[i] # 0
  <2>1. p \in Seq(0..255)
    <3>1. 1..255 \subseteq 0..255  OBVIOUS
    <3> QED BY <3>1, SeqMonotonic
  <2>2. ASSUME NEW i \in 1..Len(p) PROVE p[i] # 0
    <3>1. p[i] \in 1..255  BY ElementOfSeq
    <3>2. 0 \notin 1..255  OBVIOUS
    <3> QED BY <3>1, <3>2
  <2>3. p \in ByteStrings  BY <2>1 DEF ByteStrings
  <2> QED BY <2>2, <2>3
<1> HIDE DEF all, N
<1>4. /\ bytes \in ByteStrings /\ Len(bytes) = Len(p) + Len(all)
      /\ \A i \in 1..Len(p) : bytes[i] = p[i]
      /\ \A i \in 1..Len(all) : bytes[Len(p) + i] = all[i]
      BY <1>2, <1>3, BytesConcatenated, Zenon DEF all
<1>5. ASSUME NEW k \in 0..N PROVE Start(p, ns, k) \in Nat /\ Offset(ns, k) \in Nat
  <2>1. Offset(ns, k) \in Nat  BY SerializedGrows DEF N
  <2> QED BY <1>1, <2>1 DEF Start
<1>6. ASSUME NEW j \in 0..N, NEW k \in 0..N, j <= k PROVE Start(p, ns, j) <= Start(p, ns, k)
  <2>1. k \in j..N  BY <1>1, <1>6
  <2>2. Offset(ns, j) <= Offset(ns, k)  BY <2>1, SerializedStays DEF N
  <2> QED BY <1>1, <1>5, <2>2, SMTT(30) DEF Start
<1>7. ASSUME NEW k \in 1..N
      PROVE  /\ Len(ns[k]) \in Nat
             /\ Start(p, ns, k) = Start(p, ns, k - 1) + 4 + Len(ns[k])
             /\ \A i \in 1..4 : bytes[Start(p, ns, k - 1) + i] = StartCode[i]
             /\ \A i \in 1..Len(ns[k]) : bytes[Start(p, ns, k - 1) + 4 + i] = ns[k][i]
  <2>1. k \in 0..N /\ k - 1 \in 0..N /\ N \in k..N  BY <1>1
  <2>2. Offset(ns, k - 1) \in Nat /\ Offset(ns, k) \in Nat /\ Len(ns[k]) \in Nat
    <3>1. ns[k] \in ByteStrings  BY DEF N
    <3> QED BY <1>5, <2>1, <3>1, BytesConcatenated
  <2>3. /\ Offset(ns, k) = Offset(ns, k - 1) + 4 + Len(ns[k])
        /\ \A i \in 1..4 : Serialized(ns)[k][Offset(ns, k - 1) + i] = StartCode[i]
        /\ \A i \in 1..Len(ns[k]) : Serialized(ns)[k][Offset(ns, k - 1) + 4 + i] = ns[k][i]
        BY SerializedGrows DEF N
  <2>4. /\ Offset(ns, k) <= Len(all)
        /\ \A i \in 1..Offset(ns, k) : all[i] = Serialized(ns)[k][i]
        BY <1>2, <2>1, SerializedStays DEF N, all, WithStartCodes
  <2>9. Offset(ns, k) = Offset(ns, k - 1) + 4 + Len(ns[k])  BY <2>3
  <2>5. ASSUME NEW i \in 1..Offset(ns, k)
        PROVE  bytes[Len(p) + i] = Serialized(ns)[k][i]
    <3>1. i \in 1..Len(all)  BY <1>2, <2>2, <2>4
    <3> QED BY <1>4, <2>4, <3>1
  <2>6. ASSUME NEW i \in 1..4 PROVE bytes[Start(p, ns, k - 1) + i] = StartCode[i]
    <3>1. Offset(ns, k - 1) + i \in 1..Offset(ns, k)
      <4> DEFINE before == Offset(ns, k - 1)  after == Offset(ns, k)  more == Len(ns[k])
      <4>1. before \in Nat /\ more \in Nat /\ after = before + 4 + more  BY <2>2, <2>9
      <4> HIDE DEF before, after, more
      <4>2. before + i \in 1..after  BY <4>1
      <4> QED BY <4>2 DEF before, after
    <3>2. Start(p, ns, k - 1) + i = Len(p) + (Offset(ns, k - 1) + i)
          BY <1>1, <2>2 DEF Start
    <3>3. bytes[Len(p) + (Offset(ns, k - 1) + i)] = Serialized(ns)[k][Offset(ns, k - 1) + i]
          BY <2>5, <3>1
    <3> QED BY <2>3, <3>2, <3>3
  <2>7. ASSUME NEW i \in 1..Len(ns[k])
        PROVE  bytes[Start(p, ns, k - 1) + 4 + i] = ns[k][i]
    <3>1. Offset(ns, k - 1) + 4 + i \in 1..Offset(ns, k)  BY <2>2, <2>9, SMTT(30)
    <3>2. Start(p, ns, k - 1) + 4 + i = Len(p) + (Offset(ns, k - 1) + 4 + i)
          BY <1>1, <2>2 DEF Start
    <3>3. bytes[Len(p) + (Offset(ns, k - 1) + 4 + i)]
              = Serialized(ns)[k][Offset(ns, k - 1) + 4 + i]
          BY <2>5, <3>1
    <3> QED BY <2>3, <3>2, <3>3
  <2>8. Start(p, ns, k) = Start(p, ns, k - 1) + 4 + Len(ns[k])
    <3> DEFINE before == Offset(ns, k - 1)  after == Offset(ns, k)  len == Len(ns[k])
    <3>1. after = before + 4 + len /\ before \in Nat /\ len \in Nat  BY <2>2, <2>9
    <3>2. Start(p, ns, k) = Len(p) + after /\ Start(p, ns, k - 1) = Len(p) + before
          BY DEF Start
    <3> HIDE DEF before, after, len
    <3>3. Len(p) + after = Len(p) + before + 4 + len  BY <1>1, <3>1
    <3> QED BY <3>2, <3>3 DEF len
  <2> QED BY <2>2, <2>6, <2>7, <2>8
<1>8. Start(p, ns, 0) = Len(p)  BY <1>1, SerializedGrows DEF Start
<1>9. Len(bytes) = Start(p, ns, N)  BY <1>2, <1>4 DEF Start
<1> QED BY <1>1, <1>3, <1>4, <1>5, <1>6, <1>7, <1>8, <1>9 DEF N, Layout

\* No start code hides in a NAL unit.
Escaped(nalu) == \A at \in 0..Len(nalu) : ~IsStartCode(nalu, at)

\* A start code stands in front of each NAL unit and nowhere else.
LEMMA StartCodesAre ==
    ASSUME NEW p, NEW ns, NEW bytes, Layout(p, ns, bytes),
           \A k \in 1..Len(ns) : Escaped(ns[k]), NEW at \in Nat
    PROVE  IsStartCode(bytes, at) <=> \E k \in 1..Len(ns) : at = Start(p, ns, k - 1)
<1> DEFINE N == Len(ns)
<1>1. ASSUME NEW k \in 1..N, at = Start(p, ns, k - 1) PROVE IsStartCode(bytes, at)
  <2>1. k \in 0..N /\ N \in 0..N /\ k - 1 \in 0..N /\ k <= N  BY DEF Layout
  <2>2. Start(p, ns, k) <= Len(bytes) /\ Start(p, ns, k) \in Nat /\ Len(bytes) \in Nat
        BY <2>1 DEF Layout
  <2>3. Start(p, ns, k) = at + 4 + Len(ns[k]) /\ Len(ns[k]) \in Nat
        BY <1>1 DEF Layout
  <2>4. \A i \in 1..4 : bytes[at + i] = StartCode[i]  BY <1>1 DEF Layout
  <2>5. at + 4 <= Len(bytes)
    <3> DEFINE next == Start(p, ns, k)  len == Len(ns[k])  end == Len(bytes)
    <3>1. next = at + 4 + len /\ next <= end /\ {len, next, end} \subseteq Nat  BY <2>2, <2>3
    <3> HIDE DEF next, len, end
    <3>2. at + 4 <= end  BY <3>1
    <3> QED BY <3>2 DEF end
  <2> QED BY <2>4, <2>5 DEF IsStartCode
<1>2. ASSUME IsStartCode(bytes, at) PROVE \E k \in 1..N : at = Start(p, ns, k - 1)
  <2>1. /\ at + 4 <= Len(bytes) /\ bytes[at + 1] = 0 /\ bytes[at + 2] = 0
        /\ bytes[at + 3] = 0 /\ bytes[at + 4] = 1
        BY <1>2 DEF IsStartCode, StartCode
  <2>2. N \in Nat /\ Len(p) \in Nat /\ Len(bytes) = Start(p, ns, N) /\ Len(bytes) \in Nat
        /\ Start(p, ns, 0) = Len(p)
        BY DEF Layout
  <2>3. at >= Len(p)
    <3> SUFFICES ASSUME at < Len(p) PROVE FALSE  BY <2>2
    <3>1. at + 1 \in 1..Len(p)  BY <2>2
    <3> QED BY <2>1, <3>1 DEF Layout
  \* The NAL unit in which it begins.
  <2>4. PICK k \in 1..N : Start(p, ns, k - 1) <= at /\ at < Start(p, ns, k)
    <3> DEFINE T == {j \in 0..N : at < Start(p, ns, j)}
    <3>1. N \in T  BY <2>1, <2>2
    <3>2. PICK k \in T : \A j \in T : k <= j
      <4>1. T \in SUBSET Nat /\ T # {}  BY <3>1
      <4> HIDE DEF T
      <4> QED BY <4>1, LeastElement
    <3>3. k # 0 /\ k \in 0..N  BY <2>2, <2>3
    <3>4. k - 1 \in 0..N /\ ~(k <= k - 1) /\ k \in 1..N  BY <2>2, <3>3
    <3>5. ~(at < Start(p, ns, k - 1))  BY <3>2, <3>4
    <3>6. Start(p, ns, k - 1) \in Nat  BY <3>4 DEF Layout
    <3> QED BY <3>2, <3>4, <3>5, <3>6
  <2> DEFINE from == Start(p, ns, k - 1)  len == Len(ns[k])
  <2>5. /\ len \in Nat /\ Start(p, ns, k) = from + 4 + len
        /\ \A i \in 1..4 : bytes[from + i] = StartCode[i]
        /\ \A i \in 1..len : bytes[from + 4 + i] = ns[k][i]
        BY DEF Layout
  <2>6. k - 1 \in 0..N /\ from \in Nat
    <3>1. k - 1 \in 0..N  BY <2>2
    <3> QED BY <3>1 DEF Layout
  <2>7. bytes[from + 1] = 0 /\ bytes[from + 2] = 0 /\ bytes[from + 3] = 0 /\ bytes[from + 4] = 1
        BY <2>5 DEF StartCode
  <2> HIDE DEF from, len
  <2>8. ~(from < at /\ at < from + 4)
    <3> SUFFICES ASSUME from < at, at < from + 4 PROVE FALSE  OBVIOUS
    <3>1. at = from + 1 \/ at = from + 2 \/ at = from + 3  BY <2>6
    <3>2. CASE at = from + 1
      <4>1. at + 3 = from + 4  BY <2>6, <3>2
      <4> QED BY <2>1, <2>7, <4>1
    <3>3. CASE at = from + 2
      <4>1. at + 2 = from + 4  BY <2>6, <3>3
      <4> QED BY <2>1, <2>7, <4>1
    <3>4. CASE at = from + 3
      <4>1. at + 1 = from + 4  BY <2>6, <3>4
      <4> QED BY <2>1, <2>7, <4>1
    <3> QED BY <3>1, <3>2, <3>3, <3>4
  <2>9. ~(at >= from + 4 /\ at + 4 <= from + 4 + len)
    <3> SUFFICES ASSUME at >= from + 4, at + 4 <= from + 4 + len PROVE FALSE  OBVIOUS
    <3> DEFINE o == at - (from + 4)
    <3>1. o \in 0..len /\ o + 4 <= len /\ at = from + 4 + o  BY <2>5, <2>6
    <3> HIDE DEF o
    <3>2. ASSUME NEW i \in 1..4 PROVE ns[k][o + i] = StartCode[i]
      <4>1. o + i \in 1..len /\ from + 4 + (o + i) = at + i
        <5>1. len \in Nat  BY <2>5
        <5> QED BY <2>6, <3>1, <5>1
      <4>2. bytes[at + i] = ns[k][o + i]  BY <2>5, <4>1
      <4>3. bytes[at + i] = StartCode[i]  BY <1>2 DEF IsStartCode
      <4> QED BY <4>2, <4>3
    <3>3. IsStartCode(ns[k], o)  BY <3>1, <3>2 DEF IsStartCode, len
    <3> QED BY <3>1, <3>3 DEF Escaped, len
  <2>10. ~(at + 4 > from + 4 + len)
    <3> SUFFICES ASSUME at + 4 > from + 4 + len PROVE FALSE  OBVIOUS
    <3> DEFINE next == Start(p, ns, k)
    <3>1. next = from + 4 + len /\ at < next /\ next \in Nat  BY <2>4, <2>5, <2>6
    <3>2. k < N
      <4>1. k # N  BY <2>1, <2>2, <3>1
      <4> QED BY <2>2, <4>1
    <3>3. k + 1 \in 1..N /\ (k + 1) - 1 = k  BY <2>2, <3>2
    <3>4. \A i \in 1..4 : bytes[next + i] = StartCode[i]
      <4>1. \A i \in 1..4 : bytes[Start(p, ns, (k + 1) - 1) + i] = StartCode[i]
            BY <3>3 DEF Layout
      <4> QED BY <3>3, <4>1
    <3>5. bytes[next + 1] = 0 /\ bytes[next + 2] = 0 /\ bytes[next + 3] = 0
          BY <3>4 DEF StartCode
    <3> HIDE DEF next
    <3>6. at + 4 = next + 1 \/ at + 4 = next + 2 \/ at + 4 = next + 3  BY <3>1, SMTT(30)
    <3> QED BY <2>1, <3>5, <3>6
  <2>11. at = from  BY <2>4, <2>5, <2>6, <2>8, <2>9, <2>10, SMTT(30) DEF from
  <2> QED BY <2>11 DEF from
<1> QED BY <1>1, <1>2

LEMMA FoundUnfolds ==
    ASSUME NEW bytes, Len(bytes) \in Nat
    PROVE  /\ Found(bytes)[0] = <<>>
           /\ \A i \in 1..Len(bytes) :
                  Found(bytes)[i] = IF IsStartCode(bytes, i - 1) THEN Append(Found(bytes)[i - 1], i - 1)
                                    ELSE Found(bytes)[i - 1]
<1> DEFINE N == Len(bytes)  V == Seq(Nat)  none == <<>>
           Next(v, i) == IF IsStartCode(bytes, i - 1) THEN Append(v, i - 1) ELSE v
           Def(f, i) == IF i = 0 THEN <<>> ELSE Next(f[i - 1], i)
           step == [i \in 1..N |-> [v \in V |-> Next(v, i)]]
<1>1. N \in Nat  OBVIOUS
<1>2. step \in [1..N -> [V -> V]]
  <2>1. ASSUME NEW i \in 1..N, NEW v \in V PROVE Next(v, i) \in V
    <3>1. i - 1 \in Nat  BY <1>1
    <3> QED BY <3>1
  <2> HIDE DEF Next, V
  <2> QED BY <2>1
<1>3. none \in V  OBVIOUS
<1>4. PICK f \in [0..N -> V] : f[0] = none /\ \A i \in 1..N : f[i] = step[i][f[i - 1]]
  <2> HIDE DEF step, N, V, none
  <2> QED BY <1>1, <1>2, <1>3, Recursion
<1>5. ASSUME NEW i \in 0..N PROVE f[i] = Def(f, i)
  <2>1. CASE i = 0  BY <1>4, <2>1
  <2>2. CASE i # 0
    <3>1. i \in 1..N /\ i - 1 \in 0..N  BY <1>1, <2>2
    <3>2. f[i - 1] \in V  BY <3>1
    <3>3. f[i] = step[i][f[i - 1]]  BY <1>4, <3>1
    <3> HIDE DEF Next, V
    <3>4. step[i][f[i - 1]] = Next(f[i - 1], i)  BY <3>1, <3>2
    <3> HIDE DEF step
    <3> QED BY <2>2, <3>3, <3>4
  <2> QED BY <2>1, <2>2
<1>6. \E h : h = [i \in 0..N |-> Def(h, i)]
  <2> HIDE DEF Def
  <2>1. f = [i \in 0..N |-> Def(f, i)]  BY <1>5
  <2> QED BY <2>1
<1>7. Found(bytes) = CHOOSE h : h = [i \in 0..N |-> Def(h, i)]
      BY Zenon DEF Found
<1>8. Found(bytes) = [i \in 0..N |-> Def(Found(bytes), i)]
  <2> HIDE DEF Def, N
  <2> QED BY <1>6, <1>7
<1>9. \A i \in 0..N : Found(bytes)[i] = Def(Found(bytes), i)
  <2> HIDE DEF Def, N
  <2> QED BY <1>8
<1>10. Found(bytes)[0] = <<>>
  <2>1. 0 \in 0..N  BY <1>1
  <2> HIDE DEF N, Next
  <2> QED BY <1>9, <2>1, Zenon
<1>11. ASSUME NEW i \in 1..N PROVE Found(bytes)[i] = Next(Found(bytes)[i - 1], i)
  <2>1. i \in 0..N /\ i # 0  BY <1>1
  <2> HIDE DEF N, Next
  <2> QED BY <1>9, <2>1, Zenon
<1> QED BY <1>10, <1>11

\* The parser finds the start codes, in order.
LEMMA StartCodesFound ==
    ASSUME NEW p, NEW ns, NEW bytes, Layout(p, ns, bytes),
           \A k \in 1..Len(ns) : Escaped(ns[k])
    PROVE  StartCodes(bytes) = [k \in 1..Len(ns) |-> Start(p, ns, k - 1)]
<1> DEFINE N == Len(ns)  S(k) == Start(p, ns, k)  E == Len(bytes)
           Begun(m) == [k \in 1..m |-> S(k - 1)]
           Upto(m, i) == /\ Found(bytes)[i] = Begun(m)
                         /\ \A k \in 1..m : S(k - 1) < i
                         /\ m < N => i <= S(m)
           T == {i \in 0..E : \E m \in 0..N : Upto(m, i)}
<1>1. N \in Nat /\ E \in Nat /\ E = S(N)  BY DEF Layout
<1>2. \A k \in 0..N : S(k) \in Nat  BY DEF Layout
<1>3. \A j, k \in 0..N : j <= k => S(j) <= S(k)  BY DEF Layout
<1>4. ASSUME NEW k \in 1..N PROVE S(k - 1) < S(k)
  <2>1. S(k) = S(k - 1) + 4 + Len(ns[k]) /\ Len(ns[k]) \in Nat  BY DEF Layout
  <2>2. k - 1 \in 0..N  BY <1>1
  <2>3. S(k - 1) \in Nat  BY <1>2, <2>2
  <2> HIDE DEF S
  <2> QED BY <2>1, <2>3
<1>5. \A at \in Nat : IsStartCode(bytes, at) <=> \E k \in 1..N : at = S(k - 1)
      BY StartCodesAre
<1>6. Found(bytes)[0] = <<>> /\ \A i \in 1..E :
          Found(bytes)[i] = IF IsStartCode(bytes, i - 1) THEN Append(Found(bytes)[i - 1], i - 1)
                            ELSE Found(bytes)[i - 1]
      BY <1>1, FoundUnfolds
<1> HIDE DEF S, E, N
<1>7. 0 \in T
  <2>1. Begun(0) = <<>>  OBVIOUS
  <2>2. S(0) \in Nat  BY <1>1, <1>2
  <2>3. Upto(0, 0)  BY <1>6, <2>1, <2>2
  <2> HIDE DEF Upto
  <2> QED BY <1>1, <2>3
<1>8. ASSUME NEW i \in 1..E, i - 1 \in T PROVE i \in T
  <2>1. PICK m \in 0..N : Upto(m, i - 1)  BY <1>8
  <2>2. i \in Nat /\ i - 1 \in Nat /\ m \in Nat  BY <1>1
  <2>3. CASE IsStartCode(bytes, i - 1)
    <3>1. PICK k \in 1..N : i - 1 = S(k - 1)  BY <1>5, <2>2, <2>3
    <3>2. k - 1 \in 0..N /\ k \in Nat  BY <1>1
    <3>3. ~(k <= m)
      <4> SUFFICES ASSUME k <= m PROVE FALSE  OBVIOUS
      <4>1. k \in 1..m  BY <2>2, <3>2
      <4>2. S(k - 1) < i - 1  BY <2>1, <4>1
      <4> QED BY <2>2, <3>1, <4>2
    <3>4. k = m + 1
      <4> SUFFICES ASSUME k # m + 1 PROVE FALSE  OBVIOUS
      <4>1. m + 1 \in 1..N /\ m + 1 \in 0..N /\ m + 1 <= k - 1 /\ m < N /\ (m + 1) - 1 = m
            BY <1>1, <2>2, <3>2, <3>3
      <4>2. S(m) < S(m + 1)
        <5>1. S((m + 1) - 1) < S(m + 1)  BY <1>4, <4>1
        <5> QED BY <4>1, <5>1
      <4>3. S(m + 1) <= S(k - 1)  BY <1>3, <3>2, <4>1
      <4>4. i - 1 <= S(m)  BY <2>1, <4>1
      <4>5. S(m) \in Nat /\ S(m + 1) \in Nat /\ S(k - 1) \in Nat  BY <1>2, <3>2, <4>1
      <4> QED BY <2>2, <3>1, <4>2, <4>3, <4>4, <4>5
    <3>5. m + 1 \in 0..N /\ m < N /\ i - 1 = S(m)  BY <2>2, <3>1, <3>4, <1>1
    <3>6. Found(bytes)[i] = Begun(m + 1)
      <4>1. Found(bytes)[i] = Append(Begun(m), S(m))  BY <1>6, <2>1, <2>3, <3>5
      <4>2. Begun(m) \in Seq(Nat) /\ Len(Begun(m)) = m /\ S(m) \in Nat
        <5>1. \A j \in 1..m : j - 1 \in 0..N  BY <1>1, <2>2
        <5>2. \A j \in 1..m : S(j - 1) \in Nat  BY <1>2, <5>1
        <5>3. S(m) \in Nat  BY <1>2
        <5> QED BY <2>2, <5>2, <5>3
      <4> DEFINE all == Append(Begun(m), S(m))
      <4>3. \A j \in 1..m : Begun(m)[j] = S(j - 1)  OBVIOUS
      <4> HIDE DEF Begun
      <4>4. /\ all = [k1 \in 1..(m + 1) |-> all[k1]]
            /\ \A j \in 1..m : all[j] = Begun(m)[j]
            /\ all[m + 1] = S(m)
            BY <4>2, Appended, SMTT(30)
      <4> HIDE DEF all
      <4>5. ASSUME NEW j \in 1..(m + 1) PROVE all[j] = S(j - 1)
        <5>1. CASE j = m + 1
          <6>1. j - 1 = m  BY <2>2, <5>1
          <6> QED BY <4>4, <5>1, <6>1
        <5>2. CASE j # m + 1
          <6>1. j \in 1..m  BY <2>2, <5>2
          <6> QED BY <4>3, <4>4, <6>1
        <5> QED BY <5>1, <5>2
      <4>6. all = Begun(m + 1)
        <5>1. all = [k1 \in 1..(m + 1) |-> S(k1 - 1)]  BY <4>4, <4>5
        <5> QED BY <5>1 DEF Begun
      <4> QED BY <4>1, <4>6 DEF all
    <3>7. \A j \in 1..(m + 1) : S(j - 1) < i
      <4> SUFFICES ASSUME NEW j \in 1..(m + 1) PROVE S(j - 1) < i  OBVIOUS
      <4>1. CASE j = m + 1
        <5>1. j - 1 = m  BY <2>2, <4>1
        <5> QED BY <2>2, <3>5, <5>1
      <4>2. CASE j # m + 1
        <5>1. j \in 1..m /\ j - 1 \in 0..N  BY <1>1, <2>2, <4>2
        <5>2. S(j - 1) < i - 1 /\ S(j - 1) \in Nat  BY <1>2, <2>1, <5>1
        <5> QED BY <2>2, <5>2
      <4> QED BY <4>1, <4>2
    <3>8. m + 1 < N => i <= S(m + 1)
      <4>1. (m + 1) - 1 = m /\ m + 1 \in 1..N  BY <1>1, <2>2, <3>5
      <4>2. S(m) < S(m + 1)
        <5>1. S((m + 1) - 1) < S(m + 1)  BY <1>4, <4>1
        <5> QED BY <4>1, <5>1
      <4>3. S(m) \in Nat /\ S(m + 1) \in Nat  BY <1>2, <3>5
      <4> QED BY <2>2, <3>5, <4>2, <4>3
    <3>9. Upto(m + 1, i)  BY <3>6, <3>7, <3>8
    <3> HIDE DEF Upto
    <3> QED BY <3>5, <3>9, <1>1
  <2>4. CASE ~IsStartCode(bytes, i - 1)
    <3>1. Found(bytes)[i] = Begun(m)  BY <1>6, <2>1, <2>4
    <3>2. \A j \in 1..m : S(j - 1) < i
      <4> SUFFICES ASSUME NEW j \in 1..m PROVE S(j - 1) < i  OBVIOUS
      <4>1. j - 1 \in 0..N  BY <1>1, <2>2
      <4>2. S(j - 1) < i - 1 /\ S(j - 1) \in Nat  BY <1>2, <2>1, <4>1
      <4> QED BY <2>2, <4>2
    <3>3. m < N => i <= S(m)
      <4> SUFFICES ASSUME m < N PROVE i <= S(m)  OBVIOUS
      <4>1. m + 1 \in 1..N /\ (m + 1) - 1 = m  BY <1>1, <2>2
      <4>2. i - 1 # S(m)  BY <1>5, <2>2, <2>4, <4>1
      <4>3. i - 1 <= S(m) /\ S(m) \in Nat  BY <1>2, <2>1
      <4> QED BY <2>2, <4>2, <4>3
    <3>4. Upto(m, i)  BY <3>1, <3>2, <3>3
    <3> HIDE DEF Upto
    <3> QED BY <1>1, <3>4
  <2> QED BY <2>3, <2>4
<1>9. E \in T
  <2> HIDE DEF T
  <2>1. \A i \in 0..E : i \in T  BY <1>1, <1>7, <1>8, BoundedInduction
  <2> QED BY <1>1, <2>1
<1>10. PICK m \in 0..N : Upto(m, E)  BY <1>9
<1>11. m = N
  <2> SUFFICES ASSUME m # N PROVE FALSE  OBVIOUS
  <2>1. m + 1 \in 1..N /\ m + 1 \in 0..N /\ N \in 0..N /\ m + 1 <= N /\ m < N /\ (m + 1) - 1 = m
        BY <1>1
  <2>2. S(m) < S(m + 1)
    <3>1. S((m + 1) - 1) < S(m + 1)  BY <1>4, <2>1
    <3> QED BY <2>1, <3>1
  <2>3. S(m + 1) <= S(N) /\ S(N) <= S(m)  BY <1>1, <1>3, <1>10, <2>1
  <2>4. S(m) \in Nat /\ S(m + 1) \in Nat /\ S(N) \in Nat  BY <1>2, <2>1
  <2> QED BY <2>2, <2>3, <2>4
<1> QED BY <1>10, <1>11 DEF StartCodes, E, N, S

\* The parser splits a payload into the NAL units it was composed of.
LEMMA SplitIsComposed ==
    ASSUME NEW p, NEW ns \in Seq(ByteStrings), NEW bytes, Layout(p, ns, bytes),
           \A k \in 1..Len(ns) : Escaped(ns[k])
    PROVE  Split(bytes, StartCodes(bytes)) = ns
<1> DEFINE N == Len(ns)  starts == StartCodes(bytes)
           part(k) == SubSeq(bytes, starts[k] + 5, NaluEnd(bytes, starts, k))
<1>1. starts = [k \in 1..N |-> Start(p, ns, k - 1)]  BY StartCodesFound
<1>2. N \in Nat /\ Len(bytes) = Start(p, ns, N) /\ bytes \in ByteStrings  BY DEF Layout
<1> HIDE DEF starts
<1>3. Len(starts) = N  BY <1>1, <1>2
<1>4. ASSUME NEW k \in 1..N PROVE part(k) = ns[k]
  <2> DEFINE from == Start(p, ns, k - 1)  to == Start(p, ns, k)  len == Len(ns[k])
  <2>1. /\ len \in Nat /\ to = from + 4 + len
        /\ \A i \in 1..len : bytes[from + 4 + i] = ns[k][i]
        BY DEF Layout
  <2>2. from \in Nat /\ to \in Nat /\ to <= Len(bytes)
    <3>1. k - 1 \in 0..N /\ k \in 0..N /\ N \in 0..N /\ k <= N  BY <1>2
    <3>2. Start(p, ns, k) <= Start(p, ns, N)  BY <3>1 DEF Layout
    <3> QED BY <1>2, <3>1, <3>2 DEF Layout
  <2>3. starts[k] = from  BY <1>1
  <2>4. NaluEnd(bytes, starts, k) = to
    <3>1. CASE k < N
      <4>1. k + 1 \in 1..N /\ (k + 1) - 1 = k  BY <1>2, <3>1
      <4>2. starts[k + 1] = Start(p, ns, (k + 1) - 1)  BY <1>1, <4>1
      <4> QED BY <1>3, <3>1, <4>1, <4>2 DEF NaluEnd
    <3>2. CASE ~(k < N)
      <4>1. k = N  BY <1>2, <3>2
      <4> QED BY <1>2, <1>3, <3>2, <4>1 DEF NaluEnd
    <3> QED BY <3>1, <3>2
  <2>5. ns[k] \in Seq(0..255)  BY DEF ByteStrings
  <2> DEFINE sub == SubSeq(bytes, from + 5, to)
  <2>6. part(k) = sub  BY <2>3, <2>4
  <2> HIDE DEF from, to, len
  <2>7. \A i \in (from + 5)..to : bytes[i] \in 0..255
    <3>1. bytes \in Seq(0..255)  BY <1>2 DEF ByteStrings
    <3>2. ASSUME NEW i \in (from + 5)..to PROVE bytes[i] \in 0..255
      <4>1. i \in 1..Len(bytes)
        <5>1. Len(bytes) \in Nat  BY <3>1
        <5>2. from \in Nat /\ to \in Nat  BY <2>2
        <5> QED BY <2>2, <5>1, <5>2
      <4> QED BY <3>1, <4>1, ElementOfSeq
    <3> QED BY <3>2
  <2>8. /\ sub \in Seq(0..255)
        /\ Len(sub) = IF from + 5 <= to THEN to - (from + 5) + 1 ELSE 0
        /\ \A i \in 1..(to - (from + 5) + 1) : sub[i] = bytes[(from + 5) + i - 1]
    <3>1. from + 5 \in Int /\ to \in Int  BY <2>2
    <3> QED BY <2>7, <3>1, SubSeqProperties, SMTT(30)
  <2> HIDE DEF sub
  <2>9. Len(sub) = len /\ to - (from + 5) + 1 = len
    <3>1. len \in Nat /\ to = from + 4 + len /\ from \in Nat  BY <2>1, <2>2
    <3>2. Len(sub) = IF from + 5 <= to THEN to - (from + 5) + 1 ELSE 0  BY <2>8
    <3> QED BY <3>1, <3>2
  <2>10. ASSUME NEW i \in 1..len PROVE sub[i] = ns[k][i]
    <3>1. (from + 5) + i - 1 = from + 4 + i  BY <2>2
    <3> QED BY <2>1, <2>8, <2>9, <3>1
  <2>11. sub = ns[k]
    <3>1. sub \in Seq(0..255) /\ ns[k] \in Seq(0..255) /\ Len(sub) = Len(ns[k])
          BY <2>5, <2>8, <2>9 DEF len
    <3>2. \A i \in 1..Len(sub) : sub[i] = ns[k][i]  BY <2>9, <2>10
    <3> QED BY <3>1, <3>2, SeqEqual
  <2> QED BY <2>6, <2>11
<1>5. Split(bytes, starts) = [k \in 1..N |-> part(k)]  BY <1>3 DEF Split
<1>6. ns = [k \in 1..N |-> ns[k]]  OBVIOUS
<1> HIDE DEF part, N
<1>7. Split(bytes, starts) = ns  BY <1>4, <1>5, <1>6
<1> QED BY <1>7 DEF starts

LEMMA SelectedUnfolds ==
    ASSUME NEW types, NEW ns \in Seq(ByteStrings)
    PROVE  /\ Selected(types, ns)[0] = <<>>
           /\ \A k \in 1..Len(ns) :
                  Selected(types, ns)[k] =
                      IF ns[k] # <<>> /\ NaluType(ns[k]) \in types
                      THEN Append(Selected(types, ns)[k - 1], ns[k])
                      ELSE Selected(types, ns)[k - 1]
<1> DEFINE N == Len(ns)  V == Seq(ByteStrings)  none == <<>>
           Next(v, k) == IF ns[k] # <<>> /\ NaluType(ns[k]) \in types THEN Append(v, ns[k]) ELSE v
           Def(f, k) == IF k = 0 THEN <<>> ELSE Next(f[k - 1], k)
           step == [k \in 1..N |-> [v \in V |-> Next(v, k)]]
<1>1. N \in Nat  OBVIOUS
<1>2. step \in [1..N -> [V -> V]]
  <2>1. ASSUME NEW k \in 1..N, NEW v \in V PROVE Next(v, k) \in V
    <3>1. ns[k] \in ByteStrings  OBVIOUS
    <3> QED BY <3>1
  <2> HIDE DEF Next, V
  <2> QED BY <2>1
<1>3. none \in V  OBVIOUS
<1>4. PICK f \in [0..N -> V] : f[0] = none /\ \A k \in 1..N : f[k] = step[k][f[k - 1]]
  <2> HIDE DEF step, N, V, none
  <2> QED BY <1>1, <1>2, <1>3, Recursion, SMTT(30)
<1>5. ASSUME NEW k \in 0..N PROVE f[k] = Def(f, k)
  <2>1. CASE k = 0  BY <1>4, <2>1
  <2>2. CASE k # 0
    <3>1. k \in 1..N /\ k - 1 \in 0..N  BY <1>1, <2>2
    <3>2. f[k - 1] \in V  BY <3>1
    <3>3. f[k] = step[k][f[k - 1]]  BY <1>4, <3>1
    <3> HIDE DEF Next, V
    <3>4. step[k][f[k - 1]] = Next(f[k - 1], k)  BY <3>1, <3>2
    <3> HIDE DEF step
    <3> QED BY <2>2, <3>3, <3>4
  <2> QED BY <2>1, <2>2
<1>6. \E h : h = [k \in 0..N |-> Def(h, k)]
  <2> HIDE DEF Def
  <2>1. f = [k \in 0..N |-> Def(f, k)]  BY <1>5
  <2> QED BY <2>1
<1>7. Selected(types, ns) = CHOOSE h : h = [k \in 0..N |-> Def(h, k)]
      BY Zenon DEF Selected
<1>8. Selected(types, ns) = [k \in 0..N |-> Def(Selected(types, ns), k)]
  <2> HIDE DEF Def, N
  <2> QED BY <1>6, <1>7
<1>9. \A k \in 0..N : Selected(types, ns)[k] = Def(Selected(types, ns), k)
  <2> HIDE DEF Def, N
  <2> QED BY <1>8
<1>10. Selected(types, ns)[0] = <<>>
  <2>1. 0 \in 0..N  BY <1>1
  <2> HIDE DEF N, Next
  <2> QED BY <1>9, <2>1, Zenon
<1>11. ASSUME NEW k \in 1..N PROVE Selected(types, ns)[k] = Next(Selected(types, ns)[k - 1], k)
  <2>1. k \in 0..N /\ k # 0  BY <1>1
  <2> HIDE DEF N, Next
  <2> QED BY <1>9, <2>1, Zenon
<1> QED BY <1>10, <1>11

\* The NAL units of some types by their places, and how many there are up to one.
Places(types, ns) == {k \in 1..Len(ns) : ns[k] # <<>> /\ NaluType(ns[k]) \in types}
Upto(at, k)       == {i \in at : i <= k}
Rank(at, k)       == Cardinality(Upto(at, k))

LEMMA RankCounts ==
    ASSUME NEW N \in Nat, NEW at \in SUBSET (1..N)
    PROVE  /\ Rank(at, 0) = 0 /\ Rank(at, N) = Cardinality(at)
           /\ \A k \in 0..N : Rank(at, k) \in Nat
           /\ \A k \in 1..N : k \in at => Rank(at, k) = Rank(at, k - 1) + 1
           /\ \A k \in 1..N : k \notin at => Rank(at, k) = Rank(at, k - 1)
<1>1. IsFiniteSet(1..N)  BY FS_Interval
<1>2. \A k \in 0..N : IsFiniteSet(Upto(at, k))
  <2>1. \A k \in 0..N : Upto(at, k) \subseteq 1..N  BY DEF Upto
  <2> QED BY <1>1, <2>1, FS_Subset
<1>3. Upto(at, 0) = {} /\ Upto(at, N) = at
  <2>1. \A i \in at : i \in 1..N  OBVIOUS
  <2>2. \A i \in at : ~(i <= 0) /\ i <= N  BY <2>1
  <2> QED BY <2>2, Zenon DEF Upto
<1>4. ASSUME NEW k \in 1..N
      PROVE /\ k \in at => Rank(at, k) = Rank(at, k - 1) + 1
            /\ k \notin at => Rank(at, k) = Rank(at, k - 1)
  <2>0. \A i \in at : i <= k <=> i <= k - 1 \/ i = k
    <3>1. \A i \in at : i \in 1..N  OBVIOUS
    <3> QED BY <3>1
  <2>1. CASE k \in at
    <3>0. k \in at /\ ~(k <= k - 1)  BY <2>1
    <3>1. Upto(at, k) = Upto(at, k - 1) \cup {k} /\ k \notin Upto(at, k - 1)
          BY <2>0, <3>0, Zenon DEF Upto
    <3>2. IsFiniteSet(Upto(at, k - 1))
      <4>1. k - 1 \in 0..N  OBVIOUS
      <4> QED BY <1>2, <4>1
    <3>3. Cardinality(Upto(at, k - 1) \cup {k}) = Cardinality(Upto(at, k - 1)) + 1
          BY <3>1, <3>2, FS_AddElement
    <3> QED BY <2>1, <3>1, <3>3 DEF Rank
  <2>2. CASE k \notin at
    <3>1. Upto(at, k) = Upto(at, k - 1)  BY <2>0, <2>2, Zenon DEF Upto
    <3> QED BY <2>2, <3>1 DEF Rank
  <2> QED BY <2>1, <2>2
<1>5. \A k \in 0..N : Rank(at, k) \in Nat  BY <1>2, FS_CardinalityType DEF Rank
<1>6. Rank(at, 0) = 0  BY <1>3, FS_EmptySet DEF Rank
<1> QED BY <1>3, <1>4, <1>5, <1>6 DEF Rank

\* The j-th unit selected is the one with j of its types up to it.
LEMMA SelectedRanks ==
    ASSUME NEW types, NEW ns \in Seq(ByteStrings), NEW at, at = Places(types, ns)
    PROVE  \A k \in 0..Len(ns) :
               /\ Selected(types, ns)[k] \in Seq(ByteStrings)
               /\ Len(Selected(types, ns)[k]) = Rank(at, k)
               /\ \A i \in at : i <= k =>
                      /\ Rank(at, i) \in 1..Rank(at, k)
                      /\ Selected(types, ns)[k][Rank(at, i)] = ns[i]
               /\ \A j \in 1..Rank(at, k) : \E i \in at : i <= k /\ Rank(at, i) = j
<1> DEFINE N == Len(ns)  taken(k) == Selected(types, ns)[k]  rank(k) == Rank(at, k)
           Good(k) == /\ taken(k) \in Seq(ByteStrings) /\ Len(taken(k)) = rank(k)
                      /\ \A i \in at : i <= k => /\ rank(i) \in 1..rank(k)
                                               /\ taken(k)[rank(i)] = ns[i]
                      /\ \A j \in 1..rank(k) : \E i \in at : i <= k /\ rank(i) = j
           T == {k \in 0..N : Good(k)}
<1>1. N \in Nat /\ at \in SUBSET (1..N)  BY DEF Places
<1>2. /\ rank(0) = 0
      /\ \A k \in 0..N : rank(k) \in Nat
      /\ \A k \in 1..N : k \in at => rank(k) = rank(k - 1) + 1
      /\ \A k \in 1..N : k \notin at => rank(k) = rank(k - 1)
  <2> HIDE DEF N
  <2>1. /\ Rank(at, 0) = 0
        /\ \A k \in 0..N : Rank(at, k) \in Nat
        /\ \A k \in 1..N : k \in at => Rank(at, k) = Rank(at, k - 1) + 1
        /\ \A k \in 1..N : k \notin at => Rank(at, k) = Rank(at, k - 1)
        BY <1>1, RankCounts, Zenon
  <2> QED BY <2>1, Zenon
<1>3. /\ taken(0) = <<>>
      /\ \A k \in 1..N : taken(k) = IF k \in at THEN Append(taken(k - 1), ns[k]) ELSE taken(k - 1)
  <2>1. \A k \in 1..N : k \in at <=> ns[k] # <<>> /\ NaluType(ns[k]) \in types
        BY DEF Places
  <2> QED BY <2>1, SelectedUnfolds
<1>4. \A k \in 1..N : ns[k] \in ByteStrings  OBVIOUS
<1> HIDE DEF N, taken, rank
<1>5. 0 \in T
  <2>1. \A i \in at : ~(i <= 0)  BY <1>1
  <2>2. <<>> \in Seq(ByteStrings) /\ Len(<<>>) = 0  OBVIOUS
  <2>3. taken(0) \in Seq(ByteStrings) /\ Len(taken(0)) = rank(0)  BY <1>2, <1>3, <2>2
  <2>4. \A j \in 1..rank(0) : FALSE  BY <1>2
  <2>5. Good(0)  BY <2>1, <2>3, <2>4
  <2> HIDE DEF Good
  <2> QED BY <1>1, <2>5
<1>6. ASSUME NEW k \in 1..N, k - 1 \in T PROVE k \in T
  <2>1. Good(k - 1) /\ k \in 0..N  BY <1>1, <1>6
  <2>2. \A i \in at : i <= k <=> i <= k - 1 \/ i = k
    <3>1. \A i \in at : i \in 1..N  BY <1>1
    <3> QED BY <3>1
  <2>3. rank(k - 1) \in Nat
    <3>1. k - 1 \in 0..N  BY <1>1
    <3> QED BY <1>2, <3>1
  <2>4. CASE k \in at
    <3> DEFINE old == taken(k - 1)  m == rank(k - 1)
    <3>1. taken(k) = Append(old, ns[k]) /\ rank(k) = m + 1 /\ m \in Nat /\ Len(old) = m
          BY <1>2, <1>3, <2>1, <2>3, <2>4
    <3>2. old \in Seq(ByteStrings) /\ ns[k] \in ByteStrings  BY <1>4, <2>1
    <3> DEFINE new == Append(old, ns[k])
    <3>3. /\ new \in Seq(ByteStrings) /\ Len(new) = Len(old) + 1
          /\ \A j \in 1..Len(old) : new[j] = old[j]
          /\ new[Len(old) + 1] = ns[k]
      <4> HIDE DEF old
      <4> QED BY <3>2, Appended
    <3>4. ASSUME NEW i \in at, i <= k
          PROVE  rank(i) \in 1..rank(k) /\ taken(k)[rank(i)] = ns[i]
      <4>1. CASE i = k
        <5>1. rank(i) = m + 1 /\ m + 1 \in 1..(m + 1)  BY <3>1, <4>1
        <5> HIDE DEF new, m
        <5> QED BY <3>1, <3>3, <4>1, <5>1
      <4>2. CASE i # k
        <5>1. i <= k - 1  BY <2>2, <3>4, <4>2
        <5>2. rank(i) \in 1..m /\ old[rank(i)] = ns[i]  BY <2>1, <5>1
        <5> HIDE DEF m, old
        <5>3. rank(i) \in 1..(m + 1)  BY <3>1, <5>2
        <5> HIDE DEF new
        <5>4. new[rank(i)] = old[rank(i)]  BY <3>1, <3>3, <5>2
        <5> QED BY <3>1, <5>2, <5>3, <5>4 DEF new
      <4> QED BY <4>1, <4>2
    <3>5. ASSUME NEW j \in 1..rank(k) PROVE \E i \in at : i <= k /\ rank(i) = j
      <4>1. CASE j = rank(k)
        <5>1. k <= k  OBVIOUS
        <5> QED BY <2>4, <4>1, <5>1
      <4>2. CASE j # rank(k)
        <5>1. j \in 1..m
          <6> HIDE DEF m
          <6> QED BY <3>1, <4>2
        <5>2. PICK i \in at : i <= k - 1 /\ rank(i) = j  BY <2>1, <5>1
        <5> QED BY <2>2, <5>2
      <4> QED BY <4>1, <4>2
    <3>6. taken(k) \in Seq(ByteStrings) /\ Len(taken(k)) = rank(k)
      <4> HIDE DEF new, m, old
      <4> QED BY <3>1, <3>3 DEF new
    <3>7. Good(k)  BY <3>4, <3>5, <3>6
    <3> HIDE DEF Good
    <3> QED BY <2>1, <3>7
  <2>5. CASE k \notin at
    <3>1. taken(k) = taken(k - 1) /\ rank(k) = rank(k - 1)  BY <1>2, <1>3, <2>5
    <3>2. \A i \in at : i <= k <=> i <= k - 1  BY <2>2, <2>5
    <3>3. Good(k)  BY <2>1, <3>1, <3>2
    <3> HIDE DEF Good
    <3> QED BY <2>1, <3>3
  <2> QED BY <2>4, <2>5
<1>7. \A k \in 0..N : k \in T
  <2> HIDE DEF T
  <2> QED BY <1>1, <1>5, <1>6, BoundedInduction
<1>8. \A k \in 0..N : Good(k)
  <2> HIDE DEF Good
  <2> QED BY <1>7
<1> QED BY <1>8 DEF N, taken, rank

\* What the parser selects of a payload's NAL units is what was sent of them.
LEMMA OfIsSent ==
    ASSUME nalus \in Seq(ByteStrings), NEW types, NEW at, at = Places(types, nalus)
    PROVE  /\ Of(types, nalus) = Sent(types)
           /\ Sent(types) \in Seq(ByteStrings)
           /\ \A i \in at : \E j \in 1..Len(Sent(types)) : Sent(types)[j] = nalus[i]
           /\ \A j \in 1..Len(Sent(types)) : \E i \in at : Sent(types)[j] = nalus[i]
<1> DEFINE N == Len(nalus)  of == Of(types, nalus)  total == Cardinality(at)
           unit(j) == nalus[CHOOSE k \in at : Rank(at, k) = j]
<1>1. N \in Nat /\ at \in SUBSET (1..N) /\ N \in 0..N  BY DEF Places
<1>2. Rank(at, N) = total
  <2> HIDE DEF N, total
  <2> QED BY <1>1, RankCounts DEF total
<1>3. /\ of \in Seq(ByteStrings) /\ Len(of) = total
      /\ \A i \in at : i <= N => Rank(at, i) \in 1..total /\ of[Rank(at, i)] = nalus[i]
      /\ \A j \in 1..total : \E i \in at : i <= N /\ Rank(at, i) = j
  <2>1. \A k \in 0..N : 
               /\ Selected(types, nalus)[k] \in Seq(ByteStrings)
               /\ Len(Selected(types, nalus)[k]) = Rank(at, k)
               /\ \A i \in at : i <= k =>
                      /\ Rank(at, i) \in 1..Rank(at, k)
                      /\ Selected(types, nalus)[k][Rank(at, i)] = nalus[i]
               /\ \A j \in 1..Rank(at, k) : \E i \in at : i <= k /\ Rank(at, i) = j
    <3> HIDE DEF N, total
    <3> QED BY SelectedRanks DEF N
  <2> HIDE DEF N, total
  <2> QED BY <1>1, <1>2, <2>1, Zenon DEF Of, N
<1>4. \A i \in at : i <= N  BY <1>1
<1> HIDE DEF of, N, total
<1>5. ASSUME NEW j \in 1..total PROVE of[j] = unit(j) /\ \E i \in at : of[j] = nalus[i]
  <2> DEFINE c == CHOOSE k \in at : Rank(at, k) = j
  <2>1. c \in at /\ Rank(at, c) = j
    <3>1. \E k \in at : Rank(at, k) = j  BY <1>3
    <3> QED BY <3>1, Zenon
  <2> HIDE DEF c
  <2>2. of[j] = nalus[c]  BY <1>3, <1>4, <2>1
  <2> QED BY <2>1, <2>2 DEF c
<1>6. Sent(types) = [j \in 1..total |-> unit(j)]
  <2>1. at = {k \in DOMAIN nalus : nalus[k] # <<>> /\ NaluType(nalus[k]) \in types}
    <3>1. DOMAIN nalus = 1..Len(nalus)  OBVIOUS
    <3> QED BY <3>1, Zenon DEF Places
  <2> DEFINE places == {k \in DOMAIN nalus : nalus[k] # <<>> /\ NaluType(nalus[k]) \in types}
         Listed(S) == [j \in 1..Cardinality(S) |->
                          nalus[CHOOSE k \in S : Cardinality({i \in S : i <= k}) = j]]
  <2>2. Sent(types) = Listed(places)  BY DEF Sent
  <2>3. at = places  BY <2>1
  <2>4. [j \in 1..total |-> unit(j)] = Listed(at)  BY DEF total, Rank, Upto
  <2> HIDE DEF places, Listed, unit
  <2> QED BY <2>2, <2>3, <2>4
<1>7. of = [j \in 1..total |-> of[j]]  BY <1>3
<1>8. of = Sent(types)
  <2> HIDE DEF unit
  <2> QED BY <1>5, <1>6, <1>7
<1>9. \A i \in at : \E j \in 1..total : of[j] = nalus[i]  BY <1>3, <1>4
<1> QED BY <1>3, <1>5, <1>8, <1>9 DEF of

\* The eight bits of the first byte.
LEMMA FirstByte ==
    ASSUME NEW nalu
    PROVE  /\ Bit(nalu, 0) = (nalu[1] \div 128) % 2 /\ Bit(nalu, 1) = (nalu[1] \div 64) % 2
           /\ Bit(nalu, 2) = (nalu[1] \div 32) % 2  /\ Bit(nalu, 3) = (nalu[1] \div 16) % 2
           /\ Bit(nalu, 4) = (nalu[1] \div 8) % 2   /\ Bit(nalu, 5) = (nalu[1] \div 4) % 2
           /\ Bit(nalu, 6) = (nalu[1] \div 2) % 2   /\ Bit(nalu, 7) = (nalu[1] \div 1) % 2
BY SMT DEF Bit

LEMMA BitType ==
    ASSUME NEW nalu \in ByteStrings, NEW i \in 0..(8 * Len(nalu) - 1)
    PROVE  Bit(nalu, i) \in {0, 1}
<1> DEFINE at == i \div 8 + 1  weights == <<128, 64, 32, 16, 8, 4, 2, 1>>
           w == weights[(i % 8) + 1]
<1>1. nalu \in Seq(0..255) /\ Len(nalu) \in Nat  BY DEF ByteStrings
<1>2. at \in 1..Len(nalu)
  <2> DEFINE len == Len(nalu)
  <2> HIDE DEF len
  <2>1. len \in Nat /\ i \in 0..(8 * len - 1)  BY <1>1 DEF len
  <2>2. i \div 8 + 1 \in 1..len  BY <2>1, SMT
  <2> QED BY <2>2 DEF len
<1>3. w \in {128, 64, 32, 16, 8, 4, 2, 1}
  <2>1. (i % 8) + 1 \in {1, 2, 3, 4, 5, 6, 7, 8}  BY SMT
  <2> DEFINE j == (i % 8) + 1
  <2> HIDE DEF j
  <2>2. j \in {1, 2, 3, 4, 5, 6, 7, 8}  BY <2>1 DEF j
  <2>3. weights[j] \in {128, 64, 32, 16, 8, 4, 2, 1}  BY <2>2
  <2> QED BY <2>3 DEF j
<1> HIDE DEF w
<1>4. nalu[at] \in 0..255  BY <1>1, <1>2, ElementOfSeq, SMTT(30)
<1> DEFINE b == nalu[at]
<1>5. Bit(nalu, i) = (b \div w) % 2  BY DEF Bit, w
<1> HIDE DEF b, at
<1>6. b \div w \in Int
  <2>1. b \in 0..255
    <3> HIDE DEF at
    <3> QED BY <1>4 DEF b
  <2>2. w \in Int /\ w > 0  BY <1>3
  <2> QED BY <2>1, <2>2, SMT
<1>7. (b \div w) % 2 \in {0, 1}  BY <1>6, SMT
<1> QED BY <1>5, <1>7

\* What n digits behind a one can make of it.
Doubles(r, n) == r[0] = 1 /\ \A k \in 1..n : r[k] \in {2 * r[k - 1], 2 * r[k - 1] + 1}

\* A number with its leading zeros: its digits double, and it is within the unit.
LEMMA Golomb ==
    ASSUME NEW nalu \in ByteStrings, NEW pos \in Nat, NEW zeros \in 0..24,
           pos + zeros < 8 * Len(nalu),
           \A i \in pos..(pos + zeros - 1) : Bit(nalu, i) # 1, Bit(nalu, pos + zeros) = 1
    PROVE  /\ zeros > 0 /\ pos + 2 * zeros >= 8 * Len(nalu) =>
                 UnsignedExpGolomb(nalu, pos).value = -1
           /\ zeros = 0 \/ pos + 2 * zeros < 8 * Len(nalu) =>
                 /\ UnsignedExpGolomb(nalu, pos).next = pos + 2 * zeros + 1
                 /\ \E r : /\ Doubles(r, zeros)
                          /\ UnsignedExpGolomb(nalu, pos).value = r[zeros] - 1
<1> DEFINE end  == 8 * Len(nalu)  one == pos + zeros
           ones == {i \in pos..(end - 1) : Bit(nalu, i) = 1}
           first == IF ones = {} THEN end ELSE CHOOSE i \in ones : \A j \in ones : i <= j
           Def(f, k, at) == IF k = 0 THEN 1 ELSE 2 * f[k - 1] + Bit(nalu, at + k)
           read(n, at) == CHOOSE h : h = [k \in 0..n |-> Def(h, k, at)]
           Result(n, at) == IF n > 24 \/ (n > 0 /\ at + n >= end)
                            THEN [value |-> -1, next |-> end]
                            ELSE [value |-> read(n, at)[n] - 1, next |-> at + n + 1]
<1>1. end \in Nat /\ one \in Nat  BY DEF ByteStrings
<1>2. first = one
  <2>1. one \in ones /\ ones # {}  BY <1>1
  <2>2. \A i \in ones : one <= i
    <3> SUFFICES ASSUME NEW i \in ones, ~(one <= i) PROVE FALSE  OBVIOUS
    <3>1. i \in pos..(end - 1) /\ Bit(nalu, i) = 1  OBVIOUS
    <3>2. i \in pos..(pos + zeros - 1)  BY <1>1, <3>1
    <3> QED BY <3>1, <3>2
  <2>3. \A i \in ones : i \in Int  BY <1>1
  <2> DEFINE least == CHOOSE i \in ones : \A j \in ones : i <= j
  <2> HIDE DEF ones
  <2>4. least \in ones /\ \A j \in ones : least <= j
    <3>1. \E i \in ones : \A j \in ones : i <= j  BY <2>1, <2>2
    <3> QED BY <3>1, Zenon
  <2> HIDE DEF least
  <2>5. least = one  BY <1>1, <2>1, <2>2, <2>3, <2>4
  <2> QED BY <2>1, <2>5 DEF least
<1>3. UnsignedExpGolomb(nalu, pos) = Result(first - pos, first)
      BY Zenon DEF UnsignedExpGolomb
<1> HIDE DEF first
<1>4. first - pos = zeros /\ one + zeros = pos + 2 * zeros  BY <1>2
<1>5. UnsignedExpGolomb(nalu, pos) = Result(zeros, one)  BY <1>2, <1>3, <1>4
<1>6. ASSUME zeros > 0, pos + 2 * zeros >= end PROVE UnsignedExpGolomb(nalu, pos).value = -1
  <2>1. zeros > 0 /\ one + zeros >= end  BY <1>4, <1>6
  <2> HIDE DEF read
  <2> QED BY <1>5, <2>1
<1>7. ASSUME zeros = 0 \/ pos + 2 * zeros < end
      PROVE  /\ UnsignedExpGolomb(nalu, pos).next = pos + 2 * zeros + 1
             /\ \E r : /\ Doubles(r, zeros)
                      /\ UnsignedExpGolomb(nalu, pos).value = r[zeros] - 1
  <2>1. ~(zeros > 24) /\ ~(zeros > 0 /\ one + zeros >= end) /\ zeros \in Nat
        BY <1>1, <1>4, <1>7
  <2> DEFINE r == read(zeros, one)
  <2>2. UnsignedExpGolomb(nalu, pos).next = one + zeros + 1
        /\ UnsignedExpGolomb(nalu, pos).value = r[zeros] - 1
    <3> HIDE DEF read
    <3> QED BY <1>5, <2>1
  <2>3. \A k \in 1..zeros : Bit(nalu, one + k) \in {0, 1}
    <3> SUFFICES ASSUME NEW k \in 1..zeros PROVE Bit(nalu, one + k) \in {0, 1}  OBVIOUS
    <3>1. one + k \in 0..(end - 1)
      <4> HIDE DEF one, end
      <4> QED BY <1>1, <2>1
    <3> QED BY <3>1, BitType
  <2>10. \E h \in [0..zeros -> Nat] : h = [k \in 0..zeros |-> Def(h, k, one)]
    <3> DEFINE step == [k \in 1..zeros |-> [v \in Nat |-> 2 * v + Bit(nalu, one + k)]]
    <3>1. step \in [1..zeros -> [Nat -> Nat]]
      <4>1. ASSUME NEW k \in 1..zeros, NEW v \in Nat PROVE 2 * v + Bit(nalu, one + k) \in Nat
        <5>1. Bit(nalu, one + k) \in {0, 1}  BY <2>3
        <5> QED BY <5>1
      <4> QED BY <4>1
    <3> DEFINE start == 1
    <3>6. start \in Nat  OBVIOUS
    <3>2. PICK f \in [0..zeros -> Nat] : f[0] = 1 /\ \A k \in 1..zeros : f[k] = step[k][f[k - 1]]
      <4> DEFINE V == Nat
      <4>2. start \in V /\ zeros \in Nat /\ step \in [1..zeros -> [V -> V]]
            BY <2>1, <3>1, <3>6
      <4> HIDE DEF step, start, V
      <4>1. \E f \in [0..zeros -> V] :
               f[0] = start /\ \A k \in 1..zeros : f[k] = step[k][f[k - 1]]
            BY <4>2, Recursion
      <4> QED BY <4>1 DEF start, V
    <3>3. ASSUME NEW k \in 0..zeros PROVE f[k] = Def(f, k, one)
      <4>1. CASE k = 0  BY <3>2, <4>1
      <4>2. CASE k # 0
        <5>1. k \in 1..zeros /\ k - 1 \in 0..zeros  BY <2>1, <4>2
        <5>2. f[k - 1] \in Nat /\ f[k] = step[k][f[k - 1]]  BY <3>2, <5>1
        <5>3. step[k][f[k - 1]] = 2 * f[k - 1] + Bit(nalu, one + k)  BY <5>1, <5>2
        <5> HIDE DEF step
        <5> QED BY <4>2, <5>2, <5>3
      <4> QED BY <4>1, <4>2
    <3> HIDE DEF Def
    <3>4. f = [k \in 0..zeros |-> Def(f, k, one)]  BY <3>3
    <3> QED BY <3>2, <3>4
  <2>4. r = [k \in 0..zeros |-> Def(r, k, one)]
    <3> HIDE DEF Def
    <3>1. \E h : h = [k \in 0..zeros |-> Def(h, k, one)]  BY <2>10
    <3> QED BY <3>1
  <2> HIDE DEF r
  <2>5. \A k \in 0..zeros : r[k] = Def(r, k, one)
    <3> HIDE DEF Def
    <3> QED BY <2>4
  <2>6. r[0] = 1  BY <2>1, <2>5
  <2>8. \A k \in 0..zeros : r[k] \in Int
    <3> DEFINE T == {k \in 0..zeros : r[k] \in Int}
    <3>1. 0 \in T  BY <2>1, <2>6
    <3>2. ASSUME NEW k \in 1..zeros, k - 1 \in T PROVE k \in T
      <4>1. k \in 0..zeros /\ k # 0 /\ r[k - 1] \in Int  BY <2>1, <3>2
      <4>2. r[k] = 2 * r[k - 1] + Bit(nalu, one + k)  BY <2>5, <4>1
      <4>3. Bit(nalu, one + k) \in {0, 1}  BY <2>3
      <4>4. r[k] \in Int  BY <4>1, <4>2, <4>3
      <4> QED BY <4>1, <4>4
    <3>3. \A k \in 0..zeros : k \in T
      <4> HIDE DEF T
      <4> QED BY <2>1, <3>1, <3>2, BoundedInduction
    <3> QED BY <3>3
  <2>7. ASSUME NEW k \in 1..zeros PROVE r[k] \in {2 * r[k - 1], 2 * r[k - 1] + 1}
    <3>1. k \in 0..zeros /\ k # 0  BY <2>1
    <3>2. r[k] = 2 * r[k - 1] + Bit(nalu, one + k)  BY <2>5, <3>1
    <3>3. k - 1 \in 0..zeros /\ 2 * r[k - 1] + 0 = 2 * r[k - 1]
      <4>1. k - 1 \in 0..zeros  BY <2>1
      <4>2. r[k - 1] \in Int  BY <2>8, <4>1
      <4> QED BY <4>1, <4>2
    <3> QED BY <2>3, <3>2, <3>3
  <2>9. Doubles(r, zeros)  BY <2>6, <2>7 DEF Doubles
  <2> QED BY <1>4, <2>2, <2>9
<1> QED BY <1>6, <1>7

\* Only three leading zeros make a seven.
LEMMA NotSeven ==
    ASSUME NEW nalu \in ByteStrings, NEW pos \in Nat, NEW zeros \in {0, 1, 2, 4, 6},
           pos + zeros < 8 * Len(nalu),
           \A i \in pos..(pos + zeros - 1) : Bit(nalu, i) # 1, Bit(nalu, pos + zeros) = 1
    PROVE  UnsignedExpGolomb(nalu, pos).value # 7
<1> DEFINE value == UnsignedExpGolomb(nalu, pos).value  end == 8 * Len(nalu)
<1>1. zeros \in 0..24 /\ end \in Nat  BY DEF ByteStrings
<1>2. /\ zeros > 0 /\ pos + 2 * zeros >= end => value = -1
      /\ zeros = 0 \/ pos + 2 * zeros < end => \E r : Doubles(r, zeros) /\ value = r[zeros] - 1
      BY <1>1, Golomb
<1> HIDE DEF value, end
<1>3. CASE zeros > 0 /\ pos + 2 * zeros >= end  BY <1>2, <1>3 DEF value
<1>4. CASE ~(zeros > 0 /\ pos + 2 * zeros >= end)
  <2>1. zeros = 0 \/ pos + 2 * zeros < end  BY <1>1, <1>4
  <2>2. PICK r : Doubles(r, zeros) /\ value = r[zeros] - 1  BY <1>2, <2>1
  <2>3. r[0] = 1 /\ \A k \in 1..zeros : r[k] \in {2 * r[k - 1], 2 * r[k - 1] + 1}
        BY <2>2 DEF Doubles
  <2>6. ASSUME NEW k \in 1..zeros, NEW low \in Nat, r[k - 1] \in Int, low <= r[k - 1]
        PROVE  r[k] \in Int /\ 2 * low <= r[k]
    <3> DEFINE x == r[k - 1]  y == r[k]
    <3>1. y \in {2 * x, 2 * x + 1}  BY <2>3
    <3> HIDE DEF x, y
    <3>2. y \in Int /\ 2 * low <= y  BY <2>6, <3>1 DEF x
    <3> QED BY <3>2 DEF y
  <2>7. r[0] \in Int /\ 1 <= r[0]  BY <2>3
  <2>8. zeros <= 2 => r[zeros] \in Int /\ r[zeros] <= 7
    <3>1. zeros = 1 => r[1] \in 2..3
      <4>1. zeros = 1 => r[1] \in {2 * r[0], 2 * r[0] + 1}  BY <2>3
      <4> QED BY <2>3, <4>1
    <3>2. zeros = 2 => r[2] \in 4..7
      <4>1. zeros = 2 => r[1] \in {2 * r[0], 2 * r[0] + 1}  BY <2>3
      <4>2. zeros = 2 => r[1] \in 2..3  BY <2>3, <4>1
      <4>3. zeros = 2 => r[2] \in {2 * r[1], 2 * r[1] + 1}  BY <2>3
      <4> QED BY <4>2, <4>3
    <3> QED BY <2>3, <3>1, <3>2
  <2>9. zeros >= 4 => r[zeros] \in Int /\ 16 <= r[zeros]
    <3> SUFFICES ASSUME zeros \in {4, 6} PROVE r[zeros] \in Int /\ 16 <= r[zeros]  OBVIOUS
    <3>1. r[1] \in Int /\ 2 <= r[1]  BY <2>6, <2>7
    <3>2. r[2] \in Int /\ 4 <= r[2]  BY <2>6, <3>1
    <3>3. r[3] \in Int /\ 8 <= r[3]  BY <2>6, <3>2
    <3>4. r[4] \in Int /\ 16 <= r[4]  BY <2>6, <3>3
    <3>5. CASE zeros = 4  BY <3>4, <3>5
    <3>6. CASE zeros = 6
      <4>1. r[5] \in Int /\ 32 <= r[5]  BY <2>6, <3>4, <3>6
      <4>2. r[6] \in Int /\ 64 <= r[6]  BY <2>6, <3>6, <4>1
      <4> QED BY <3>6, <4>2
    <3> QED BY <3>5, <3>6
  <2>10. r[zeros] # 8 /\ r[zeros] \in Int
    <3>1. CASE zeros <= 2  BY <2>8, <3>1
    <3>2. CASE zeros >= 4  BY <2>9, <3>2
    <3> QED BY <3>1, <3>2
  <2> QED BY <2>2, <2>10 DEF value
<1> QED BY <1>3, <1>4

\* Where the second number begins is what the first one's leading zeros say.
LEMMA SecondNumber ==
    ASSUME NEW nalu \in ByteStrings, NEW zeros \in 0..2, nalu # <<>>,
           \A i \in 0..(zeros - 1) : Bit(nalu, i) # 1, Bit(nalu, zeros) = 1
    PROVE  UnsignedExpGolomb(nalu, 0).next = 2 * zeros + 1
<1> DEFINE end == 8 * Len(nalu)
<1>1. end \in Nat /\ end >= 8
  <2>1. Len(nalu) \in Nat /\ Len(nalu) # 0  BY DEF ByteStrings
  <2> QED BY <2>1
<1> HIDE DEF end
<1> DEFINE pos == 0
<1>2. /\ pos \in Nat /\ zeros \in 0..24 /\ pos + zeros < end /\ pos + 2 * zeros < end
      /\ \A i \in pos..(pos + zeros - 1) : Bit(nalu, i) # 1
      /\ Bit(nalu, pos + zeros) = 1
      /\ pos + 2 * zeros + 1 = 2 * zeros + 1
      BY <1>1
<1> HIDE DEF pos
<1>3. UnsignedExpGolomb(nalu, pos).next = pos + 2 * zeros + 1  BY <1>2, Golomb DEF end
<1> QED BY <1>2, <1>3 DEF pos

\* A reference slice never reads as an I slice.
LEMMA SliceTypeIsNotI ==
    ASSUME NEW nalu \in ByteStrings, nalu # <<>>, NaluType(nalu) = 1, nalu[1] >= 32
    PROVE  SliceType(nalu) # 7
<1> DEFINE b == nalu[1]  B(i) == Bit(nalu, i)
           next == UnsignedExpGolomb(nalu, 0).next
           second == UnsignedExpGolomb(nalu, next).value
<1>1. b \in 0..255 /\ 8 * Len(nalu) >= 8
  <2>1. Len(nalu) \in Nat /\ Len(nalu) # 0 /\ nalu \in Seq(0..255)  BY DEF ByteStrings
  <2>2. 1 \in 1..Len(nalu)  BY <2>1
  <2> QED BY <2>1, <2>2, ElementOfSeq, SMTT(30)
<1>2. second # 7 => SliceType(nalu) # 7
  <2>1. SliceType(nalu) = IF UnsignedExpGolomb(nalu, 0).value >= 0 /\ second \in 0..9
                          THEN second ELSE -1  BY Zenon DEF SliceType
  <2> HIDE DEF second
  <2> QED BY <2>1
<1>3. b \in {33, 65, 97, 129, 161, 193, 225}
  <2>1. b % 32 = 1 /\ b >= 32  BY DEF NaluType
  <2> HIDE DEF b
  <2> QED BY <1>1, <2>1, SMT
<1>4. /\ B(0) = (b \div 128) % 2 /\ B(1) = (b \div 64) % 2
      /\ B(2) = (b \div 32) % 2  /\ B(3) = (b \div 16) % 2
      /\ B(4) = (b \div 8) % 2   /\ B(5) = (b \div 4) % 2
      /\ B(6) = (b \div 2) % 2   /\ B(7) = (b \div 1) % 2
      BY FirstByte
<1> HIDE DEF b, B
<1>5. /\ B(7) = 1 /\ B(3) = 0 /\ B(4) = 0 /\ B(5) = 0 /\ B(6) = 0
      /\ b = 33 => B(0) = 0 /\ B(1) = 0 /\ B(2) = 1
      /\ b \in {65, 97} => B(0) = 0 /\ B(1) = 1
      /\ b >= 129 => B(0) = 1
      /\ b = 129 => B(1) = 0 /\ B(2) = 0
      /\ b = 161 => B(1) = 0 /\ B(2) = 1
      /\ b \in {193, 225} => B(1) = 1
  <2>1. CASE b = 33
    <3>1. B(0) = 0 /\ B(1) = 0 /\ B(2) = 1 /\ B(3) = 0  BY <1>4, <2>1, SMT
    <3>2. B(4) = 0 /\ B(5) = 0 /\ B(6) = 0 /\ B(7) = 1  BY <1>4, <2>1, SMT
    <3> QED BY <2>1, <3>1, <3>2
  <2>2. CASE b = 65
    <3>1. B(0) = 0 /\ B(1) = 1 /\ B(2) = 0 /\ B(3) = 0  BY <1>4, <2>2, SMT
    <3>2. B(4) = 0 /\ B(5) = 0 /\ B(6) = 0 /\ B(7) = 1  BY <1>4, <2>2, SMT
    <3> QED BY <2>2, <3>1, <3>2
  <2>3. CASE b = 97
    <3>1. B(0) = 0 /\ B(1) = 1 /\ B(2) = 1 /\ B(3) = 0  BY <1>4, <2>3, SMT
    <3>2. B(4) = 0 /\ B(5) = 0 /\ B(6) = 0 /\ B(7) = 1  BY <1>4, <2>3, SMT
    <3> QED BY <2>3, <3>1, <3>2
  <2>4. CASE b = 129
    <3>1. B(0) = 1 /\ B(1) = 0 /\ B(2) = 0 /\ B(3) = 0  BY <1>4, <2>4, SMT
    <3>2. B(4) = 0 /\ B(5) = 0 /\ B(6) = 0 /\ B(7) = 1  BY <1>4, <2>4, SMT
    <3> QED BY <2>4, <3>1, <3>2
  <2>5. CASE b = 161
    <3>1. B(0) = 1 /\ B(1) = 0 /\ B(2) = 1 /\ B(3) = 0  BY <1>4, <2>5, SMT
    <3>2. B(4) = 0 /\ B(5) = 0 /\ B(6) = 0 /\ B(7) = 1  BY <1>4, <2>5, SMT
    <3> QED BY <2>5, <3>1, <3>2
  <2>6. CASE b = 193
    <3>1. B(0) = 1 /\ B(1) = 1 /\ B(2) = 0 /\ B(3) = 0  BY <1>4, <2>6, SMT
    <3>2. B(4) = 0 /\ B(5) = 0 /\ B(6) = 0 /\ B(7) = 1  BY <1>4, <2>6, SMT
    <3> QED BY <2>6, <3>1, <3>2
  <2>7. CASE b = 225
    <3>1. B(0) = 1 /\ B(1) = 1 /\ B(2) = 1 /\ B(3) = 0  BY <1>4, <2>7, SMT
    <3>2. B(4) = 0 /\ B(5) = 0 /\ B(6) = 0 /\ B(7) = 1  BY <1>4, <2>7, SMT
    <3> QED BY <2>7, <3>1, <3>2
  <2> QED BY <1>3, <2>1, <2>2, <2>3, <2>4, <2>5, <2>6, <2>7
<1> DEFINE Fits(zeros, more) ==
               /\ \A i \in 0..(zeros - 1) : B(i) # 1
               /\ B(zeros) = 1 /\ 2 * zeros + 1 + more <= 7
               /\ \A i \in (2 * zeros + 1)..(2 * zeros + more) : B(i) # 1
               /\ B(2 * zeros + 1 + more) = 1
<1>6. ASSUME NEW zeros \in 0..2, NEW more \in {0, 1, 2, 4, 6}, Fits(zeros, more)
      PROVE  second # 7
  <2>1. next = 2 * zeros + 1  BY <1>6, SecondNumber DEF B
  <2> DEFINE pos == 2 * zeros + 1
  <2>2. /\ pos \in Nat /\ pos + more < 8 * Len(nalu)
        /\ \A i \in pos..(pos + more - 1) : Bit(nalu, i) # 1
        /\ Bit(nalu, pos + more) = 1
        BY <1>1, <1>6 DEF B
  <2>3. next = pos  BY <2>1
  <2> HIDE DEF pos, next
  <2>4. UnsignedExpGolomb(nalu, pos).value # 7  BY <2>2, NotSeven
  <2> QED BY <2>3, <2>4
<1> HIDE DEF second
<1>7. CASE b = 33
  <2>1. Fits(2, 2)
    <3>1. \A i \in 0..1 : B(i) # 1  BY <1>5, <1>7
    <3>2. \A i \in 5..6 : B(i) # 1  BY <1>5
    <3> QED BY <1>5, <1>7, <3>1, <3>2
  <2> HIDE DEF Fits
  <2> QED BY <1>2, <1>6, <2>1
<1>8. CASE b \in {65, 97}
  <2>1. Fits(1, 4)
    <3>1. \A i \in 0..0 : B(i) # 1  BY <1>5, <1>8
    <3>2. \A i \in 3..6 : B(i) # 1  BY <1>5
    <3> QED BY <1>5, <1>8, <3>1, <3>2
  <2> HIDE DEF Fits
  <2> QED BY <1>2, <1>6, <2>1
<1>9. CASE b = 129
  <2>1. Fits(0, 6)
    <3>1. \A i \in 1..6 : B(i) # 1  BY <1>5, <1>9
    <3> QED BY <1>5, <1>9, <3>1
  <2> HIDE DEF Fits
  <2> QED BY <1>2, <1>6, <2>1
<1>10. CASE b = 161
  <2>1. Fits(0, 1)
    <3>1. \A i \in 1..1 : B(i) # 1  BY <1>5, <1>10
    <3> QED BY <1>5, <1>10, <3>1
  <2> HIDE DEF Fits
  <2> QED BY <1>2, <1>6, <2>1
<1>11. CASE b \in {193, 225}
  <2>1. Fits(0, 0)  BY <1>5, <1>11
  <2> HIDE DEF Fits
  <2> QED BY <1>2, <1>6, <2>1
<1> QED BY <1>2, <1>3, <1>7, <1>8, <1>9, <1>10, <1>11

-----------------------------------------------------------------------------
(* Whatever the sender does, the payload is handled as it was composed.    *)

PayloadInv ==
    /\ prefix \in Heads /\ nalus \in Seq(Nalus)
    /\ result = Unhandled \/ result = HandleFrame(Composed)

LEMMA PayloadInvHolds == PayloadSpec => []PayloadInv
<1>1. ASSUME PayloadInit PROVE PayloadInv  BY <1>1 DEF PayloadInit, PayloadInv
<1>2. ASSUME PayloadInv, [PayloadNext]_payloadVars PROVE PayloadInv'
  <2>1. prefix \in Heads /\ nalus \in Seq(Nalus)  BY <1>2 DEF PayloadInv
  <2>2. ASSUME NEW n \in Nalus, Append1(n) PROVE PayloadInv'
    <3>1. nalus' \in Seq(Nalus)  BY <2>1, <2>2 DEF Append1
    <3> QED BY <2>1, <2>2, <3>1 DEF Append1, PayloadInv
  <2>3. ASSUME HandlePayload PROVE PayloadInv'
    <3>1. Composed' = Composed  BY <2>3 DEF HandlePayload, Composed
    <3>2. result' = HandleFrame(Composed)  BY <2>3 DEF HandlePayload
    <3>3. HandleFrame(Composed)' = HandleFrame(Composed)
          BY <3>1 DEF HandleFrame, IsControlJson, ParseAnnexB, IsEmpty, Sample
    <3> QED BY <2>1, <2>3, <3>2, <3>3 DEF HandlePayload, PayloadInv
  <2>4. ASSUME UNCHANGED payloadVars PROVE PayloadInv'
    <3>1. prefix' = prefix /\ nalus' = nalus /\ result' = result  BY <2>4 DEF payloadVars
    <3> QED BY <1>2, <3>1 DEF PayloadInv, Unhandled, HandleFrame, Composed
  <2> QED BY <1>2, <2>2, <2>3, <2>4 DEF PayloadNext
<1> QED BY <1>1, <1>2, PTL DEF PayloadSpec

LEMMA Composition ==
    ASSUME PayloadInv
    PROVE  /\ prefix \in Seq(1..255) /\ nalus \in Seq(ByteStrings)
           /\ \A k \in 1..Len(nalus) : Escaped(nalus[k])
           /\ Layout(prefix, nalus, Composed)
<1>1. prefix \in Seq(1..255)  BY PayloadAssumption DEF PayloadInv
<1>2. nalus \in Seq(Nalus)  BY DEF PayloadInv
<1>3. Nalus \subseteq ByteStrings  BY PayloadAssumption DEF ByteStrings
<1>4. nalus \in Seq(ByteStrings)  BY <1>2, <1>3, SeqMonotonic
<1>5. ASSUME NEW k \in 1..Len(nalus) PROVE Escaped(nalus[k])
  <2>1. nalus[k] \in Nalus  BY <1>2, ElementOfSeq
  <2> QED BY <2>1, PayloadAssumption DEF Escaped
<1>6. Layout(prefix, nalus, Composed)  BY <1>1, <1>4, PayloadBytes DEF Composed
<1> QED BY <1>1, <1>4, <1>5, <1>6

\* There are NAL units of some types when one was composed.
LEMMA SentOfTypes ==
    ASSUME nalus \in Seq(ByteStrings), NEW types
    PROVE  /\ Of(types, nalus) = Sent(types) /\ Sent(types) \in Seq(ByteStrings)
           /\ Sent(types) # <<>> <=> Places(types, nalus) # {}
           /\ \A i \in Places(types, nalus) :
                  \E j \in 1..Len(Sent(types)) : Sent(types)[j] = nalus[i]
           /\ \A j \in 1..Len(Sent(types)) :
                  \E i \in Places(types, nalus) : Sent(types)[j] = nalus[i]
<1> DEFINE sent == Sent(types)  at == Places(types, nalus)
<1> HIDE DEF at
<1>1. /\ Of(types, nalus) = sent /\ sent \in Seq(ByteStrings)
      /\ \A i \in at : \E j \in 1..Len(sent) : sent[j] = nalus[i]
      /\ \A j \in 1..Len(sent) : \E i \in at : sent[j] = nalus[i]
      BY OfIsSent DEF at
<1> HIDE DEF sent
<1>2. ASSUME sent # <<>> PROVE at # {}
  <2>1. 1 \in 1..Len(sent)
    <3>1. Len(sent) \in Nat /\ Len(sent) # 0  BY <1>1, <1>2, EmptySeq
    <3> QED BY <3>1
  <2> QED BY <1>1, <2>1
<1>3. ASSUME at # {} PROVE sent # <<>>
  <2>1. PICK j \in 1..Len(sent) : TRUE  BY <1>1, <1>3
  <2>2. Len(sent) # 0  BY <1>1, <2>1
  <2> QED BY <2>2
<1> QED BY <1>1, <1>2, <1>3 DEF sent, at

\* What the sample holds of a parameter set is the last one composed.
LEMMA LastSent ==
    ASSUME nalus \in Seq(ByteStrings), NEW type
    PROVE  /\ LastOf(type, nalus) = <<>> <=> Sent({type}) = <<>>
           /\ Given(LastOf(type, nalus)) = Lasts(Sent({type}))
<1> DEFINE sent == Sent({type})
<1> HIDE DEF sent
<1>1. /\ Of({type}, nalus) = sent /\ sent \in Seq(ByteStrings)
      /\ \A j \in 1..Len(sent) : \E i \in Places({type}, nalus) : sent[j] = nalus[i]
      BY SentOfTypes DEF sent
<1>2. LastOf(type, nalus) = IF sent = <<>> THEN <<>> ELSE sent[Len(sent)]
      BY <1>1, Zenon DEF LastOf
<1>3. ASSUME sent # <<>> PROVE sent[Len(sent)] # <<>>
  <2>1. Len(sent) \in 1..Len(sent)
    <3>1. Len(sent) \in Nat /\ Len(sent) # 0  BY <1>1, <1>3, EmptySeq
    <3> QED BY <3>1
  <2>2. PICK i \in Places({type}, nalus) : sent[Len(sent)] = nalus[i]  BY <1>1, <2>1
  <2>3. nalus[i] # <<>>  BY DEF Places
  <2> QED BY <2>2, <2>3
<1>4. LastOf(type, nalus) = <<>> <=> sent = <<>>  BY <1>2, <1>3
<1>5. Given(LastOf(type, nalus)) = Lasts(sent)
  <2>1. CASE sent = <<>>  BY <1>2, <2>1 DEF Given, Lasts
  <2>2. CASE sent # <<>>  BY <1>2, <1>3, <2>2 DEF Given, Lasts
  <2> QED BY <2>1, <2>2
<1> QED BY <1>4, <1>5 DEF sent

\* The parser takes the payload apart as the sender put it together.
LEMMA ParsedAsComposed ==
    ASSUME PayloadInv, NEW frame, frame = ParseAnnexB(Composed)
    PROVE  /\ frame.sps = LastOf(7, nalus) /\ frame.pps = LastOf(8, nalus)
           /\ frame.vclNalus = Slices
           /\ nalus # <<>> => frame.telemetryPrefix = prefix
<1> DEFINE bytes == Composed  starts == StartCodes(bytes)  N == Len(nalus)
<1> HIDE DEF bytes
<1>1. /\ prefix \in Seq(1..255) /\ nalus \in Seq(ByteStrings)
      /\ \A k \in 1..Len(nalus) : Escaped(nalus[k])
      /\ Layout(prefix, nalus, bytes)
      BY Composition DEF bytes
<1>2. starts = [k \in 1..N |-> Start(prefix, nalus, k - 1)]  BY <1>1, StartCodesFound
<1>3. Split(bytes, starts) = nalus  BY <1>1, SplitIsComposed
<1> HIDE DEF starts
<1>4. /\ frame.sps = LastOf(7, Split(bytes, starts))
      /\ frame.pps = LastOf(8, Split(bytes, starts))
      /\ frame.vclNalus = Of(VclTypes, Split(bytes, starts))
      /\ frame.telemetryPrefix = IF starts = <<>> THEN <<>> ELSE SubSeq(bytes, 1, starts[1])
      BY DEF ParseAnnexB, bytes, starts
<1>5. frame.vclNalus = Slices
  <2>1. Of(VclTypes, nalus) = Sent(VclTypes)  BY <1>1, SentOfTypes
  <2> QED BY <1>3, <1>4, <2>1 DEF Slices, VclTypes
<1>6. ASSUME nalus # <<>> PROVE frame.telemetryPrefix = prefix
  <2>1. N \in Nat /\ 1 \in 1..N
    <3>1. N \in Nat /\ N # 0  BY <1>1, <1>6, EmptySeq
    <3> QED BY <3>1
  <2> DEFINE len == Len(prefix)
  <2>2. len \in Nat /\ Start(prefix, nalus, 0) = len /\ len <= Len(bytes)
        /\ bytes \in ByteStrings /\ \A i \in 1..len : bytes[i] = prefix[i]
    <3>1. /\ len \in Nat /\ Start(prefix, nalus, 0) = len
          /\ Start(prefix, nalus, 0) <= Start(prefix, nalus, N)
          /\ Len(bytes) = Start(prefix, nalus, N)
          BY <1>1, <2>1 DEF Layout
    <3>2. bytes \in ByteStrings /\ \A i \in 1..len : bytes[i] = prefix[i]
          BY <1>1 DEF Layout
    <3> QED BY <3>1, <3>2
  <2>3. starts # <<>> /\ starts[1] = len
    <3>1. DOMAIN starts = 1..N  BY <1>2
    <3>2. starts # <<>>
      <4>1. DOMAIN <<>> = {}  BY EmptySeq
      <4> QED BY <2>1, <3>1, <4>1
    <3> QED BY <1>2, <2>1, <2>2, <3>2
  <2>4. SubSeq(bytes, 1, len) = prefix
    <3> HIDE DEF len
    <3>1. bytes \in Seq(0..255)  BY <2>2 DEF ByteStrings
    <3>2. SubSeq(bytes, 1, len) = [i \in 1..len |-> bytes[i]]
          BY <2>2, <3>1
    <3>3. prefix = [i \in 1..len |-> prefix[i]]  BY <1>1 DEF len
    <3> QED BY <2>2, <3>2, <3>3
  <2> QED BY <1>4, <2>3, <2>4
<1> QED BY <1>3, <1>4, <1>5, <1>6

\* Nothing was composed, or a start code was: NUL is in the payload.
LEMMA VideoHasNul ==
    ASSUME PayloadInv, nalus # <<>>
    PROVE  ~IsControlJson(Composed)
<1> DEFINE bytes == Composed  len == Len(prefix)
<1>1. nalus \in Seq(ByteStrings) /\ Layout(prefix, nalus, bytes)  BY Composition
<1> HIDE DEF bytes
<1>2. 1 \in 1..Len(nalus)
  <2>1. Len(nalus) \in Nat /\ Len(nalus) # 0  BY <1>1, EmptySeq
  <2> QED BY <2>1
<1>3. /\ len \in Nat /\ Start(prefix, nalus, 0) = len
      /\ bytes[Start(prefix, nalus, 0) + 1] = 0
      /\ Start(prefix, nalus, 1) = Start(prefix, nalus, 0) + 4 + Len(nalus[1])
      /\ Len(nalus[1]) \in Nat
      /\ Start(prefix, nalus, 1) <= Len(bytes) /\ bytes \in ByteStrings
  <2>1. 1 \in 0..Len(nalus) /\ Len(nalus) \in 0..Len(nalus) /\ 1 <= Len(nalus) /\ 1 - 1 = 0
        BY <1>1, <1>2
  <2>2. /\ len \in Nat /\ Start(prefix, nalus, 0) = len /\ bytes \in ByteStrings
        /\ Len(bytes) = Start(prefix, nalus, Len(nalus))
        BY <1>1 DEF Layout
  <2>3. \A j, k \in 0..Len(nalus) : j <= k => Start(prefix, nalus, j) <= Start(prefix, nalus, k)
        BY <1>1 DEF Layout
  <2>4. /\ Len(nalus[1]) \in Nat
        /\ Start(prefix, nalus, 1) = Start(prefix, nalus, 1 - 1) + 4 + Len(nalus[1])
        /\ \A i \in 1..4 : bytes[Start(prefix, nalus, 1 - 1) + i] = StartCode[i]
        BY <1>1, <1>2 DEF Layout
  <2>5. StartCode[1] = 0  BY DEF StartCode
  <2> QED BY <2>1, <2>2, <2>3, <2>4, <2>5, SMTT(30)
<1>4. len + 1 \in DOMAIN bytes /\ bytes[len + 1] = 0
  <2>1. len + 1 \in 1..Len(bytes)
    <3> HIDE DEF len
    <3>1. Len(bytes) \in Nat  BY <1>3 DEF ByteStrings
    <3> QED BY <1>3, <3>1
  <2>2. DOMAIN bytes = 1..Len(bytes)  BY <1>3 DEF ByteStrings
  <2> QED BY <1>3, <2>1, <2>2
<1> QED BY <1>4 DEF IsControlJson, bytes

\* What became of a payload that was handled.
LEMMA HandledByContent ==
    ASSUME PayloadInv, result # Unhandled
    PROVE  /\ result.handled = "control" => nalus = <<>>
           /\ IsVideo => /\ result = Sample(ParseAnnexB(Composed))
                         /\ ~IsEmpty(ParseAnnexB(Composed))
           /\ result.handled = "ignored" => IsEmpty(ParseAnnexB(Composed))
<1> DEFINE frame == ParseAnnexB(Composed)
<1>1. result = IF IsControlJson(Composed) THEN [handled |-> "control"]
               ELSE IF IsEmpty(frame) THEN [handled |-> "ignored"] ELSE Sample(frame)
      BY DEF PayloadInv, HandleFrame
<1> HIDE DEF frame
<1>2. Sample(frame).handled = "video"  BY DEF Sample
<1>3. CASE IsControlJson(Composed)
  <2>1. result.handled = "control"  BY <1>1, <1>3
  <2>2. nalus = <<>>  BY <1>3, VideoHasNul
  <2> QED BY <2>1, <2>2 DEF IsVideo
<1>4. CASE ~IsControlJson(Composed) /\ IsEmpty(frame)
  <2>1. result.handled = "ignored"  BY <1>1, <1>4
  <2> QED BY <1>4, <2>1 DEF IsVideo, frame
<1>5. CASE ~IsControlJson(Composed) /\ ~IsEmpty(frame)
  <2>1. result = Sample(frame) /\ result.handled = "video"  BY <1>1, <1>2, <1>5
  <2> QED BY <1>5, <2>1 DEF frame
<1> QED BY <1>3, <1>4, <1>5

\* There is something to show when slices or an SPS were composed.
LEMMA EmptyMeansNothingSent ==
    ASSUME PayloadInv
    PROVE  IsEmpty(ParseAnnexB(Composed)) <=> Slices = <<>> /\ Sent({7}) = <<>>
<1> DEFINE frame == ParseAnnexB(Composed)
<1>1. frame.sps = LastOf(7, nalus) /\ frame.vclNalus = Slices  BY ParsedAsComposed
<1>2. nalus \in Seq(ByteStrings)  BY Composition
<1>3. LastOf(7, nalus) = <<>> <=> Sent({7}) = <<>>  BY <1>2, LastSent
<1> HIDE DEF frame
<1>4. IsEmpty(frame) <=> Slices = <<>> /\ Sent({7}) = <<>>  BY <1>1, <1>3 DEF IsEmpty
<1> QED BY <1>4 DEF frame

(* A payload with a start code is never taken for a control message, a     *)
(* payload without slices and SPS is never shown, and one with either never *)
(* ignored, for every prefix without NUL and all NAL units (demux.cpp:5-13, *)
(* session.cpp:150-166).                                                   *)
THEOREM NeverMisroutedCorrect == PayloadSpec => []NeverMisrouted
<1>1. ASSUME PayloadInv PROVE NeverMisrouted
  <2>1. CASE result = Unhandled
    <3>1. result.handled = "pending"  BY <2>1 DEF Unhandled
    <3> QED BY <3>1 DEF NeverMisrouted, IsVideo
  <2>2. CASE result # Unhandled
    <3>1. IsEmpty(ParseAnnexB(Composed)) <=> Slices = <<>> /\ Sent({7}) = <<>>
          BY <1>1, EmptyMeansNothingSent
    <3>2. /\ result.handled = "control" => nalus = <<>>
          /\ IsVideo => ~IsEmpty(ParseAnnexB(Composed))
          /\ result.handled = "ignored" => IsEmpty(ParseAnnexB(Composed))
          BY <1>1, <2>2, HandledByContent
    <3> QED BY <3>1, <3>2, Zenon DEF NeverMisrouted
  <2> QED BY <2>1, <2>2
<1> QED BY <1>1, PayloadInvHolds, PTL

(* The decoder gets every slice, whole and in order, behind the last SPS and *)
(* PPS of the payload, for every choice of NAL units an encoder has escaped *)
(* and every number of them: the search for start codes finds those the     *)
(* sender wrote and no others (annexb.cpp:79-109, session.cpp:161-190).     *)
THEOREM SlicesReachDecoderCorrect == PayloadSpec => []SlicesReachDecoder
<1>1. ASSUME PayloadInv, IsVideo
      PROVE  /\ result.annexb = WithStartCodes(Lasts(Sent({7})) \o Lasts(Sent({8})) \o Slices)
             /\ result.telemetry = prefix
  <2> DEFINE frame == ParseAnnexB(Composed)
  <2>1. result # Unhandled
    <3>1. Unhandled.handled = "pending"  BY DEF Unhandled
    <3> QED BY <1>1, <3>1 DEF IsVideo
  <2>2. result = Sample(frame) /\ ~IsEmpty(frame)  BY <1>1, <2>1, HandledByContent
  <2>3. nalus \in Seq(ByteStrings)  BY <1>1, Composition
  <2>4. /\ Given(LastOf(7, nalus)) = Lasts(Sent({7}))
        /\ Given(LastOf(8, nalus)) = Lasts(Sent({8}))
        BY <2>3, LastSent
  <2>5. frame.sps = LastOf(7, nalus) /\ frame.pps = LastOf(8, nalus) /\ frame.vclNalus = Slices
        BY <1>1, ParsedAsComposed
  <2>6. nalus # <<>>
    <3> SUFFICES ASSUME nalus = <<>> PROVE FALSE  OBVIOUS
    <3>1. Len(nalus) = 0  BY EmptySeq
    <3>2. ASSUME NEW types PROVE Sent(types) = <<>>
      <4>1. Places(types, nalus) = {}  BY <3>1 DEF Places
      <4> QED BY <2>3, <4>1, SentOfTypes
    <3>3. Slices = <<>> /\ Sent({7}) = <<>>  BY <3>2 DEF Slices
    <3> QED BY <1>1, <2>2, <3>3, EmptyMeansNothingSent
  <2>7. frame.telemetryPrefix = prefix  BY <1>1, <2>6, ParsedAsComposed
  <2> HIDE DEF frame
  <2>8. /\ result.annexb = WithStartCodes(Given(frame.sps) \o Given(frame.pps) \o frame.vclNalus)
        /\ result.telemetry = frame.telemetryPrefix
        BY <2>2 DEF Sample
  <2> QED BY <2>4, <2>5, <2>7, <2>8
<1>2. PayloadInv => SlicesReachDecoder  BY <1>1, Zenon DEF SlicesReachDecoder
<1> QED BY <1>2, PayloadInvHolds, PTL

(* A sample counts as a keyframe if an IDR slice and an SPS were composed,   *)
(* and otherwise only if an SPS and a disposable slice were: read from the   *)
(* NAL header on, the slice type of every reference slice is something else *)
(* than I, whatever its bytes (annexb.cpp:37-59, 113-121).                  *)
THEOREM KeyframeIsIdrCorrect == PayloadSpec => []KeyframeIsIdr
<1>1. ASSUME PayloadInv, IsVideo
      PROVE  /\ Sent({7}) # <<>> /\ Sent({5}) # <<>> => result.isKeyframe
             /\ result.isKeyframe => Sent({7}) # <<>> /\ (Sent({5}) # <<>> \/ HasDisposable)
  <2> DEFINE frame == ParseAnnexB(Composed)
  <2>1. result # Unhandled
    <3>1. Unhandled.handled = "pending"  BY DEF Unhandled
    <3> QED BY <1>1, <3>1 DEF IsVideo
  <2>2. result = Sample(frame)  BY <1>1, <2>1, HandledByContent
  <2>3. nalus \in Seq(ByteStrings)  BY <1>1, Composition
  <2>4. frame.sps = <<>> <=> Sent({7}) = <<>>
    <3>1. frame.sps = LastOf(7, nalus)  BY <1>1, ParsedAsComposed
    <3> QED BY <2>3, <3>1, LastSent
  <2>5. frame.vclNalus = Slices  BY <1>1, ParsedAsComposed
  <2> DEFINE Idr   == \E k \in DOMAIN Slices : NaluType(Slices[k]) = 5
             IType == \E k \in DOMAIN Slices : NaluType(Slices[k]) = 1 /\ SliceType(Slices[k]) = 7
  <2> HIDE DEF frame
  <2>6. result.isKeyframe <=> frame.sps # <<>> /\ (Idr \/ IType)
    <3>1. result.isKeyframe = IsKeyframe(frame)  BY <2>2 DEF Sample
    <3> QED BY <2>5, <3>1 DEF IsKeyframe
  <2> DEFINE vcl == Places(VclTypes, nalus)
  <2>7. /\ DOMAIN Slices = 1..Len(Slices)
        /\ \A i \in vcl : \E j \in 1..Len(Slices) : Slices[j] = nalus[i]
        /\ \A j \in 1..Len(Slices) : \E i \in vcl : Slices[j] = nalus[i]
    <3>1. Slices = Sent(VclTypes)  BY DEF Slices, VclTypes
    <3>2. Slices \in Seq(ByteStrings)  BY <2>3, <3>1, SentOfTypes
    <3>3. DOMAIN Slices = 1..Len(Slices)  BY <3>2, LenProperties
    <3> QED BY <2>3, <3>1, <3>3, SentOfTypes, SMTT(30)
  <2>8. \A i \in vcl : i \in DOMAIN nalus /\ nalus[i] # <<>> /\ nalus[i] \in ByteStrings
    <3> SUFFICES ASSUME NEW i \in vcl
                 PROVE  i \in DOMAIN nalus /\ nalus[i] # <<>> /\ nalus[i] \in ByteStrings
        OBVIOUS
    <3>1. i \in 1..Len(nalus) /\ nalus[i] # <<>>  BY DEF Places
    <3>2. DOMAIN nalus = 1..Len(nalus)  BY <2>3, LenProperties
    <3>3. nalus[i] \in ByteStrings  BY <2>3, <3>1, ElementOfSeq
    <3> QED BY <3>1, <3>2, <3>3
  <2>9. Idr <=> Sent({5}) # <<>>
    <3> DEFINE idrs == Places({5}, nalus)
    <3>1. Sent({5}) # <<>> <=> idrs # {}  BY <2>3, SentOfTypes
    <3>2. \A i \in 1..Len(nalus) : i \in idrs <=> nalus[i] # <<>> /\ NaluType(nalus[i]) = 5
          BY DEF Places
    <3>3. \A i \in 1..Len(nalus) : i \in vcl <=> nalus[i] # <<>> /\ NaluType(nalus[i]) \in VclTypes
          BY DEF Places
    <3>4. 5 \in VclTypes /\ idrs \subseteq 1..Len(nalus) /\ vcl \subseteq 1..Len(nalus)
          BY DEF VclTypes, Places
    <3> HIDE DEF idrs, vcl
    <3>5. ASSUME NEW i \in idrs PROVE Idr
      <4>1. i \in vcl /\ NaluType(nalus[i]) = 5  BY <3>2, <3>3, <3>4
      <4>2. PICK j \in 1..Len(Slices) : Slices[j] = nalus[i]  BY <2>7, <4>1
      <4> QED BY <2>7, <4>1, <4>2
    <3>6. ASSUME NEW j \in DOMAIN Slices, NaluType(Slices[j]) = 5 PROVE idrs # {}
      <4>1. PICK i \in vcl : Slices[j] = nalus[i]  BY <2>7
      <4>2. nalus[i] # <<>> /\ NaluType(nalus[i]) = 5  BY <2>8, <3>6, <4>1
      <4> QED BY <3>2, <3>4, <4>2
    <3> QED BY <3>1, <3>5, <3>6
  <2>10. IType => HasDisposable
    <3> SUFFICES ASSUME ~HasDisposable, NEW j \in DOMAIN Slices, NaluType(Slices[j]) = 1
                 PROVE  SliceType(Slices[j]) # 7
        OBVIOUS
    <3>1. PICK i \in vcl : Slices[j] = nalus[i]  BY <2>7
    <3> DEFINE nalu == nalus[i]
    <3>2. nalu \in ByteStrings /\ nalu # <<>> /\ NaluType(nalu) = 1 /\ ~Disposable(nalu)
          BY <2>8, <3>1 DEF HasDisposable
    <3> HIDE DEF nalu
    <3>3. nalu[1] \in 0..255
      <4>1. nalu \in Seq(0..255)  BY <3>2 DEF ByteStrings
      <4>2. Len(nalu) \in Nat /\ Len(nalu) # 0  BY <3>2, <4>1, EmptySeq
      <4>3. 1 \in 1..Len(nalu)  BY <4>2
      <4> QED BY <4>1, <4>3, ElementOfSeq
    <3>4. nalu[1] >= 32
      <4>1. ~(nalu[1] < 32)  BY <3>2, Zenon DEF Disposable
      <4> QED BY <3>3, <4>1
    <3>5. SliceType(nalu) # 7  BY <3>2, <3>4, SliceTypeIsNotI
    <3> QED BY <3>1, <3>5 DEF nalu
  <2> HIDE DEF Idr, IType
  <2> QED BY <2>4, <2>6, <2>9, <2>10
<1>2. PayloadInv => KeyframeIsIdr  BY <1>1, Zenon DEF KeyframeIsIdr
<1> QED BY <1>2, PayloadInvHolds, PTL

-----------------------------------------------------------------------------
(* ControlMessages: where a message's members stand in its text.            *)

Texts == Seq(Atoms)
Separator(k) == IF k = 1 THEN <<>> ELSE <<",">>

LEMMA AtomFacts ==
    /\ Quote \in Atoms /\ ":" \in Atoms /\ "," \in Atoms
    /\ "{" \in Atoms /\ "}" \in Atoms /\ " " \in Atoms
    /\ \A mb \in Members :
          /\ mb.key \in Atoms /\ mb.key # Quote
          /\ mb.blank \in Seq({" "}) /\ mb.blank \in Texts
          /\ mb.value.isNumber \in BOOLEAN /\ mb.value.atoms \in Texts
          /\ mb.value.isNumber => \E n \in Numbers : mb.value.atoms = <<n>>
    /\ \A n \in Numbers : n \in Atoms /\ n \notin Marks
<1>1. Marks \subseteq Atoms /\ Numbers \subseteq Atoms /\ Marks \cap Numbers = {}
      BY ControlAssumption
<1>2. \A mb \in Members :
          /\ mb.key \in Atoms /\ mb.key # Quote
          /\ mb.blank \in Seq({" "}) /\ mb.value.atoms \in Texts
          /\ mb.value.isNumber \in BOOLEAN
          /\ mb.value.isNumber => \E n \in Numbers : mb.value.atoms = <<n>>
      BY ControlAssumption DEF Texts
<1>3. Quote \in Marks /\ ":" \in Marks /\ "," \in Marks /\ "{" \in Marks /\ "}" \in Marks
      /\ " " \in Marks  BY DEF Marks
<1>4. " " \in Atoms  BY <1>1, <1>3
<1>5. Seq({" "}) \subseteq Texts
  <2>1. {" "} \subseteq Atoms  BY <1>4
  <2> SUFFICES ASSUME NEW s \in Seq({" "}) PROVE s \in Seq(Atoms)  BY DEF Texts
  <2> QED BY <2>1, SeqMonotonic
<1> QED BY <1>1, <1>2, <1>3, <1>5

LEMMA TextsJoin ==
    ASSUME NEW front \in Texts, NEW back \in Texts
    PROVE  /\ front \o back \in Texts
           /\ Len(front \o back) = Len(front) + Len(back)
           /\ Len(front) \in Nat /\ Len(back) \in Nat
           /\ \A i \in 1..Len(front) : (front \o back)[i] = front[i]
           /\ \A i \in 1..Len(back) : (front \o back)[Len(front) + i] = back[i]
<1>1. front \in Seq(Atoms) /\ back \in Seq(Atoms)  BY DEF Texts
<1>2. /\ front \o back \in Seq(Atoms)
      /\ Len(front \o back) = Len(front) + Len(back)
      BY <1>1, Concatenated
<1>3. \A i \in 1..Len(front) : (front \o back)[i] = front[i]  BY <1>1, Concatenated
<1>4. \A i \in 1..Len(back) : (front \o back)[Len(front) + i] = back[i]
      BY <1>1, Concatenated
<1>5. Len(front) \in Nat /\ Len(back) \in Nat  BY <1>1
<1> QED BY <1>2, <1>3, <1>4, <1>5 DEF Texts

LEMMA OneAtom ==
    ASSUME NEW atom \in Atoms
    PROVE  <<atom>> \in Texts /\ Len(<<atom>>) = 1 /\ <<atom>>[1] = atom
<1>1. <<atom>> \in Seq(Atoms)  OBVIOUS
<1> QED BY <1>1 DEF Texts

\* A string is its atoms between quotes.
LEMMA StringAtoms ==
    ASSUME NEW atoms \in Texts
    PROVE  /\ String(atoms) \in Texts /\ Len(atoms) \in Nat
           /\ Len(String(atoms)) = Len(atoms) + 2
           /\ String(atoms)[1] = Quote
           /\ \A i \in 1..Len(atoms) : String(atoms)[1 + i] = atoms[i]
           /\ String(atoms)[Len(atoms) + 2] = Quote
<1> DEFINE q == <<Quote>>  front == q \o atoms  all == front \o q
<1>1. q \in Texts /\ Len(q) = 1 /\ q[1] = Quote  BY AtomFacts, OneAtom
<1> HIDE DEF q
<1>2. /\ front \in Texts /\ Len(front) = 1 + Len(atoms) /\ Len(atoms) \in Nat
      /\ front[1] = Quote /\ \A i \in 1..Len(atoms) : front[1 + i] = atoms[i]
  <2>1. 1 \in 1..Len(q)  BY <1>1
  <2>2. /\ front \in Texts /\ Len(front) = Len(q) + Len(atoms) /\ Len(atoms) \in Nat
        /\ \A i \in 1..Len(q) : front[i] = q[i]
        /\ \A i \in 1..Len(atoms) : front[Len(q) + i] = atoms[i]
        BY <1>1, TextsJoin
  <2> HIDE DEF front
  <2>3. front[1] = Quote  BY <1>1, <2>1, <2>2
  <2> QED BY <1>1, <2>2, <2>3
<1> HIDE DEF front
<1>3. /\ all \in Texts /\ Len(all) = Len(atoms) + 2
      /\ \A i \in 1..Len(front) : all[i] = front[i]
      /\ all[Len(front) + 1] = Quote
  <2>1. 1 \in 1..Len(q)  BY <1>1
  <2>2. /\ all \in Texts /\ Len(all) = Len(front) + Len(q)
        /\ \A i \in 1..Len(front) : all[i] = front[i]
        /\ \A i \in 1..Len(q) : all[Len(front) + i] = q[i]
        BY <1>1, <1>2, TextsJoin
  <2> HIDE DEF all
  <2> QED BY <1>1, <1>2, <2>1, <2>2
<1>4. String(atoms) = all
  <2>1. String(atoms) = q \o atoms \o q  BY DEF String, q
  <2> QED BY <2>1 DEF front
<1> HIDE DEF all
<1>5. all[1] = Quote
  <2>1. 1 \in 1..Len(front)  BY <1>2
  <2> QED BY <1>2, <1>3, <2>1
<1>6. ASSUME NEW i \in 1..Len(atoms) PROVE all[1 + i] = atoms[i]
  <2>1. 1 + i \in 1..Len(front)  BY <1>2
  <2> QED BY <1>2, <1>3, <2>1
<1>7. all[Len(atoms) + 2] = Quote
  <2>1. Len(front) + 1 = Len(atoms) + 2  BY <1>2
  <2> QED BY <1>3, <2>1
<1> QED BY <1>2, <1>3, <1>4, <1>5, <1>6, <1>7

\* A member's value is one number or a string.
LEMMA ValueAtoms ==
    ASSUME NEW mb \in Members
    PROVE  LET text == ValueText(mb.value) IN
           /\ text \in Texts /\ Len(text) \in Nat /\ Len(text) >= 1
           /\ mb.value.isNumber => Len(text) = 1 /\ text[1] \in Numbers
           /\ ~mb.value.isNumber =>
                 /\ text = String(mb.value.atoms)
                 /\ Len(text) = Len(mb.value.atoms) + 2 /\ Len(mb.value.atoms) \in Nat
                 /\ text[1] = Quote /\ text[Len(mb.value.atoms) + 2] = Quote
                 /\ \A i \in 1..Len(mb.value.atoms) : text[1 + i] = mb.value.atoms[i]
<1> DEFINE text == ValueText(mb.value)  atoms == mb.value.atoms
<1>1. atoms \in Texts /\ mb.value.isNumber \in BOOLEAN  BY AtomFacts
<1>2. CASE mb.value.isNumber
  <2>1. PICK n \in Numbers : atoms = <<n>>  BY <1>2, AtomFacts
  <2>2. text = <<n>>  BY <1>2, <2>1 DEF ValueText
  <2>3. text \in Texts  BY <1>1, <2>1, <2>2
  <2> HIDE DEF text
  <2>4. Len(text) = 1 /\ text[1] = n  BY <2>2
  <2> QED BY <1>2, <2>3, <2>4 DEF text
<1>3. CASE ~mb.value.isNumber
  <2>1. text = String(atoms)  BY <1>3 DEF ValueText
  <2> HIDE DEF text, atoms
  <2>2. /\ String(atoms) \in Texts /\ Len(atoms) \in Nat
        /\ Len(String(atoms)) = Len(atoms) + 2
        /\ String(atoms)[1] = Quote
        /\ \A i \in 1..Len(atoms) : String(atoms)[1 + i] = atoms[i]
        /\ String(atoms)[Len(atoms) + 2] = Quote
        BY <1>1, StringAtoms
  <2>3. Len(text) \in Nat /\ Len(text) >= 1  BY <2>1, <2>2
  <2>4. /\ text \in Texts
        /\ Len(text) = Len(atoms) + 2 /\ Len(atoms) \in Nat
        /\ text[1] = Quote /\ text[Len(atoms) + 2] = Quote
        /\ \A i \in 1..Len(atoms) : text[1 + i] = atoms[i]
        BY <2>1, <2>2
  <2> QED BY <1>3, <2>1, <2>3, <2>4 DEF text, atoms
<1> QED BY <1>1, <1>2, <1>3

\* Where a member's value begins, behind the start of the member.
ValueAt(mb) == 4 + Len(mb.blank)

LEMMA MemberAtoms ==
    ASSUME NEW mb \in Members
    PROVE  LET text == MemberText(mb)  value == ValueText(mb.value) IN
           /\ text \in Texts /\ Len(text) = ValueAt(mb) + Len(value)
           /\ ValueAt(mb) \in Nat /\ ValueAt(mb) >= 4
           /\ text[1] = Quote /\ text[2] = mb.key /\ text[3] = Quote /\ text[4] = ":"
           /\ \A i \in 5..ValueAt(mb) : text[i] = " "
           /\ \A i \in 1..Len(value) : text[ValueAt(mb) + i] = value[i]
<1> DEFINE key == String(<<mb.key>>)  colon == <<":">>  blank == mb.blank
           value == ValueText(mb.value)
           a == key \o colon  b == a \o blank  c == b \o value
<1>1. /\ key \in Texts /\ Len(key) = 3 /\ key[1] = Quote /\ key[2] = mb.key /\ key[3] = Quote
  <2> DEFINE atoms == <<mb.key>>
  <2>1. atoms \in Texts /\ Len(atoms) = 1 /\ atoms[1] = mb.key  BY AtomFacts, OneAtom
  <2> HIDE DEF atoms
  <2>2. /\ String(atoms) \in Texts /\ Len(String(atoms)) = Len(atoms) + 2
        /\ String(atoms)[1] = Quote /\ String(atoms)[Len(atoms) + 2] = Quote
        /\ \A i \in 1..Len(atoms) : String(atoms)[1 + i] = atoms[i]
        BY <2>1, StringAtoms
  <2>3. String(atoms)[1 + 1] = atoms[1] /\ 1 + 1 = 2 /\ Len(atoms) + 2 = 3  BY <2>1, <2>2
  <2>4. String(atoms)[2] = mb.key  BY <2>1, <2>3
  <2> QED BY <2>1, <2>2, <2>3, <2>4 DEF atoms
<1>2. colon \in Texts /\ Len(colon) = 1 /\ colon[1] = ":"  BY AtomFacts, OneAtom
<1>3. blank \in Texts /\ Len(blank) \in Nat
  <2>1. blank \in Texts  BY AtomFacts
  <2> QED BY <2>1, LenProperties DEF Texts
<1>13. ASSUME NEW i \in 1..Len(blank) PROVE blank[i] = " "
  <2>1. blank \in Seq({" "})  BY AtomFacts
  <2>2. blank[i] \in {" "}  BY <2>1, ElementOfSeq
  <2> QED BY <2>2
<1>4. value \in Texts /\ Len(value) \in Nat  BY ValueAtoms
<1>5. MemberText(mb) = c  BY DEF MemberText
<1>6. ValueAt(mb) = 4 + Len(blank)  BY DEF ValueAt
<1> HIDE DEF key, colon, blank, value
<1>7. /\ a \in Texts /\ Len(a) = 4
      /\ a[1] = Quote /\ a[2] = mb.key /\ a[3] = Quote /\ a[4] = ":"
  <2>1. /\ a \in Texts /\ Len(a) = Len(key) + Len(colon)
        /\ \A i \in 1..Len(key) : a[i] = key[i]
        /\ \A i \in 1..Len(colon) : a[Len(key) + i] = colon[i]
        BY <1>1, <1>2, TextsJoin
  <2> HIDE DEF a
  <2>2. 1 \in 1..Len(key) /\ 2 \in 1..Len(key) /\ 3 \in 1..Len(key) /\ 1 \in 1..Len(colon)
        /\ Len(key) + 1 = 4 /\ Len(a) = 4
        BY <1>1, <1>2, <2>1
  <2>3. a[1] = key[1] /\ a[2] = key[2] /\ a[3] = key[3] /\ a[Len(key) + 1] = colon[1]
        BY <2>1, <2>2
  <2>4. a[4] = ":"  BY <1>2, <2>2, <2>3
  <2> QED BY <1>1, <2>1, <2>2, <2>3, <2>4
<1> HIDE DEF a
<1>8. /\ b \in Texts /\ Len(b) = ValueAt(mb)
      /\ b[1] = Quote /\ b[2] = mb.key /\ b[3] = Quote /\ b[4] = ":"
      /\ \A i \in 5..ValueAt(mb) : b[i] = " "
  <2>1. /\ b \in Texts /\ Len(b) = Len(a) + Len(blank)
        /\ \A i \in 1..Len(a) : b[i] = a[i]
        /\ \A i \in 1..Len(blank) : b[Len(a) + i] = blank[i]
        BY <1>3, <1>7, TextsJoin
  <2> HIDE DEF b
  <2>2. 1 \in 1..Len(a) /\ 2 \in 1..Len(a) /\ 3 \in 1..Len(a) /\ 4 \in 1..Len(a)
        BY <1>7
  <2>3. b[1] = a[1] /\ b[2] = a[2] /\ b[3] = a[3] /\ b[4] = a[4]  BY <2>1, <2>2
  <2>4. ASSUME NEW i \in 5..ValueAt(mb) PROVE b[i] = " "
    <3>1. i - 4 \in 1..Len(blank) /\ Len(a) + (i - 4) = i  BY <1>3, <1>6, <1>7
    <3>2. b[Len(a) + (i - 4)] = " "  BY <1>13, <2>1, <3>1
    <3> QED BY <3>1, <3>2
  <2>5. Len(b) = ValueAt(mb)  BY <1>6, <1>7, <2>1
  <2> QED BY <1>7, <2>1, <2>3, <2>4, <2>5
<1> HIDE DEF b
<1>9. ValueAt(mb) \in Nat /\ ValueAt(mb) >= 4  BY <1>3, <1>6
<1>14. b \in Texts /\ Len(b) = ValueAt(mb)  BY <1>8
<1>10. /\ c \in Texts /\ Len(c) = ValueAt(mb) + Len(value)
       /\ \A i \in 1..Len(b) : c[i] = b[i]
       /\ \A i \in 1..Len(value) : c[ValueAt(mb) + i] = value[i]
  <2>1. /\ c \in Texts /\ Len(c) = Len(b) + Len(value)
        /\ \A i \in 1..Len(b) : c[i] = b[i]
        /\ \A i \in 1..Len(value) : c[Len(b) + i] = value[i]
        BY <1>4, <1>14, TextsJoin
  <2> QED BY <1>14, <2>1
<1> HIDE DEF c
<1>11. c[1] = Quote /\ c[2] = mb.key /\ c[3] = Quote /\ c[4] = ":"
  <2>1. 1 \in 1..Len(b) /\ 2 \in 1..Len(b) /\ 3 \in 1..Len(b) /\ 4 \in 1..Len(b)
        BY <1>9, <1>14
  <2> QED BY <1>8, <1>10, <2>1
<1>12. ASSUME NEW i \in 5..ValueAt(mb) PROVE c[i] = " "
  <2>1. i \in 1..Len(b)  BY <1>9, <1>14
  <2> QED BY <1>8, <1>10, <2>1
<1> QED BY <1>5, <1>9, <1>10, <1>11, <1>12 DEF value

-----------------------------------------------------------------------------
\* Pieces put behind one another: each is found where the one before ends, and
\* there is nothing else.
LEMMA Chain ==
    ASSUME NEW N \in Nat, NEW chain \in [0..N -> Texts], NEW piece \in [1..N -> Texts],
           \A k \in 1..N : chain[k] = chain[k - 1] \o piece[k]
    PROVE  /\ \A k \in 0..N : Len(chain[k]) \in Nat
           /\ \A k \in 1..N : /\ Len(piece[k]) \in Nat
                              /\ Len(chain[k]) = Len(chain[k - 1]) + Len(piece[k])
           /\ \A i \in 1..Len(chain[0]) : chain[N][i] = chain[0][i]
           /\ \A k \in 1..N : \A j \in 1..Len(piece[k]) :
                  chain[N][Len(chain[k - 1]) + j] = piece[k][j]
           /\ \A i \in 1..Len(chain[N]) :
                  \/ i \in 1..Len(chain[0])
                  \/ \E k \in 1..N : \E j \in 1..Len(piece[k]) : i = Len(chain[k - 1]) + j
<1> DEFINE len(k) == Len(chain[k])
           Kept(n) == \A i \in 1..len(0) : i \in 1..len(n) /\ chain[n][i] = chain[0][i]
           Placed(n) == \A k \in 1..n : \A j \in 1..Len(piece[k]) :
                            /\ len(k - 1) + j \in 1..len(n)
                            /\ chain[n][len(k - 1) + j] = piece[k][j]
           Covered(n) == \A i \in 1..len(n) :
                            \/ i \in 1..len(0)
                            \/ \E k \in 1..n : \E j \in 1..Len(piece[k]) : i = len(k - 1) + j
           T == {n \in 0..N : Kept(n) /\ Placed(n) /\ Covered(n)}
<1>1. ASSUME NEW k \in 0..N PROVE len(k) \in Nat
  <2>1. chain[k] \in Texts  OBVIOUS
  <2> QED BY <2>1, LenProperties DEF Texts
<1>2. ASSUME NEW k \in 1..N
      PROVE  /\ Len(piece[k]) \in Nat /\ len(k) = len(k - 1) + Len(piece[k])
             /\ \A i \in 1..len(k - 1) : chain[k][i] = chain[k - 1][i]
             /\ \A i \in 1..Len(piece[k]) : chain[k][len(k - 1) + i] = piece[k][i]
  <2> DEFINE front == chain[k - 1]  back == piece[k]
  <2>1. front \in Texts /\ back \in Texts  OBVIOUS
  <2>2. chain[k] = front \o back  OBVIOUS
  <2> HIDE DEF front, back
  <2>3. /\ Len(front \o back) = Len(front) + Len(back) /\ Len(back) \in Nat
        /\ \A i \in 1..Len(front) : (front \o back)[i] = front[i]
        /\ \A i \in 1..Len(back) : (front \o back)[Len(front) + i] = back[i]
        BY <2>1, TextsJoin
  <2> QED BY <2>2, <2>3 DEF front, back
<1>3. 0 \in T
  <2>1. Kept(0) /\ Placed(0) /\ Covered(0)  OBVIOUS
  <2> HIDE DEF Kept, Placed, Covered
  <2> QED BY <2>1
<1>4. ASSUME NEW n \in 1..N, n - 1 \in T PROVE n \in T
  <2>1. Kept(n - 1) /\ Placed(n - 1) /\ Covered(n - 1)  BY <1>4
  <2>2. /\ n - 1 \in 0..N /\ n \in 0..N /\ len(n - 1) \in Nat /\ len(n) \in Nat
        /\ Len(piece[n]) \in Nat /\ len(n) = len(n - 1) + Len(piece[n])
        /\ \A i \in 1..len(n - 1) : chain[n][i] = chain[n - 1][i]
        /\ \A i \in 1..Len(piece[n]) : chain[n][len(n - 1) + i] = piece[n][i]
        BY <1>1, <1>2
  <2> HIDE DEF len
  <2>3. Kept(n)
    <3> SUFFICES ASSUME NEW i \in 1..len(0)
                 PROVE  i \in 1..len(n) /\ chain[n][i] = chain[0][i]
        OBVIOUS
    <3>1. i \in 1..len(n - 1) /\ chain[n - 1][i] = chain[0][i]  BY <2>1
    <3> QED BY <2>2, <3>1
  <2>4. Placed(n)
    <3> SUFFICES ASSUME NEW k \in 1..n, NEW j \in 1..Len(piece[k])
                 PROVE  /\ len(k - 1) + j \in 1..len(n)
                        /\ chain[n][len(k - 1) + j] = piece[k][j]
        OBVIOUS
    <3>1. CASE k = n
      <4> DEFINE before == len(n - 1)  after == len(n)  grown == Len(piece[n])
      <4>1. j \in 1..grown /\ chain[n][before + j] = piece[n][j]  BY <2>2, <3>1
      <4>2. before \in Nat /\ after \in Nat /\ grown \in Nat /\ after = before + grown
            BY <2>2
      <4> HIDE DEF before, after, grown
      <4>3. before + j \in 1..after  BY <4>1, <4>2
      <4> QED BY <3>1, <4>1, <4>3 DEF before, after
    <3>2. CASE k # n
      <4>1. k \in 1..(n - 1)  BY <3>2
      <4>2. /\ len(k - 1) + j \in 1..len(n - 1)
            /\ chain[n - 1][len(k - 1) + j] = piece[k][j]
            BY <2>1, <4>1
      <4> DEFINE i == len(k - 1) + j
      <4>3. i \in 1..len(n - 1) /\ chain[n - 1][i] = piece[k][j]  BY <4>2
      <4>4. chain[n][i] = chain[n - 1][i]  BY <2>2, <4>3
      <4> HIDE DEF i
      <4>5. i \in 1..len(n)
        <5> DEFINE before == len(n - 1)  after == len(n)  grown == Len(piece[n])
        <5>1. before \in Nat /\ after \in Nat /\ grown \in Nat /\ after = before + grown
              BY <2>2
        <5>2. i \in 1..before  BY <4>3
        <5> HIDE DEF before, after, grown
        <5>3. i \in 1..after  BY <5>1, <5>2
        <5> QED BY <5>3 DEF after
      <4>6. i \in 1..len(n) /\ chain[n][i] = piece[k][j]  BY <4>3, <4>4, <4>5, Zenon
      <4> QED BY <4>6 DEF i
    <3> QED BY <3>1, <3>2
  <2>5. Covered(n)
    <3> SUFFICES ASSUME NEW i \in 1..len(n), i \notin 1..len(0)
                 PROVE  \E k \in 1..n : \E j \in 1..Len(piece[k]) : i = len(k - 1) + j
        OBVIOUS
    <3>1. CASE i \in 1..len(n - 1)
      <4>1. PICK k \in 1..(n - 1) : \E j \in 1..Len(piece[k]) : i = len(k - 1) + j
            BY <2>1, <3>1
      <4>2. k \in 1..n  OBVIOUS
      <4> QED BY <4>1, <4>2
    <3>2. CASE i \notin 1..len(n - 1)
      <4>1. i - len(n - 1) \in 1..Len(piece[n]) /\ i = len(n - 1) + (i - len(n - 1))
            BY <2>2, <3>2
      <4> QED BY <4>1
    <3> QED BY <3>1, <3>2
  <2> HIDE DEF Kept, Placed, Covered
  <2> QED BY <2>2, <2>3, <2>4, <2>5
<1>5. N \in T
  <2> HIDE DEF T
  <2>1. \A k \in 0..N : k \in T  BY <1>3, <1>4, BoundedInduction, Zenon
  <2> QED BY <2>1
<1>6. Kept(N) /\ Placed(N) /\ Covered(N)  BY <1>5
<1>7. \A k \in 0..N : Len(chain[k]) \in Nat  BY <1>1
<1>8. \A k \in 1..N : Len(piece[k]) \in Nat /\ Len(chain[k]) = Len(chain[k - 1]) + Len(piece[k])
      BY <1>2
<1>9. \A i \in 1..Len(chain[0]) : chain[N][i] = chain[0][i]  BY <1>6
<1>10. \A k \in 1..N : \A j \in 1..Len(piece[k]) :
           chain[N][Len(chain[k - 1]) + j] = piece[k][j]
       BY <1>6
<1>11. \A i \in 1..Len(chain[N]) :
           \/ i \in 1..Len(chain[0])
           \/ \E k \in 1..N : \E j \in 1..Len(piece[k]) : i = Len(chain[k - 1]) + j
       BY <1>6
<1> QED BY <1>7, <1>8, <1>9, <1>10, <1>11

LEMMA SeparatedType ==
    ASSUME NEW mbs \in Seq(Members), NEW k \in 1..Len(mbs)
    PROVE  /\ Separator(k) \in Texts
           /\ k = 1 => Len(Separator(k)) = 0
           /\ k # 1 => Len(Separator(k)) = 1
           /\ k # 1 => Separator(k)[1] = ","
           /\ Separated(mbs, k) \in Texts
           /\ Len(Separated(mbs, k)) = Len(Separator(k)) + Len(MemberText(mbs[k]))
           /\ \A i \in 1..Len(Separator(k)) : Separated(mbs, k)[i] = Separator(k)[i]
           /\ \A i \in 1..Len(MemberText(mbs[k])) :
                  Separated(mbs, k)[Len(Separator(k)) + i] = MemberText(mbs[k])[i]
<1> DEFINE front == Separator(k)  back == MemberText(mbs[k])
<1>1. /\ front \in Texts
      /\ k = 1 => Len(front) = 0
      /\ k # 1 => Len(front) = 1
      /\ k # 1 => front[1] = ","
  <2>1. CASE k = 1
    <3>1. front = <<>>  BY <2>1 DEF Separator
    <3>2. <<>> \in Texts /\ Len(<<>>) = 0  BY DEF Texts
    <3> QED BY <2>1, <3>1, <3>2
  <2>2. CASE k # 1
    <3>1. front = <<",">>  BY <2>2 DEF Separator
    <3>2. <<",">> \in Texts /\ Len(<<",">>) = 1 /\ <<",">>[1] = ","  BY AtomFacts, OneAtom
    <3> QED BY <2>2, <3>1, <3>2
  <2> QED BY <2>1, <2>2
<1>2. back \in Texts
  <2>1. mbs[k] \in Members  BY ElementOfSeq
  <2> QED BY <2>1, MemberAtoms
<1>5. front \in Texts  BY <1>1
<1>3. Separated(mbs, k) = front \o back  BY DEF Separated, Separator
<1> HIDE DEF front, back
<1>4. /\ front \o back \in Texts /\ Len(front \o back) = Len(front) + Len(back)
      /\ \A i \in 1..Len(front) : (front \o back)[i] = front[i]
      /\ \A i \in 1..Len(back) : (front \o back)[Len(front) + i] = back[i]
      BY <1>2, <1>5, TextsJoin
<1> QED BY <1>1, <1>3, <1>4 DEF front, back

LEMMA TextRecursion ==
    ASSUME NEW first \in Texts, NEW N \in Nat, NEW step \in [1..N -> [Texts -> Texts]]
    PROVE  \E f \in [0..N -> Texts] : f[0] = first /\ \A k \in 1..N : f[k] = step[k][f[k - 1]]
BY Recursion, SMT

LEMMA JoinedUnfolds ==
    ASSUME NEW mbs \in Seq(Members)
    PROVE  /\ Joined(mbs) \in [0..Len(mbs) -> Texts] /\ Joined(mbs)[0] = <<"{">>
           /\ \A k \in 1..Len(mbs) : Joined(mbs)[k] = Joined(mbs)[k - 1] \o Separated(mbs, k)
<1> DEFINE N == Len(mbs)
           brace == <<"{">>
           Def(f, k) == IF k = 0 THEN brace ELSE f[k - 1] \o Separated(mbs, k)
           step == [k \in 1..N |-> [v \in Texts |-> v \o Separated(mbs, k)]]
<1>1. N \in Nat  OBVIOUS
<1>2. step \in [1..N -> [Texts -> Texts]]
  <2>1. ASSUME NEW k \in 1..N, NEW v \in Texts PROVE v \o Separated(mbs, k) \in Texts
    <3>1. Separated(mbs, k) \in Texts  BY SeparatedType
    <3> QED BY <3>1, TextsJoin
  <2> QED BY <2>1
<1>3. brace \in Texts  BY AtomFacts, OneAtom
<1>4. PICK f \in [0..N -> Texts] :
          f[0] = brace /\ \A k \in 1..N : f[k] = step[k][f[k - 1]]
  <2>2. brace \in Texts /\ N \in Nat  BY <1>1, <1>3
  <2> HIDE DEF step, N, brace, Def
  <2>1. \E f \in [0..N -> Texts] :
            f[0] = brace /\ \A k \in 1..N : f[k] = step[k][f[k - 1]]
        BY <2>2, <1>2, TextRecursion, ZenonT(40)
  <2> QED BY <2>1
<1>5. ASSUME NEW k \in 0..N PROVE f[k] = Def(f, k)
  <2> HIDE DEF brace
  <2>1. CASE k = 0  BY <1>4, <2>1
  <2>2. CASE k # 0
    <3>1. k \in 1..N /\ k - 1 \in 0..N  BY <1>1, <2>2
    <3>2. f[k - 1] \in Texts  BY <3>1
    <3>3. f[k] = step[k][f[k - 1]]  BY <1>4, <3>1
    <3>4. step[k][f[k - 1]] = f[k - 1] \o Separated(mbs, k)  BY <3>1, <3>2
    <3> HIDE DEF step
    <3> QED BY <2>2, <3>3, <3>4
  <2> QED BY <2>1, <2>2
<1>6. f = [k \in 0..N |-> Def(f, k)]
  <2> HIDE DEF Def
  <2> QED BY <1>5
<1>7. Joined(mbs) = CHOOSE h : h = [k \in 0..N |-> Def(h, k)]
      BY Zenon DEF Joined
<1>8. Joined(mbs) = [k \in 0..N |-> Def(Joined(mbs), k)]
  <2> HIDE DEF Def, N
  <2> QED BY <1>6, <1>7
<1>9. \A k \in 0..N : Joined(mbs)[k] = Def(Joined(mbs), k)
  <2> HIDE DEF Def, N
  <2> QED BY <1>8
<1> HIDE DEF brace
<1>10. Joined(mbs)[0] = brace  BY <1>1, <1>9
<1>11. ASSUME NEW k \in 1..N
       PROVE  Joined(mbs)[k] = Joined(mbs)[k - 1] \o Separated(mbs, k)
  <2>1. k \in 0..N /\ k # 0  BY <1>1
  <2> HIDE DEF N
  <2> QED BY <1>9, <2>1, Zenon
<1>12. \A k \in 0..N : Joined(mbs)[k] \in Texts
  <2> DEFINE T == {k \in 0..N : Joined(mbs)[k] \in Texts}
  <2>1. 0 \in T  BY <1>1, <1>3, <1>10
  <2>2. ASSUME NEW k \in 1..N, k - 1 \in T PROVE k \in T
    <3>1. k \in 0..N /\ Joined(mbs)[k - 1] \in Texts  BY <1>1, <2>2
    <3>2. Separated(mbs, k) \in Texts  BY SeparatedType
    <3>3. Joined(mbs)[k] \in Texts  BY <1>11, <3>1, <3>2, TextsJoin, ZenonT(40)
    <3> QED BY <3>1, <3>3
  <2> HIDE DEF T, N
  <2>3. \A k \in 0..N : k \in T  BY <1>1, <2>1, <2>2, BoundedInduction, Zenon
  <2> QED BY <2>3 DEF T
<1>13. Joined(mbs) \in [0..N -> Texts]
  <2> HIDE DEF Def, N
  <2> QED BY <1>8, <1>12
<1> QED BY <1>10, <1>11, <1>13 DEF brace

-----------------------------------------------------------------------------
\* How many atoms are in front of the k-th member.
MemberAt(mbs, k) == Len(Joined(mbs)[k - 1]) + Len(Separator(k))
MemberLen(mbs, k) == Len(MemberText(mbs[k]))

LEMMA JoinedLayout ==
    ASSUME NEW mbs \in Seq(Members)
    PROVE  LET all == Joined(mbs)[Len(mbs)] IN
           /\ all \in Texts /\ Len(all) \in Nat /\ Len(all) >= 1 /\ all[1] = "{"
           /\ \A k \in 1..Len(mbs) :
                 /\ MemberAt(mbs, k) \in Nat /\ MemberAt(mbs, k) >= 1
                 /\ MemberLen(mbs, k) \in Nat
                 /\ MemberAt(mbs, k) + MemberLen(mbs, k) = Len(Joined(mbs)[k])
                 /\ MemberAt(mbs, k) + MemberLen(mbs, k) <= Len(all)
                 /\ \A j \in 1..MemberLen(mbs, k) :
                        all[MemberAt(mbs, k) + j] = MemberText(mbs[k])[j]
                 /\ k # 1 => all[Len(Joined(mbs)[k - 1]) + 1] = ","
           /\ \A i \in 1..Len(all) :
                 \/ all[i] \in {"{", ","}
                 \/ \E k \in 1..Len(mbs) : \E j \in 1..MemberLen(mbs, k) :
                        i = MemberAt(mbs, k) + j
<1> DEFINE N == Len(mbs)  chain == Joined(mbs)
           piece == [k \in 1..N |-> Separated(mbs, k)]
           at(k) == MemberAt(mbs, k)  len(k) == MemberLen(mbs, k)  sep(k) == Len(Separator(k))
<1>1. N \in Nat  OBVIOUS
<1>2. chain \in [0..N -> Texts] /\ \A k \in 1..N : chain[k] = chain[k - 1] \o Separated(mbs, k)
      BY JoinedUnfolds
<1>19. chain[0] = <<"{">>  BY JoinedUnfolds
<1>20. Len(<<"{">>) = 1 /\ <<"{">>[1] = "{"  BY AtomFacts, OneAtom
<1>8. Len(chain[0]) = 1  BY <1>19, <1>20, Zenon
<1>18. chain[0][1] = "{"  BY <1>19, <1>20, Zenon
<1>3. piece \in [1..N -> Texts]
  <2>1. ASSUME NEW k \in 1..N PROVE Separated(mbs, k) \in Texts  BY SeparatedType
  <2> QED BY <2>1
<1>4. \A k \in 1..N : piece[k] = Separated(mbs, k)  OBVIOUS
<1>5. \A k \in 1..N : chain[k] = chain[k - 1] \o piece[k]  BY <1>2, <1>4
<1>6. ASSUME NEW k \in 1..N
      PROVE  /\ sep(k) \in Nat /\ (k = 1 => sep(k) = 0) /\ (k # 1 => sep(k) = 1)
             /\ len(k) \in Nat /\ Len(piece[k]) = sep(k) + len(k)
             /\ \A j \in 1..len(k) : piece[k][sep(k) + j] = MemberText(mbs[k])[j]
  <2>1. /\ k = 1 => Len(Separator(k)) = 0
        /\ k # 1 => Len(Separator(k)) = 1
        /\ Len(Separated(mbs, k)) = Len(Separator(k)) + Len(MemberText(mbs[k]))
        /\ \A i \in 1..Len(MemberText(mbs[k])) :
               Separated(mbs, k)[Len(Separator(k)) + i] = MemberText(mbs[k])[i]
        BY SeparatedType
  <2>2. len(k) \in Nat
    <3>1. mbs[k] \in Members  BY ElementOfSeq
    <3>2. MemberText(mbs[k]) \in Texts  BY <3>1, MemberAtoms
    <3> QED BY <3>2, LenProperties DEF Texts, MemberLen
  <2>3. piece[k] = Separated(mbs, k)  OBVIOUS
  <2> HIDE DEF piece
  <2>4. sep(k) \in Nat /\ (k = 1 => sep(k) = 0) /\ (k # 1 => sep(k) = 1)  BY <2>1
  <2>6. Len(piece[k]) = sep(k) + len(k)  BY <2>1, <2>3 DEF MemberLen
  <2>7. \A j \in 1..len(k) : piece[k][sep(k) + j] = MemberText(mbs[k])[j]
        BY <2>1, <2>3 DEF MemberLen
  <2> QED BY <2>2, <2>4, <2>6, <2>7
<1>17. ASSUME NEW k \in 1..N, k # 1 PROVE piece[k][1] = ","
  <2>1. Len(Separator(k)) = 1  BY SeparatedType, <1>17
  <2>2. 1 \in 1..Len(Separator(k))  BY <2>1
  <2>3. Separated(mbs, k)[1] = Separator(k)[1]  BY SeparatedType, <2>2
  <2>4. Separator(k)[1] = ","  BY SeparatedType, <1>17
  <2>5. piece[k] = Separated(mbs, k)  OBVIOUS
  <2> QED BY <2>3, <2>4, <2>5, Zenon
<1> HIDE DEF chain, piece, N
<1>7. /\ \A k \in 0..N : Len(chain[k]) \in Nat
      /\ \A k \in 1..N : Len(piece[k]) \in Nat /\ Len(chain[k]) = Len(chain[k - 1]) + Len(piece[k])
      /\ \A i \in 1..Len(chain[0]) : chain[N][i] = chain[0][i]
      /\ \A k \in 1..N : \A j \in 1..Len(piece[k]) :
             chain[N][Len(chain[k - 1]) + j] = piece[k][j]
      /\ \A i \in 1..Len(chain[N]) :
             \/ i \in 1..Len(chain[0])
             \/ \E k \in 1..N : \E j \in 1..Len(piece[k]) : i = Len(chain[k - 1]) + j
      BY <1>1, <1>2, <1>3, <1>5, Chain, ZenonT(40)
<1>9. \A k \in 0..N : Len(chain[k]) >= 1 /\ Len(chain[k]) <= Len(chain[N])
  <2> DEFINE T == {k \in 0..N : Len(chain[k]) >= 1}
             R == {k \in 0..N : \A m \in 0..k : Len(chain[m]) <= Len(chain[k])}
  <2>1. \A k \in 1..N : Len(chain[k - 1]) \in Nat /\ Len(chain[k - 1]) <= Len(chain[k])
    <3> SUFFICES ASSUME NEW k \in 1..N
                 PROVE  Len(chain[k - 1]) \in Nat /\ Len(chain[k - 1]) <= Len(chain[k])
        OBVIOUS
    <3>1. k - 1 \in 0..N  BY <1>1
    <3> DEFINE before == Len(chain[k - 1])  after == Len(chain[k])  more == Len(piece[k])
    <3>2. before \in Nat  BY <1>7, <3>1
    <3>3. more \in Nat /\ after = before + more  BY <1>7
    <3> HIDE DEF before, after, more
    <3>4. before \in Nat /\ before <= after  BY <3>2, <3>3
    <3> QED BY <3>4 DEF before, after
  <2>2. 0 \in T /\ 0 \in R  BY <1>1, <1>7, <1>8
  <2>3. ASSUME NEW k \in 1..N, k - 1 \in T PROVE k \in T
    <3>1. k \in 0..N /\ Len(chain[k]) \in Nat  BY <1>1, <1>7
    <3> QED BY <2>1, <2>3, <3>1
  <2>4. ASSUME NEW k \in 1..N, k - 1 \in R PROVE k \in R
    <3>1. k \in 0..N /\ Len(chain[k]) \in Nat /\ k - 1 \in 0..N  BY <1>1, <1>7
    <3>2. ASSUME NEW m \in 0..k PROVE Len(chain[m]) <= Len(chain[k])
      <4>1. CASE m = k  BY <3>1, <4>1
      <4>2. CASE m # k
        <5>1. m \in 0..(k - 1) /\ m \in 0..N  BY <1>1, <4>2
        <5>2. Len(chain[m]) <= Len(chain[k - 1])  BY <2>4, <5>1
        <5>3. Len(chain[m]) \in Nat  BY <1>7, <5>1
        <5> QED BY <2>1, <3>1, <5>2, <5>3
      <4> QED BY <4>1, <4>2
    <3> QED BY <3>1, <3>2
  <2> HIDE DEF T, R
  <2>5. \A k \in 0..N : k \in T  BY <1>1, <2>2, <2>3, BoundedInduction, Zenon
  <2>6. \A k \in 0..N : k \in R  BY <1>1, <2>2, <2>4, BoundedInduction, Zenon
  <2>7. N \in R  BY <1>1, <2>6
  <2> QED BY <2>5, <2>7 DEF T, R
<1>10. N \in 0..N /\ 0 \in 0..N  BY <1>1
<1>11. chain[N] \in Texts /\ Len(chain[N]) \in Nat /\ Len(chain[N]) >= 1 /\ chain[N][1] = "{"
  <2>1. chain[N] \in Texts /\ Len(chain[N]) \in Nat  BY <1>2, <1>7, <1>10
  <2>2. Len(chain[N]) >= 1  BY <1>9, <1>10
  <2>3. 1 \in 1..Len(chain[0])  BY <1>8
  <2>4. chain[N][1] = chain[0][1]  BY <1>7, <2>3
  <2> QED BY <1>18, <2>1, <2>2, <2>4
<1>12. ASSUME NEW k \in 1..N
       PROVE  /\ at(k) \in Nat /\ at(k) >= 1 /\ len(k) \in Nat
              /\ at(k) + len(k) = Len(chain[k]) /\ at(k) + len(k) <= Len(chain[N])
  <2>1. k \in 0..N /\ k - 1 \in 0..N  BY <1>1
  <2>2. /\ Len(chain[k - 1]) \in Nat /\ Len(chain[k - 1]) >= 1
        /\ Len(chain[k]) = Len(chain[k - 1]) + Len(piece[k])
        /\ Len(chain[k]) <= Len(chain[N])
        BY <1>7, <1>9, <2>1
  <2>3. sep(k) \in Nat /\ len(k) \in Nat /\ Len(piece[k]) = sep(k) + len(k)  BY <1>6
  <2>4. at(k) = Len(chain[k - 1]) + sep(k)  BY DEF MemberAt, chain
  <2> HIDE DEF at, sep, len
  <2> QED BY <2>2, <2>3, <2>4, SMTT(30)
<1>13. ASSUME NEW k \in 1..N, NEW j \in 1..len(k)
       PROVE  chain[N][at(k) + j] = MemberText(mbs[k])[j]
  <2>1. k - 1 \in 0..N  BY <1>1
  <2>2. Len(chain[k - 1]) \in Nat  BY <1>7, <2>1
  <2>3. sep(k) \in Nat /\ len(k) \in Nat /\ Len(piece[k]) = sep(k) + len(k)  BY <1>6
  <2>4. at(k) = Len(chain[k - 1]) + sep(k)  BY DEF MemberAt, chain
  <2>5. piece[k][sep(k) + j] = MemberText(mbs[k])[j]  BY <1>6
  <2> HIDE DEF at, sep, len
  <2>6. sep(k) + j \in 1..Len(piece[k]) /\ Len(chain[k - 1]) + (sep(k) + j) = at(k) + j
        BY <2>2, <2>3, <2>4, SMTT(30)
  <2>7. chain[N][Len(chain[k - 1]) + (sep(k) + j)] = piece[k][sep(k) + j]  BY <1>7, <2>6
  <2> QED BY <2>5, <2>6, <2>7
<1>14. ASSUME NEW k \in 1..N, k # 1 PROVE chain[N][Len(chain[k - 1]) + 1] = ","
  <2>1. sep(k) = 1 /\ len(k) \in Nat /\ Len(piece[k]) = sep(k) + len(k)
        BY <1>6, <1>14
  <2> HIDE DEF sep, len
  <2>2. 1 \in 1..Len(piece[k])  BY <2>1
  <2>3. chain[N][Len(chain[k - 1]) + 1] = piece[k][1]  BY <1>7, <2>2
  <2> QED BY <1>14, <1>17, <2>3
<1>15. ASSUME NEW i \in 1..Len(chain[N]), chain[N][i] \notin {"{", ","}
       PROVE  \E k \in 1..N : \E j \in 1..len(k) : i = at(k) + j
  <2>1. i \notin 1..Len(chain[0])
    <3>1. i # 1  BY <1>11, <1>15
    <3> QED BY <1>8, <3>1
  <2>9. PICK k \in 1..N : \E j \in 1..Len(piece[k]) : i = Len(chain[k - 1]) + j
        BY <1>7, <2>1
  <2>2. PICK j \in 1..Len(piece[k]) : i = Len(chain[k - 1]) + j  BY <2>9
  <2>3. k - 1 \in 0..N  BY <1>1
  <2>4. Len(chain[k - 1]) \in Nat  BY <1>7, <2>3
  <2>5. /\ k = 1 => sep(k) = 0
        /\ k # 1 => sep(k) = 1
        /\ len(k) \in Nat
        /\ Len(piece[k]) = sep(k) + len(k)
        BY <1>6
  <2>6. at(k) = Len(chain[k - 1]) + sep(k)  BY DEF MemberAt, chain
  <2>7. ~(k # 1 /\ j = 1)
    <3> SUFFICES ASSUME k # 1, j = 1 PROVE FALSE  OBVIOUS
    <3>1. chain[N][Len(chain[k - 1]) + 1] = ","  BY <1>14
    <3> QED BY <1>15, <2>2, <3>1
  <2> HIDE DEF at, sep, len
  <2>8. j - sep(k) \in 1..len(k) /\ i = at(k) + (j - sep(k))
    <3>1. CASE k = 1  BY <2>2, <2>4, <2>5, <2>6, <3>1
    <3>2. CASE k # 1
      <4>1. sep(k) = 1 /\ j # 1  BY <2>5, <2>7, <3>2
      <4> QED BY <2>2, <2>4, <2>5, <2>6, <4>1
    <3> QED BY <3>1, <3>2
  <2> QED BY <2>8
<1>16. \A i \in 1..Len(chain[N]) :
           \/ chain[N][i] \in {"{", ","}
           \/ \E k \in 1..N : \E j \in 1..len(k) : i = at(k) + j
       BY <1>15
<1> QED BY <1>11, <1>12, <1>13, <1>14, <1>16 DEF chain, N

LEMMA TextLayout ==
    ASSUME NEW mbs \in Seq(Members)
    PROVE  LET json == Text(mbs) IN
           /\ json \in Texts /\ Len(json) \in Nat /\ Len(json) >= 2
           /\ json[1] = "{" /\ json[Len(json)] = "}"
           /\ \A k \in 1..Len(mbs) :
                 /\ MemberAt(mbs, k) \in Nat /\ MemberAt(mbs, k) >= 1
                 /\ MemberLen(mbs, k) \in Nat
                 /\ MemberAt(mbs, k) + MemberLen(mbs, k) < Len(json)
                 /\ \A j \in 1..MemberLen(mbs, k) :
                        json[MemberAt(mbs, k) + j] = MemberText(mbs[k])[j]
                 /\ json[MemberAt(mbs, k) + MemberLen(mbs, k) + 1] \in {",", "}"}
           /\ \A i \in 1..Len(json) :
                 \/ json[i] \in {"{", ",", "}"}
                 \/ \E k \in 1..Len(mbs) : \E j \in 1..MemberLen(mbs, k) :
                        i = MemberAt(mbs, k) + j
<1> DEFINE N == Len(mbs)  all == Joined(mbs)[N]  brace == <<"}">>  json == Text(mbs)
           at(k) == MemberAt(mbs, k)  len(k) == MemberLen(mbs, k)
<1>1. /\ all \in Texts /\ Len(all) \in Nat /\ Len(all) >= 1
      /\ \A k \in 1..N :
            /\ at(k) \in Nat /\ at(k) >= 1 /\ len(k) \in Nat
            /\ at(k) + len(k) = Len(Joined(mbs)[k])
            /\ at(k) + len(k) <= Len(all)
            /\ \A j \in 1..len(k) : all[at(k) + j] = MemberText(mbs[k])[j]
      BY JoinedLayout
<1>2. all[1] = "{" /\ \A k \in 1..N : k # 1 => all[Len(Joined(mbs)[k - 1]) + 1] = ","
      BY JoinedLayout
<1>3. \A i \in 1..Len(all) :
          \/ all[i] \in {"{", ","}
          \/ \E k \in 1..N : \E j \in 1..len(k) : i = at(k) + j
      BY JoinedLayout
<1>4. brace \in Texts /\ Len(brace) = 1 /\ brace[1] = "}"  BY AtomFacts, OneAtom
<1>5. json = all \o brace  BY DEF Text
<1>6. N \in Nat  OBVIOUS
<1> HIDE DEF all, brace, json, N, at, len
<1>7. brace \in Texts /\ Len(brace) = 1  BY <1>4
<1>8. /\ json \in Texts /\ Len(json) = Len(all) + 1
      /\ \A i \in 1..Len(all) : json[i] = all[i]
      /\ json[Len(all) + 1] = brace[1]
  <2>1. /\ all \o brace \in Texts /\ Len(all \o brace) = Len(all) + Len(brace)
        /\ \A i \in 1..Len(all) : (all \o brace)[i] = all[i]
        /\ \A i \in 1..Len(brace) : (all \o brace)[Len(all) + i] = brace[i]
        BY <1>1, <1>7, TextsJoin
  <2>2. 1 \in 1..Len(brace)  BY <1>7
  <2> QED BY <1>5, <1>7, <2>1, <2>2
<1>9. Len(json) \in Nat /\ Len(json) >= 2 /\ 1 \in 1..Len(all)  BY <1>1, <1>8
<1>10. json[1] = "{"  BY <1>2, <1>8, <1>9
<1>11. json[Len(all) + 1] = "}" /\ json[Len(json)] = "}"  BY <1>4, <1>8
<1>12. ASSUME NEW k \in 1..N
       PROVE  /\ at(k) \in Nat /\ at(k) >= 1 /\ len(k) \in Nat /\ at(k) + len(k) < Len(json)
              /\ \A j \in 1..len(k) : json[at(k) + j] = MemberText(mbs[k])[j]
  <2>1. /\ at(k) \in Nat /\ at(k) >= 1 /\ len(k) \in Nat
        /\ at(k) + len(k) <= Len(all)
        /\ \A j \in 1..len(k) : all[at(k) + j] = MemberText(mbs[k])[j]
        BY <1>1
  <2>2. at(k) + len(k) < Len(json)  BY <1>1, <1>8, <2>1
  <2>3. ASSUME NEW j \in 1..len(k) PROVE json[at(k) + j] = MemberText(mbs[k])[j]
    <3>1. at(k) + j \in 1..Len(all)  BY <1>1, <2>1
    <3> QED BY <1>8, <2>1, <3>1
  <2> QED BY <2>1, <2>2, <2>3
<1>13. ASSUME NEW k \in 1..N PROVE json[at(k) + len(k) + 1] \in {",", "}"}
  <2>1. at(k) + len(k) = Len(Joined(mbs)[k])  BY <1>1
  <2>2. CASE k = N
    <3>1. at(k) + len(k) + 1 = Len(all) + 1  BY <2>1, <2>2 DEF all
    <3> QED BY <1>11, <3>1
  <2>3. CASE k # N
    <3>1. k + 1 \in 1..N /\ k + 1 # 1 /\ (k + 1) - 1 = k  BY <1>6, <2>3
    <3>2. all[Len(Joined(mbs)[(k + 1) - 1]) + 1] = ","  BY <1>2, <3>1
    <3>3. all[at(k) + len(k) + 1] = ","  BY <2>1, <3>1, <3>2
    <3>4. at(k) + len(k) + 1 \in 1..Len(all)
      <4>1. /\ at(k + 1) \in Nat /\ len(k + 1) \in Nat /\ at(k + 1) + len(k + 1) <= Len(all)
            BY <1>1, <3>1
      <4>2. at(k) \in Nat /\ len(k) \in Nat  BY <1>1
      <4>3. at(k + 1) = Len(Joined(mbs)[k]) + 1
        <5>1. at(k + 1) = Len(Joined(mbs)[(k + 1) - 1]) + Len(Separator(k + 1))
              BY DEF at, MemberAt
        <5>2. Len(Separator(k + 1)) = 1
          <6>1. k + 1 \in 1..Len(mbs)  BY <3>1 DEF N
          <6> QED BY <3>1, <6>1, SeparatedType
        <5> QED BY <3>1, <5>1, <5>2
      <4> QED BY <1>1, <2>1, <4>1, <4>2, <4>3, SMTT(30)
    <3> QED BY <1>8, <3>3, <3>4
  <2> QED BY <2>2, <2>3
<1>14. ASSUME NEW i \in 1..Len(json), json[i] \notin {"{", ",", "}"}
       PROVE  \E k \in 1..N : \E j \in 1..len(k) : i = at(k) + j
  <2>1. i # Len(all) + 1  BY <1>11, <1>14
  <2>2. i \in 1..Len(all)  BY <1>1, <1>8, <2>1
  <2>3. all[i] \notin {"{", ","}
    <3>1. json[i] = all[i]  BY <1>8, <2>2
    <3> QED BY <1>14, <3>1
  <2> QED BY <1>3, <2>2, <2>3
<1>15. json \in Texts  BY <1>8
<1> USE DEF json, N, at, len
<1>16. \A k \in 1..Len(mbs) :
          /\ MemberAt(mbs, k) \in Nat /\ MemberAt(mbs, k) >= 1 /\ MemberLen(mbs, k) \in Nat
          /\ MemberAt(mbs, k) + MemberLen(mbs, k) < Len(Text(mbs))
          /\ \A j \in 1..MemberLen(mbs, k) :
                 Text(mbs)[MemberAt(mbs, k) + j] = MemberText(mbs[k])[j]
       BY <1>12
<1>17. \A k \in 1..Len(mbs) :
           Text(mbs)[MemberAt(mbs, k) + MemberLen(mbs, k) + 1] \in {",", "}"}
       BY <1>13, Zenon
<1>18. \A i \in 1..Len(Text(mbs)) :
          \/ Text(mbs)[i] \in {"{", ",", "}"}
          \/ \E k \in 1..Len(mbs) : \E j \in 1..MemberLen(mbs, k) :
                 i = MemberAt(mbs, k) + j
       BY <1>14, Zenon
<1>19. Text(mbs)[1] = "{" /\ Text(mbs)[Len(Text(mbs))] = "}"  BY <1>10, <1>11
<1>20. Text(mbs) \in Texts /\ Len(Text(mbs)) \in Nat /\ Len(Text(mbs)) >= 2  BY <1>9, <1>15
<1> HIDE DEF json, N, at, len
<1> QED BY <1>16, <1>17, <1>18, <1>19, <1>20, Zenon

LEMMA MemberInText ==
    ASSUME NEW mbs \in Seq(Members), NEW k \in 1..Len(mbs)
    PROVE  LET json == Text(mbs)  at == MemberAt(mbs, k)  mb == mbs[k]
               value == ValueText(mb.value)
           IN /\ mb \in Members /\ at \in Nat /\ at >= 1
              /\ ValueAt(mb) \in Nat /\ ValueAt(mb) >= 4
              /\ Len(value) \in Nat /\ Len(value) >= 1
              /\ MemberLen(mbs, k) = ValueAt(mb) + Len(value)
              /\ at + ValueAt(mb) + Len(value) < Len(json) /\ Len(json) \in Nat
              /\ json[at + 1] = Quote /\ json[at + 2] = mb.key
              /\ json[at + 3] = Quote /\ json[at + 4] = ":"
              /\ \A i \in 5..ValueAt(mb) : json[at + i] = " "
              /\ \A i \in 1..Len(value) : json[at + ValueAt(mb) + i] = value[i]
              /\ json[at + ValueAt(mb) + Len(value) + 1] \in {",", "}"}
<1> DEFINE json == Text(mbs)  at == MemberAt(mbs, k)  mb == mbs[k]
           value == ValueText(mb.value)  text == MemberText(mb)  v == ValueAt(mb)  n == Len(value)
           len == MemberLen(mbs, k)
<1>1. mb \in Members  BY ElementOfSeq
<1>2. n \in Nat /\ n >= 1  BY <1>1, ValueAtoms
<1>3. Len(text) = v + n /\ v \in Nat /\ v >= 4  BY <1>1, MemberAtoms
<1>4. text[1] = Quote /\ text[2] = mb.key /\ text[3] = Quote /\ text[4] = ":"
      BY <1>1, MemberAtoms
<1>5. \A i \in 5..v : text[i] = " "  BY <1>1, MemberAtoms
<1>6. \A i \in 1..n : text[v + i] = value[i]  BY <1>1, MemberAtoms
<1>7. /\ at \in Nat /\ at >= 1 /\ at + len < Len(json) /\ Len(json) \in Nat
      /\ \A j \in 1..len : json[at + j] = text[j]
      BY TextLayout
<1>8. json[at + len + 1] \in {",", "}"}  BY TextLayout
<1>9. len = v + n  BY <1>3 DEF MemberLen
<1> HIDE DEF json, at, value, text, v, n, len
<1>10. 1 \in 1..len /\ 2 \in 1..len /\ 3 \in 1..len /\ 4 \in 1..len  BY <1>2, <1>3, <1>9
<1>11. /\ json[at + 1] = Quote /\ json[at + 2] = mb.key
       /\ json[at + 3] = Quote /\ json[at + 4] = ":"
       BY <1>4, <1>7, <1>10
<1>12. ASSUME NEW i \in 5..v PROVE json[at + i] = " "
  <2>1. i \in 1..len  BY <1>2, <1>3, <1>9
  <2> QED BY <1>5, <1>7, <2>1
<1>13. ASSUME NEW i \in 1..n PROVE json[at + v + i] = value[i]
  <2>1. v + i \in 1..len  BY <1>2, <1>3, <1>9
  <2>2. json[at + (v + i)] = value[i]  BY <1>6, <1>7, <2>1
  <2>3. at + (v + i) = at + v + i  BY <1>3, <1>7
  <2> QED BY <2>2, <2>3
<1>14. at + v + n < Len(json) /\ at + v + n + 1 = at + len + 1  BY <1>2, <1>3, <1>7, <1>9
<1>15. json[at + v + n + 1] \in {",", "}"}  BY <1>8, <1>14
<1>16. /\ at \in Nat /\ at >= 1 /\ v \in Nat /\ v >= 4 /\ n \in Nat /\ n >= 1
       /\ len = v + n /\ at + v + n < Len(json) /\ Len(json) \in Nat
       BY <1>2, <1>3, <1>7, <1>9, <1>14
<1> QED BY <1>1, <1>11, <1>12, <1>13, <1>15, <1>16 DEF json, at, value, v, n, len

LEMMA MembersInOrder ==
    ASSUME NEW mbs \in Seq(Members), NEW m \in 1..Len(mbs), NEW k \in 1..Len(mbs), m < k
    PROVE  MemberAt(mbs, m) + MemberLen(mbs, m) <= MemberAt(mbs, k)
<1> DEFINE N == Len(mbs)  at(i) == MemberAt(mbs, i)  len(i) == MemberLen(mbs, i)
           before(i) == Len(Joined(mbs)[i])
           T == {i \in 0..N : i > m => at(m) + len(m) <= at(i)}
<1>1. N \in Nat /\ m \in 1..N /\ k \in 1..N /\ m < k  OBVIOUS
<1>2. ASSUME NEW i \in 1..N
      PROVE  at(i) \in Nat /\ len(i) \in Nat /\ at(i) + len(i) = before(i)
      BY JoinedLayout
<1>3. ASSUME NEW i \in 1..N, i # 1 PROVE at(i) = before(i - 1) + 1
      BY <1>3, SeparatedType DEF MemberAt
<1> HIDE DEF N, at, len, before
<1>4. 0 \in T  BY <1>1
<1>5. ASSUME NEW i \in 1..N, i - 1 \in T PROVE i \in T
  <2>1. i \in 0..N  BY <1>1
  <2>2. ASSUME i > m PROVE at(m) + len(m) <= at(i)
    <3>1. i # 1 /\ i - 1 \in 1..N  BY <1>1, <2>2
    <3>2. at(i) = at(i - 1) + len(i - 1) + 1 /\ at(i - 1) \in Nat /\ len(i - 1) \in Nat
          BY <1>2, <1>3, <3>1
    <3>3. at(m) \in Nat /\ len(m) \in Nat  BY <1>1, <1>2
    <3>4. CASE i - 1 = m  BY <3>2, <3>3, <3>4
    <3>5. CASE i - 1 # m
      <4>1. i - 1 > m  BY <1>1, <2>2, <3>5
      <4>2. at(m) + len(m) <= at(i - 1)  BY <1>5, <4>1
      <4> QED BY <3>2, <3>3, <4>2
    <3> QED BY <3>4, <3>5
  <2> QED BY <2>1, <2>2
<1> HIDE DEF T
<1>6. \A i \in 0..N : i \in T  BY <1>1, <1>4, <1>5, BoundedInduction, Zenon
<1>7. k \in T  BY <1>1, <1>6
<1> USE DEF T
<1>8. at(m) + len(m) <= at(k)  BY <1>1, <1>7
<1> QED BY <1>8 DEF at, len

\* A key in quotes is where a member has it, or in a string.
LEMMA KeyIsMembers ==
    ASSUME NEW mbs \in Seq(Members), NEW key, key \notin Marks, NEW i \in 1..Len(Text(mbs))
    PROVE  /\ \A k \in 1..Len(mbs) :
                  mbs[k].key = key /\ i = MemberAt(mbs, k) + 1 => KeyAt(Text(mbs), i, key)
           /\ KeyAt(Text(mbs), i, key) =>
                  \E k \in 1..Len(mbs) :
                      \/ mbs[k].key = key /\ i = MemberAt(mbs, k) + 1
                      \/ Imitates(mbs[k].value, key) /\ i > MemberAt(mbs, k) + 1
<1> DEFINE json == Text(mbs)
<1>1. ASSUME NEW k \in 1..Len(mbs), mbs[k].key = key, i = MemberAt(mbs, k) + 1
      PROVE  KeyAt(json, i, key)
  <2> DEFINE at == MemberAt(mbs, k)  v == ValueAt(mbs[k])  n == Len(ValueText(mbs[k].value))
  <2>1. /\ at \in Nat /\ v \in Nat /\ v >= 4 /\ n \in Nat
        /\ at + v + n < Len(json) /\ Len(json) \in Nat
        BY MemberInText
  <2>2. json[at + 1] = Quote /\ json[at + 2] = key /\ json[at + 3] = Quote
        BY <1>1, MemberInText, ZenonT(40)
  <2> HIDE DEF at, v, n, json
  <2>3. i = at + 1  BY <1>1 DEF at
  <2>4. i + 2 <= Len(json) /\ i + 1 = at + 2 /\ i + 2 = at + 3  BY <2>1, <2>3
  <2> QED BY <2>2, <2>3, <2>4 DEF KeyAt
<1>2. ASSUME KeyAt(json, i, key)
      PROVE  \E k \in 1..Len(mbs) :
                 \/ mbs[k].key = key /\ i = MemberAt(mbs, k) + 1
                 \/ Imitates(mbs[k].value, key) /\ i > MemberAt(mbs, k) + 1
  <2>1. json[i] = Quote /\ json[i + 1] = key /\ json[i + 2] = Quote  BY <1>2 DEF KeyAt
  <2>2. key # Quote /\ key # ":" /\ key # "," /\ key # "{" /\ key # "}" /\ key # " "
        BY DEF Marks
  <2>3. json[i] \notin {"{", ",", "}"}  BY <2>1 DEF Quote
  <2>4. PICK k \in 1..Len(mbs) : \E j \in 1..MemberLen(mbs, k) : i = MemberAt(mbs, k) + j
    <3> HIDE DEF json
    <3>1. \A m \in 1..Len(json) :
             \/ json[m] \in {"{", ",", "}"}
             \/ \E k \in 1..Len(mbs) : \E j \in 1..MemberLen(mbs, k) : m = MemberAt(mbs, k) + j
          BY TextLayout, Zenon DEF json
    <3>2. i \in 1..Len(json)  BY DEF json
    <3> QED BY <2>3, <3>1, <3>2, Zenon
  <2>5. PICK j \in 1..MemberLen(mbs, k) : i = MemberAt(mbs, k) + j  BY <2>4
  <2> DEFINE at == MemberAt(mbs, k)  mb == mbs[k]  value == ValueText(mb.value)
             v == ValueAt(mb)  n == Len(value)  len == MemberLen(mbs, k)
  <2>6. mb \in Members  BY MemberInText
  <2>7. /\ at \in Nat /\ v \in Nat /\ v >= 4 /\ n \in Nat /\ n >= 1 /\ len = v + n
        BY MemberInText, ZenonT(40)
  <2>8. json[at + 2] = mb.key  BY MemberInText, ZenonT(40)
  <2>9. json[at + 4] = ":"  BY MemberInText
  <2>10. \A m \in 5..v : json[at + m] = " "  BY MemberInText
  <2>11. \A m \in 1..n : json[at + v + m] = value[m]  BY MemberInText
  <2>12. json[at + v + n + 1] \in {",", "}"}  BY MemberInText
  <2>13. mb.key # Quote  BY <2>6, AtomFacts
  <2>14. i = at + j /\ j \in 1..len  BY <2>5
  <2>15. mb.value.isNumber => n = 1 /\ value[1] \in Numbers  BY <2>6, ValueAtoms
  <2>16. ~mb.value.isNumber =>
             /\ n = Len(mb.value.atoms) + 2 /\ Len(mb.value.atoms) \in Nat
             /\ value = String(mb.value.atoms)
         BY <2>6, ValueAtoms
  <2>17. mb.value.isNumber \in BOOLEAN /\ mb.value.atoms \in Texts  BY <2>6, AtomFacts
  <2>19. Quote # ":" /\ Quote # " "  BY DEF Quote
  <2> HIDE DEF json, at, mb, value, v, n, len
  <2>20. CASE j = 1
    <3>1. i + 1 = at + 2  BY <2>7, <2>14, <2>20
    <3>2. mb.key = key  BY <2>1, <2>8, <3>1
    <3> QED BY <2>14, <2>20, <3>2 DEF at, mb
  <2>21. CASE j = 2
    <3>1. json[i] = mb.key  BY <2>8, <2>14, <2>21
    <3> QED BY <2>1, <2>13, <3>1
  <2>22. CASE j = 3
    <3>1. i + 1 = at + 4  BY <2>7, <2>14, <2>22
    <3>2. key = ":"  BY <2>1, <2>9, <3>1
    <3> QED BY <2>2, <3>2
  <2>23. CASE j = 4
    <3>1. json[i] = ":"  BY <2>9, <2>14, <2>23
    <3> QED BY <2>1, <2>19, <3>1
  <2>24. CASE j \in 5..v
    <3>1. json[i] = " "  BY <2>10, <2>14, <2>24
    <3> QED BY <2>1, <2>19, <3>1
  <2>25. CASE j > v
    <3> DEFINE m == j - v
    <3>1. m \in 1..n /\ i = at + v + m /\ i + 1 = at + v + (m + 1) /\ i + 2 = at + v + (m + 2)
          /\ i + 1 = at + v + m + 1
          BY <2>7, <2>14, <2>25
    <3> HIDE DEF m
    <3>2. value[m] = Quote  BY <2>1, <2>11, <3>1
    <3>3. ~mb.value.isNumber
      <4> SUFFICES ASSUME mb.value.isNumber PROVE FALSE  OBVIOUS
      <4>1. n = 1 /\ value[1] \in Numbers  BY <2>15
      <4>2. m = 1  BY <3>1, <4>1
      <4>3. Quote \in Numbers  BY <3>2, <4>1, <4>2
      <4>4. Quote \in Marks  BY DEF Marks
      <4> QED BY <4>3, <4>4, AtomFacts
    <3> DEFINE atoms == mb.value.atoms
    <3>4. n = Len(atoms) + 2 /\ Len(atoms) \in Nat /\ value = String(atoms)
          BY <2>16, <3>3
    <3>5. DOMAIN atoms = 1..Len(atoms)  BY <2>17, LenProperties DEF Texts
    <3> HIDE DEF atoms
    <3>6. CASE m = n
      <4>1. key \in {",", "}"}  BY <2>1, <2>12, <3>1, <3>6
      <4> QED BY <2>2, <4>1
    <3>7. CASE m = n - 1
      <4>1. i + 1 = at + v + n /\ n \in 1..n  BY <2>7, <3>1, <3>7
      <4>2. value[n] = Quote
        <5>1. atoms \in Texts  BY <2>17 DEF atoms
        <5>2. String(atoms)[Len(atoms) + 2] = Quote  BY <5>1, StringAtoms
        <5> QED BY <3>4, <5>2
      <4>3. value[n] = key  BY <2>1, <2>11, <4>1
      <4> QED BY <2>2, <4>2, <4>3
    <3>8. CASE m < n - 1
      <4>1. m \in DOMAIN atoms /\ m + 1 \in 1..n /\ m + 2 \in 1..n
            BY <2>7, <3>1, <3>4, <3>5, <3>8
      <4>2. value[m + 1] = key /\ value[m + 2] = Quote  BY <2>1, <2>11, <3>1, <4>1
      <4>3. Imitates(mb.value, key)
            BY <3>2, <3>3, <3>4, <4>1, <4>2 DEF Imitates, atoms
      <4>4. i > at + 1  BY <2>7, <3>1
      <4> QED BY <4>3, <4>4 DEF mb, at
    <3> QED BY <2>7, <3>1, <3>6, <3>7, <3>8
  <2>26. j = 1 \/ j = 2 \/ j = 3 \/ j = 4 \/ j \in 5..v \/ j > v  BY <2>7, <2>14
  <2> QED BY <2>20, <2>21, <2>22, <2>23, <2>24, <2>25, <2>26
<1> QED BY <1>1, <1>2

LEMMA FirstIs ==
    ASSUME NEW places \in SUBSET Nat, NEW x \in places, \A y \in places : x <= y
    PROVE  First(places) = x
<1> DEFINE Least(i) == i \in places /\ \A j \in places : i <= j
<1>1. Least(x)  OBVIOUS
<1>2. ASSUME NEW i, Least(i) PROVE i = x  BY <1>2
<1>3. First(places) = CHOOSE i \in places : \A j \in places : i <= j  BY DEF First
<1>4. Least(First(places))  BY <1>1, <1>3
<1> QED BY <1>2, <1>4

\* No string in front of the key's member holds the key in quotes.
OwnFirst(mbs, key) ==
    \A k \in 1..Len(mbs) : Imitates(mbs[k].value, key) =>
        \E m \in 1..Len(mbs) : mbs[m].key = key /\ m <= k

\* The search for a member's value ends where the member has it.
LEMMA ValueStart ==
    ASSUME NEW mbs \in Seq(Members), NEW key, key \notin Marks, OwnFirst(mbs, key),
           \A k, m \in 1..Len(mbs) : mbs[k].key = mbs[m].key => k = m
    PROVE  /\ \A k \in 1..Len(mbs) : mbs[k].key = key =>
                  FindValueStart(Text(mbs), key) = MemberAt(mbs, k) + ValueAt(mbs[k]) + 1
           /\ (\A k \in 1..Len(mbs) : mbs[k].key # key) => FindValueStart(Text(mbs), key) = npos
<1> DEFINE json == Text(mbs)
           places == {i \in 1..Len(json) : KeyAt(json, i, key)}
           found == First(places)
           colons == {i \in (found + 3)..Len(json) : json[i] = ":"}
           colon == First(colons)
           others == {i \in (colon + 1)..Len(json) : json[i] # " "}
<1>1. FindValueStart(json, key) =
          IF found = npos \/ colon = npos THEN npos ELSE First(others)
      BY Zenon DEF FindValueStart
<1>2. Len(json) \in Nat  BY TextLayout
<1>3. ASSUME NEW i \in 1..Len(json)
      PROVE  /\ \A k \in 1..Len(mbs) :
                    mbs[k].key = key /\ i = MemberAt(mbs, k) + 1 => KeyAt(json, i, key)
             /\ KeyAt(json, i, key) =>
                    \E k \in 1..Len(mbs) :
                        \/ mbs[k].key = key /\ i = MemberAt(mbs, k) + 1
                        \/ Imitates(mbs[k].value, key) /\ i > MemberAt(mbs, k) + 1
      BY KeyIsMembers
<1>4. ASSUME NEW k \in 1..Len(mbs), mbs[k].key = key
      PROVE  FindValueStart(json, key) = MemberAt(mbs, k) + ValueAt(mbs[k]) + 1
  <2> DEFINE at == MemberAt(mbs, k)  mb == mbs[k]  value == ValueText(mb.value)
             v == ValueAt(mb)  n == Len(value)
  <2>1. /\ at \in Nat /\ at >= 1 /\ v \in Nat /\ v >= 4 /\ n \in Nat /\ n >= 1
        /\ at + v + n < Len(json)
        BY MemberInText
  <2>2. json[at + 3] = Quote /\ json[at + 4] = ":"  BY MemberInText, ZenonT(90)
  <2>3. \A m \in 5..v : json[at + m] = " "  BY MemberInText, ZenonT(90)
  <2>4. \A m \in 1..n : json[at + v + m] = value[m]  BY MemberInText, ZenonT(90)
  <2>5. value[1] # " "
    <3>1. mb \in Members  BY MemberInText
    <3>2. CASE mb.value.isNumber
      <4>1. value[1] \in Numbers  BY <3>1, <3>2, ValueAtoms
      <4>2. " " \in Marks  BY DEF Marks
      <4> QED BY <4>1, <4>2, AtomFacts
    <3>3. CASE ~mb.value.isNumber
      <4>1. value[1] = Quote  BY <3>1, <3>3, ValueAtoms
      <4> QED BY <4>1 DEF Quote
    <3> QED BY <3>2, <3>3
  <2> HIDE DEF at, mb, value, v, n, json, others
  <2>6. found = at + 1
    <3>1. at + 1 \in 1..Len(json)  BY <1>2, <2>1
    <3>2. KeyAt(json, at + 1, key)  BY <1>3, <1>4, <3>1 DEF at
    <3>3. ASSUME NEW i \in places PROVE at + 1 <= i
      <4>1. i \in 1..Len(json) /\ KeyAt(json, i, key) /\ i \in Nat  BY <1>2
      <4>2. PICK m \in 1..Len(mbs) :
                \/ mbs[m].key = key /\ i = MemberAt(mbs, m) + 1
                \/ Imitates(mbs[m].value, key) /\ i > MemberAt(mbs, m) + 1
            BY <1>3, <4>1
      <4>3. CASE mbs[m].key = key /\ i = MemberAt(mbs, m) + 1
        <5>1. m = k  BY <1>4, <4>3
        <5> QED BY <2>1, <4>3, <5>1 DEF at
      <4>4. CASE Imitates(mbs[m].value, key) /\ i > MemberAt(mbs, m) + 1
        <5>1. PICK own \in 1..Len(mbs) : mbs[own].key = key /\ own <= m  BY <4>4 DEF OwnFirst
        <5>2. own = k  BY <1>4, <5>1
        <5>3. CASE k = m  BY <2>1, <4>1, <4>4, <5>3 DEF at
        <5>4. CASE k # m
          <6>1. k < m  BY <5>1, <5>2, <5>4
          <6>2. at + MemberLen(mbs, k) <= MemberAt(mbs, m)  BY <6>1, MembersInOrder DEF at
          <6>3. MemberLen(mbs, k) \in Nat /\ MemberAt(mbs, m) \in Nat  BY TextLayout
          <6> QED BY <2>1, <4>1, <4>4, <6>2, <6>3
        <5> QED BY <5>3, <5>4
      <4> QED BY <4>2, <4>3, <4>4
    <3>4. at + 1 \in places /\ places \in SUBSET Nat  BY <1>2, <3>1, <3>2
    <3>5. \A y \in places : at + 1 <= y  BY <2>1, <3>3
    <3> HIDE DEF places
    <3> QED BY <3>4, <3>5, FirstIs
  <2> HIDE DEF found, places
  <2>7. colon = at + 4
    <3>1. at + 4 \in (found + 3)..Len(json)  BY <1>2, <2>1, <2>6
    <3>2. at + 4 \in colons /\ colons \in SUBSET Nat  BY <1>2, <2>1, <2>2, <2>6, <3>1
    <3>3. \A y \in colons : at + 4 <= y  BY <1>2, <2>1, <2>6
    <3> HIDE DEF colons
    <3> QED BY <3>2, <3>3, FirstIs
  <2> HIDE DEF colon, colons
  <2>8. First(others) = at + v + 1
    <3>1. at + v + 1 \in (colon + 1)..Len(json)  BY <1>2, <2>1, <2>7
    <3>2. json[at + v + 1] # " "
      <4>1. 1 \in 1..n  BY <2>1
      <4> QED BY <2>4, <2>5, <4>1
    <3>3. at + v + 1 \in others  BY <3>1, <3>2, Zenon DEF others
    <3>5. colon + 1 = at + 5  BY <2>1, <2>7
    <3>6. others \subseteq (at + 5)..Len(json)  BY <3>5, Zenon DEF others
    <3>7. others \in SUBSET Nat  BY <1>2, <2>1, <3>6
    <3>4. ASSUME NEW y \in others PROVE at + v + 1 <= y
      <4>1. y \in (at + 5)..Len(json)  BY <3>6
      <4>2. json[y] # " "  BY DEF others
      <4>3. y \in Nat /\ y >= at + 5  BY <1>2, <2>1, <4>1
      <4>4. ~(y - at \in 5..v)
        <5> SUFFICES ASSUME y - at \in 5..v PROVE FALSE  OBVIOUS
        <5>1. json[at + (y - at)] = " "  BY <2>3
        <5>2. at + (y - at) = y  BY <2>1, <4>3
        <5> QED BY <4>2, <5>1, <5>2
      <4>5. y - at \in Int /\ y - at >= 5  BY <2>1, <4>3
      <4>6. y - at > v  BY <2>1, <4>4, <4>5
      <4> QED BY <2>1, <4>3, <4>6
    <3> HIDE DEF others
    <3> QED BY <3>3, <3>4, <3>7, FirstIs
  <2>9. found # npos /\ colon # npos  BY <2>1, <2>6, <2>7 DEF npos
  <2> QED BY <1>1, <2>8, <2>9 DEF at, v, mb
<1>5. ASSUME \A k \in 1..Len(mbs) : mbs[k].key # key
      PROVE  FindValueStart(json, key) = npos
  <2>1. places = {}
    <3> SUFFICES ASSUME NEW i \in places PROVE FALSE  OBVIOUS
    <3>1. PICK m \in 1..Len(mbs) :
              \/ mbs[m].key = key /\ i = MemberAt(mbs, m) + 1
              \/ Imitates(mbs[m].value, key) /\ i > MemberAt(mbs, m) + 1
          BY <1>3
    <3>2. Imitates(mbs[m].value, key)  BY <1>5, <3>1
    <3> QED BY <1>5, <3>2 DEF OwnFirst
  <2>2. found = npos  BY <2>1 DEF First
  <2> HIDE DEF found, colon, others
  <2> QED BY <1>1, <2>2
<1> QED BY <1>4, <1>5

\* A string's atoms up to its first quote.
LEMMA CutString ==
    ASSUME NEW atoms \in Texts
    PROVE  \E q \in 1..Len(atoms) + 1 :
               /\ q # Len(atoms) + 1 => atoms[q] = Quote
               /\ \A i \in 1..q - 1 : atoms[i] # Quote /\ UpToQuote(atoms)[i] = atoms[i]
               /\ UpToQuote(atoms) \in Texts /\ Len(UpToQuote(atoms)) = q - 1
<1> DEFINE n == Len(atoms)  quotes == {i \in DOMAIN atoms : atoms[i] = Quote}
           cut == UpToQuote(atoms)
<1>1. atoms \in Seq(Atoms) /\ n \in Nat /\ DOMAIN atoms = 1..n  BY LenProperties DEF Texts
<1>2. cut = IF quotes = {} THEN atoms ELSE SubSeq(atoms, 1, First(quotes) - 1)
      BY DEF UpToQuote
<1> HIDE DEF n, cut
<1>3. CASE quotes = {}
  <2>1. cut = atoms  BY <1>2, <1>3
  <2>2. \A i \in 1..n : atoms[i] # Quote  BY <1>1, <1>3
  <2>3. n + 1 \in 1..n + 1 /\ (n + 1) - 1 = n  BY <1>1
  <2>4. cut \in Texts /\ Len(cut) = n  BY <2>1 DEF n
  <2> QED BY <2>1, <2>2, <2>3, <2>4 DEF n, cut
<1>4. CASE quotes # {}
  <2>1. quotes \in SUBSET Nat  BY <1>1
  <2>2. PICK q \in quotes : \A y \in quotes : q <= y
    <3> HIDE DEF quotes
    <3> QED BY <1>4, <2>1, LeastElement
  <2>3. First(quotes) = q
    <3> HIDE DEF quotes
    <3> QED BY <2>1, <2>2, FirstIs
  <2>4. q \in 1..n /\ atoms[q] = Quote  BY <1>1
  <2> DEFINE part == SubSeq(atoms, 1, q - 1)
  <2>5. cut = part  BY <1>2, <1>4, <2>3
  <2>6. \A i \in 1..q - 1 : atoms[i] \in Atoms
    <3> SUFFICES ASSUME NEW i \in 1..q - 1 PROVE atoms[i] \in Atoms  OBVIOUS
    <3>1. i \in 1..n  BY <1>1, <2>4
    <3> QED BY <1>1, <3>1, ElementOfSeq DEF n
  <2>7. /\ part \in Seq(Atoms) /\ Len(part) = q - 1
        /\ \A i \in 1..q - 1 : part[i] = atoms[i]
    <3> DEFINE low == 1  high == q - 1
    <3>1. low \in Int /\ high \in Int /\ \A i \in low..high : atoms[i] \in Atoms
          BY <2>4, <2>6
    <3>2. high - low + 1 = q - 1 /\ (low > high => q - 1 = 0)  BY <2>4
    <3>3. \A i \in 1..q - 1 : low + i - 1 = i  OBVIOUS
    <3> HIDE DEF low, high
    <3>4. /\ SubSeq(atoms, low, high) \in Seq(Atoms)
          /\ Len(SubSeq(atoms, low, high)) = (IF low <= high THEN high - low + 1 ELSE 0)
          /\ \A i \in 1..high - low + 1 : SubSeq(atoms, low, high)[i] = atoms[low + i - 1]
          BY <3>1, SubSeqProperties
    <3>5. Len(SubSeq(atoms, low, high)) = q - 1  BY <2>4, <3>1, <3>2, <3>4
    <3>6. \A i \in 1..q - 1 : SubSeq(atoms, low, high)[i] = atoms[i]  BY <3>2, <3>3, <3>4
    <3> QED BY <3>4, <3>5, <3>6 DEF low, high
  <2> HIDE DEF part
  <2>8. ASSUME NEW i \in 1..q - 1 PROVE atoms[i] # Quote
    <3>1. i \in 1..n /\ i < q  BY <1>1, <2>4
    <3>2. atoms[i] = Quote => i \in quotes  BY <1>1, <3>1
    <3> QED BY <2>2, <2>4, <3>1, <3>2
  <2>9. q \in 1..n + 1  BY <1>1, <2>4
  <2> QED BY <2>4, <2>5, <2>7, <2>8, <2>9 DEF n, cut, Texts
<1> QED BY <1>3, <1>4

\* A field is read as the member's value, and as nothing without that member.
LEMMA FieldsRead ==
    ASSUME NEW mbs \in Seq(Members), NEW key, key \notin Marks, OwnFirst(mbs, key),
           \A k, m \in 1..Len(mbs) : mbs[k].key = mbs[m].key => k = m
    PROVE  /\ \A k \in 1..Len(mbs) : mbs[k].key = key /\ ~mbs[k].value.isNumber =>
                  FindString(Text(mbs), key) = String(UpToQuote(mbs[k].value.atoms))
           /\ \A k \in 1..Len(mbs) : mbs[k].key = key /\ mbs[k].value.isNumber =>
                  FindNumber(Text(mbs), key) = ValueText(mbs[k].value)
           /\ (\A k \in 1..Len(mbs) : mbs[k].key = key => mbs[k].value.isNumber) =>
                  FindString(Text(mbs), key) = Nothing
           /\ (\A k \in 1..Len(mbs) : mbs[k].key = key => ~mbs[k].value.isNumber) =>
                  FindNumber(Text(mbs), key) = Nothing
<1> DEFINE json == Text(mbs)  start == FindValueStart(json, key)
           quotes == {i \in (start + 1)..Len(json) : json[i] = Quote}
           end == First(quotes)
           text(k) == ValueText(mbs[k].value)
<1>1. FindString(json, key) = IF start = npos \/ json[start] # Quote \/ end = npos THEN Nothing
                              ELSE String(SubSeq(json, start + 1, end - 1))
      BY Zenon DEF FindString
<1>2. FindNumber(json, key) = IF start = npos \/ json[start] \notin Numbers THEN Nothing
                              ELSE <<json[start]>>
      BY Zenon DEF FindNumber
<1>3. json \in Texts /\ Len(json) \in Nat  BY TextLayout
<1>4. ASSUME NEW k \in 1..Len(mbs), mbs[k].key = key
      PROVE  /\ start = MemberAt(mbs, k) + ValueAt(mbs[k]) + 1
             /\ start \in Nat /\ start >= 1 /\ start + Len(text(k)) <= Len(json)
             /\ Len(text(k)) \in Nat /\ Len(text(k)) >= 1
             /\ \A i \in 1..Len(text(k)) : json[start + i - 1] = text(k)[i]
             /\ json[start] = text(k)[1]
  <2> DEFINE at == MemberAt(mbs, k)  v == ValueAt(mbs[k])  value == text(k)  n == Len(value)
  <2>1. /\ at \in Nat /\ at >= 1 /\ v \in Nat /\ v >= 4 /\ n \in Nat /\ n >= 1
        /\ at + v + n < Len(json)
        BY MemberInText
  <2>2. \A i \in 1..n : json[at + v + i] = value[i]  BY MemberInText, ZenonT(40)
  <2>3. start = at + v + 1  BY <1>4, ValueStart
  <2> HIDE DEF at, v, value, n, json, start
  <2>4. start \in Nat /\ start >= 1 /\ start + n <= Len(json)  BY <1>3, <2>1, <2>3
  <2>5. ASSUME NEW i \in 1..n PROVE json[start + i - 1] = value[i]
    <3>1. start + i - 1 = at + v + i  BY <2>1, <2>3
    <3> QED BY <2>2, <3>1
  <2>6. json[start] = value[1]
    <3>1. 1 \in 1..n /\ start + 1 - 1 = start  BY <2>1, <2>4
    <3>2. json[start + 1 - 1] = value[1]  BY <2>5, <3>1
    <3> QED BY <3>1, <3>2
  <2> QED BY <2>1, <2>3, <2>4, <2>5, <2>6 DEF at, v, value, n
<1>5. ASSUME \A k \in 1..Len(mbs) : mbs[k].key # key PROVE start = npos
      BY <1>5, ValueStart
<1>6. ASSUME NEW k \in 1..Len(mbs), mbs[k].key = key, ~mbs[k].value.isNumber
      PROVE  /\ FindString(json, key) = String(UpToQuote(mbs[k].value.atoms))
             /\ json[start] = Quote
  <2> DEFINE atoms == mbs[k].value.atoms  n == Len(atoms)  cut == UpToQuote(atoms)
  <2>1. mbs[k] \in Members  BY ElementOfSeq
  <2>2. /\ text(k) = String(atoms) /\ Len(text(k)) = n + 2 /\ n \in Nat
        /\ text(k)[1] = Quote /\ text(k)[n + 2] = Quote
        /\ \A i \in 1..n : text(k)[1 + i] = atoms[i]
        BY <1>6, <2>1, ValueAtoms
  <2>3. atoms \in Texts  BY <2>1, AtomFacts
  <2>4. /\ start \in Nat /\ start >= 1 /\ start + Len(text(k)) <= Len(json)
        /\ \A i \in 1..Len(text(k)) : json[start + i - 1] = text(k)[i]
        /\ json[start] = text(k)[1]
        BY <1>4, <1>6
  <2>12. PICK q \in 1..n + 1 :
             /\ q # n + 1 => atoms[q] = Quote
             /\ \A i \in 1..q - 1 : atoms[i] # Quote /\ cut[i] = atoms[i]
             /\ cut \in Texts /\ Len(cut) = q - 1
         BY <2>3, CutString
  <2> DEFINE value == text(k)
  <2> HIDE DEF json, start, end, atoms, n, value, cut
  <2>13. q \in Nat /\ q >= 1 /\ q <= n + 1  BY <2>2, <2>12
  <2>5. ASSUME NEW i \in 1..n PROVE json[start + i] = atoms[i]
    <3>1. 1 + i \in 1..Len(value) /\ start + (1 + i) - 1 = start + i
          BY <2>2, <2>4 DEF value
    <3>2. json[start + (1 + i) - 1] = value[1 + i]  BY <2>4, <3>1 DEF value
    <3>3. value[1 + i] = atoms[i]  BY <2>2 DEF value
    <3> QED BY <3>1, <3>2, <3>3
  <2>6. json[start + n + 1] = Quote
    <3>1. n + 2 \in 1..Len(value) /\ start + (n + 2) - 1 = start + n + 1
          BY <2>2, <2>4 DEF value
    <3>2. json[start + (n + 2) - 1] = value[n + 2]  BY <2>4, <3>1 DEF value
    <3> QED BY <2>2, <3>1, <3>2 DEF value
  <2>7. json[start] = Quote  BY <2>2, <2>4
  <2>14. json[start + q] = Quote
    <3>1. CASE q = n + 1
      <4>1. start + q = start + n + 1  BY <2>2, <2>4, <3>1
      <4> QED BY <2>6, <4>1
    <3>2. CASE q # n + 1
      <4>1. q \in 1..n  BY <2>2, <2>13, <3>2
      <4> QED BY <2>5, <2>12, <3>2, <4>1
    <3> QED BY <3>1, <3>2
  <2>15. ASSUME NEW i \in 1..q - 1 PROVE i \in 1..n /\ json[start + i] = cut[i] /\ cut[i] # Quote
    <3>1. i \in 1..n  BY <2>2, <2>13
    <3>2. atoms[i] # Quote /\ cut[i] = atoms[i]  BY <2>12
    <3> QED BY <2>5, <3>1, <3>2
  <2>8. end = start + q
    <3>1. start + q \in (start + 1)..Len(json)  BY <1>3, <2>2, <2>4, <2>13
    <3>2. start + q \in quotes  BY <2>14, <3>1, Zenon
    <3>3. quotes \in SUBSET Nat  BY <1>3, <2>4
    <3>4. ASSUME NEW y \in quotes PROVE start + q <= y
      <4>1. y \in (start + 1)..Len(json) /\ json[y] = Quote  OBVIOUS
      <4>2. y \in Nat /\ y >= start + 1  BY <1>3, <2>4, <4>1
      <4>3. ~(y - start \in 1..q - 1)
        <5> SUFFICES ASSUME y - start \in 1..q - 1 PROVE FALSE  OBVIOUS
        <5>1. json[start + (y - start)] # Quote  BY <2>15
        <5>2. start + (y - start) = y  BY <2>4, <4>2
        <5> QED BY <4>1, <5>1, <5>2
      <4>4. y - start \in Int /\ y - start >= 1  BY <2>4, <4>2
      <4>5. y - start > q - 1  BY <2>13, <4>3, <4>4
      <4> QED BY <2>4, <2>13, <4>2, <4>5
    <3> HIDE DEF quotes
    <3> QED BY <3>2, <3>3, <3>4, FirstIs DEF end
  <2>9. SubSeq(json, start + 1, end - 1) = cut
    <3> DEFINE low == start + 1  high == end - 1  part == SubSeq(json, low, high)
    <3>1. low \in Int /\ high \in Int /\ high - low + 1 = q - 1 /\ q - 1 \in Nat
      <4>1. start \in Nat  BY <2>4
      <4> QED BY <2>8, <2>13, <4>1
    <3>2. cut \in Seq(Atoms)  BY <2>12 DEF Texts
    <3>3. \A i \in low..high : json[i] \in Atoms
      <4> SUFFICES ASSUME NEW i \in low..high PROVE json[i] \in Atoms  OBVIOUS
      <4>1. i - start \in 1..q - 1 /\ start + (i - start) = i  BY <2>4, <2>8, <2>13
      <4>2. json[i] = cut[i - start]  BY <2>15, <4>1
      <4>3. i - start \in 1..Len(cut)  BY <2>12, <4>1
      <4>4. cut[i - start] \in Atoms  BY <3>2, <4>3, ElementOfSeq
      <4> QED BY <4>2, <4>4
    <3> HIDE DEF low, high
    <3>4. /\ part \in Seq(Atoms) /\ Len(part) = (IF low <= high THEN high - low + 1 ELSE 0)
          /\ \A i \in 1..high - low + 1 : part[i] = json[low + i - 1]
          BY <3>1, <3>3, SubSeqProperties
    <3> HIDE DEF part
    <3>5. Len(part) = q - 1
      <4>1. CASE low <= high  BY <3>1, <3>4, <4>1
      <4>2. CASE ~(low <= high)
        <5>1. q - 1 = 0  BY <3>1, <4>2
        <5> QED BY <3>4, <4>2, <5>1
      <4> QED BY <4>1, <4>2
    <3>6. ASSUME NEW i \in 1..q - 1 PROVE part[i] = cut[i]
      <4>1. part[i] = json[low + i - 1]  BY <3>1, <3>4
      <4>2. low + i - 1 = start + i  BY <2>4 DEF low
      <4> QED BY <2>15, <4>1, <4>2
    <3>7. Len(part) = Len(cut) /\ \A i \in 1..Len(part) : part[i] = cut[i]
          BY <2>12, <3>5, <3>6
    <3>8. part \in Seq(Atoms)  BY <3>4
    <3>9. part = cut  BY <3>2, <3>7, <3>8, SeqEqual
    <3> QED BY <3>9 DEF part, low, high
  <2>10. start # npos /\ end # npos  BY <2>4, <2>8, <2>13, SMTT(30) DEF npos
  <2>11. FindString(json, key) = String(cut)  BY <1>1, <2>7, <2>9, <2>10, Zenon
  <2> QED BY <2>7, <2>11 DEF cut, atoms
<1>7. ASSUME NEW k \in 1..Len(mbs), mbs[k].key = key, mbs[k].value.isNumber
      PROVE  FindNumber(json, key) = text(k) /\ json[start] # Quote
  <2>1. mbs[k] \in Members  BY ElementOfSeq
  <2>2. text(k) \in Texts /\ Len(text(k)) = 1 /\ text(k)[1] \in Numbers
        BY <1>7, <2>1, ValueAtoms
  <2>3. start \in Nat /\ start >= 1 /\ json[start] = text(k)[1]  BY <1>4, <1>7
  <2> DEFINE value == text(k)
  <2>4. value = <<value[1]>>
    <3>1. value \in Seq(Atoms) /\ Len(value) = 1  BY <2>2 DEF Texts
    <3> HIDE DEF value
    <3> QED BY <3>1
  <2>5. start # npos  BY <2>3 DEF npos
  <2>6. Quote \notin Numbers
    <3>1. Quote \in Marks  BY DEF Marks
    <3> QED BY <3>1, AtomFacts
  <2> HIDE DEF start, json
  <2>7. json[start] \in Numbers  BY <2>2, <2>3
  <2>8. json[start] # Quote  BY <2>6, <2>7
  <2>9. FindNumber(json, key) = <<json[start]>>  BY <1>2, <2>5, <2>7, Zenon
  <2>10. <<json[start]>> = text(k)  BY <2>3, <2>4
  <2> QED BY <2>8, <2>9, <2>10
<1>8. ASSUME \A k \in 1..Len(mbs) : mbs[k].key = key => mbs[k].value.isNumber
      PROVE  FindString(json, key) = Nothing
  <2>1. CASE \A k \in 1..Len(mbs) : mbs[k].key # key
        BY <1>1, <1>5, <2>1, Zenon
  <2>2. CASE \E k \in 1..Len(mbs) : mbs[k].key = key
    <3>1. PICK k \in 1..Len(mbs) : mbs[k].key = key  BY <2>2
    <3>2. json[start] # Quote  BY <1>7, <1>8, <3>1
    <3> QED BY <1>1, <3>2, Zenon
  <2> QED BY <2>1, <2>2
<1>9. ASSUME \A k \in 1..Len(mbs) : mbs[k].key = key => ~mbs[k].value.isNumber
      PROVE  FindNumber(json, key) = Nothing
  <2>1. CASE \A k \in 1..Len(mbs) : mbs[k].key # key
        BY <1>2, <1>5, <2>1, Zenon
  <2>2. CASE \E k \in 1..Len(mbs) : mbs[k].key = key
    <3>1. PICK k \in 1..Len(mbs) : mbs[k].key = key  BY <2>2
    <3>2. json[start] = Quote  BY <1>6, <1>9, <3>1
    <3>3. Quote \notin Numbers
      <4>1. Quote \in Marks  BY DEF Marks
      <4> QED BY <4>1, AtomFacts
    <3> QED BY <1>2, <3>2, <3>3, Zenon
  <2> QED BY <2>1, <2>2
<1> QED BY <1>6, <1>7, <1>8, <1>9

-----------------------------------------------------------------------------
DistinctKeys(mbs) == \A k, m \in 1..Len(mbs) : mbs[k].key = mbs[m].key => k = m

\* What is parsed is the message that was put together.
ControlInv ==
    /\ members \in Seq(Members)
    /\ DistinctKeys(members)
    /\ parsed # Unparsed => parsed = ParseControlMessage(Text(members))

LEMMA ControlInvHolds == ControlSpec => []ControlInv
<1>1. ControlInit => ControlInv
  <2> SUFFICES ASSUME ControlInit PROVE ControlInv  OBVIOUS
  <2>1. members = <<>> /\ parsed = Unparsed  BY DEF ControlInit
  <2>2. members \in Seq(Members)  BY <2>1
  <2>3. DistinctKeys(members)  BY <2>1 DEF DistinctKeys
  <2> QED BY <2>1, <2>2, <2>3 DEF ControlInv
<1>2. ControlInv /\ [ControlNext]_controlVars => ControlInv'
  <2> SUFFICES ASSUME ControlInv, [ControlNext]_controlVars PROVE ControlInv'  OBVIOUS
  <2>1. ASSUME NEW mb \in Members, Add(mb) PROVE ControlInv'
    <3>1. /\ parsed = Unparsed /\ parsed' = parsed /\ members' = Append(members, mb)
          /\ \A i \in DOMAIN members : members[i].key # mb.key
          BY <2>1 DEF Add
    <3>2. members \in Seq(Members) /\ DOMAIN members = 1..Len(members) /\ Len(members) \in Nat
          BY DEF ControlInv
    <3>3. /\ members' \in Seq(Members) /\ Len(members') = Len(members) + 1
          /\ \A i \in 1..Len(members) : members'[i] = members[i]
          /\ members'[Len(members) + 1] = mb
          BY <3>1, <3>2, AppendProperties
    <3>4. ASSUME NEW k \in 1..Len(members'), NEW m \in 1..Len(members'),
                 members'[k].key = members'[m].key
          PROVE  k = m
      <4> DEFINE n == Len(members)
      <4>1. (k \in 1..n \/ k = n + 1) /\ (m \in 1..n \/ m = n + 1)  BY <3>2, <3>3
      <4>2. CASE k \in 1..n /\ m \in 1..n
        <5>1. members[k].key = members[m].key  BY <3>3, <3>4, <4>2
        <5> QED BY <4>2, <5>1 DEF ControlInv, DistinctKeys
      <4>3. CASE k \in 1..n /\ m = n + 1
        <5>1. members[k].key = mb.key  BY <3>3, <3>4, <4>3
        <5> QED BY <3>1, <3>2, <4>3, <5>1
      <4>4. CASE k = n + 1 /\ m \in 1..n
        <5>1. members[m].key = mb.key  BY <3>3, <3>4, <4>4
        <5> QED BY <3>1, <3>2, <4>4, <5>1
      <4>5. CASE k = n + 1 /\ m = n + 1  BY <4>5
      <4> QED BY <4>1, <4>2, <4>3, <4>4, <4>5
    <3>5. DistinctKeys(members')  BY <3>4 DEF DistinctKeys
    <3> QED BY <3>1, <3>3, <3>5 DEF ControlInv, Unparsed, DistinctKeys
  <2>2. CASE Parse
    <3>1. members' = members /\ parsed' = ParseControlMessage(Text(members))
          BY <2>2 DEF Parse
    <3>2. parsed' = ParseControlMessage(Text(members'))  BY <3>1
    <3> QED BY <3>1, <3>2 DEF ControlInv, DistinctKeys
  <2>3. CASE UNCHANGED controlVars
    <3>1. members' = members /\ parsed' = parsed  BY <2>3 DEF controlVars
    <3> QED BY <3>1 DEF ControlInv, DistinctKeys, Unparsed
  <2> QED BY <2>1, <2>2, <2>3 DEF ControlNext
<1> QED BY <1>1, <1>2, PTL DEF ControlSpec

LEMMA KeysAreWords ==
    ASSUME NEW name
    PROVE  "type" \notin Marks /\ \A k \in Keys(name) : k \notin Marks
<1>1. "type" \notin Marks  BY DEF Marks, Quote
<1>2. ASSUME NEW k \in IntKeys(name) PROVE k \notin Marks
  <2>1. k \in {"drops", "pending", "pv", "min", "width", "height", "framesPerSecond"}
        BY DEF IntKeys
  <2> QED BY <2>1 DEF Marks, Quote
<1>3. ASSUME NEW k \in NumberKeys(name) PROVE k \notin Marks
  <2>1. k \in {"t", "mt", "capFps"}  BY DEF NumberKeys
  <2> QED BY <2>1 DEF Marks, Quote
<1>4. ASSUME NEW k \in StringKeys(name) PROVE k \notin Marks
  <2>1. k \in {"target", "store", "message", "codec"}  BY DEF StringKeys
  <2> QED BY <2>1 DEF Marks, Quote
<1> QED BY <1>1, <1>2, <1>3, <1>4 DEF Keys

\* Of every key that no string displaces, what is found is what was meant.
LEMMA FoundAsMeant ==
    ASSUME members \in Seq(Members), DistinctKeys(members),
           NEW key, key \notin Marks, ~Displaced(key)
    PROVE  /\ FindString(Text(members), key) = MeantString(key)
           /\ FindNumber(Text(members), key) = MeantNumber(key)
<1> DEFINE at(b) == {i \in DOMAIN members :
                         members[i].key = key /\ members[i].value.isNumber = b}
<1>1. DOMAIN members = 1..Len(members) /\ Len(members) \in Nat  BY LenProperties
<1>2. \A k \in 1..Len(members) :
          members[k].value.isNumber \in BOOLEAN /\ members[k] \in Members
  <2> SUFFICES ASSUME NEW k \in 1..Len(members)
               PROVE  members[k].value.isNumber \in BOOLEAN /\ members[k] \in Members
      OBVIOUS
  <2>1. members[k] \in Members  BY ElementOfSeq
  <2> QED BY <2>1, AtomFacts
<1>3. OwnFirst(members, key)
  <2> SUFFICES ASSUME NEW k \in 1..Len(members), Imitates(members[k].value, key)
               PROVE  \E m \in 1..Len(members) : members[m].key = key /\ m <= k
      BY DEF OwnFirst
  <2>1. PICK m \in 1..Len(members) : members[m].key = key /\ ~(k < m)
        BY <1>1, Zenon DEF Displaced
  <2> QED BY <1>1, <2>1
<1>4. /\ \A k \in 1..Len(members) : members[k].key = key /\ ~members[k].value.isNumber =>
              FindString(Text(members), key) = String(UpToQuote(members[k].value.atoms))
      /\ \A k \in 1..Len(members) : members[k].key = key /\ members[k].value.isNumber =>
              FindNumber(Text(members), key) = ValueText(members[k].value)
      /\ (\A k \in 1..Len(members) : members[k].key = key => members[k].value.isNumber) =>
              FindString(Text(members), key) = Nothing
      /\ (\A k \in 1..Len(members) : members[k].key = key => ~members[k].value.isNumber) =>
              FindNumber(Text(members), key) = Nothing
  <2>1. \A k, m \in 1..Len(members) : members[k].key = members[m].key => k = m
        BY DEF DistinctKeys
  <2> QED BY <1>3, <2>1, FieldsRead
<1>5. ASSUME NEW b \in BOOLEAN
      PROVE  /\ at(b) = {} => ValuesOf(key, b) = {}
             /\ \A k \in at(b) :
                    ValuesOf(key, b) # {} /\ (CHOOSE v \in ValuesOf(key, b) : TRUE) = members[k].value
  <2>1. ValuesOf(key, b) = {members[i].value : i \in at(b)}  BY Zenon DEF ValuesOf
  <2>2. ASSUME NEW k \in at(b) PROVE ValuesOf(key, b) = {members[k].value}
    <3>1. ASSUME NEW i \in at(b) PROVE i = k
      <4>1. i \in 1..Len(members) /\ k \in 1..Len(members) /\ members[i].key = members[k].key
            BY <1>1
      <4> QED BY <4>1 DEF DistinctKeys
    <3>2. k \in at(b)  OBVIOUS
    <3> HIDE DEF at
    <3> QED BY <2>1, <3>1, <3>2
  <2> HIDE DEF at
  <2>3. ASSUME NEW k \in at(b)
        PROVE  ValuesOf(key, b) # {} /\ (CHOOSE v \in ValuesOf(key, b) : TRUE) = members[k].value
    <3> DEFINE one == members[k].value
    <3>1. ValuesOf(key, b) = {one}  BY <2>2
    <3> HIDE DEF one
    <3>2. (CHOOSE v \in {one} : TRUE) = one  OBVIOUS
    <3> QED BY <3>1, <3>2 DEF one
  <2> QED BY <2>1, <2>3
<1>6. FindString(Text(members), key) = MeantString(key)
  <2>1. CASE at(FALSE) = {}
    <3>1. \A k \in 1..Len(members) : members[k].key = key => members[k].value.isNumber
          BY <1>1, <1>2, <2>1
    <3>2. MeantString(key) = Nothing  BY <1>5, <2>1 DEF MeantString
    <3> QED BY <1>4, <3>1, <3>2
  <2>2. CASE at(FALSE) # {}
    <3>1. PICK k : k \in at(FALSE)  BY <2>2
    <3>2. k \in 1..Len(members) /\ members[k].key = key /\ ~members[k].value.isNumber
          BY <1>1, <3>1
    <3> HIDE DEF at
    <3>3. MeantString(key) = String(UpToQuote(members[k].value.atoms))
          BY <1>5, <3>1 DEF MeantString
    <3> QED BY <1>4, <3>2, <3>3
  <2> QED BY <2>1, <2>2
<1>7. FindNumber(Text(members), key) = MeantNumber(key)
  <2>1. CASE at(TRUE) = {}
    <3>1. \A k \in 1..Len(members) : members[k].key = key => ~members[k].value.isNumber
          BY <1>1, <1>2, <2>1
    <3>2. MeantNumber(key) = Nothing  BY <1>5, <2>1 DEF MeantNumber
    <3> QED BY <1>4, <3>1, <3>2
  <2>2. CASE at(TRUE) # {}
    <3>1. PICK k : k \in at(TRUE)  BY <2>2
    <3>2. k \in 1..Len(members) /\ members[k].key = key /\ members[k].value.isNumber
          BY <1>1, <3>1
    <3> HIDE DEF at
    <3>3. MeantNumber(key) = members[k].value.atoms  BY <1>5, <3>1 DEF MeantNumber
    <3>4. ValueText(members[k].value) = members[k].value.atoms  BY <3>2 DEF ValueText
    <3> QED BY <1>4, <3>2, <3>3, <3>4
  <2> QED BY <2>1, <2>2
<1> QED BY <1>6, <1>7

LEMMA IntAsMeant ==
    ASSUME NEW key, FindNumber(Text(members), key) = MeantNumber(key)
    PROVE  FindInt(Text(members), key) = MeantInt(key)
<1> DEFINE json == Text(members)  start == FindValueStart(json, key)
           number == MeantNumber(key)
<1>1. FindNumber(json, key) = IF start = npos \/ json[start] \notin Numbers THEN Nothing
                              ELSE <<json[start]>>
      BY Zenon DEF FindNumber
<1>2. FindInt(json, key) = IF number = Nothing \/ ~IsInt(number[1]) THEN Nothing
                           ELSE <<IntPart[number[1]]>>
      BY Zenon DEF FindInt
<1>3. MeantInt(key) = IF \E n \in Numbers : number = <<n>> /\ IsInt(n)
                      THEN <<IntPart[number[1]]>> ELSE Nothing
      BY Zenon DEF MeantInt
<1>4. number = FindNumber(json, key)  OBVIOUS
<1> HIDE DEF json, start, number
<1>5. CASE number = Nothing
  <2>1. ~\E n \in Numbers : number = <<n>> /\ IsInt(n)
    <3>1. \A n : Nothing # <<n>>  BY DEF Nothing
    <3> QED BY <1>5, <3>1
  <2> QED BY <1>2, <1>3, <1>5, <2>1, Zenon DEF json
<1>6. CASE number # Nothing
  <2>1. PICK n \in Numbers : number = <<n>>  BY <1>1, <1>4, <1>6
  <2>2. number[1] = n  BY <2>1
  <2>3. \A m : number = <<m>> => m = n  BY <2>1
  <2>4. (\E m \in Numbers : number = <<m>> /\ IsInt(m)) <=> IsInt(number[1])
        BY <2>1, <2>2, <2>3, Zenon
  <2>5. FindInt(json, key) = IF ~IsInt(number[1]) THEN Nothing ELSE <<IntPart[number[1]]>>
        BY <1>2, <1>6, Zenon
  <2>6. MeantInt(key) = IF IsInt(number[1]) THEN <<IntPart[number[1]]>> ELSE Nothing
        BY <1>3, <2>4, Zenon
  <2>7. CASE IsInt(number[1])  BY <2>5, <2>6, <2>7, Zenon DEF json
  <2>8. CASE ~IsInt(number[1])  BY <2>5, <2>6, <2>8, Zenon DEF json
  <2> QED BY <2>7, <2>8
<1> QED BY <1>5, <1>6

(* For every sender's message - whatever its members, their order, unknown   *)
(* members and the text of strings - each field in front of which no string  *)
(* holds its key in quotes is what the sender put there or its default: an   *)
(* int without its fraction and only below a billion, a string up to its     *)
(* first quote.  A search for a quoted key and the next colon is as good as  *)
(* parsing (control.cpp:15-53 and 116-165), but for the fields displaced,    *)
(* where control.h:6 is not kept.                                            *)
THEOREM FieldsAreSendersCorrect == ControlSpec => []FieldsAreSenders
<1>1. ControlInv => FieldsAreSenders
  <2> DEFINE json == Text(members)  type == FindString(json, "type")  name == Unquoted(type)
             values == [k \in Keys(name) |-> Find(json, name, k)]
  <2> SUFFICES ASSUME ControlInv, parsed # Unparsed PROVE FieldsAreSenders
      BY Zenon DEF FieldsAreSenders
  <2>1. /\ members \in Seq(Members) /\ DistinctKeys(members)
        /\ parsed = ParseControlMessage(json)
        BY DEF ControlInv
  <2>2. ASSUME NEW k, k = "type" \/ k \in Keys(name), ~Displaced(k)
        PROVE  /\ FindString(json, k) = MeantString(k)
               /\ FindNumber(json, k) = MeantNumber(k)
               /\ FindInt(json, k) = MeantInt(k)
    <3> HIDE DEF name
    <3>1. k \notin Marks  BY <2>2, KeysAreWords
    <3>2. FindString(json, k) = MeantString(k) /\ FindNumber(json, k) = MeantNumber(k)
          BY <2>1, <2>2, <3>1, FoundAsMeant
    <3> QED BY <3>2, IntAsMeant
  <2>4. json[1] = "{" /\ json[Len(json)] = "}"  BY <2>1, TextLayout
  <2>5. parsed = IF type = Nothing THEN [type |-> Nothing] ELSE [type |-> type, values |-> values]
    <3> HIDE DEF json
    <3> QED BY <2>1, <2>4, Zenon DEF ParseControlMessage
  <2>6. ASSUME NEW k \in Keys(name), ~Displaced(k) PROVE values[k] = Meant(name, k)
    <3>1. values[k] = Find(json, name, k)  OBVIOUS
    <3> HIDE DEF json, name, values
    <3> QED BY <2>2, <2>6, <3>1 DEF Find, Meant
  <2>7. ~Displaced("type") => type = MeantString("type")  BY <2>2
  <2>8. DOMAIN values = Keys(name)  OBVIOUS
  <2>9. name = Unquoted(type)  OBVIOUS
  <2> HIDE DEF json, type, name, values
  <2>10. parsed.type = type
    <3>1. CASE type = Nothing  BY <2>5, <3>1
    <3>2. CASE type # Nothing  BY <2>5, <3>2
    <3> QED BY <3>1, <3>2
  <2>11. type # Nothing => parsed.values = values  BY <2>5
  <2> QED BY <2>6, <2>7, <2>8, <2>9, <2>10, <2>11, Zenon DEF FieldsAreSenders
<1> QED BY <1>1, ControlInvHolds, PTL
=============================================================================
