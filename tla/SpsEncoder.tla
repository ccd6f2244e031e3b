----------------------------- MODULE SpsEncoder -----------------------------
(***************************************************************************)
(* What an encoder puts into a sequence parameter set (ISO/IEC 14496-10,   *)
(* 7.3.1, 7.3.2.1 and 9.1), bit by bit: the senders' side of SpsParser.    *)
(***************************************************************************)
EXTENDS Integers, Sequences

\* v >> k
Half(v) == LET half[k \in 0..32] == IF k = 0 THEN v ELSE half[k - 1] \div 2 IN half

Concat(pieces) ==
    LET concat[k \in 0..Len(pieces)] == IF k = 0 THEN <<>> ELSE concat[k - 1] \o pieces[k]
    IN concat[Len(pieces)]

U(n, v) == [i \in 1..n |-> Half(v)[n - i] % 2]
Ue(v)   == LET n == CHOOSE k \in 0..30 : Half(v + 1)[k] = 1
           IN [i \in 1..n |-> 0] \o U(n + 1, v + 1)

\* A syntax element is its descriptor and its value.
U1(v)  == [kind |-> "u1", value |-> v]
U8(v)  == [kind |-> "u8", value |-> v]
UE(v)  == [kind |-> "ue", value |-> v]
SE(v)  == [kind |-> "se", value |-> v]
Code(e) == CASE e.kind = "u1" -> U(1, e.value)
             [] e.kind = "u8" -> U(8, e.value)
             [] e.kind = "ue" -> Ue(e.value)
             [] e.kind = "se" -> Ue(IF e.value > 0 THEN 2 * e.value - 1 ELSE -2 * e.value)
Codes(es) == Concat([k \in DOMAIN es |-> Code(es[k])])

HighProfiles == {44, 83, 86, 100, 110, 118, 122, 128, 134, 135, 138, 139, 244}
Chroma(f)    == IF f.profile \in HighProfiles THEN f.chroma ELSE 1

\* A scaling list that is absent is empty here.
ListCode(deltas) ==
    IF deltas = <<>> THEN Codes(<<U1(0)>>)
    ELSE Codes(<<U1(1)>>) \o Codes([k \in DOMAIN deltas |-> SE(deltas[k])])
ListCount(f)  == IF f.chroma = 3 THEN 12 ELSE 8
ListsPart(f)  == IF f.matrix = 0 THEN <<>>
                 ELSE Concat([i \in 1..ListCount(f) |-> ListCode(f.lists[i])])

(* What is written from the group on that the parser reads next.  Elements *)
(* that only have to be passed are f.octets, f.numbers and f.flags; f.rest *)
(* is what follows the cropping: the VUI and the stop bit.                 *)
CropsPart(f) ==
    (IF f.crop = <<0, 0, 0, 0>> THEN <<>> ELSE Codes([i \in 1..4 |-> UE(f.crop[i])])) \o f.rest
CropPart(f) ==
    Codes(<<U1(f.flags[6]), U1(IF f.crop = <<0, 0, 0, 0>> THEN 0 ELSE 1)>>) \o CropsPart(f)
SizePart(f) ==
    Codes(<<UE(f.numbers[6]), U1(f.flags[4]), UE(f.wide - 1), UE(f.high - 1), U1(f.frameMbs)>>)
    \o ((IF f.frameMbs = 0 THEN Codes(<<U1(f.flags[5])>>) ELSE <<>>) \o CropPart(f))
OffsetsPart(f) ==
    Codes([i \in 1..(Len(f.offsets) - 2) |-> SE(f.offsets[i + 2])]) \o SizePart(f)
Order0Part(f) == Codes(<<UE(f.numbers[5])>>) \o SizePart(f)
Order1Part(f) ==
    Codes(<<U1(f.flags[3]), SE(f.offsets[1]), SE(f.offsets[2]), UE(Len(f.offsets) - 2)>>)
    \o OffsetsPart(f)
OrderPart(f) ==
    Codes(<<UE(f.numbers[4]), UE(f.poc)>>)
    \o (CASE f.poc = 0 -> Order0Part(f) [] f.poc = 1 -> Order1Part(f) [] OTHER -> SizePart(f))
DepthPart(f) ==
    Codes(<<UE(f.numbers[2]), UE(f.numbers[3]), U1(f.flags[2]), U1(f.matrix)>>)
    \o (ListsPart(f) \o OrderPart(f))
ChromaPart(f) ==
    Codes(<<UE(f.chroma)>>)
    \o ((IF f.chroma = 3 THEN Codes(<<U1(f.flags[1])>>) ELSE <<>>) \o DepthPart(f))
Encoded(f) ==
    Codes(<<U8(f.profile), U8(f.octets[1]), U8(f.octets[2]), UE(f.numbers[1])>>)
    \o (IF f.profile \in HighProfiles THEN ChromaPart(f) ELSE OrderPart(f))

Bytes(code) == [i \in 1..((Len(code) + 7) \div 8) |->
    LET bit(j) == IF 8 * (i - 1) + j <= Len(code) THEN code[8 * (i - 1) + j] ELSE 0
    IN 128 * bit(1) + 64 * bit(2) + 32 * bit(3) + 16 * bit(4)
       + 8 * bit(5) + 4 * bit(6) + 2 * bit(7) + bit(8)]

\* 00 00 0x becomes 00 00 03 0x; zeros are counted from the last such 03 on.
Zeros(bytes) ==
    LET zeros[k \in 0..Len(bytes)] ==
            IF k = 0 THEN 0 ELSE IF bytes[k] # 0 THEN 0
            ELSE IF zeros[k - 1] = 2 THEN 1 ELSE zeros[k - 1] + 1
    IN zeros
Protected(bytes) ==
    Concat([k \in DOMAIN bytes |->
               IF Zeros(bytes)[k - 1] = 2 /\ bytes[k] <= 3 THEN <<3, bytes[k]>> ELSE <<bytes[k]>>])

ParameterSet(f) == <<103>> \o Protected(Bytes(Encoded(f)))

(* What an encoder may write: codes of at most 31 digits behind at most 30 *)
(* zeros, and a picture whose size an int holds.                           *)
Codable(v)       == v \in Nat /\ Half(v + 1)[31] = 0
CodableSigned(v) == v \in Int /\ Codable(IF v > 0 THEN 2 * v - 1 ELSE -2 * v)

\* The scales a list has by its deltas; after a zero scale nothing is written.
Scales(deltas) ==
    LET scale[k \in 0..Len(deltas)] ==
            IF k = 0 THEN 8 ELSE (scale[k - 1] + deltas[k] + 256) % 256
    IN scale
ScalingList(deltas, size) ==
    /\ deltas \in Seq(-128..127) /\ Len(deltas) <= size
    /\ \A k \in 1..Len(deltas) : CodableSigned(deltas[k])
    /\ \A k \in 1..(Len(deltas) - 1) : Scales(deltas)[k] # 0
    /\ deltas = <<>> \/ Len(deltas) = size \/ Scales(deltas)[Len(deltas)] = 0

kMaxMbs == 1048576

WellFormed(f) ==
    /\ f.profile \in 0..255 /\ \A i \in 1..2 : f.octets[i] \in 0..255
    /\ f.chroma \in 0..3 /\ {f.matrix, f.frameMbs} \subseteq {0, 1}
    /\ \A i \in 1..6 : Codable(f.numbers[i]) /\ f.flags[i] \in {0, 1}
    /\ \A i \in 1..12 : ScalingList(f.lists[i], IF i <= 6 THEN 16 ELSE 64)
    /\ Codable(f.poc)
    /\ f.offsets \in Seq(Int) /\ Len(f.offsets) >= 2 /\ Codable(Len(f.offsets) - 2)
    /\ \A i \in 1..Len(f.offsets) : CodableSigned(f.offsets[i])
    /\ {f.wide, f.high} \subseteq 1..kMaxMbs /\ Codable(f.wide - 1) /\ Codable(f.high - 1)
    /\ f.crop \in Seq(0..kMaxMbs) /\ Len(f.crop) = 4 /\ \A i \in 1..4 : Codable(f.crop[i])
    /\ f.rest \in Seq({0, 1})
=============================================================================
