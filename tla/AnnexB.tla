------------------------------- MODULE AnnexB -------------------------------
(***************************************************************************)
(* What the read loop makes of one deframed payload: the choice between    *)
(* control message and video (src/protocol/demux.cpp), the split of a      *)
(* video payload into NAL units (src/protocol/annexb.cpp) and the sample   *)
(* it is copied into for the decoder (src/net/session.cpp).                *)
(*                                                                         *)
(* The sender composes a payload from a prefix (telemetry, or the text of  *)
(* a control message when nothing follows) and NAL units; the receiver     *)
(* sees only the bytes.                                                    *)
(***************************************************************************)
EXTENDS Integers, Sequences, FiniteSets

CONSTANTS
    Heads,               \* byte strings without NUL the sender starts with
    Nalus,               \* NAL units it uses
    MaxNalus,            \* bound: NAL units in a payload
    kJsonSniffMaxSize    \* control messages are shorter than this

StartCode == <<0, 0, 0, 1>>

IsStartCode(bytes, at) ==
    at + 4 <= Len(bytes) /\ \A i \in 1..4 : bytes[at + i] = StartCode[i]

\* An encoder escapes the bytes of a NAL unit that would look like a start code.
ASSUME PayloadAssumption ==
    /\ \A p \in Heads : p \in Seq(1..255)
    /\ \A n \in Nalus : n \in Seq(0..255) /\ \A at \in 0..Len(n) : ~IsStartCode(n, at)
    /\ MaxNalus \in Nat /\ kJsonSniffMaxSize \in Nat

VARIABLES
    prefix,    \* what the sender has put in front of the NAL units
    nalus,     \* the NAL units it has appended so far
    result     \* what ReadLoop did with the payload

payloadVars == <<prefix, nalus, result>>

-----------------------------------------------------------------------------
(* The sender.                                                             *)

\* The NAL units up to the k-th, each behind a start code.
Serialized(ns) ==
    LET bytes[k \in 0..Len(ns)] ==
            IF k = 0 THEN <<>> ELSE bytes[k - 1] \o StartCode \o ns[k]
    IN bytes

WithStartCodes(ns) == Serialized(ns)[Len(ns)]

Composed == prefix \o WithStartCodes(nalus)

-----------------------------------------------------------------------------
(* demux.cpp                                                               *)

\* Mutant: payloads are not searched for NUL.
IsControlJsonAnyByte(bytes) ==
    /\ bytes # <<>> /\ Len(bytes) < kJsonSniffMaxSize
    /\ Head(bytes) = 123

\* '{' first, and no NUL.
IsControlJson(bytes) ==
    /\ bytes # <<>> /\ Len(bytes) < kJsonSniffMaxSize
    /\ Head(bytes) = 123
    /\ \A i \in DOMAIN bytes : bytes[i] # 0

-----------------------------------------------------------------------------
(* annexb.cpp: start codes do not overlap, so every occurrence counts.     *)

NaluType(nalu) == nalu[1] % 32

\* Offsets of the start codes in front of offset i.
Found(bytes) ==
    LET found[i \in 0..Len(bytes)] ==
            IF i = 0 THEN <<>>
            ELSE IF IsStartCode(bytes, i - 1) THEN Append(found[i - 1], i - 1)
            ELSE found[i - 1]
    IN found

StartCodes(bytes) == Found(bytes)[Len(bytes)]

NaluEnd(bytes, starts, k) ==
    IF k < Len(starts) THEN starts[k + 1] ELSE Len(bytes)

Split(bytes, starts) ==
    [k \in 1..Len(starts) |-> SubSeq(bytes, starts[k] + 5, NaluEnd(bytes, starts, k))]

\* The NAL units of some types, up to the k-th; empty ones are skipped.
Selected(types, ns) ==
    LET taken[k \in 0..Len(ns)] ==
            IF k = 0 THEN <<>>
            ELSE IF ns[k] # <<>> /\ NaluType(ns[k]) \in types THEN Append(taken[k - 1], ns[k])
            ELSE taken[k - 1]
    IN taken

Of(types, ns) == Selected(types, ns)[Len(ns)]

\* The last NAL unit of a type, or nothing.
LastOf(type, ns) == LET of == Of({type}, ns) IN IF of = <<>> THEN <<>> ELSE of[Len(of)]

VclTypes == (0..31) \ {6, 7, 8}

ParseAnnexB(bytes) ==
    LET starts == StartCodes(bytes)
        ns     == Split(bytes, starts)
    IN [telemetryPrefix |-> IF starts = <<>> THEN <<>> ELSE SubSeq(bytes, 1, starts[1]),
        sps      |-> LastOf(7, ns),
        pps      |-> LastOf(8, ns),
        vclNalus |-> Of(VclTypes, ns)]

IsEmpty(frame) == frame.vclNalus = <<>> /\ frame.sps = <<>>

\* The bits of a NAL unit, the highest of each byte first.
Bit(nalu, i) ==
    (nalu[i \div 8 + 1] \div <<128, 64, 32, 16, 8, 4, 2, 1>>[(i % 8) + 1]) % 2

\* An Exp-Golomb number at bit position pos: value and position behind it.
\* Past the end bit() is -1, which ends the zeros but makes a suffix negative.
UnsignedExpGolomb(nalu, pos) ==
    LET end   == 8 * Len(nalu)
        ones  == {i \in pos..(end - 1) : Bit(nalu, i) = 1}
        one   == IF ones = {} THEN end ELSE CHOOSE i \in ones : \A j \in ones : i <= j
        zeros == one - pos
        read[k \in 0..zeros] == IF k = 0 THEN 1 ELSE 2 * read[k - 1] + Bit(nalu, one + k)
    IN IF zeros > 24 \/ (zeros > 0 /\ one + zeros >= end)
       THEN [value |-> -1, next |-> end]
       ELSE [value |-> read[zeros] - 1, next |-> one + zeros + 1]

\* first_mb_in_slice, then slice_type, read from the first byte of the NALU.
SliceType(nalu) ==
    LET firstMb == UnsignedExpGolomb(nalu, 0)
        type    == UnsignedExpGolomb(nalu, firstMb.next)
    IN IF firstMb.value >= 0 /\ type.value \in 0..9 THEN type.value ELSE -1

\* Mutant: parameter sets are not required.
IsKeyframeWithoutSps(frame) ==
    \E k \in DOMAIN frame.vclNalus :
        \/ NaluType(frame.vclNalus[k]) = 5
        \/ NaluType(frame.vclNalus[k]) = 1 /\ SliceType(frame.vclNalus[k]) = 7

IsKeyframe(frame) ==
    /\ frame.sps # <<>>
    /\ \E k \in DOMAIN frame.vclNalus :
          \/ NaluType(frame.vclNalus[k]) = 5
          \/ NaluType(frame.vclNalus[k]) = 1 /\ SliceType(frame.vclNalus[k]) = 7

-----------------------------------------------------------------------------
(* session.cpp: the body of ReadLoop's loop over frames.                   *)

\* A parameter set goes into the sample if there is one.
Given(nalu) == IF nalu = <<>> THEN <<>> ELSE <<nalu>>

\* Mutant: the parameter sets follow the slices.
SampleSlicesFirst(frame) ==
    [handled |-> "video", isKeyframe |-> IsKeyframe(frame), telemetry |-> frame.telemetryPrefix,
     sps |-> frame.sps, pps |-> frame.pps,
     annexb |-> WithStartCodes(frame.vclNalus \o Given(frame.sps) \o Given(frame.pps))]

\* The VideoSample given to onVideo.  captureMs and sendMs are the numbers in
\* the telemetry prefix, kept here as the prefix.
Sample(frame) ==
    [handled |-> "video", isKeyframe |-> IsKeyframe(frame), telemetry |-> frame.telemetryPrefix,
     sps |-> frame.sps, pps |-> frame.pps,
     annexb |-> WithStartCodes(Given(frame.sps) \o Given(frame.pps) \o frame.vclNalus)]

HandleFrame(bytes) ==
    IF IsControlJson(bytes) THEN [handled |-> "control"]
    ELSE LET frame == ParseAnnexB(bytes)
         IN IF IsEmpty(frame) THEN [handled |-> "ignored"] ELSE Sample(frame)

-----------------------------------------------------------------------------
Unhandled == [handled |-> "pending"]

PayloadInit == prefix \in Heads /\ nalus = <<>> /\ result = Unhandled

Append1(n) ==
    /\ result = Unhandled /\ Len(nalus) < MaxNalus
    /\ nalus' = Append(nalus, n)
    /\ UNCHANGED <<prefix, result>>

HandlePayload ==
    /\ result = Unhandled
    /\ Composed # <<>>
    /\ result' = HandleFrame(Composed)
    /\ UNCHANGED <<prefix, nalus>>

PayloadNext == (\E n \in Nalus : Append1(n)) \/ HandlePayload

PayloadSpec == PayloadInit /\ [][PayloadNext]_payloadVars

-----------------------------------------------------------------------------
(* Properties, stated on what the sender composed.                         *)

\* The NAL units of some types in the order they were composed: the j-th is
\* the one with j of them up to it.
Sent(types) ==
    LET at      == {k \in DOMAIN nalus : nalus[k] # <<>> /\ NaluType(nalus[k]) \in types}
        rank(k) == Cardinality({i \in at : i <= k})
    IN [j \in 1..Cardinality(at) |-> nalus[CHOOSE k \in at : rank(k) = j]]
Slices      == Sent((0..31) \ {6, 7, 8})
Lasts(ns)   == IF ns = <<>> THEN <<>> ELSE <<ns[Len(ns)]>>
IsVideo     == result.handled = "video"

(* The choice between control and video is right whatever the sizes: a     *)
(* payload with a start code is never a control message, although it may    *)
(* begin with '{', and a text is never a video sample, although it may be   *)
(* too long for a control message (demux.h:9-22, session.cpp:150-166).      *)
NeverMisrouted ==
    /\ result.handled = "control" => nalus = <<>>
    /\ IsVideo => Slices # <<>> \/ Sent({7}) # <<>>
    /\ result.handled = "ignored" => Slices = <<>> /\ Sent({7}) = <<>>

(* The decoder gets every slice the sender composed, byte for byte and in   *)
(* order, behind the last SPS and PPS of the payload, and the telemetry is   *)
(* what stood in front, whatever prefix, SEI, empty units and zero bytes    *)
(* inside units are (annexb.cpp:79-109, session.cpp:161-190).               *)
SlicesReachDecoder == IsVideo =>
    /\ result.annexb = WithStartCodes(Lasts(Sent({7})) \o Lasts(Sent({8})) \o Slices)
    /\ result.telemetry = prefix

(* A sample with an SPS and an IDR slice starts the decoder, and nothing    *)
(* else does but a disposable slice behind an SPS.  The test for I slices   *)
(* begins at the NAL header: it never fires on a reference slice, so not    *)
(* "any slice with slice_type 7 (I)" counts (annexb.cpp:115), and on a      *)
(* disposable one it reads other bits, so a P slice may count and the       *)
(* sample need not carry "an IDR slice" (annexb.h:48, annexb.cpp:37-59).    *)
Disposable(n) == n # <<>> /\ NaluType(n) = 1 /\ n[1] < 32
HasDisposable == \E k \in DOMAIN nalus : Disposable(nalus[k])
KeyframeIsIdr == IsVideo =>
    /\ Sent({7}) # <<>> /\ Sent({5}) # <<>> => result.isKeyframe
    /\ result.isKeyframe => Sent({7}) # <<>> /\ (Sent({5}) # <<>> \/ HasDisposable)
=============================================================================
