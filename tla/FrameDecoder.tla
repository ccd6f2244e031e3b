---------------------------- MODULE FrameDecoder ----------------------------
(***************************************************************************)
(* Deframing of the sender's byte stream (src/protocol/framing.cpp) as the *)
(* read loop uses it (src/net/session.cpp): recv returns the stream in     *)
(* chunks of any size, Feed appends the chunk to a growing buffer, extracts*)
(* every complete [length][payload] frame, compacts the buffer and returns *)
(* views into it.  The bytes are kept, because what the views show after   *)
(* the compaction is the question.                                         *)
(***************************************************************************)
EXTENDS Integers, Sequences, SequencesExt

CONSTANTS
    Lengths,             \* payload lengths the sender uses
    PayloadByte(_, _),   \* byte i of the payload of frame k
    MaxFrames,           \* bound: frames in the stream
    kMaxFrameSize        \* a declared length above this is corrupt

ASSUME FramingAssumption ==
    /\ MaxFrames \in Nat
    /\ kMaxFrameSize \in Nat /\ (kMaxFrameSize + 1) \div 16777216 < 256   \* 32 bits
    /\ Lengths \subseteq 0..kMaxFrameSize
    /\ \A k \in 1..MaxFrames, i \in 1..kMaxFrameSize : PayloadByte(k, i) \in 0..255

VARIABLES
    lens,        \* declared lengths of the frames on the wire
    wire,        \* the byte stream
    fed,         \* bytes of it given to Feed so far
    buffer,      \* buffer_, whose length is its allocated size
    size,        \* size_: valid bytes in it
    cursor,      \* cursor_: consumed but not yet compacted prefix
    valid,       \* Feed's last verdict; the session ends on FALSE
    extracted,   \* the payloads Feed has returned
    delivered    \* how many of them the session has handled

framingVars == <<lens, wire, fed, buffer, size, cursor, valid, extracted, delivered>>

-----------------------------------------------------------------------------
kFrameHeaderSize == 4

WriteInt32BE(v) == <<v \div 16777216, (v \div 65536) % 256, (v \div 256) % 256, v % 256>>

ReadInt32BE(bytes, at) ==
    bytes[at + 1] * 16777216 + bytes[at + 2] * 65536 + bytes[at + 3] * 256 + bytes[at + 4]

Payload(k, len) == [i \in 1..len |-> PayloadByte(k, i)]

EncodeFrame(k, len) == WriteInt32BE(len) \o Payload(k, len)

Corrupt(len) == len > kMaxFrameSize

\* What the sender has written after each number of frames.  A corrupt length
\* ends the stream: nothing after it can be framed.
Written(ls) ==
    LET written[k \in 0..Len(ls)] ==
            IF k = 0 THEN <<>>
            ELSE written[k - 1] \o (IF Corrupt(ls[k]) THEN WriteInt32BE(ls[k])
                                    ELSE EncodeFrame(k, ls[k]))
    IN written

Stream(ls) == Written(ls)[Len(ls)]

-----------------------------------------------------------------------------
(* Feed.                                                                   *)

\* resize doubles at least and fills with zeros; memcpy behind size_.
AppendToBuffer(data) ==
    LET need == size + Len(data)
        cap  == IF need <= Len(buffer) THEN Len(buffer)
                ELSE IF 2 * Len(buffer) > need THEN 2 * Len(buffer) ELSE need
    IN [i \in 1..cap |-> IF i > size /\ i <= need THEN data[i - size]
                         ELSE IF i <= Len(buffer) THEN buffer[i] ELSE 0]

\* Mutant: `<=` for `<`.
MissingOne(have, len) == have <= kFrameHeaderSize + len

Missing(have, len) == have < kFrameHeaderSize + len

Pending(at, len) == <<<<at + kFrameHeaderSize, len>>>>

\* The extraction loop from each offset: (offset, length) pairs, where it
\* stops, and whether the length there was acceptable.
Scan(buf, end) ==
    LET scan[at \in 0..end] ==
            LET len      == ReadInt32BE(buf, at)
                stop(ok) == [pending |-> <<>>, cursor |-> at, valid |-> ok]
                rest     == scan[at + kFrameHeaderSize + len]
            IN IF end - at < kFrameHeaderSize THEN stop(TRUE)
               ELSE IF Corrupt(len) THEN stop(FALSE)
               ELSE IF Missing(end - at, len) THEN stop(TRUE)
               ELSE [rest EXCEPT !.pending = Pending(at, len) \o @]
    IN scan

\* memmove of [from, end) to the front; what lies behind stays as it was.
Compact(buf, from, end) ==
    [i \in 1..Len(buf) |-> IF i <= end - from THEN buf[i + from] ELSE buf[i]]

\* Mutant: the views start one byte early.
ViewShifted(buf, span) == SubSeq(buf, span[1], span[1] + span[2] - 1)

\* A span over buffer_: (offset, length).
View(buf, span) == SubSeq(buf, span[1] + 1, span[1] + span[2])

(* One round of the read loop: recv returns n bytes, Feed extracts what is  *)
(* complete, also in front of a corrupt length, and the session handles the *)
(* frames unless Feed has reported such a length.                           *)
Feed(n) ==
    LET buf  == AppendToBuffer(SubSeq(wire, fed + 1, fed + n))
        end  == size + n
        scan == Scan(buf, end)[cursor]
        some == scan.pending # <<>>
        out  == IF some THEN Compact(buf, scan.cursor, end) ELSE buf
    IN
    /\ valid
    /\ n \in 1..(Len(wire) - fed)
    /\ fed' = fed + n
    /\ buffer' = out
    /\ size' = IF some THEN end - scan.cursor ELSE end
    /\ cursor' = IF some THEN 0 ELSE scan.cursor
    /\ valid' = scan.valid
    /\ extracted' = extracted \o [j \in DOMAIN scan.pending |-> View(out, scan.pending[j])]
    /\ delivered' = IF scan.valid THEN Len(extracted') ELSE delivered
    /\ UNCHANGED <<lens, wire>>

-----------------------------------------------------------------------------
\* Streams of up to MaxFrames frames, the last one possibly corrupt.
Streams == {ls \in BoundedSeq(Lengths \cup {kMaxFrameSize + 1}, MaxFrames) :
                \A k \in 1..(Len(ls) - 1) : ~Corrupt(ls[k])}

FramingInit ==
    /\ lens \in Streams
    /\ wire = Stream(lens)
    /\ fed = 0
    /\ buffer = <<>> /\ size = 0 /\ cursor = 0
    /\ valid = TRUE
    /\ extracted = <<>> /\ delivered = 0

FramingNext == \E n \in 1..Len(wire) : Feed(n)

FramingSpec == FramingInit /\ [][FramingNext]_framingVars

-----------------------------------------------------------------------------
(* Properties.                                                             *)

(* Where frame k ends in the stream, independent of any buffer. *)
FrameEnd(k) == Len(Written(lens)[k])
Frames   == {k \in DOMAIN lens : ~Corrupt(lens[k])}
Complete == {k \in Frames : FrameEnd(k) <= fed}
CorruptSeen == \E k \in DOMAIN lens \ Frames :
                   FrameEnd(k - 1) + kFrameHeaderSize <= fed

(* However the stream is cut into chunks, the decoder keeps its place:      *)
(* every complete frame is extracted once, in order, with its length (which *)
(* may be zero), as soon as its last byte has arrived, also when a corrupt  *)
(* length has arrived behind it; the buffer holds exactly the bytes behind  *)
(* it; the verdict falls exactly when a corrupt length has arrived in full; *)
(* and the session has handled every extracted frame unless it has          *)
(* (framing.h:57-59, framing.cpp:36-60, session.cpp:143-150).               *)
DeliveredInOrder ==
    /\ Len(extracted) = Cardinality(Complete)
    /\ SubSeq(buffer, 1, size) = SubSeq(wire, FrameEnd(Cardinality(Complete)) + 1, fed)
    /\ \A k \in DOMAIN extracted : Len(extracted[k]) = lens[k]
    /\ ~valid <=> CorruptSeen
    /\ delivered <= Len(extracted) /\ (delivered < Len(extracted) => CorruptSeen)

(* "Frames already extracted this call are still delivered" when a corrupt  *)
(* length follows them (framing.cpp:42-43).                                 *)
DeliveredBeforeCorrupt == delivered = Cardinality(Complete)

(* What compaction can damage: only the first size_ bytes of the buffer are *)
(* overwritten, so a payload byte at or behind that offset is as it was     *)
(* sent, and with at most a header left over every payload is intact.       *)
LastFeedIntact == [][
    \A k \in (Len(extracted) + 1)..Len(extracted') : \A i \in 1..lens[k] :
        LET offset == FrameEnd(k) - lens[k] - FrameEnd(Len(extracted)) + i
        IN offset > size' => extracted'[k][i] = PayloadByte(k, i)]_framingVars

(* "the spans must point at post-compaction positions" (framing.cpp:38):    *)
(* the payload the session handles is the payload the sender framed.        *)
PayloadIntact == \A k \in 1..delivered : extracted[k] = Payload(k, lens[k])
=============================================================================
