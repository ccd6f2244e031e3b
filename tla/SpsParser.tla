----------------------------- MODULE SpsParser -----------------------------
(***************************************************************************)
(* The size of the picture from a sequence parameter set                   *)
(* (src/protocol/sps.cpp), read bit by bit as the parser does, a group of  *)
(* syntax elements per step.  What arrives of what SpsEncoder has written  *)
(* may be cut short.                                                       *)
(***************************************************************************)
EXTENDS SpsEncoder

CONSTANTS
    Fields,    \* what encoders put into a parameter set
    Cuts       \* how many bytes of it are missing

VARIABLES
    fields,    \* what the encoder has written
    whole,     \* nothing is missing
    bits,      \* BitReader::data_, as bits
    pos,       \* BitReader::pos_, or -1 once it has thrown
    phase,     \* "arrives", the group read next, or "done"
    values,    \* chromaFormatIdc and the size fields, once read
    dims       \* the result

spsVars == <<fields, whole, bits, pos, phase, values, dims>>

NoDims == <<0, 0>>

ASSUME SpsAssumption == (\A f \in Fields : WellFormed(f)) /\ Cuts \subseteq Nat

-----------------------------------------------------------------------------
(* Reading.                                                                *)

HasChromaInfo(profile) ==
    profile \in {100, 110, 122, 244, 44, 83, 86, 118, 128, 138, 139, 134, 135}

\* A 3 behind two zeros is dropped, and so is the NAL header.
StripEmulationPrevention(nalu) ==
    LET strip[i \in 0..(Len(nalu) - 1)] ==
            IF i = 0 THEN [out |-> <<>>, zeroRun |-> 0]
            ELSE LET s == strip[i - 1]
                     b == nalu[i + 1]
                 IN IF s.zeroRun >= 2 /\ b = 3 THEN [s EXCEPT !.zeroRun = 0]
                    ELSE [out |-> Append(s.out, b), zeroRun |-> IF b = 0 THEN s.zeroRun + 1 ELSE 0]
    IN strip[Len(nalu) - 1].out

\* bit(), most significant first.
Bits(bytes) == [k \in 1..(8 * Len(bytes)) |->
                   Half(bytes[(k - 1) \div 8 + 1])[7 - ((k - 1) % 8)] % 2]

Thrown == [pos |-> -1, value |-> 0]

Value(at, n) ==
    LET value[k \in 0..n] == IF k = 0 THEN 0 ELSE 2 * value[k - 1] + bits[at + k]
    IN value[n]

ReadU(at, n) ==
    IF at < 0 \/ at + n > Len(bits) THEN Thrown ELSE [pos |-> at + n, value |-> Value(at, n)]

ReadUe(at) ==
    LET ones  == {i \in 1..33 : at + i <= Len(bits) /\ bits[at + i] = 1}
        first == CHOOSE i \in ones : \A j \in ones : i <= j
        code  == ReadU(at + first - 1, first)
    IN IF at < 0 \/ ones = {} \/ code = Thrown THEN Thrown ELSE [code EXCEPT !.value = @ - 1]

ReadSe(at) ==
    LET code == ReadUe(at)
    IN [code EXCEPT !.value = IF @ % 2 = 0 THEN -(@ \div 2) ELSE (@ + 1) \div 2]

Element(at, kind) == CASE kind = "u1" -> ReadU(at, 1) [] kind = "u8" -> ReadU(at, 8)
                       [] kind = "ue" -> ReadUe(at)   [] kind = "se" -> ReadSe(at)

\* These elements, one behind the other.
ReadAll(at, kinds) ==
    LET reads[k \in 0..Len(kinds)] ==
            IF k = 0 THEN [pos |-> at, values |-> <<>>]
            ELSE LET s == reads[k - 1]
                     r == Element(s.pos, kinds[k])
                 IN [pos |-> r.pos, values |-> Append(s.values, r.value)]
    IN reads[Len(kinds)]

\* Mutant: the list is read to its end even after a zero scale.
SkipScalingListToEnd(at, size) == ReadAll(at, [i \in 1..size |-> "se"]).pos

\* The position behind a scaling list: after a zero scale nothing is read.
SkipScalingList(at, size) ==
    LET skip[i \in 0..size] ==
            IF i = 0 THEN [pos |-> at, last |-> 8, next |-> 8]
            ELSE LET s     == skip[i - 1]
                     r     == ReadSe(s.pos)
                     scale == (s.last + r.value + 256) % 256
                 IN IF s.next = 0 THEN s
                    ELSE [pos |-> r.pos, next |-> scale,
                          last |-> IF scale = 0 THEN s.last ELSE scale]
    IN skip[size].pos

SkipScalingLists(at, count) ==
    LET skip[i \in 0..count] ==
            IF i = 0 THEN at
            ELSE LET flag == ReadU(skip[i - 1], 1)
                 IN IF flag.value = 1 THEN SkipScalingList(flag.pos, IF i <= 6 THEN 16 ELSE 64)
                    ELSE flag.pos
    IN skip[count]

-----------------------------------------------------------------------------
(* The parser, a group of syntax elements per step.                        *)

\* Go on with another group, or throw.
GoesTo(to, at) ==
    /\ pos' = at /\ phase' = IF at < 0 THEN "done" ELSE to
    /\ UNCHANGED <<fields, whole, bits, dims>>

ReadProfile ==
    LET r == ReadAll(pos, <<"u8", "u8", "u8", "ue">>)
    IN /\ phase = "profile"
       /\ GoesTo(IF HasChromaInfo(r.values[1]) THEN "chroma" ELSE "order", r.pos)
       /\ values' = [values EXCEPT !.chroma = 1]

ReadChroma ==
    LET r    == ReadUe(pos)
        flag == ReadU(r.pos, 1)
    IN /\ phase = "chroma"
       /\ GoesTo("depth", IF r.value = 3 THEN flag.pos ELSE r.pos)
       /\ values' = [values EXCEPT !.chroma = r.value]

ReadDepth ==
    LET r == ReadAll(pos, <<"ue", "ue", "u1", "u1">>)
    IN /\ phase = "depth"
       /\ GoesTo("order", IF r.values[4] # 1 THEN r.pos
                        ELSE SkipScalingLists(r.pos, IF values.chroma # 3 THEN 8 ELSE 12))
       /\ UNCHANGED values

ReadOrder ==
    LET r == ReadAll(pos, <<"ue", "ue">>)
    IN /\ phase = "order"
       /\ GoesTo(CASE r.values[2] = 0 -> "order0" [] r.values[2] = 1 -> "order1"
                 [] OTHER -> "size", r.pos)
       /\ UNCHANGED values

ReadOrder0 == phase = "order0" /\ GoesTo("size", ReadUe(pos).pos) /\ UNCHANGED values

ReadOrder1 ==
    LET r == ReadAll(pos, <<"u1", "se", "se", "ue">>)
    IN /\ phase = "order1"
       /\ GoesTo("size", ReadAll(r.pos, [i \in 1..r.values[4] |-> "se"]).pos)
       /\ UNCHANGED values

ReadSize ==
    LET r    == ReadAll(pos, <<"ue", "u1", "ue", "ue", "u1">>)
        flag == ReadU(r.pos, 1)
    IN /\ phase = "size"
       /\ GoesTo("crop", IF r.values[5] = 0 THEN flag.pos ELSE r.pos)
       /\ values' = [chroma |-> values.chroma, wide |-> r.values[3] + 1,
                     high |-> r.values[4] + 1, frameMbs |-> r.values[5]]

CropUnits(chroma, frameMbs) ==
    IF chroma = 0 THEN <<1, 2 - frameMbs>>
    ELSE <<IF chroma \in {1, 2} THEN 2 ELSE 1, (IF chroma = 1 THEN 2 ELSE 1) * (2 - frameMbs)>>

\* left, right, top, bottom
SizeOf(crop) ==
    LET unit   == CropUnits(values.chroma, values.frameMbs)
        width  == values.wide * 16 - unit[1] * (crop[1] + crop[2])
        height == (2 - values.frameMbs) * values.high * 16 - unit[2] * (crop[3] + crop[4])
    IN IF width <= 0 \/ height <= 0 THEN NoDims ELSE <<width, height>>

ReadCrop ==
    LET r    == ReadAll(pos, <<"u1", "u1">>)
        crop == ReadAll(r.pos, <<"ue", "ue", "ue", "ue">>)
    IN /\ phase = "crop" /\ phase' = "done"
       /\ pos' = IF r.values[2] = 1 THEN crop.pos ELSE r.pos
       /\ dims' = IF pos' < 0 THEN NoDims
                  ELSE SizeOf(IF r.values[2] = 1 THEN crop.values ELSE <<0, 0, 0, 0>>)
       /\ UNCHANGED <<fields, whole, bits, values>>

-----------------------------------------------------------------------------
\* Fewer than four bytes are not looked at.
BeginParsing(got) ==
    /\ phase' = IF Len(got) < 4 THEN "done" ELSE "profile"
    /\ bits' = IF Len(got) < 4 THEN <<>> ELSE Bits(StripEmulationPrevention(got))
    /\ UNCHANGED <<fields, pos, values, dims>>

Arrive(cut) ==
    /\ phase = "arrives"
    /\ \E sent \in {ParameterSet(fields)} : BeginParsing(SubSeq(sent, 1, Len(sent) - cut))
    /\ whole' = (cut = 0)

SpsInit ==
    /\ fields \in Fields
    /\ whole = TRUE /\ bits = <<>> /\ pos = 0
    /\ phase = "arrives" /\ dims = NoDims
    /\ values = [chroma |-> 1, wide |-> 0, high |-> 0, frameMbs |-> 1]

SpsNext == \/ \E cut \in Cuts : Arrive(cut)
           \/ ReadProfile \/ ReadChroma \/ ReadDepth \/ ReadOrder \/ ReadOrder0
           \/ ReadOrder1 \/ ReadSize \/ ReadCrop

SpsSpec == SpsInit /\ [][SpsNext]_spsVars

-----------------------------------------------------------------------------
(* Properties.                                                             *)

(* The size by the standard's formula, from what the encoder meant. *)
UnitX(f)  == IF Chroma(f) \in {0, 3} THEN 1 ELSE 2
UnitY(f)  == (IF Chroma(f) # 1 THEN 1 ELSE 2) * (2 - f.frameMbs)
Width(f)  == 16 * f.wide - UnitX(f) * (f.crop[1] + f.crop[2])
Height(f) == 16 * f.high * (2 - f.frameMbs) - UnitY(f) * (f.crop[3] + f.crop[4])

(* The visible size, by which frames are cropped and input is mapped, is the *)
(* encoder's for every parameter set, escaped bytes and skipped lists        *)
(* included; one cut short gives this size or none, never another           *)
(* (sps.cpp:80-150, h264_decoder.cpp:339-345).                              *)
SizeIsEncoders == phase = "done" =>
    \/ dims = <<Width(fields), Height(fields)>>
    \/ dims = NoDims /\ (whole => Width(fields) <= 0 \/ Height(fields) <= 0)
=============================================================================
