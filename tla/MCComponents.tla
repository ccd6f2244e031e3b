---------------------------- MODULE MCComponents ----------------------------
(* The components without shared state, each on a small instance of its     *)
(* own: `part` says which one runs, the others stay where they began.       *)
EXTENDS FrameDecoder, AnnexB, ControlMessages, CaptureTimes, SessionClocks, MdnsAdvertiser,
        HelloId, SpsParser, VideoPipeline

VARIABLE part

\* With at most 3 frames of at most 6 bytes every payload byte is a different
\* number above every length byte.
MCPayloadByte(k, i) == 255 - 16 * k - i

-----------------------------------------------------------------------------
(* Payloads of up to three NAL units.  The units: two SPS, a PPS, SEI, an   *)
(* access unit delimiter, an IDR slice, P and I slices (slice_type 5 and 7) *)
(* with escaped and trailing zero bytes, a disposable P slice that reads as *)
(* an I slice, nothing.                                                     *)
(* In front: telemetry or a short text, a text too long to be a control     *)
(* message, something else.                                                 *)
MCHeads == {<<>>, <<123, 125>>, [i \in 1..12 |-> 123], <<49, 1>>}
MCNalus == {<<103, 1>>, <<103, 2, 0, 0, 3, 1>>, <<104, 6>>, <<6, 1>>, <<9, 16>>,
            <<101, 136>>, <<65, 154, 0, 0, 3, 1>>, <<65, 136, 0>>, <<1, 154, 32>>, <<>>}

-----------------------------------------------------------------------------
(* Messages with up to three members.  Values: numbers, strings, a number   *)
(* as a string, a fraction, a billion, strings of punctuation, strings that *)
(* hold or are a key, and escaped quotes.                                   *)
Str(atoms) == [isNumber |-> FALSE, atoms |-> atoms]
Num(n)     == [isNumber |-> TRUE, atoms |-> <<n>>]
Member(key, blank, value) == [key |-> key, blank |-> blank, value |-> value]
MCMembers ==
    {Member("type", blank, Str(<<t>>)) : blank \in {<<>>, <<" ">>},
                                         t \in {"pong", "updateRequired", "streamConfig", "new"}}
    \cup {Member("t", <<>>, Num("1")), Member("mt", <<" ">>, Num("2")),
          Member("t", <<>>, Str(<<"1">>)), Member("width", <<>>, Num("1.5")),
          Member("height", <<>>, Num("1e9")),
          Member("target", <<>>, Str(<<"a", ":", "b", ",", "{">>)),
          Member("store", <<>>, Str(<<>>)), Member("codec", <<>>, Str(<<"h264">>)),
          Member("message", <<" ">>, Str(<<"store">>)),
          Member("message", <<>>, Str(<<"say", "t", "now">>)),
          Member("message", <<>>, Str(<<"\\", "\"", "t", "\\", "\"", ":">>)),
          Member("x", <<>>, Str(<<"\\", "\"", "t", "\"", "\\">>)),
          Member("x", <<>>, Str(<<"type">>))}

MCIntPart == [n \in {"1", "2", "1.5", "1e9"} |->
                 CASE n = "2" -> 2 [] n = "1e9" -> kIntLimit [] OTHER -> 1]

MCAtoms ==
    Marks \cup {"1", "2", "1.5", "1e9", "type", "pong", "updateRequired", "streamConfig", "new", "t", "mt",
               "width", "height", "target", "store", "codec", "message", "x", "h264", "a", "b",
               "say", "now", "\\"}

-----------------------------------------------------------------------------
(* Parameter sets for a picture of at most 1920 by 1088 (or half of it,     *)
(* doubled), of the baseline and the high profile, with what a parser has   *)
(* to skip or to take into account; whole or up to five bytes short.        *)
MCList(scaling, i) ==
    CASE scaling = "default" -> <<-8>>
      [] scaling = "some" /\ i \in {1, 7} -> [k \in 1..(IF i = 1 THEN 16 ELSE 64) |-> 1]
      [] OTHER -> <<>>
Sets(profile, chroma, scaling, poc, crop) ==
    {[profile |-> profile, octets |-> <<0, 30>>, chroma |-> c,
      matrix |-> IF s = "none" THEN 0 ELSE 1, lists |-> [i \in 1..12 |-> MCList(s, i)],
      numbers |-> <<0, 0, 0, 0, 2, 1>>, flags |-> <<0, 0, 0, 0, 0, 1>>,
      poc |-> p, offsets |-> <<8388608, -1, 3, -4>>,
      wide |-> 120, high |-> 34, frameMbs |-> m, crop |-> r, rest |-> <<0, 1>>] :
        c \in chroma, s \in scaling, p \in poc, r \in crop, m \in {0, 1}}
MCFields ==
    Sets(66, {1}, {"none"}, 0..2, {<<0, 0, 0, 0>>, <<1, 2, 0, 2>>, <<480, 480, 0, 0>>})
    \cup Sets(100, 0..3, {"none", "absent", "default", "some"}, {1},
              {<<0, 0, 0, 0>>, <<1, 2, 1, 2>>})

-----------------------------------------------------------------------------
\* A part that does not run has one initial state, and nothing to do in it.
MCInit ==
    /\ part \in {"frames", "payload", "control", "sps", "video", "resize", "replace",
                "times", "clocks", "mdns", "id"}
    /\ FramingInit /\ (part # "frames" => lens = <<>>)
    /\ PayloadInit /\ (part # "payload" => prefix = <<>>)
    /\ ControlInit
    /\ SpsInit /\ (part # "sps" => fields = CHOOSE f \in MCFields : TRUE)
    /\ Init /\ \A c \in Conn : sps[c] = IF part = "replace" THEN c ELSE 1
    /\ TimesInit /\ ClocksInit /\ MdnsInit
    /\ IdInit /\ (part # "id" => oldFile = 0)

data   == <<framingVars, payloadVars, controlVars, spsVars>>
small  == <<timesVars, clocksVars, mdnsVars, idVars>>
mcVars == <<part, data, small, vars>>

MCData ==
    \/ part = "frames"  /\ FramingNext /\ UNCHANGED <<payloadVars, controlVars, spsVars>>
    \/ part = "payload" /\ PayloadNext /\ UNCHANGED <<framingVars, controlVars, spsVars>>
    \/ part = "control" /\ ControlNext /\ UNCHANGED <<framingVars, payloadVars, spsVars>>
    \/ part = "sps"     /\ SpsNext /\ UNCHANGED <<framingVars, payloadVars, controlVars>>

MCSmall ==
    \/ part = "times"  /\ TimesNext /\ UNCHANGED <<clocksVars, mdnsVars, idVars>>
    \/ part = "clocks" /\ ClocksNext /\ UNCHANGED <<timesVars, mdnsVars, idVars>>
    \/ part = "mdns"   /\ MdnsNext /\ UNCHANGED <<timesVars, clocksVars, idVars>>
    \/ part = "id"     /\ IdNext /\ UNCHANGED <<timesVars, clocksVars, mdnsVars>>

\* Two connections of one picture size, one connection whose size changes, or
\* two connections of different sizes with a decoder that is fast enough.
MCVideo ==
    /\ Next
    /\ \/ part = "video" /\ UNCHANGED sps
       \/ part = "resize" /\ reading' \subseteq {1} /\ session' \in {None, 1}
       \/ part = "replace" /\ UNCHANGED <<sps, asking>>

MCNext ==
    /\ UNCHANGED part
    /\ \/ MCData /\ UNCHANGED <<small, vars>>
       \/ MCSmall /\ UNCHANGED <<data, vars>>
       \/ MCVideo /\ UNCHANGED <<data, small>>

MCSpec == MCInit /\ [][MCNext]_mcVars /\ Fairness
=============================================================================
