---------------------------- MODULE CaptureTimes ----------------------------
(***************************************************************************)
(* How decoded frames get their capture and arrival times back             *)
(* (src/video/h264_decoder.cpp): a FIFO beside the decoder takes the times *)
(* of every access unit the MFT accepts and gives the front to every frame *)
(* it puts out.  Units the MFT swallows shift the pairing; above a length  *)
(* the FIFO is emptied.  Access units are numbered as they are accepted.   *)
(***************************************************************************)
EXTENDS Naturals, Sequences

CONSTANTS
    kDriftLimit,   \* the 64 of PublishNv12
    MaxHeld,       \* bound: units the MFT works on
    MaxUnits       \* bound: units accepted in a run

ASSUME TimesAssumption == {kDriftLimit, MaxHeld, MaxUnits} \subseteq Nat

VARIABLES
    captureTimes,  \* captureTimes_: the units whose times are in it
    held,          \* units the MFT has accepted and not put out
    accepted,      \* units accepted so far
    drifted,       \* since ResetMft, a unit came out without its frame
    lost,          \* how many did since the FIFO was last emptied
    published      \* the last frame: its unit, and the unit its times are of

timesVars == <<captureTimes, held, accepted, drifted, lost, published>>

NoTimes == 0

\* FeedAccessUnit, up to its drain.  A full MFT is drained first.
FeedAccessUnit ==
    /\ accepted < MaxUnits /\ Len(held) < MaxHeld
    /\ accepted' = accepted + 1
    /\ held' = Append(held, accepted + 1)
    /\ captureTimes' = Append(captureTimes, accepted + 1)
    /\ UNCHANGED <<drifted, lost, published>>

\* Mutant: the drift goes unnoticed.
RestNever(times) == Tail(times)

\* The FIFO without its front, or nothing of it when it is too long.
Rest(times) == IF Len(times) - 1 > kDriftLimit THEN <<>> ELSE Tail(times)

\* The MFT puts out its oldest unit: PublishNv12 gives it the front of the
\* FIFO and publishes it, unless it has no size or cannot be copied.
PublishNv12 ==
    LET frame(times) == [unit |-> Head(held), times |-> times]
    IN
    /\ held # <<>> /\ held' = Tail(held)
    /\ IF captureTimes = <<>>
       THEN /\ published' \in {published, frame(NoTimes)}
            /\ UNCHANGED <<captureTimes, drifted, lost>>
       ELSE /\ published' \in {published, frame(Head(captureTimes))}
            /\ captureTimes' = Rest(captureTimes)
            /\ drifted' = (drifted \/ Len(captureTimes) - 1 > kDriftLimit)
            /\ lost' = IF Len(captureTimes) - 1 > kDriftLimit THEN 0 ELSE lost
    /\ UNCHANGED accepted

\* No buffer in the output: nothing is published, and no times are taken.
PublishFails ==
    /\ held # <<>> /\ held' = Tail(held) /\ drifted' = TRUE /\ lost' = lost + 1
    /\ UNCHANGED <<captureTimes, accepted, published>>

\* The MFT drops a unit it cannot decode, when that is its turn.
Swallow ==
    /\ held # <<>> /\ held' = Tail(held) /\ drifted' = TRUE /\ lost' = lost + 1
    /\ UNCHANGED <<captureTimes, accepted, published>>

\* ResetMft, after an error or for new parameter sets.
MftIsReset ==
    /\ held' = <<>> /\ captureTimes' = <<>> /\ drifted' = FALSE /\ lost' = 0
    /\ UNCHANGED <<accepted, published>>

-----------------------------------------------------------------------------
TimesInit ==
    /\ captureTimes = <<>> /\ held = <<>> /\ accepted = 0 /\ drifted = FALSE /\ lost = 0
    /\ published = [unit |-> 0, times |-> NoTimes]

TimesNext == FeedAccessUnit \/ PublishNv12 \/ PublishFails \/ Swallow \/ MftIsReset

TimesSpec == TimesInit /\ [][TimesNext]_timesVars

-----------------------------------------------------------------------------
(* Properties.                                                             *)

(* A frame carries its own times unless the MFT has swallowed a unit since  *)
(* it was built.  Then the times may be newer, by what the MFT holds, or    *)
(* older, by more than the limit only at the price of more units than the   *)
(* limit lost since the FIFO was last emptied, which this very frame does.  *)
(* That frame is published with them all the same, so one "fake 20-second   *)
(* latency" per drift is reported (h264_decoder.cpp:164-171).               *)
PairedWithinLimit == [][published' # published =>
    LET unit == published'.unit
        times == published'.times
    IN /\ ~drifted => times = unit
       /\ times > unit => times - unit < Len(held)
       /\ times # NoTimes /\ unit > times + kDriftLimit =>
              captureTimes' = <<>> /\ lost > kDriftLimit]_timesVars
=============================================================================
