--------------------------- MODULE SessionClocks ---------------------------
(***************************************************************************)
(* The two clocks of the read loop (src/net/session.cpp): a sender that    *)
(* was silent for too long is dropped, and every interval it is pinged.    *)
(* Both are looked at whenever recv returns, with data or at its timeout.  *)
(* SendPing and the handling of what was received take their time, during  *)
(* which bytes pile up in the socket.  One tick is recv's timeout.         *)
(***************************************************************************)
EXTENDS Naturals

CONSTANTS
    kPingInterval, kLivenessTimeout,   \* kPingIntervalMs, kLivenessTimeoutMs
    MaxHold                            \* bound: how long a callback takes

ASSUME ClocksAssumption == {kPingInterval, kLivenessTimeout, MaxHold} \subseteq Nat

VARIABLES
    readLoop,     \* "recv", "ping", "handle", "dropped", "ended"
    sinceData,    \* now - lastDataMs_
    sincePing,    \* now - lastPingMs_
    waited,       \* how long this recv has waited
    hold,         \* how long the thread was not in recv before that
    busy,         \* how long SendPing or the handling has taken
    got,          \* what recv has returned is data
    unread,       \* bytes lie in the socket
    silence,      \* since the sender's last byte
    gap           \* its silence before the first unread byte

clocks == <<sinceData, sincePing>>
sender == <<unread, silence, gap>>
clocksVars == <<readLoop, clocks, waited, hold, busy, got, sender>>

kRecvTimeout == 1
Running == readLoop \in {"recv", "ping", "handle"}

-----------------------------------------------------------------------------
\* recv returns at once with data, at its timeout without.
CanWait == ~unread /\ waited < kRecvTimeout

Tick ==
    /\ \/ readLoop = "recv" /\ CanWait /\ waited' = waited + 1 /\ UNCHANGED <<hold, busy>>
       \/ /\ readLoop \in {"ping", "handle"} /\ busy < MaxHold
          /\ busy' = busy + 1 /\ hold' = hold + 1 /\ UNCHANGED waited
    /\ sinceData' = sinceData + 1 /\ sincePing' = sincePing + 1
    /\ silence' = silence + 1
    /\ UNCHANGED <<readLoop, got, unread, gap>>

BytesArrive ==
    /\ Running
    /\ gap' = IF unread THEN gap ELSE silence
    /\ unread' = TRUE /\ silence' = 0
    /\ UNCHANGED <<readLoop, clocks, waited, hold, busy, got>>

-----------------------------------------------------------------------------
\* Mutant: at the timeout already.
ExpiredEarly == sinceData >= kLivenessTimeout

Expired == sinceData > kLivenessTimeout

\* Mutant: only when data has come.
PingDueOnData == unread /\ sincePing >= kPingInterval

PingDue == sincePing >= kPingInterval

RecvReturns == readLoop = "recv" /\ ~CanWait

DropSilent ==
    /\ RecvReturns /\ Expired
    /\ readLoop' = "dropped"
    /\ UNCHANGED <<clocks, waited, hold, busy, got, sender>>

SendPing ==
    /\ RecvReturns /\ ~Expired /\ PingDue
    /\ readLoop' = "ping" /\ sincePing' = 0
    /\ got' = unread /\ unread' = FALSE
    /\ hold' = 0 /\ busy' = 0
    /\ UNCHANGED <<sinceData, waited, silence, gap>>

\* n > 0: the time is taken again; a timeout only continues.
Receive(n) ==
    /\ readLoop' = IF n THEN "handle" ELSE "recv"
    /\ sinceData' = IF n THEN 0 ELSE sinceData
    /\ waited' = 0 /\ busy' = 0

NoPingDue ==
    /\ RecvReturns /\ ~Expired /\ ~PingDue
    /\ Receive(unread)
    /\ got' = unread /\ unread' = FALSE /\ hold' = 0
    /\ UNCHANGED <<sincePing, silence, gap>>

PingSent ==
    /\ readLoop = "ping"
    /\ Receive(got)
    /\ UNCHANGED <<sincePing, hold, got, sender>>

Handled ==
    /\ readLoop = "handle" /\ readLoop' = "recv" /\ waited' = 0
    /\ UNCHANGED <<clocks, hold, busy, got, sender>>

\* closed_, end of the stream, an error, a corrupt frame.
EndsOtherwise ==
    /\ readLoop \in {"recv", "handle"} /\ readLoop' = "ended"
    /\ UNCHANGED <<clocks, waited, hold, busy, got, sender>>

-----------------------------------------------------------------------------
\* Start takes the time for both clocks.
ClocksInit ==
    /\ readLoop = "recv" /\ sinceData = 0 /\ sincePing = 0
    /\ waited = 0 /\ hold = 0 /\ busy = 0 /\ got = FALSE
    /\ unread = FALSE /\ silence = 0 /\ gap = 0

ClocksNext == Tick \/ BytesArrive \/ DropSilent \/ SendPing \/ NoPingDue \/ PingSent
        \/ Handled \/ EndsOtherwise

ClocksSpec == ClocksInit /\ [][ClocksNext]_clocksVars

-----------------------------------------------------------------------------
(* Properties.                                                             *)

(* A sender is dropped only for its silence, or for that and the time the   *)
(* thread was kept from recv together: bytes that came in time may still be *)
(* thrown away unread, but never sooner (session.cpp:114-139).              *)
DroppedForSilence == readLoop = "dropped" =>
    (IF unread THEN gap ELSE silence) + hold > kLivenessTimeout

(* A dead sender is noticed and a live one is pinged in time, whatever comes *)
(* between: no later than the timeout and two of the longest rounds, and the *)
(* interval and one round (session.cpp:114-136).                             *)
LongestRound == 2 * MaxHold
ClocksAreKept == Running =>
    /\ silence <= kLivenessTimeout + kRecvTimeout + 2 * LongestRound
    /\ sincePing <= kPingInterval + kRecvTimeout + LongestRound
=============================================================================
