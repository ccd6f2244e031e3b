--------------------------- MODULE MdnsAdvertiser ---------------------------
(***************************************************************************)
(* The mDNS advertiser (src/net/mdns_advertise.cpp): Start with its self   *)
(* test on the caller's thread, the responder thread, and Stop.            *)
(*                                                                         *)
(* A packet is what the responder tells apart: its own announcement, which *)
(* multicast loops back ("own"), another receiver's announcement           *)
(* ("response"), somebody's query for the service ("query"), or anything   *)
(* else ("other").  A socket that could not be bound to the mDNS port      *)
(* receives nothing.                                                       *)
(***************************************************************************)
EXTENDS Naturals, Sequences

CONSTANTS
    MaxInbox,      \* bound: packets the socket buffers; more are lost
    MaxPackets,    \* bound: packets other hosts send in a run
    MaxPeriods     \* bound: how often kReannounceSecs pass in a run

ASSUME MdnsAssumption == {MaxInbox, MaxPackets, MaxPeriods} \subseteq Nat

VARIABLES
    advertising,   \* running_
    open,          \* sock_ is a socket
    canReceive,    \* canReceive_: bind() succeeded
    loops,         \* what the socket sends it receives itself
    starter,       \* Start: "no", "selftest", "failed", "done"
    responder,     \* the thread: "none", "burst", "pause", "loop", "timer", "ended"
    inbox,         \* packets in the socket's buffer
    due,           \* kReannounceSecs have passed since `last`
    sent,          \* announcements sent so far
    packets,       \* packets, and queries among them, of other hosts so far
    queries,
    periods        \* how often kReannounceSecs have passed so far

socketVars == <<open, canReceive, loops>>
network    == <<packets, queries, periods>>
mdnsVars   == <<advertising, socketVars, starter, responder, inbox, due, sent, network>>

-----------------------------------------------------------------------------
\* What is in the socket's buffer when a packet has reached it.
Received(buffer, packet) ==
    IF Len(buffer) < MaxInbox THEN Append(buffer, packet) ELSE buffer

\* SendAnnouncement, by a socket that is open.
Announce(buffer) ==
    /\ sent' = sent + 1
    /\ inbox' = IF loops THEN Received(buffer, "own") ELSE buffer

-----------------------------------------------------------------------------
(* Start, on its caller's thread; it is called once.                       *)

\* No LAN address, a bad one, or no socket: the first leaves running_ set.
StartFails ==
    /\ starter = "no"
    /\ starter' = "failed" /\ advertising' \in BOOLEAN
    /\ UNCHANGED <<socketVars, responder, inbox, due, sent, network>>

\* The socket, whether it could be bound, and the self test's announcement.
StartOpens ==
    /\ starter = "no"
    /\ starter' = "selftest" /\ advertising' = TRUE
    /\ open' = TRUE /\ canReceive' \in BOOLEAN
    /\ loops' \in (IF canReceive' THEN BOOLEAN ELSE {FALSE})
    /\ sent' = sent + 1
    /\ inbox' = IF loops' THEN Received(<<>>, "own") ELSE <<>>
    /\ UNCHANGED <<responder, due, network>>

\* recvfrom has no timeout; any packet ends it, or an error.
StartThread ==
    /\ starter = "selftest" /\ starter' = "done" /\ responder' = "burst"
    /\ UNCHANGED <<advertising, socketVars, due, sent, network>>

SelfTest == inbox # <<>> /\ inbox' = Tail(inbox) /\ StartThread

SelfTestError == UNCHANGED inbox /\ StartThread

-----------------------------------------------------------------------------
(* ThreadMain.                                                             *)

\* From one place in the thread to another, announcing or not.
Announces(from, to) ==
    /\ responder = from /\ responder' = to
    /\ Announce(inbox) /\ due' = FALSE
    /\ UNCHANGED <<advertising, socketVars, starter, network>>

Goes(from, to) ==
    /\ responder = from /\ responder' = to
    /\ UNCHANGED <<advertising, socketVars, starter, inbox, due, sent, network>>

\* Two announcements a second apart, unless Stop comes in between.
Burst == Announces("burst", "pause") \/ (advertising /\ Announces("pause", "loop"))

ThreadEnds == ~advertising /\ (Goes("pause", "ended") \/ Goes("loop", "ended"))

\* select fails: the thread ends although running_ stays set.
SelectFails == advertising /\ canReceive /\ Goes("loop", "ended")

\* A second without a packet, or 500 ms where none can come.
NoPacket == advertising /\ inbox = <<>> /\ Goes("loop", "timer")

\* Mutant: whatever names the service and is not from our address.
AnswersResponses(packet) == packet \in {"query", "response"}

\* A query for the service that is not from our address.
Answers(packet) == packet = "query"

HandlePacket ==
    /\ advertising /\ inbox # <<>>
    /\ responder = "loop" /\ responder' = "timer"
    /\ IF Answers(Head(inbox))
       THEN Announce(Tail(inbox)) /\ due' = FALSE
       ELSE inbox' = Tail(inbox) /\ UNCHANGED <<sent, due>>
    /\ UNCHANGED <<advertising, socketVars, starter, network>>

\* The end of a round.
Reannounce == (due /\ Announces("timer", "loop")) \/ (~due /\ Goes("timer", "loop"))

Responder == Burst \/ ThreadEnds \/ NoPacket \/ HandlePacket \/ Reannounce

-----------------------------------------------------------------------------
(* Stop: the flag, the join, the socket.                                   *)

StopFlag ==
    /\ advertising' = FALSE
    /\ UNCHANGED <<socketVars, starter, responder, inbox, due, sent, network>>

StopClose ==
    /\ responder \in {"none", "ended"}
    /\ open' = FALSE /\ inbox' = <<>>
    /\ UNCHANGED <<advertising, canReceive, loops, starter, responder, due, sent, network>>

-----------------------------------------------------------------------------
(* The network and time.                                                   *)

PacketArrives(packet) ==
    /\ open /\ packets < MaxPackets
    /\ packets' = packets + 1
    /\ queries' = IF packet = "query" THEN queries + 1 ELSE queries
    /\ inbox' = IF canReceive THEN Received(inbox, packet) ELSE inbox
    /\ UNCHANGED <<advertising, socketVars, starter, responder, due, sent, periods>>

PeriodPasses ==
    /\ responder \in {"loop", "timer"} /\ ~due /\ periods < MaxPeriods
    /\ due' = TRUE /\ periods' = periods + 1
    /\ UNCHANGED <<advertising, socketVars, starter, responder, inbox, sent,
                   packets, queries>>

Network == PeriodPasses \/ \E p \in {"response", "query", "other"} : PacketArrives(p)

-----------------------------------------------------------------------------
MdnsInit ==
    /\ advertising = FALSE /\ starter = "no" /\ responder = "none"
    /\ open = FALSE /\ canReceive = FALSE /\ loops = FALSE
    /\ inbox = <<>> /\ due = FALSE
    /\ sent = 0 /\ packets = 0 /\ queries = 0 /\ periods = 0

\* A caller that starts it once and stops it once.
MdnsNext ==
    \/ StartFails \/ StartOpens \/ SelfTest \/ SelfTestError
    \/ Responder \/ SelectFails
    \/ starter \in {"failed", "done"} /\ advertising /\ StopFlag
    \/ starter \in {"failed", "done"} /\ ~advertising /\ open /\ StopClose
    \/ Network

MdnsSpec == MdnsInit /\ [][MdnsNext]_mdnsVars

-----------------------------------------------------------------------------
(* Properties.                                                             *)

(* "Responding to our own looped-back announcements starts an infinite      *)
(* announce/loopback/announce storm" (mdns_advertise.cpp:342-344): with      *)
(* other receivers on the network, too, there is no announcement beyond the  *)
(* self test, the two at the start, one per query, one per period.          *)
NoStorm == sent <= 3 + queries + periods
=============================================================================
