--------------------------- MODULE ComponentProofs ---------------------------
(* Proofs about the components that share no state, for all values of their *)
(* constants: the identity of an installation, the clocks of the read loop, *)
(* the mDNS responder, the pairing of capture times, and AdaptiveHello.     *)
EXTENDS HelloId, SessionClocks, MdnsAdvertiser, CaptureTimes, AdaptiveHello,
        FiniteSetTheorems, FunctionTheorems, SequenceTheorems, TLAPS

-----------------------------------------------------------------------------
(* HelloId: a receiver keeps its identity although any start may be killed  *)
(* anywhere.                                                                *)

Places == Choosing \cup {"no", "return", "up", "over"}

HelloIdTypeOK ==
    /\ at \in [Starts -> Places] /\ existing \in [Starts -> Ids \cup {NoId}]
    /\ idFile \in Ids \cup {NoId} /\ oldFile \in Ids \cup {NoId}

\* Without overlap, where a process is says what it and the files hold.
Chosen(p) ==
    /\ at[p] \in Choosing \ {"read"} => idFile = NoId
    /\ at[p] = "draw" => oldFile = NoId
    /\ at[p] \in {"open", "write"} =>
           existing[p] \in Ids /\ (oldFile # NoId => existing[p] = oldFile)
    /\ at[p] = "return" => existing[p] \in Ids /\ existing[p] = idFile

\* One process chooses at a time; what was announced is what is stored, or
\* what the older version had.
Identity ==
    /\ \A p, q \in Starts : at[p] \in Choosing /\ at[q] \in Choosing => p = q
    /\ \A p \in Starts : Chosen(p)
    /\ oldFile # NoId => idFile \in {NoId, oldFile}
    /\ helloIds \subseteq Ids
    /\ helloIds \subseteq {IF idFile = NoId THEN oldFile ELSE idFile}

IdInv == HelloIdTypeOK /\ (unstored \/ overlapped \/ Identity)

-----------------------------------------------------------------------------
LEMMA InitIdInv == IdInit => IdInv
BY HelloIdAssumption DEF IdInit, IdInv, HelloIdTypeOK, Places, Choosing, Identity, Chosen

LEMMA NextType ==
    ASSUME HelloIdTypeOK, NEW p \in Starts,
           Begin(p) \/ Read(p) \/ ReadOld(p) \/ (\E id \in Ids : Draw(p, id))
           \/ Open(p) \/ Write(p) \/ AnnounceId(p) \/ End(p)
    PROVE  HelloIdTypeOK'
<1> USE DEF HelloIdTypeOK, GoesOn, Places, Choosing
<1>1. CASE Begin(p)    BY <1>1 DEF Begin
<1>2. CASE Read(p)     BY <1>2 DEF Read, ReadFile
<1>3. CASE ReadOld(p)  BY <1>3 DEF ReadOld, ReadFile
<1>4. CASE \E id \in Ids : Draw(p, id)  BY <1>4 DEF Draw
<1>5. CASE Open(p)     BY <1>5 DEF Open
<1>6. CASE Write(p)    BY <1>6 DEF Write
<1>7. CASE AnnounceId(p) BY <1>7 DEF AnnounceId
<1>8. CASE End(p)      BY <1>8 DEF End
<1> QED BY <1>1, <1>2, <1>3, <1>4, <1>5, <1>6, <1>7, <1>8

\* Only Begin lets one more process choose.
LEMMA OneChooses ==
    ASSUME HelloIdTypeOK, Identity, NEW p \in Starts,
           Read(p) \/ ReadOld(p) \/ (\E id \in Ids : Draw(p, id))
           \/ Open(p) \/ Write(p) \/ AnnounceId(p) \/ End(p)
    PROVE  \A q, r \in Starts : at'[q] \in Choosing /\ at'[r] \in Choosing => q = r
<1>1. at[p] \in Choosing \/ at'[p] \notin Choosing
      BY DEF Read, ReadOld, ReadFile, Draw, Open, Write, AnnounceId, End, GoesOn, HelloIdTypeOK,
             Choosing
<1>2. \A q \in Starts : q # p => at'[q] = at[q]
      BY DEF Read, ReadOld, ReadFile, Draw, Open, Write, AnnounceId, End, GoesOn, HelloIdTypeOK
<1>3. \A q \in Starts : at'[q] \in Choosing => at[q] \in Choosing  BY <1>1, <1>2
<1> QED BY <1>3 DEF Identity

LEMMA BeginIdentity ==
    ASSUME HelloIdTypeOK, Identity, NEW p \in Starts, Begin(p), ~overlapped'
    PROVE  Identity'
<1>1. \A q \in Starts : at[q] \notin Choosing  BY DEF Begin
<1>2. /\ at'[p] = "read" /\ \A q \in Starts : q # p => at'[q] = at[q]
      /\ UNCHANGED <<idFile, oldFile, existing, helloIds>>
      BY DEF Begin, GoesOn, HelloIdTypeOK
<1>3. \A q, r \in Starts : at'[q] \in Choosing /\ at'[r] \in Choosing => q = r
      BY <1>1, <1>2
<1>4. \A q \in Starts : Chosen(q)'  BY <1>2 DEF Identity, Chosen, Choosing
<1> QED BY <1>2, <1>3, <1>4 DEF Identity

\* A process that writes is the only one that chooses; nobody returns an id
\* that was not stored.
LEMMA StepIdentity ==
    ASSUME HelloIdTypeOK, Identity, NEW p \in Starts,
           Read(p) \/ ReadOld(p) \/ (\E id \in Ids : Draw(p, id))
           \/ Open(p) \/ Write(p) \/ AnnounceId(p) \/ End(p),
           ~unstored'
    PROVE  Identity'
<1> DEFINE OthersStay == \A q \in Starts : q # p => at'[q] = at[q] /\ existing'[q] = existing[q]
<1> USE HelloIdAssumption
<1>1. \A q, r \in Starts : at'[q] \in Choosing /\ at'[r] \in Choosing => q = r
      BY OneChooses
<1>2. OthersStay
      BY DEF Read, ReadOld, ReadFile, Draw, Open, Write, AnnounceId, End, GoesOn, HelloIdTypeOK
<1>3. Chosen(p)  BY DEF Identity
<1>4. CASE UNCHANGED <<idFile, oldFile, helloIds>> /\ Chosen(p)'
  <2>1. \A q \in Starts : Chosen(q)'  BY <1>2, <1>4 DEF Identity, Chosen
  <2> QED BY <1>1, <1>4, <2>1 DEF Identity
<1>5. CASE Read(p)
      BY <1>3, <1>4, <1>5 DEF Read, ReadFile, GoesOn, Chosen, HelloIdTypeOK, Choosing
<1>6. CASE ReadOld(p)
      BY <1>3, <1>4, <1>6 DEF ReadOld, ReadFile, GoesOn, Chosen, HelloIdTypeOK, Choosing
<1>7. CASE \E id \in Ids : Draw(p, id)
      BY <1>3, <1>4, <1>7 DEF Draw, GoesOn, Chosen, HelloIdTypeOK, Choosing
<1>8. CASE Open(p)
  <2>1. idFile = NoId  BY <1>3, <1>8 DEF Open, GoesOn, Chosen, Choosing
  <2> QED BY <1>3, <1>4, <1>8, <2>1 DEF Open, GoesOn, Chosen, HelloIdTypeOK, Choosing
<1>9. CASE Write(p)
  <2>1. /\ idFile = NoId /\ idFile' = existing[p] /\ existing[p] \in Ids
        /\ oldFile # NoId => existing[p] = oldFile
        /\ at'[p] = "return" /\ UNCHANGED <<oldFile, existing, helloIds>>
        BY <1>3, <1>9 DEF Write, GoesOn, Chosen, HelloIdTypeOK, Choosing
  <2>2. \A q \in Starts : q # p => at[q] \notin Choosing
        BY <1>9 DEF Write, GoesOn, Identity, Choosing
  <2>3. \A q \in Starts : at[q] # "return"  BY <2>1 DEF Identity, Chosen
  <2>4. \A q \in Starts : Chosen(q)'
    <3>1. Chosen(p)'  BY <2>1 DEF Chosen, Choosing
    <3>2. ASSUME NEW q \in Starts, q # p PROVE Chosen(q)'
          BY <1>2, <2>2, <2>3, <3>2 DEF Chosen, Choosing
    <3> QED BY <3>1, <3>2
  <2>5. helloIds' \subseteq {idFile'}  BY <2>1 DEF Identity
  <2> QED BY <1>1, <2>1, <2>4, <2>5 DEF Identity
<1>10. CASE AnnounceId(p)
  <2>1. /\ existing[p] = idFile /\ idFile \in Ids /\ at'[p] = "up"
        /\ helloIds' = helloIds \cup {existing[p]}
        /\ UNCHANGED <<idFile, oldFile, existing>>
        BY <1>3, <1>10 DEF AnnounceId, GoesOn, Chosen, HelloIdTypeOK
  <2>2. \A q \in Starts : Chosen(q)'  BY <1>2, <2>1 DEF Identity, Chosen, Choosing
  <2> QED BY <1>1, <2>1, <2>2 DEF Identity
<1>11. CASE End(p)
      BY <1>4, <1>11 DEF End, Chosen, HelloIdTypeOK, Choosing
<1> QED BY <1>5, <1>6, <1>7, <1>8, <1>9, <1>10, <1>11

LEMMA NextIdInv == ASSUME IdInv, [IdNext]_idVars PROVE IdInv'
<1>1. CASE UNCHANGED idVars
      BY <1>1 DEF idVars, IdInv, HelloIdTypeOK, Identity, Chosen
<1>2. ASSUME NEW p \in Starts,
             Begin(p) \/ Read(p) \/ ReadOld(p) \/ (\E id \in Ids : Draw(p, id))
             \/ Open(p) \/ Write(p) \/ AnnounceId(p) \/ End(p)
      PROVE  IdInv'
  <2>1. HelloIdTypeOK'  BY <1>2, NextType DEF IdInv
  <2>2. (unstored => unstored') /\ (overlapped => overlapped')
    <3>1. unstored' = unstored \/ unstored' = TRUE
          BY <1>2 DEF Begin, Read, ReadOld, ReadFile, Draw, Open, Write, AnnounceId, End
    <3>2. overlapped' = overlapped
              \/ overlapped' = (overlapped \/ \E q \in Starts : at[q] \in Choosing)
          BY <1>2 DEF Begin, Read, ReadOld, ReadFile, Draw, Open, Write, AnnounceId, End
    <3>3. unstored => unstored'  BY <3>1
    <3>4. overlapped => overlapped'
      <4>1. CASE overlapped' = overlapped  BY <4>1
      <4>2. CASE overlapped' = (overlapped \/ \E q \in Starts : at[q] \in Choosing)
            BY <4>2
      <4> QED BY <3>2, <4>1, <4>2
    <3> QED BY <3>3, <3>4
  <2>3. CASE ~unstored' /\ ~overlapped'
    <3>1. Identity  BY <2>2, <2>3 DEF IdInv
    <3>2. Identity'  BY <1>2, <2>3, <3>1, BeginIdentity, StepIdentity DEF IdInv
    <3> QED BY <2>1, <3>2 DEF IdInv
  <2> QED BY <2>1, <2>3 DEF IdInv
<1> QED BY <1>1, <1>2 DEF IdNext

(* "Stable per-install identity" (main.cpp:75-77): every start announces the *)
(* same id, wherever earlier ones were killed, except after an id could not *)
(* be stored or two starts chose at once.                                   *)
THEOREM OneIdentityCorrect == IdSpec => []OneIdentity
<1>1. IdInv => OneIdentity
  <2> SUFFICES ASSUME Identity PROVE Cardinality(helloIds) <= 1
      BY DEF IdInv, OneIdentity
  <2> DEFINE id == IF idFile = NoId THEN oldFile ELSE idFile
  <2>1. helloIds = {} \/ helloIds = {id}  BY DEF Identity
  <2>2. Cardinality({}) = 0  BY FS_EmptySet
  <2>3. Cardinality({id}) = 1  BY FS_Singleton
  <2> HIDE DEF id
  <2> QED BY <2>1, <2>2, <2>3
<1>2. IdInit => IdInv  BY InitIdInv
<1>3. IdInv /\ [IdNext]_idVars => IdInv'  BY NextIdInv
<1> QED BY <1>1, <1>2, <1>3, PTL DEF IdSpec

-----------------------------------------------------------------------------
(* SessionClocks.  Where the read loop is says how long the clocks can have *)
(* run since they were last looked at.                                      *)

ClocksTypeOK ==
    /\ readLoop \in {"recv", "ping", "handle", "dropped", "ended"}
    /\ {sinceData, sincePing, waited, hold, busy, silence, gap} \subseteq Nat
    /\ got \in BOOLEAN /\ unread \in BOOLEAN
    /\ waited <= kRecvTimeout /\ busy <= MaxHold

\* Data has been received, and its time is taken when the ping has been sent.
TimeDue == readLoop = "ping" /\ got

\* lastDataMs_ is no older than the sender's last byte; but for bytes that came
\* while the thread was kept from recv.
NotOlder == \/ TimeDue
            \/ unread /\ sinceData <= gap + hold
            \/ ~unread /\ sinceData <= silence

\* How long bytes wait until their time is taken.
ReadSoon ==
    /\ unread => silence <= CASE readLoop = "ping"   -> busy
                              [] readLoop = "handle" -> MaxHold + busy
                              [] OTHER               -> 2 * MaxHold
    /\ ~unread /\ TimeDue => silence <= 2 * MaxHold + busy
    /\ ~unread /\ ~TimeDue => silence <= sinceData + 3 * MaxHold

\* How long the clocks run between two looks at them.
LookedAt ==
    /\ sinceData <= CASE readLoop = "ping"   -> kLivenessTimeout + busy
                      [] readLoop = "handle" -> busy
                      [] OTHER               -> kLivenessTimeout + MaxHold + waited
    /\ sincePing <= CASE readLoop = "ping"   -> busy
                      [] readLoop = "handle" -> kPingInterval + MaxHold + busy
                      [] OTHER               -> kPingInterval + 2 * MaxHold + waited

ClocksInv == /\ ClocksTypeOK
             /\ Running => NotOlder /\ ReadSoon /\ LookedAt
             /\ DroppedForSilence

LEMMA InitClocksInv == ClocksInit => ClocksInv
<1> SUFFICES ASSUME ClocksInit PROVE ClocksInv
    OBVIOUS
<1> USE ClocksAssumption DEF ClocksInit, TimeDue, kRecvTimeout
<1>1. ClocksTypeOK
  <2>1. got \in BOOLEAN /\ unread \in BOOLEAN  OBVIOUS
  <2>2. busy <= MaxHold  OBVIOUS
  <2> QED BY <2>1, <2>2 DEF ClocksTypeOK
<1>2. NotOlder  BY DEF NotOlder
<1>3. ReadSoon  BY DEF ReadSoon
<1>4. LookedAt  BY DEF LookedAt
<1> QED BY <1>1, <1>2, <1>3, <1>4 DEF ClocksInv, DroppedForSilence

LEMMA TickClocks == ASSUME ClocksInv, Tick PROVE ClocksInv'
<1> USE ClocksAssumption
    DEF ClocksInv, ClocksTypeOK, Tick, CanWait, kRecvTimeout, Running, TimeDue, clocks, sender
<1>1. ClocksTypeOK'  OBVIOUS
<1>2. NotOlder'  BY DEF NotOlder
<1>3. ReadSoon'  BY DEF ReadSoon
<1>4. LookedAt'  BY DEF LookedAt
<1>5. DroppedForSilence'  BY DEF DroppedForSilence
<1> QED BY <1>1, <1>2, <1>3, <1>4, <1>5

LEMMA ArrivalClocks == ASSUME ClocksInv, BytesArrive PROVE ClocksInv'
<1> USE ClocksAssumption
    DEF ClocksInv, ClocksTypeOK, BytesArrive, kRecvTimeout, Running, TimeDue, clocks
<1>1. ClocksTypeOK'  OBVIOUS
<1>2. NotOlder'  BY DEF NotOlder
<1>3. ReadSoon'  BY DEF ReadSoon
<1>4. LookedAt'  BY DEF LookedAt
<1>5. DroppedForSilence'  BY DEF DroppedForSilence
<1> QED BY <1>1, <1>2, <1>3, <1>4, <1>5

\* The steps that look at the clocks.
LEMMA LookClocks == ASSUME ClocksInv, DropSilent \/ SendPing \/ NoPingDue PROVE ClocksInv'
<1> USE ClocksAssumption
    DEF ClocksInv, ClocksTypeOK, RecvReturns, CanWait, kRecvTimeout, Running, TimeDue, clocks,
        sender, Receive, Expired, PingDue
<1>1. CASE DropSilent  BY <1>1 DEF DropSilent, NotOlder, DroppedForSilence
<1>2. CASE SendPing
  <2>1. ClocksTypeOK'
    <3>1. got' \in BOOLEAN /\ unread' \in BOOLEAN  BY <1>2, Zenon DEF SendPing
    <3> QED BY <1>2, <3>1 DEF SendPing
  <2>2. NotOlder'  BY <1>2 DEF SendPing, NotOlder
  <2>3. ReadSoon'  BY <1>2 DEF SendPing, ReadSoon
  <2>4. LookedAt'  BY <1>2 DEF SendPing, LookedAt
  <2> QED BY <1>2, <2>1, <2>2, <2>3, <2>4 DEF SendPing, DroppedForSilence
<1>3. CASE NoPingDue
  <2>1. ClocksTypeOK'
    <3>1. got' \in BOOLEAN /\ unread' \in BOOLEAN  BY <1>3, Zenon DEF NoPingDue
    <3> QED BY <1>3, <3>1 DEF NoPingDue
  <2>2. NotOlder'  BY <1>3 DEF NoPingDue, NotOlder
  <2>3. ReadSoon'  BY <1>3 DEF NoPingDue, ReadSoon
  <2>4. LookedAt'  BY <1>3 DEF NoPingDue, LookedAt
  <2> QED BY <1>3, <2>1, <2>2, <2>3, <2>4 DEF NoPingDue, DroppedForSilence
<1> QED BY <1>1, <1>2, <1>3

LEMMA ReturnClocks ==
    ASSUME ClocksInv, PingSent \/ Handled \/ EndsOtherwise PROVE ClocksInv'
<1> USE ClocksAssumption
    DEF ClocksInv, ClocksTypeOK, kRecvTimeout, Running, TimeDue, clocks, sender, Receive
<1>1. CASE PingSent  BY <1>1 DEF PingSent, NotOlder, ReadSoon, LookedAt, DroppedForSilence
<1>2. CASE Handled   BY <1>2 DEF Handled, NotOlder, ReadSoon, LookedAt, DroppedForSilence
<1>3. CASE EndsOtherwise  BY <1>3 DEF EndsOtherwise, DroppedForSilence
<1> QED BY <1>1, <1>2, <1>3

LEMMA NextClocksInv == ClocksInv /\ [ClocksNext]_clocksVars => ClocksInv'
<1> SUFFICES ASSUME ClocksInv, [ClocksNext]_clocksVars PROVE ClocksInv'
    OBVIOUS
<1>1. CASE UNCHANGED clocksVars
      BY <1>1 DEF clocksVars, clocks, sender, ClocksInv, ClocksTypeOK, Running, NotOlder,
                  TimeDue, ReadSoon, LookedAt, DroppedForSilence
<1> QED BY <1>1, TickClocks, ArrivalClocks, LookClocks, ReturnClocks DEF ClocksNext

(* A sender is dropped only for its silence, or for that and the time the   *)
(* thread was kept from recv together (session.cpp:114-139).                *)
THEOREM DroppedForSilenceCorrect == ClocksSpec => []DroppedForSilence
<1>1. ClocksInv => DroppedForSilence  BY DEF ClocksInv
<1> QED BY <1>1, InitClocksInv, NextClocksInv, PTL DEF ClocksSpec

(* A dead sender is noticed and a live one is pinged in time, for every     *)
(* timeout, interval and time a callback may take (session.cpp:114-136).    *)
THEOREM ClocksAreKeptCorrect == ClocksSpec => []ClocksAreKept
<1>1. ClocksInv => ClocksAreKept
      BY ClocksAssumption DEF ClocksInv, ClocksTypeOK, Running, ReadSoon, LookedAt, TimeDue,
         ClocksAreKept, LongestRound, kRecvTimeout
<1> QED BY <1>1, InitClocksInv, NextClocksInv, PTL DEF ClocksSpec

-----------------------------------------------------------------------------
(* MdnsAdvertiser.  Every announcement is paid for: by the start, by a query *)
(* in the socket's buffer or answered, or by a period.                      *)

Queries(buffer) == {i \in 1..Len(buffer) : buffer[i] = "query"}
Count(buffer) == Cardinality(Queries(buffer))
Packets == {"own", "response", "query", "other"}
Paid(packet) == IF packet = "query" THEN 1 ELSE 0

LEMMA CountType ==
    ASSUME NEW buffer \in Seq(Packets)
    PROVE  IsFiniteSet(Queries(buffer)) /\ Count(buffer) \in Nat
<1>1. IsFiniteSet(1..Len(buffer))  BY FS_Interval
<1>2. IsFiniteSet(Queries(buffer))  BY <1>1, FS_Subset DEF Queries
<1> QED BY <1>2, FS_CardinalityType DEF Count

LEMMA CountEmpty == Count(<<>>) = 0
<1>1. Queries(<<>>) = {}  BY DEF Queries
<1> QED BY <1>1, FS_EmptySet DEF Count

LEMMA CountAppend ==
    ASSUME NEW buffer \in Seq(Packets), NEW packet \in Packets
    PROVE  Count(Append(buffer, packet)) = Count(buffer) + Paid(packet)
<1> DEFINE new == Len(buffer) + 1
<1>1. IsFiniteSet(Queries(buffer)) /\ Count(buffer) \in Nat  BY CountType
<1>2. CASE packet = "query"
  <2>1. Queries(Append(buffer, packet)) = Queries(buffer) \cup {new}
        BY <1>2 DEF Queries
  <2>2. new \notin Queries(buffer)  BY DEF Queries
  <2> QED BY <1>1, <1>2, <2>1, <2>2, FS_AddElement DEF Count, Paid
<1>3. CASE packet # "query"
  <2>1. Queries(Append(buffer, packet)) = Queries(buffer)  BY <1>3 DEF Queries
  <2> QED BY <1>1, <1>3, <2>1 DEF Count, Paid
<1> QED BY <1>2, <1>3

LEMMA CountTail ==
    ASSUME NEW buffer \in Seq(Packets), buffer # <<>>
    PROVE  Count(buffer) = Count(Tail(buffer)) + Paid(Head(buffer))
<1> DEFINE rest  == Queries(buffer) \ {1}
           shift == [i \in rest |-> i - 1]
<1>1. IsFiniteSet(Queries(buffer)) /\ Count(buffer) \in Nat  BY CountType
<1>2. IsFiniteSet(rest) /\ Cardinality(rest) = Count(buffer) - Paid(Head(buffer))
  <2>1. 1 \in Queries(buffer) <=> Head(buffer) = "query"  BY DEF Queries
  <2> QED BY <1>1, <2>1, FS_RemoveElement DEF Count, Paid
<1>3. Len(Tail(buffer)) = Len(buffer) - 1
      /\ \A i \in 1..(Len(buffer) - 1) : Tail(buffer)[i] = buffer[i + 1]
      OBVIOUS
<1>4. shift \in Bijection(rest, Queries(Tail(buffer)))
  <2>1. shift \in [rest -> Queries(Tail(buffer))]
    <3> SUFFICES ASSUME NEW i \in rest PROVE i - 1 \in Queries(Tail(buffer))
        OBVIOUS
    <3>1. i \in 2..Len(buffer) /\ buffer[i] = "query"  BY DEF Queries
    <3> QED BY <1>3, <3>1 DEF Queries
  <2>2. \A i, j \in rest : shift[i] = shift[j] => i = j  BY DEF Queries
  <2>3. \A k \in Queries(Tail(buffer)) : \E i \in rest : shift[i] = k
    <3> SUFFICES ASSUME NEW k \in Queries(Tail(buffer))
                 PROVE  k + 1 \in rest /\ shift[k + 1] = k
        OBVIOUS
    <3>1. k \in 1..(Len(buffer) - 1) /\ buffer[k + 1] = "query"  BY <1>3 DEF Queries
    <3>2. k + 1 \in rest  BY <3>1 DEF Queries
    <3> QED BY <3>1, <3>2
  <2> HIDE DEF shift, rest
  <2> QED BY <2>1, <2>2, <2>3, Fun_IsBij
<1>5. Cardinality(Queries(Tail(buffer))) = Cardinality(rest)
  <2>1. ExistsBijection(rest, Queries(Tail(buffer)))  BY <1>4 DEF ExistsBijection
  <2> HIDE DEF rest
  <2> QED BY <1>2, <2>1, FS_Bijection
<1> QED BY <1>1, <1>2, <1>5 DEF Count, Paid

\* What the start of the responder has left to announce, and a period.
StartLeft == CASE starter = "no" -> 3
               [] starter = "selftest" \/ responder = "burst" -> 2
               [] responder = "pause" -> 1
               [] OTHER -> 0
DueLeft == IF due THEN 1 ELSE 0

\* The types of what the argument counts.
MdnsTypeOK ==
    /\ starter \in {"no", "selftest", "failed", "done"}
    /\ responder \in {"none", "burst", "pause", "loop", "timer", "ended"}
    /\ starter # "done" => responder = "none"
    /\ inbox \in Seq(Packets)
    /\ {sent, packets, queries, periods} \subseteq Nat

AnnouncedFor == sent + StartLeft + DueLeft + Count(inbox) <= 3 + queries + periods
StormInv == MdnsTypeOK /\ AnnouncedFor

LEMMA InitStormInv == MdnsInit => StormInv
<1> SUFFICES ASSUME MdnsInit PROVE StormInv
    OBVIOUS
<1> USE DEF MdnsInit
<1>1. MdnsTypeOK
  <2>1. inbox \in Seq(Packets)  OBVIOUS
  <2> QED BY <2>1 DEF MdnsTypeOK
<1>2. StartLeft = 3 /\ DueLeft = 0 /\ Count(inbox) = 0
      BY CountEmpty DEF StartLeft, DueLeft
<1>3. AnnouncedFor  BY <1>2 DEF AnnouncedFor
<1> QED BY <1>1, <1>3 DEF StormInv

\* A packet that reaches the buffer costs no more than it pays for.
LEMMA ReceivedCounts ==
    ASSUME NEW buffer \in Seq(Packets), NEW packet \in Packets
    PROVE  /\ Received(buffer, packet) \in Seq(Packets)
           /\ Count(Received(buffer, packet)) \in Nat
           /\ Count(Received(buffer, packet)) <= Count(buffer) + Paid(packet)
<1>1. Count(buffer) \in Nat  BY CountType
<1>2. Paid(packet) \in Nat  BY DEF Paid
<1>3. CASE Received(buffer, packet) = buffer  BY <1>1, <1>2, <1>3
<1>4. CASE Received(buffer, packet) = Append(buffer, packet)
  <2>1. Append(buffer, packet) \in Seq(Packets)  OBVIOUS
  <2> QED BY <1>1, <1>2, <1>4, <2>1, CountAppend
<1> QED BY <1>3, <1>4 DEF Received

LEMMA AnnounceCounts ==
    ASSUME NEW buffer \in Seq(Packets), Announce(buffer), sent \in Nat
    PROVE  /\ sent' = sent + 1 /\ inbox' \in Seq(Packets)
           /\ Count(inbox') \in Nat /\ Count(inbox') <= Count(buffer)
<1>1. Count(buffer) \in Nat  BY CountType
<1>2. "own" \in Packets /\ Paid("own") = 0  BY DEF Packets, Paid
<1>3. inbox' \in {buffer, Received(buffer, "own")} /\ sent' = sent + 1  BY DEF Announce
<1> QED BY <1>1, <1>2, <1>3, ReceivedCounts

LEMMA HeadCounts ==
    ASSUME NEW buffer \in Seq(Packets), buffer # <<>>
    PROVE  /\ Tail(buffer) \in Seq(Packets) /\ Head(buffer) \in Packets
           /\ Count(Tail(buffer)) \in Nat /\ Count(buffer) \in Nat
           /\ Count(Tail(buffer)) + Paid(Head(buffer)) = Count(buffer)
<1>1. Tail(buffer) \in Seq(Packets) /\ Head(buffer) \in Packets  OBVIOUS
<1> QED BY <1>1, CountType, CountTail DEF Paid

\* What the counts are, before a step and after it.
LEMMA StormTypes ==
    ASSUME MdnsTypeOK
    PROVE  /\ StartLeft \in Nat /\ DueLeft \in Nat /\ Count(inbox) \in Nat
           /\ sent \in Nat /\ queries \in Nat /\ periods \in Nat
<1>1. Count(inbox) \in Nat  BY CountType DEF MdnsTypeOK
<1>2. StartLeft \in Nat /\ DueLeft \in Nat  BY DEF StartLeft, DueLeft
<1>3. sent \in Nat /\ queries \in Nat /\ periods \in Nat  BY DEF MdnsTypeOK
<1> QED BY <1>1, <1>2, <1>3

LEMMA StormTypesNext ==
    ASSUME MdnsTypeOK'
    PROVE  /\ StartLeft' \in Nat /\ DueLeft' \in Nat /\ Count(inbox') \in Nat
           /\ sent' \in Nat /\ queries' \in Nat /\ periods' \in Nat
<1>1. Count(inbox') \in Nat  BY CountType DEF MdnsTypeOK
<1>2. StartLeft' \in Nat /\ DueLeft' \in Nat  BY DEF StartLeft, DueLeft
<1>3. sent' \in Nat /\ queries' \in Nat /\ periods' \in Nat  BY DEF MdnsTypeOK
<1> QED BY <1>1, <1>2, <1>3

\* A step adds no more to what is announced and owed than it allows.
LEMMA StormKept ==
    ASSUME StormInv, MdnsTypeOK', NEW more \in Nat,
           sent' + StartLeft' + DueLeft' + Count(inbox')
               <= sent + StartLeft + DueLeft + Count(inbox) + more,
           queries' + periods' = queries + periods + more
    PROVE  StormInv'
<1> DEFINE owed == sent + StartLeft + DueLeft + Count(inbox)
           owes == sent' + StartLeft' + DueLeft' + Count(inbox')
           q == queries  t == periods  qn == queries'  tn == periods'
<1>1. owed <= 3 + q + t  BY DEF StormInv, AnnouncedFor
<1>2. owed \in Nat /\ q \in Nat /\ t \in Nat  BY StormTypes DEF StormInv
<1>3. owes \in Nat /\ qn \in Nat /\ tn \in Nat  BY StormTypesNext
<1>4. owes <= owed + more /\ qn + tn = q + t + more  OBVIOUS
<1> HIDE DEF owed, owes, q, t, qn, tn
<1>5. owes <= 3 + qn + tn  BY <1>1, <1>2, <1>3, <1>4
<1>6. AnnouncedFor'  BY <1>5 DEF owes, qn, tn, AnnouncedFor
<1> QED BY <1>6 DEF StormInv

\* Announcements are moved from what is owed to what is sent, or written off.
LEMMA StormMoved ==
    ASSUME StormInv, MdnsTypeOK', UNCHANGED <<queries, periods>>,
           NEW less \in Nat, NEW paid \in Nat, NEW done \in Nat, done <= less + paid,
           sent' = sent + done,
           StartLeft' + DueLeft' + less <= StartLeft + DueLeft,
           Count(inbox') + paid <= Count(inbox)
    PROVE  StormInv'
<1> DEFINE s == sent  o == StartLeft + DueLeft  c == Count(inbox)
           sn == sent'  on == StartLeft' + DueLeft'  cn == Count(inbox')
           q == queries  t == periods
<1>1. s \in Nat /\ o \in Nat /\ c \in Nat /\ q \in Nat /\ t \in Nat
      BY StormTypes DEF StormInv
<1>2. sn \in Nat /\ on \in Nat /\ cn \in Nat  BY StormTypesNext
<1>3. s + o + c <= 3 + q + t
  <2>1. s + StartLeft + DueLeft + c <= 3 + q + t  BY DEF StormInv, AnnouncedFor
  <2>2. StartLeft \in Nat /\ DueLeft \in Nat  BY StormTypes DEF StormInv
  <2> HIDE DEF s, c, q, t
  <2> QED BY <1>1, <2>1, <2>2
<1>4. sn = s + done /\ on + less <= o /\ cn + paid <= c /\ queries' = q /\ periods' = t
      OBVIOUS
<1> HIDE DEF s, o, c, sn, on, cn, q, t
<1>5. sn + on + cn <= 3 + q + t  BY <1>1, <1>2, <1>3, <1>4
<1>6. AnnouncedFor'
  <2>1. StartLeft' \in Nat /\ DueLeft' \in Nat  BY StormTypesNext
  <2> DEFINE l == StartLeft'  d == DueLeft'
  <2>2. on = l + d /\ l \in Nat /\ d \in Nat  BY <2>1 DEF on
  <2> HIDE DEF l, d
  <2>3. sn + l + d + cn <= 3 + q + t  BY <1>2, <1>5, <2>2
  <2>4. sn + l + d + cn <= 3 + queries' + periods'  BY <1>4, <2>3
  <2> QED BY <2>4 DEF l, d, sn, cn, AnnouncedFor
<1> QED BY <1>6 DEF StormInv

LEMMA StartStorm ==
    ASSUME StormInv, StartFails \/ StartOpens \/ SelfTest \/ SelfTestError PROVE StormInv'
<1> USE DEF socketVars, network
<1>1. MdnsTypeOK  BY DEF StormInv
<1>2. /\ StartLeft \in Nat /\ DueLeft \in Nat /\ Count(inbox) \in Nat /\ sent \in Nat
      BY <1>1, StormTypes
<1>3. CASE StartFails
  <2>1. MdnsTypeOK'  BY <1>1, <1>3 DEF StartFails, MdnsTypeOK
  <2>2. StartLeft = 3 /\ StartLeft' = 0
    <3>1. /\ starter = "no" /\ starter' = "failed"
          /\ responder = "none" /\ responder' = "none"
          BY <1>1, <1>3 DEF StartFails, MdnsTypeOK
    <3> QED BY <3>1 DEF StartLeft
  <2>3. DueLeft' = DueLeft  BY <1>3 DEF StartFails, DueLeft
  <2>4. inbox' = inbox /\ sent' = sent + 0 /\ UNCHANGED <<queries, periods>>
        BY <1>2, <1>3 DEF StartFails
  <2>5. StartLeft' + DueLeft' + 0 <= StartLeft + DueLeft  BY <1>2, <2>2, <2>3
  <2>6. Count(inbox') + 0 <= Count(inbox)  BY <1>2, <2>4
  <2> QED BY <2>1, <2>4, <2>5, <2>6, StormMoved
<1>4. CASE StartOpens
  <2>1. <<>> \in Seq(Packets) /\ Count(<<>>) = 0 /\ "own" \in Packets /\ Paid("own") = 0
        BY CountEmpty DEF Packets, Paid
  <2>2. inbox' \in Seq(Packets) /\ Count(inbox') = 0
    <3>1. inbox' = <<>> \/ inbox' = Received(<<>>, "own")  BY <1>4 DEF StartOpens
    <3>2. /\ Received(<<>>, "own") \in Seq(Packets) /\ Count(Received(<<>>, "own")) \in Nat
          /\ Count(Received(<<>>, "own")) <= Count(<<>>) + Paid("own")
          BY <2>1, ReceivedCounts, Zenon
    <3>3. Count(Received(<<>>, "own")) = 0  BY <2>1, <3>2
    <3> QED BY <2>1, <3>1, <3>2, <3>3
  <2>3. MdnsTypeOK'  BY <1>1, <1>4, <2>2 DEF StartOpens, MdnsTypeOK
  <2>4. StartLeft = 3 /\ StartLeft' = 2  BY <1>1, <1>4 DEF StartOpens, StartLeft, MdnsTypeOK
  <2>5. DueLeft' = DueLeft  BY <1>4 DEF StartOpens, DueLeft
  <2>6. sent' = sent + 1 /\ UNCHANGED <<queries, periods>>  BY <1>4 DEF StartOpens
  <2>7. StartLeft' + DueLeft' + 1 <= StartLeft + DueLeft  BY <1>2, <2>4, <2>5
  <2>8. Count(inbox') + 0 <= Count(inbox)  BY <1>2, <2>2
  <2> QED BY <2>3, <2>6, <2>7, <2>8, StormMoved
<1>5. CASE StartThread /\ inbox' \in Seq(Packets) /\ Count(inbox') <= Count(inbox)
  <2>1. MdnsTypeOK'  BY <1>1, <1>5 DEF StartThread, MdnsTypeOK
  <2>2. StartLeft' = 2 /\ StartLeft = 2
    <3>1. /\ starter = "selftest" /\ starter' = "done"
          /\ responder = "none" /\ responder' = "burst"
          BY <1>1, <1>5 DEF StartThread, MdnsTypeOK
    <3>2. StartLeft = 2  BY <3>1 DEF StartLeft
    <3>3. StartLeft' = 2  BY <3>1 DEF StartLeft
    <3> QED BY <3>2, <3>3
  <2>3. DueLeft' = DueLeft  BY <1>5 DEF StartThread, DueLeft
  <2>4. sent' = sent + 0 /\ UNCHANGED <<queries, periods>>  BY <1>2, <1>5 DEF StartThread
  <2>5. StartLeft' + DueLeft' + 0 <= StartLeft + DueLeft  BY <1>2, <2>2, <2>3
  <2>6. Count(inbox') \in Nat  BY <2>1, StormTypesNext
  <2>7. Count(inbox') + 0 <= Count(inbox)  BY <1>2, <1>5, <2>6
  <2> QED BY <2>1, <2>4, <2>5, <2>7, StormMoved
<1>6. CASE SelfTest
  <2>1. inbox # <<>> /\ inbox' = Tail(inbox) /\ inbox \in Seq(Packets)
        BY <1>1, <1>6 DEF SelfTest, MdnsTypeOK
  <2>2. /\ Tail(inbox) \in Seq(Packets) /\ Count(Tail(inbox)) \in Nat
        /\ Count(Tail(inbox)) + Paid(Head(inbox)) = Count(inbox)
        BY <2>1, HeadCounts
  <2>3. Paid(Head(inbox)) \in Nat  BY DEF Paid
  <2>4. Count(Tail(inbox)) <= Count(inbox)  BY <1>2, <2>2, <2>3
  <2> QED BY <1>5, <1>6, <2>1, <2>2, <2>4 DEF SelfTest
<1>7. CASE SelfTestError
  <2>1. inbox' = inbox /\ inbox \in Seq(Packets)  BY <1>1, <1>7 DEF SelfTestError, MdnsTypeOK
  <2>2. Count(inbox') <= Count(inbox)  BY <1>2, <2>1
  <2> QED BY <1>5, <1>7, <2>1, <2>2 DEF SelfTestError
<1> QED BY <1>3, <1>4, <1>6, <1>7

LEMMA ResponderStorm == ASSUME StormInv, Responder \/ SelectFails PROVE StormInv'
<1> USE DEF socketVars, network
<1>1. MdnsTypeOK  BY DEF StormInv
<1>2. /\ StartLeft \in Nat /\ DueLeft \in Nat /\ Count(inbox) \in Nat
      /\ sent \in Nat /\ queries \in Nat /\ periods \in Nat
      BY <1>1, StormTypes
<1>3. ASSUME NEW from, NEW to,
             Goes(from, to), to \in {"ended", "timer", "loop"}, from \notin {"none", "burst"}
      PROVE  StormInv'
  <2>1. MdnsTypeOK'  BY <1>1, <1>3 DEF Goes, MdnsTypeOK
  <2>2. responder \in {"pause", "loop", "timer", "ended"} /\ starter = "done"
        BY <1>1, <1>3 DEF Goes, MdnsTypeOK
  <2>3. responder' \in {"ended", "timer", "loop"} /\ starter' = starter  BY <1>3 DEF Goes
  <2>4. StartLeft' = 0  BY <2>2, <2>3 DEF StartLeft
  <2>5. DueLeft' = DueLeft  BY <1>3 DEF Goes, DueLeft
  <2>6. inbox' = inbox /\ sent' = sent + 0 /\ UNCHANGED <<queries, periods>>
        BY <1>2, <1>3 DEF Goes
  <2>7. StartLeft' + DueLeft' + 0 <= StartLeft + DueLeft  BY <1>2, <2>4, <2>5
  <2>8. Count(inbox') + 0 <= Count(inbox)  BY <1>2, <2>6
  <2> QED BY <2>1, <2>6, <2>7, <2>8, StormMoved
<1>4. ASSUME NEW from, NEW to, Announces(from, to),
             \/ from = "burst" /\ to = "pause"
             \/ from = "pause" /\ to = "loop"
             \/ from = "timer" /\ to = "loop" /\ due
      PROVE  StormInv'
  <2>1. inbox \in Seq(Packets)  BY <1>1 DEF MdnsTypeOK
  <2>2. /\ sent' = sent + 1 /\ inbox' \in Seq(Packets)
        /\ Count(inbox') \in Nat /\ Count(inbox') <= Count(inbox)
        BY <1>2, <1>4, <2>1, AnnounceCounts DEF Announces
  <2>3. /\ responder = from /\ responder' = to /\ due' = FALSE
        /\ UNCHANGED <<starter, packets, queries, periods>>
        BY <1>4 DEF Announces
  <2>4. MdnsTypeOK'  BY <1>1, <1>2, <1>4, <2>2, <2>3 DEF MdnsTypeOK
  <2>5. starter = "done" /\ starter' = "done"  BY <1>1, <1>4, <2>3 DEF MdnsTypeOK
  <2>6. DueLeft' = 0  BY <2>3 DEF DueLeft
  <2>7. StartLeft' + DueLeft' + 1 <= StartLeft + DueLeft
    <3>1. CASE from = "burst"
      <4>1. StartLeft = 2 /\ StartLeft' = 1  BY <1>4, <2>3, <2>5, <3>1 DEF StartLeft
      <4> QED BY <1>2, <2>6, <4>1
    <3>2. CASE from = "pause"
      <4>1. StartLeft = 1 /\ StartLeft' = 0  BY <1>4, <2>3, <2>5, <3>2 DEF StartLeft
      <4> QED BY <1>2, <2>6, <4>1
    <3>3. CASE from = "timer"
      <4>1. StartLeft = 0 /\ StartLeft' = 0  BY <1>4, <2>3, <2>5, <3>3 DEF StartLeft
      <4>2. DueLeft = 1  BY <1>4, <3>3 DEF DueLeft
      <4> QED BY <2>6, <4>1, <4>2
    <3> QED BY <1>4, <3>1, <3>2, <3>3
  <2>8. Count(inbox') + 0 <= Count(inbox)  BY <2>2
  <2> QED BY <2>2, <2>3, <2>4, <2>7, <2>8, StormMoved
<1>5. CASE HandlePacket
  <2>1. /\ Tail(inbox) \in Seq(Packets)
        /\ Count(Tail(inbox)) \in Nat
        /\ Count(Tail(inbox)) + Paid(Head(inbox)) = Count(inbox)
    <3>1. inbox \in Seq(Packets) /\ inbox # <<>>  BY <1>1, <1>5 DEF HandlePacket, MdnsTypeOK
    <3> QED BY <3>1, HeadCounts
  <2>2. /\ responder = "loop" /\ responder' = "timer"
        /\ UNCHANGED <<starter, packets, queries, periods>>
        BY <1>5 DEF HandlePacket
  <2>3. StartLeft' = StartLeft  BY <2>2 DEF StartLeft
  <2>4. CASE Answers(Head(inbox))
    <3>1. /\ sent' = sent + 1 /\ inbox' \in Seq(Packets)
          /\ Count(inbox') \in Nat /\ Count(inbox') <= Count(Tail(inbox))
          BY <1>2, <1>5, <2>1, <2>4, AnnounceCounts DEF HandlePacket
    <3>2. Paid(Head(inbox)) = 1  BY <2>4 DEF Answers, Paid
    <3>3. MdnsTypeOK'  BY <1>1, <1>2, <2>2, <3>1 DEF MdnsTypeOK
    <3>4. DueLeft' = 0  BY <1>5, <2>4 DEF HandlePacket, DueLeft
    <3>5. StartLeft' + DueLeft' + 0 <= StartLeft + DueLeft  BY <1>2, <2>3, <3>4
    <3>6. Count(inbox') + 1 <= Count(inbox)  BY <1>2, <2>1, <3>1, <3>2
    <3> QED BY <2>2, <3>1, <3>3, <3>5, <3>6, StormMoved
  <2>5. CASE ~Answers(Head(inbox))
    <3>1. inbox' = Tail(inbox) /\ sent' = sent + 0 /\ due' = due
          BY <1>2, <1>5, <2>5 DEF HandlePacket
    <3>2. MdnsTypeOK'  BY <1>1, <1>2, <2>1, <2>2, <3>1 DEF MdnsTypeOK
    <3>3. DueLeft' = DueLeft  BY <3>1 DEF DueLeft
    <3>4. StartLeft' + DueLeft' + 0 <= StartLeft + DueLeft  BY <1>2, <2>3, <3>3
    <3>5. Paid(Head(inbox)) \in Nat  BY DEF Paid
    <3>6. Count(inbox') + 0 <= Count(inbox)  BY <1>2, <2>1, <3>1, <3>5
    <3> QED BY <2>2, <3>1, <3>2, <3>4, <3>6, StormMoved
  <2> QED BY <2>4, <2>5
<1>6. CASE Burst  BY <1>4, <1>6 DEF Burst
<1>7. CASE Reannounce  BY <1>3, <1>4, <1>7 DEF Reannounce
<1>8. CASE ThreadEnds \/ SelectFails \/ NoPacket
      BY <1>3, <1>8 DEF ThreadEnds, SelectFails, NoPacket
<1> QED BY <1>5, <1>6, <1>7, <1>8 DEF Responder

LEMMA NetworkStorm == ASSUME StormInv, StopFlag \/ StopClose \/ Network PROVE StormInv'
<1> USE DEF socketVars, network
<1>1. MdnsTypeOK  BY DEF StormInv
<1>2. /\ StartLeft \in Nat /\ DueLeft \in Nat /\ Count(inbox) \in Nat
      /\ sent \in Nat /\ queries \in Nat /\ periods \in Nat
      BY <1>1, StormTypes
<1>3. CASE StopFlag \/ StopClose
  <2>1. inbox' \in {inbox, <<>>} /\ UNCHANGED <<starter, responder, due, packets, queries, periods>>
        BY <1>3 DEF StopFlag, StopClose
  <2>2. inbox' \in Seq(Packets)
    <3>1. inbox \in Seq(Packets)  BY <1>1 DEF MdnsTypeOK
    <3>2. <<>> \in Seq(Packets)  OBVIOUS
    <3> QED BY <2>1, <3>1, <3>2, Zenon
  <2>3. sent' = sent + 0  BY <1>2, <1>3 DEF StopFlag, StopClose
  <2>4. MdnsTypeOK'  BY <1>1, <1>2, <2>1, <2>2, <2>3 DEF MdnsTypeOK
  <2>5. StartLeft' = StartLeft /\ DueLeft' = DueLeft  BY <2>1 DEF StartLeft, DueLeft
  <2>6. StartLeft' + DueLeft' + 0 <= StartLeft + DueLeft  BY <1>2, <2>5
  <2>7. Count(inbox') + 0 <= Count(inbox)
    <3>1. Count(<<>>) = 0  BY CountEmpty
    <3> QED BY <1>2, <2>1, <3>1
  <2> QED BY <2>1, <2>3, <2>4, <2>6, <2>7, StormMoved
<1>4. CASE PeriodPasses
  <2>1. UNCHANGED <<starter, responder, inbox, sent, packets, queries>>
        BY <1>4 DEF PeriodPasses
  <2>2. ~due /\ due' = TRUE /\ periods' = periods + 1  BY <1>4 DEF PeriodPasses
  <2>3. MdnsTypeOK'  BY <1>1, <1>2, <2>1, <2>2 DEF MdnsTypeOK
  <2>4. StartLeft' = StartLeft  BY <2>1 DEF StartLeft
  <2>5. DueLeft = 0 /\ DueLeft' = 1  BY <2>2 DEF DueLeft
  <2>6. sent' + StartLeft' + DueLeft' + Count(inbox')
            <= sent + StartLeft + DueLeft + Count(inbox) + 1
        BY <1>2, <2>1, <2>4, <2>5
  <2>7. queries' + periods' = queries + periods + 1  BY <1>2, <2>1, <2>2
  <2> QED BY <2>3, <2>6, <2>7, StormKept
<1>5. ASSUME NEW p \in {"response", "query", "other"}, PacketArrives(p) PROVE StormInv'
  <2>1. p \in Packets /\ Paid(p) \in Nat  BY DEF Packets, Paid
  <2>2. /\ inbox' \in Seq(Packets) /\ Count(inbox') \in Nat
        /\ Count(inbox') <= Count(inbox) + Paid(p)
    <3>1. inbox' = inbox \/ inbox' = Received(inbox, p)  BY <1>5 DEF PacketArrives
    <3>2. inbox \in Seq(Packets)  BY <1>1 DEF MdnsTypeOK
    <3>3. CASE inbox' = inbox  BY <1>2, <2>1, <3>2, <3>3
    <3>4. CASE inbox' = Received(inbox, p)  BY <2>1, <3>2, <3>4, ReceivedCounts
    <3> QED BY <3>1, <3>3, <3>4
  <2>3. queries' = queries + Paid(p) /\ packets' = packets + 1
        BY <1>2, <1>5 DEF PacketArrives, Paid
  <2>4. UNCHANGED <<starter, responder, due, sent, periods>>  BY <1>5 DEF PacketArrives
  <2>5. StartLeft' = StartLeft /\ DueLeft' = DueLeft  BY <2>4 DEF StartLeft, DueLeft
  <2>6. packets' \in Nat /\ queries' \in Nat  BY <1>1, <2>1, <2>3 DEF MdnsTypeOK
  <2>7. MdnsTypeOK'  BY <1>1, <1>2, <2>2, <2>4, <2>6 DEF MdnsTypeOK
  <2>8. sent' + StartLeft' + DueLeft' + Count(inbox')
            <= sent + StartLeft + DueLeft + Count(inbox) + Paid(p)
        BY <1>2, <2>1, <2>2, <2>4, <2>5
  <2>9. queries' + periods' = queries + periods + Paid(p)  BY <1>2, <2>1, <2>3, <2>4
  <2> QED BY <2>1, <2>7, <2>8, <2>9, StormKept
<1> QED BY <1>3, <1>4, <1>5 DEF Network

LEMMA NextStormInv == StormInv /\ [MdnsNext]_mdnsVars => StormInv'
<1> SUFFICES ASSUME StormInv, [MdnsNext]_mdnsVars PROVE StormInv'
    OBVIOUS
<1>1. CASE UNCHANGED mdnsVars
      BY <1>1 DEF mdnsVars, socketVars, network, StormInv, MdnsTypeOK, AnnouncedFor, StartLeft,
                  DueLeft
<1> QED BY <1>1, StartStorm, ResponderStorm, NetworkStorm DEF MdnsNext

(* "Responding to our own looped-back announcements starts an infinite      *)
(* announce/loopback/announce storm" (mdns_advertise.cpp:342-344): there is *)
(* no announcement beyond the self test, the two at the start, one per      *)
(* query and one per period, for any number of packets and any buffer.      *)
THEOREM NoStormCorrect == MdnsSpec => []NoStorm
<1>1. StormInv => NoStorm
  <2> SUFFICES ASSUME StormInv PROVE NoStorm
      OBVIOUS
  <2>1. Count(inbox) \in Nat  BY CountType DEF StormInv, MdnsTypeOK
  <2>2. StartLeft \in Nat /\ DueLeft \in Nat  BY DEF StartLeft, DueLeft
  <2> QED BY <2>1, <2>2, SMTT(30) DEF StormInv, MdnsTypeOK, AnnouncedFor, NoStorm
<1> QED BY <1>1, InitStormInv, NextStormInv, PTL DEF MdnsSpec

-----------------------------------------------------------------------------
(* CaptureTimes.  What the MFT holds and what the FIFO holds are both the   *)
(* units accepted last; only their number may differ.                       *)


Newest(n, last) == [i \in 1..n |-> last - n + i]

\* The units up to the last one.
Trailing(units, last) == Len(units) <= last /\ units = Newest(Len(units), last)

TimesTypeOK == /\ accepted \in Nat
               /\ held \in Seq(Nat) /\ captureTimes \in Seq(Nat) /\ lost \in Nat

TimesInv == /\ TimesTypeOK
            /\ Trailing(held, accepted) /\ Trailing(captureTimes, accepted)
            /\ ~drifted => Len(captureTimes) = Len(held)
            /\ Len(captureTimes) <= Len(held) + lost

LEMMA TrailingEmpty == ASSUME NEW last \in Nat PROVE Trailing(<<>>, last)
<1>1. Newest(0, last) = <<>>  BY DEF Newest
<1> QED BY <1>1 DEF Trailing

LEMMA TrailingTail ==
    ASSUME NEW units \in Seq(Nat), NEW last \in Nat, units # <<>>, Trailing(units, last)
    PROVE  /\ Head(units) = last - Len(units) + 1
           /\ Tail(units) \in Seq(Nat) /\ Len(Tail(units)) = Len(units) - 1
           /\ Trailing(Tail(units), last)
<1> DEFINE rest == Tail(units)
<1>1. Len(units) \in Nat /\ Len(units) >= 1 /\ Len(rest) = Len(units) - 1 /\ rest \in Seq(Nat)
      OBVIOUS
<1>2. \A i \in 1..Len(units) : units[i] = last - Len(units) + i  BY DEF Trailing, Newest
<1>3. \A i \in 1..Len(rest) : rest[i] = units[i + 1]  OBVIOUS
<1>4. \A i \in 1..Len(rest) : rest[i] = last - Len(rest) + i
  <2> HIDE DEF rest
  <2> QED BY <1>1, <1>2, <1>3, SMTT(30)
<1>5. rest = Newest(Len(rest), last)
  <2> HIDE DEF rest
  <2>1. rest = [i \in 1..Len(rest) |-> rest[i]]  BY <1>1
  <2> QED BY <1>4, <2>1 DEF Newest
<1>6. Head(units) = last - Len(units) + 1  BY <1>1, <1>2
<1> QED BY <1>1, <1>5, <1>6 DEF Trailing

LEMMA TrailingAppend ==
    ASSUME NEW units \in Seq(Nat), NEW last \in Nat, Trailing(units, last)
    PROVE  /\ Append(units, last + 1) \in Seq(Nat)
           /\ Len(Append(units, last + 1)) = Len(units) + 1
           /\ Trailing(Append(units, last + 1), last + 1)
<1> DEFINE more == Append(units, last + 1)
<1>1. Len(units) \in Nat /\ Len(more) = Len(units) + 1 /\ more \in Seq(Nat)
      OBVIOUS
<1>2. \A i \in 1..Len(units) : units[i] = last - Len(units) + i  BY DEF Trailing, Newest
<1>3. \A i \in 1..Len(more) : more[i] = IF i <= Len(units) THEN units[i] ELSE last + 1
      OBVIOUS
<1>4. ASSUME NEW i \in 1..Len(more) PROVE more[i] = last + 1 - Len(more) + i
  <2> HIDE DEF more
  <2>1. CASE i \in 1..Len(units)
    <3>1. more[i] = units[i]  BY <1>1, <1>3, <2>1
    <3>2. units[i] = last - Len(units) + i  BY <1>2, <2>1
    <3> QED BY <1>1, <2>1, <3>1, <3>2
  <2>2. CASE i = Len(units) + 1  BY <1>1, <1>3, <2>2
  <2> QED BY <1>1, <2>1, <2>2
<1>5. more = Newest(Len(more), last + 1)
  <2>1. more = [i \in 1..Len(more) |-> more[i]]  BY <1>1
  <2> HIDE DEF more
  <2> QED BY <1>4, <2>1 DEF Newest
<1> QED BY <1>1, <1>5 DEF Trailing

LEMMA InitTimesInv == TimesInit => TimesInv
BY TrailingEmpty DEF TimesInit, TimesInv, TimesTypeOK

LEMMA NextTimesInv == TimesInv /\ [TimesNext]_timesVars => TimesInv'
<1> DEFINE Fits(last) == Trailing(<<>>, last)
<1>0. \A last \in Nat : Fits(last)  BY TrailingEmpty
<1> HIDE DEF Fits
<1>s. SUFFICES ASSUME TimesInv, [TimesNext]_timesVars PROVE TimesInv'
      OBVIOUS
<1>t. /\ accepted \in Nat /\ held \in Seq(Nat) /\ captureTimes \in Seq(Nat)
      /\ Trailing(held, accepted) /\ Trailing(captureTimes, accepted)
      /\ ~drifted => Len(captureTimes) = Len(held)
      /\ lost \in Nat /\ Len(captureTimes) <= Len(held) + lost
      /\ Len(captureTimes) \in Nat /\ Len(held) \in Nat
      BY <1>s, LenProperties, Zenon DEF TimesInv, TimesTypeOK
<1>1. CASE FeedAccessUnit
      BY <1>1, <1>t, TrailingAppend DEF FeedAccessUnit, TimesInv, TimesTypeOK
<1>2. CASE PublishNv12 \/ PublishFails \/ Swallow
  <2>0. held # <<>> /\ held' = Tail(held) /\ accepted' = accepted
        BY <1>2 DEF PublishNv12, PublishFails, Swallow
  <2>1. held' \in Seq(Nat) /\ Len(held') = Len(held) - 1 /\ Trailing(held', accepted')
        BY <1>t, <2>0, TrailingTail
  <2>2. accepted' \in Nat  BY <1>t, <2>0
  <2>3. CASE PublishFails \/ Swallow
    <3>1. captureTimes' = captureTimes /\ drifted' /\ lost' = lost + 1
          BY <2>3 DEF PublishFails, Swallow
    <3> QED BY <1>t, <2>0, <2>1, <2>2, <3>1 DEF TimesInv, TimesTypeOK
  <2>4. CASE PublishNv12
    <3>1. CASE captureTimes = <<>>
      <4>1. captureTimes' = captureTimes /\ drifted' = drifted /\ lost' = lost
            BY <2>4, <3>1 DEF PublishNv12
      <4>2. drifted
        <5>1. Len(held) \in Nat /\ Len(held) # 0 /\ Len(captureTimes) = 0
              BY <1>t, <2>0, <3>1
        <5> QED BY <1>t, <5>1
      <4>3. Len(captureTimes') = 0 /\ Len(held') \in Nat /\ lost' \in Nat
            BY <1>t, <2>1, <3>1, <4>1
      <4>4. Len(captureTimes') <= Len(held') + lost'  BY ONLY <4>3
      <4> QED BY <1>t, <2>0, <2>1, <2>2, <4>1, <4>2, <4>3, <4>4 DEF TimesInv, TimesTypeOK
    <3>2. CASE captureTimes # <<>> /\ captureTimes' = <<>> /\ drifted' /\ lost' = 0
      <4>1. <<>> \in Seq(Nat)  OBVIOUS
      <4>2. Fits(accepted')  BY <1>0, <2>2
      <4> QED BY <2>1, <2>2, <3>2, <4>1, <4>2 DEF Fits, TimesInv, TimesTypeOK
    <3>3. CASE captureTimes # <<>> /\ captureTimes' = Tail(captureTimes)
               /\ (~drifted' => ~drifted) /\ lost' = lost
      <4>1. /\ captureTimes' \in Seq(Nat) /\ Len(captureTimes') = Len(captureTimes) - 1
            /\ Trailing(captureTimes', accepted')
            BY <1>t, <2>0, <3>3, TrailingTail
      <4>2. ~drifted' => Len(captureTimes') = Len(held')
        <5>1. ~drifted => Len(captureTimes) - 1 = Len(held) - 1  BY <1>t, Zenon
        <5> QED BY <2>1, <3>3, <4>1, <5>1, Zenon
      <4>3. lost' \in Nat /\ Len(captureTimes') <= Len(held') + lost'
        <5>1. /\ Len(captureTimes') = Len(captureTimes) - 1 /\ Len(held') = Len(held) - 1
              /\ lost' = lost
              BY <2>1, <3>3, <4>1
        <5>2. /\ lost \in Nat /\ Len(captureTimes) \in Nat /\ Len(held) \in Nat
              /\ Len(captureTimes) <= Len(held) + lost
              BY <1>t
        <5> QED BY ONLY <5>1, <5>2
      <4> QED BY <2>1, <2>2, <4>1, <4>2, <4>3, Zenon DEF TimesInv, TimesTypeOK
    <3>4. captureTimes # <<>> => (drifted' = (drifted \/ Len(captureTimes) - 1 > kDriftLimit))
          BY <2>4 DEF PublishNv12
    <3>5. captureTimes # <<>> => captureTimes' = Rest(captureTimes)
          BY <2>4 DEF PublishNv12
    <3>7. captureTimes # <<>> =>
              lost' = IF Len(captureTimes) - 1 > kDriftLimit THEN 0 ELSE lost
          BY <2>4 DEF PublishNv12
    <3>6. captureTimes # <<>> =>
              \/ captureTimes' = <<>> /\ drifted' /\ lost' = 0
              \/ captureTimes' = Tail(captureTimes) /\ (~drifted' => ~drifted) /\ lost' = lost
          BY <3>4, <3>5, <3>7, Zenon DEF Rest
    <3> QED BY <3>1, <3>2, <3>3, <3>6
  <2> QED BY <1>2, <2>3, <2>4
<1>3. CASE MftIsReset
      BY <1>0, <1>3, <1>t DEF Fits, MftIsReset, TimesInv, TimesTypeOK
<1>4. CASE UNCHANGED timesVars
      BY <1>4, <1>t DEF timesVars, TimesInv, TimesTypeOK
<1> QED BY <1>s, <1>1, <1>2, <1>3, <1>4 DEF TimesNext

(* A frame carries its own times while the MFT has not swallowed a unit.     *)
(* Times older than the limit are published with one frame for more lost     *)
(* units than the limit, at which the FIFO is emptied (PublishNv12,          *)
(* h264_decoder.cpp:145-207), for every limit and any number of units.       *)
THEOREM PairedWithinLimitCorrect == TimesSpec => PairedWithinLimit
<1>1. TimesInv /\ [TimesNext]_timesVars =>
        [published' # published =>
            LET unit  == published'.unit
                times == published'.times
            IN /\ ~drifted => times = unit
               /\ times > unit => times - unit < Len(held)
               /\ times # NoTimes /\ unit > times + kDriftLimit =>
                      captureTimes' = <<>> /\ lost > kDriftLimit]_timesVars
  <2> DEFINE Paired == published' # published =>
          /\ ~drifted => published'.times = published'.unit
          /\ published'.times > published'.unit =>
                 published'.times - published'.unit < Len(held)
          /\ published'.times # NoTimes /\ published'.unit > published'.times + kDriftLimit =>
                 captureTimes' = <<>> /\ lost > kDriftLimit
  <2> SUFFICES ASSUME TimesInv, PublishNv12, published' # published PROVE Paired
      BY DEF TimesNext, timesVars, FeedAccessUnit, PublishFails, Swallow, MftIsReset
  <2> USE DEF TimesInv, TimesTypeOK
  <2>1. held # <<>> /\ Len(held) >= 1 /\ Head(held) = accepted - Len(held) + 1
        /\ Len(held) <= accepted
        BY TrailingTail DEF PublishNv12, Trailing
  <2>2. CASE captureTimes = <<>>
    <3>1. published' = [unit |-> Head(held), times |-> NoTimes]  BY <2>2 DEF PublishNv12
    <3>2. drifted  BY <2>1, <2>2
    <3> QED BY <2>1, <3>1, <3>2 DEF NoTimes
  <2>3. CASE captureTimes # <<>>
    <3>1. published' = [unit |-> Head(held), times |-> Head(captureTimes)]
          BY <2>3 DEF PublishNv12
    <3>2. Len(captureTimes) >= 1 /\ Head(captureTimes) = accepted - Len(captureTimes) + 1
          BY <2>3, TrailingTail DEF Trailing
    <3>3. Len(captureTimes) - 1 > kDriftLimit => captureTimes' = <<>>
          BY <2>3 DEF PublishNv12, Rest
    <3>4. published'.unit = accepted - Len(held) + 1
          /\ published'.times = accepted - Len(captureTimes) + 1
          BY <2>1, <3>1, <3>2
    <3>5. /\ Len(held) \in Nat /\ Len(captureTimes) \in Nat /\ accepted \in Nat
          /\ kDriftLimit \in Nat /\ lost \in Nat /\ Len(captureTimes) <= Len(held) + lost
          BY TimesAssumption
    <3>6. ~drifted => published'.times = published'.unit  BY <3>4
    <3> QED BY <2>1, <3>2, <3>3, <3>4, <3>5, <3>6
  <2> QED BY <2>2, <2>3
<1> QED BY <1>1, InitTimesInv, NextTimesInv, PTL DEF TimesSpec, PairedWithinLimit

-----------------------------------------------------------------------------
(* AdaptiveHello: the two threads that send a hello and store its size      *)
(* agree in the end, for any sizes of the window and any number of          *)
(* connections, unless they crossed.  The argument: where they did not, the *)
(* two carry one size whenever both are between taking it and storing it,   *)
(* and that is the size of the window; a crossing is over at the next hello *)
(* for which the other thread is at rest.                                   *)

\* OnAccept behind its send.
Storing == lpc \in {"storeWidth", "storeHeight"}

\* MaybeSendResizeHello behind its send.
Resent == mpc \in {"storeWidth", "storeHeight"}

Sizes == Nat \X Nat
DisplaySize == {size \in Sizes : IsDisplaySize(size)}

(* Where the variables lie; only the last session installed is current.    *)
TypeInv ==
    /\ client \in Clients /\ resizeAt \in {"none", "fresh", "due"}
    /\ lastHelloWidth \in Nat /\ lastHelloHeight \in Nat
    /\ newest \in 0..MaxConnections /\ current \in {0, newest}
    /\ announced \in [1..MaxConnections -> DisplaySize \union {NoSize}]
    /\ lpc \in {"accept", "measure", "send", "storeWidth", "storeHeight"}
    /\ lSize \in DisplaySize \union {NoSize}
    /\ mpc \in {"loop", "compareHeight", "differs", "lock", "send", "storeWidth", "storeHeight"}
    /\ mSize \in DisplaySize \union {NoSize}
    /\ active \in 0..newest
    /\ crossed \in BOOLEAN

(* OnAccept's size is the window's where the main thread is at work or has *)
(* no resize to look at.                                                   *)
ListenerInv ==
    /\ lpc # "accept" => newest > 0
    /\ Announcing => lSize \in DisplaySize
    /\ ~crossed /\ Announcing /\ (mpc = "loop" => resizeAt = "none" /\ client # Minimized) =>
           lSize = HelloSize
    /\ ~crossed /\ Storing => announced[newest] = lSize
    /\ ~crossed /\ lpc = "storeHeight" => lastHelloWidth = lSize[1]

(* MaybeSendResizeHello's size is the window's, and no resize is fresh.    *)
MainInv ==
    /\ mpc # "loop" => mSize = HelloSize /\ mSize \in DisplaySize /\ resizeAt # "fresh"
    /\ mpc \in {"compareHeight", "differs"} => resizeAt = "due"
    /\ ~crossed /\ lpc = "accept" /\ mpc \in {"compareHeight", "storeHeight"} =>
           lastHelloWidth = mSize[1]
    /\ mpc = "send" \/ Resent => active # 0
    /\ crossed /\ mpc = "send" /\ lpc # "measure" => active = current

(* What the current sender got is what is stored, or what is about to be;  *)
(* with no resize pending that is the size of the window.                  *)
CurrentInv == ~crossed /\ lpc = "accept" /\ current # 0 =>
    /\ ~Resent => announced[current] = <<lastHelloWidth, lastHelloHeight>>
    /\ Resent => announced[current] = mSize
    /\ mpc = "send" /\ active # current => announced[current] = mSize
    /\ mpc = "loop" /\ resizeAt = "none" /\ client # Minimized => announced[current] = HelloSize

HelloInv == TypeInv /\ ListenerInv /\ MainInv /\ CurrentInv

-----------------------------------------------------------------------------
(* AdaptiveDisplaySize yields sizes an encoder takes (config.cpp:78-92).    *)
LEMMA TwiceIsEncodable ==
    ASSUME NEW x \in Int, 120 <= x, x <= 4096, NEW y, y = 2 * x
    PROVE  Encodable(y)
<1>1. y \in Int /\ y >= 240 /\ y <= 8192  OBVIOUS
<1>2. y % 2 = 0  OBVIOUS
<1> QED BY ONLY <1>1, <1>2 DEF Encodable

LEMMA EvenFits == ASSUME NEW n \in Nat, n >= 240 PROVE Encodable(Even(Cap(n)))
<1> DEFINE c == Cap(n)  half == c \div 2  even == Even(c)
<1>1. c \in Int /\ 240 <= c /\ c <= 8192  BY DEF Cap
<1> HIDE DEF c
<1>2. half \in Int /\ 120 <= half /\ half <= 4096  BY ONLY <1>1
<1>3. even = 2 * half  BY DEF Even
<1> HIDE DEF half, even
<1>4. Encodable(even)  BY ONLY <1>2, <1>3, TwiceIsEncodable
<1> QED BY <1>4, Zenon DEF even, c

LEMMA EncodableNat == ASSUME NEW n, Encodable(n) PROVE n \in Nat
BY DEF Encodable

LEMMA Fits == ASSUME NEW w, NEW h, Encodable(w), Encodable(h) PROVE <<w, h>> \in DisplaySize
<1>1. w \in Nat /\ h \in Nat  BY EncodableNat
<1> QED  BY <1>1 DEF DisplaySize, Sizes, IsDisplaySize

(* The size taken for any client area of the window is a display size.     *)
LEMMA HelloSizeFits == ASSUME client \in Clients
                       PROVE  HelloSize \in DisplaySize
<1>1. client \in Nat \X Nat  BY SizesAssumption
<1>2. CASE client[1] < 320 \/ client[2] < 240
  <2>1. HelloSize = Base  BY <1>2 DEF HelloSize, AdaptiveDisplaySize
  <2> QED  BY <2>1, SizesAssumption DEF DisplaySize, Sizes
<1>3. CASE ~(client[1] < 320 \/ client[2] < 240)
  <2>1. HelloSize = <<Even(Cap(client[1])), Even(Cap(client[2]))>>
    BY <1>3 DEF HelloSize, AdaptiveDisplaySize
  <2>2. client[1] \in Nat /\ client[1] >= 240 /\ client[2] \in Nat /\ client[2] >= 240
    BY <1>1, <1>3
  <2>3. Encodable(Even(Cap(client[1]))) /\ Encodable(Even(Cap(client[2])))
    BY <2>2, EvenFits
  <2> QED  BY <2>1, <2>3, Fits
<1> QED  BY <1>2, <1>3

-----------------------------------------------------------------------------
LEMMA HelloInit == ASSUME SizesInit PROVE HelloInv
<1>1. announced \in [1..MaxConnections -> DisplaySize \union {NoSize}]  BY DEF SizesInit
<1>4. crossed = FALSE /\ client \in Clients /\ resizeAt \in {"none", "fresh", "due"}
  BY Zenon DEF SizesInit
<1>5. /\ current \in {0, newest} /\ newest \in 0..MaxConnections /\ active \in 0..newest
      /\ lastHelloWidth \in Nat /\ lastHelloHeight \in Nat
  BY SizesAssumption DEF SizesInit
<1>6. /\ lpc = "accept" /\ mpc = "loop"
      /\ lSize \in DisplaySize \union {NoSize} /\ mSize \in DisplaySize \union {NoSize}
  BY DEF SizesInit
<1>2. TypeInv  BY <1>1, <1>4, <1>5, <1>6 DEF TypeInv
<1>3. ListenerInv /\ MainInv /\ CurrentInv
  BY DEF SizesInit, ListenerInv, MainInv, CurrentInv, Announcing, Storing, Resent
<1> QED  BY <1>2, <1>3 DEF HelloInv

(* What the window and time do: a new size makes the resize fresh.         *)
LEMMA WindowStep ==
    ASSUME HelloInv,
           (\E area \in Clients : WmSize(area)) \/ ReapEnded \/ SizeSettles \/ TwentySecondsPass
    PROVE  HelloInv'
<1> USE DEF HelloInv, TypeInv, ListenerInv, MainInv, CurrentInv, Announcing, Storing, Resent
<1>1. ASSUME NEW area \in Clients, WmSize(area) PROVE HelloInv'
  <2>1. CASE area = Minimized
    BY <1>1, <2>1 DEF WmSize, lastVars, resizeVars, HelloSize
  <2>2. CASE area # Minimized
    BY <1>1, <2>2 DEF WmSize, lastVars, resizeVars, HelloSize
  <2> QED  BY <2>1, <2>2
<1>2. CASE ReapEnded               BY <1>2 DEF ReapEnded, lastVars, resizeVars, HelloSize
<1>3. CASE SizeSettles        BY <1>3 DEF SizeSettles, lastVars, resizeVars, HelloSize
<1>4. CASE TwentySecondsPass  BY <1>4 DEF TwentySecondsPass, lastVars, resizeVars, HelloSize
<1> QED  BY <1>1, <1>2, <1>3, <1>4

(* MaybeSendResizeHello: what it sends and stores is the window's size,    *)
(* and so is what OnAccept is storing meanwhile.                           *)
LEMMA MainPreserves == ASSUME HelloInv, MainStep PROVE HelloInv'
<1>0. HelloSize \in DisplaySize  BY HelloSizeFits DEF HelloInv, TypeInv
<1>s. \A size \in DisplaySize : size[1] \in Nat /\ size[2] \in Nat /\ size = <<size[1], size[2]>>
  BY DEF DisplaySize, Sizes
<1> USE DEF HelloInv, TypeInv, ListenerInv, MainInv, CurrentInv, Announcing, Storing, Resent,
            MainAt, lastVars
<1>c. ASSUME Changed, mpc \in {"compareHeight", "differs"} PROVE HelloInv'
  <2>1. CASE recent   BY <1>c, <2>1 DEF Changed, HelloSize
  <2>2. CASE ~recent  BY <1>c, <2>2 DEF Changed, HelloSize
  <2> QED  BY <2>1, <2>2
<1>1. CASE CompareWidth   BY <1>1, <1>0 DEF CompareWidth, HelloSize
<1>2. CASE CompareHeight
  <2>1. CASE mSize[2] = lastHelloHeight
    <3>1. Unchanged /\ mpc = "compareHeight"  BY <1>2, <2>1 DEF CompareHeight
    <3>2. ~crossed /\ lpc = "accept" => mSize = <<lastHelloWidth, lastHelloHeight>>
      BY <3>1, <2>1, <1>s
    <3>3. TypeInv' /\ ListenerInv' /\ MainInv'  BY <3>1 DEF Unchanged, HelloSize
    <3>4. CurrentInv'  BY <3>1, <3>2 DEF Unchanged, HelloSize
    <3> QED  BY <3>3, <3>4
  <2>2. CASE mSize[2] # lastHelloHeight
    <3>1. Changed /\ mpc = "compareHeight"  BY <1>2, <2>2 DEF CompareHeight
    <3> QED  BY <3>1, <1>c
  <2> QED  BY <2>1, <2>2
<1>3. CASE Differs  BY <1>3, <1>c DEF Differs
<1>4. CASE Lock     BY <1>4 DEF Lock, HelloSize
<1>5. CASE SendResizeHello
  <2>0. active \in 0..newest /\ newest \in 0..MaxConnections /\ active # 0
    BY <1>5 DEF SendResizeHello
  <2>1. active \in 1..MaxConnections /\ mSize \in DisplaySize
    BY <1>5, <2>0, SizesAssumption DEF SendResizeHello
  <2>2. /\ announced' \in [1..MaxConnections -> DisplaySize \union {NoSize}]
        /\ announced'[active] = mSize
        /\ \A s \in (1..MaxConnections) \ {active} : announced'[s] = announced[s]
    BY <1>5, <2>1 DEF SendResizeHello
  <2>3. HelloSize' = HelloSize  BY <1>5 DEF SendResizeHello, HelloSize
  <2>4. TypeInv'  BY <1>5, <2>2 DEF SendResizeHello
  <2>5. ListenerInv'  BY <1>5, <2>1, <2>2, <2>3 DEF SendResizeHello
  <2>6. MainInv' /\ CurrentInv'  BY <1>5, <2>1, <2>2, <2>3 DEF SendResizeHello
  <2> QED  BY <2>4, <2>5, <2>6
<1>6. CASE StoreResize
  BY <1>6, <1>s, ZenonT(40) DEF StoreResize, HelloSize
<1> QED  BY <1>1, <1>2, <1>3, <1>4, <1>5, <1>6 DEF MainStep

(* OnAccept: what it sends and stores is the window's size where the main  *)
(* thread is at work, and a fresh resize will follow where it is not.      *)
LEMMA ListenerPreserves ==
    ASSUME HelloInv, InstallSession \/ OnAcceptStep PROVE HelloInv'
<1>0. HelloSize \in DisplaySize  BY HelloSizeFits DEF HelloInv, TypeInv
<1>s. \A size \in DisplaySize : size[1] \in Nat /\ size[2] \in Nat /\ size = <<size[1], size[2]>>
  BY DEF DisplaySize, Sizes
<1> USE DEF HelloInv, TypeInv, ListenerInv, MainInv, CurrentInv, Announcing, Storing, Resent,
            ListenerGoes, lastVars, resizeVars
<1>1. CASE InstallSession  BY <1>1, SizesAssumption DEF InstallSession, HelloSize
<1>2. CASE Measure  BY <1>2, <1>0 DEF Measure, HelloSize
<1>3. CASE SendFirstHello
  <2>1. newest \in 1..MaxConnections  BY <1>3 DEF SendFirstHello
  <2>2. /\ announced' \in [1..MaxConnections -> DisplaySize \union {NoSize}]
        /\ announced'[newest] = lSize
    BY <1>3, <2>1 DEF SendFirstHello
  <2> QED  BY <1>3, <2>1, <2>2 DEF SendFirstHello, HelloSize
<1>4. CASE StoreFirst
  <2>1. lSize \in DisplaySize /\ HelloSize' = HelloSize  BY <1>4 DEF StoreFirst, HelloSize
  <2>2. lSize[1] \in Nat /\ lSize[2] \in Nat /\ lSize = <<lSize[1], lSize[2]>>  BY <1>s, <2>1
  <2>3. CASE lpc = "storeWidth"
    <3>1. TypeInv'  BY <1>4, <2>2, <2>3 DEF StoreFirst
    <3>2. ListenerInv' /\ CurrentInv'  BY <1>4, <2>1, <2>3 DEF StoreFirst
    <3>3. MainInv'  BY <1>4, <2>1, <2>3 DEF StoreFirst
    <3> QED BY <3>1, <3>2, <3>3
  <2>4. CASE lpc = "storeHeight"
    <3>1. TypeInv'  BY <1>4, <2>2, <2>4 DEF StoreFirst
    <3>2. ListenerInv'  BY <1>4, <2>1, <2>4 DEF StoreFirst
    <3>3. ~crossed /\ mpc # "loop" => mSize = lSize  BY <2>4
    <3>4. MainInv'  BY <1>4, <2>1, <2>4, <3>3 DEF StoreFirst
    <3>5. ~crossed => lSize = <<lastHelloWidth', lastHelloHeight'>> /\ announced'[newest] = lSize
      BY <1>4, <2>2, <2>4 DEF StoreFirst
    <3>6. ~crossed /\ mpc = "loop" /\ resizeAt = "none" /\ client # Minimized => lSize = HelloSize
      BY <2>4
    <3>7. CurrentInv'  BY <1>4, <2>1, <2>4, <3>3, <3>5, <3>6 DEF StoreFirst
    <3> QED BY <3>1, <3>2, <3>4, <3>7
  <2> QED  BY <1>4, <2>3, <2>4 DEF StoreFirst
<1> QED  BY <1>1, <1>2, <1>3, <1>4 DEF OnAcceptStep

LEMMA HelloStutter == ASSUME HelloInv, UNCHANGED sizesVars PROVE HelloInv'
BY DEF sizesVars, lastVars, resizeVars, HelloInv, TypeInv, ListenerInv, MainInv, CurrentInv, Announcing,
       Storing, Resent, HelloSize

LEMMA HelloInvariant == SizesSpec => []HelloInv
<1>1. HelloInv /\ [SizesNext]_sizesVars => HelloInv'
  BY WindowStep, MainPreserves, ListenerPreserves, HelloStutter DEF SizesNext
<1> QED  BY <1>1, HelloInit, PTL DEF SizesSpec

-----------------------------------------------------------------------------
(* What the receiver stored is what the current sender got, for all sizes   *)
(* and connections, unless the two threads crossed (main.cpp:607-608,        *)
(* 718-736).                                                                *)
THEOREM LastHelloIsKnownCorrect == SizesSpec => []LastHelloIsKnown
<1>1. HelloInv => LastHelloIsKnown
  BY DEF HelloInv, CurrentInv, LastHelloIsKnown, Idle, Resent
<1> QED  BY <1>1, HelloInvariant, PTL

(* No resize is forgotten unless the two threads crossed, and no sender is   *)
(* ever told a size an encoder refuses (main.cpp:603-608, 711-738;           *)
(* config.cpp:82-90).                                                       *)
THEOREM SenderKnowsSizeCorrect == SizesSpec => []SenderKnowsSize
<1>1. HelloInv => SenderKnowsSize
  <2> SUFFICES ASSUME HelloInv PROVE SenderKnowsSize  OBVIOUS
  <2>1. Idle /\ ~crossed /\ resizeAt = "none" /\ client # Minimized => announced[current] = HelloSize
    BY DEF HelloInv, CurrentInv, Idle
  <2>2. \A s \in 1..MaxConnections : announced[s] = NoSize \/ IsDisplaySize(announced[s])
    BY DEF HelloInv, TypeInv, DisplaySize
  <2> QED  BY <2>1, <2>2 DEF SenderKnowsSize
<1> QED  BY <1>1, HelloInvariant, PTL
=============================================================================
