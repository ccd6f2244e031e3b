---------------------------- MODULE AdaptiveHello ----------------------------
(***************************************************************************)
(* Adaptive resolution: the sender is told the size of the window, in the  *)
(* first hello of a connection by the listener thread (App::OnAccept) and  *)
(* after a resize by the main thread (App::MaybeSendResizeHello), which    *)
(* waits 500 ms for the size to settle and 20 s between two requests.      *)
(* Both remember what they sent in two atomics, one per dimension, written *)
(* after the send; the main thread compares with them to save a request.   *)
(* config.adaptiveResolution is on.                                        *)
(***************************************************************************)
EXTENDS Integers

CONSTANTS
    Clients,        \* client areas the window takes, Minimized among them
    Base,           \* the configured display size
    MaxConnections  \* bound: connections in a run

Minimized == <<0, 0>>

(* What an H.264 encoder takes. *)
Encodable(n) == n \in 240..8192 /\ n % 2 = 0
IsDisplaySize(size) == Encodable(size[1]) /\ Encodable(size[2])

ASSUME SizesAssumption ==
    /\ Clients \subseteq Nat \X Nat /\ Minimized \in Clients
    /\ Base \in Nat \X Nat /\ Base[1] >= 320 /\ IsDisplaySize(Base)
    /\ MaxConnections \in Nat

VARIABLES
    client,            \* the client area, as GetClientRect sees it
    resizeAt,          \* App::resizeAtMs: none, fresh, due after 500 ms
    recent,            \* less than 20 s since lastAdaptiveHelloAtMs
    lastHelloWidth, lastHelloHeight,   \* App, each atomic
    current,           \* App::session: its number, 0 for none
    newest,            \* the number of the last session installed
    announced,         \* the size in the last hello each sender got
    lpc, lSize,        \* listener thread in OnAccept: where, and its size
    mpc, mSize, active,\* main thread in MaybeSendResizeHello
    crossed            \* history: it compared another size than the one that
                       \* OnAccept took and did not store yet; no hello since
                       \* that both threads agree on

lastVars == <<lastHelloWidth, lastHelloHeight>>
resizeVars == <<mpc, mSize, active>>
sizesVars == <<client, resizeAt, recent, lastVars, current, newest, announced, lpc,
               lSize, resizeVars, crossed>>

NoSize == <<0, 0>>

-----------------------------------------------------------------------------
(* config.cpp                                                              *)

\* n & ~1
Even(n) == 2 * (n \div 2)

Cap(n) == IF n > 8192 THEN 8192 ELSE n

AdaptiveDisplaySize(area) ==
    IF area[1] < 320 \/ area[2] < 240 THEN Base
    ELSE <<Even(Cap(area[1])), Even(Cap(area[2]))>>

HelloSize == AdaptiveDisplaySize(client)

-----------------------------------------------------------------------------
(* Main thread: messages, the session, time.                               *)

\* WM_SIZE; minimizing changes the client area but is not looked at.
WmSize(area) ==
    /\ mpc = "loop" /\ area # client
    /\ client' = area
    /\ resizeAt' = IF area = Minimized THEN resizeAt ELSE "fresh"
    /\ UNCHANGED <<recent, lastVars, current, newest, announced, lpc, lSize,
                   resizeVars, crossed>>

ReapEnded ==
    /\ mpc = "loop" /\ current # 0
    /\ current' = 0
    /\ UNCHANGED <<client, resizeAt, recent, lastVars, newest, announced, lpc, lSize,
                   resizeVars, crossed>>

\* 500 ms after the last WM_SIZE.
SizeSettles ==
    /\ resizeAt = "fresh"
    /\ resizeAt' = "due"
    /\ UNCHANGED <<client, recent, lastVars, current, newest, announced, lpc, lSize,
                   resizeVars, crossed>>

TwentySecondsPass ==
    /\ recent
    /\ recent' = FALSE
    /\ UNCHANGED <<client, resizeAt, lastVars, current, newest, announced, lpc, lSize,
                   resizeVars, crossed>>

-----------------------------------------------------------------------------
(* Main thread: MaybeSendResizeHello.                                      *)

MainAt(to) == mpc' = to /\ UNCHANGED <<client, current, newest, lpc, lSize>>

\* The size is that of the last hello: nothing to ask for.
Unchanged == MainAt("loop") /\ resizeAt' = "none"
             /\ UNCHANGED <<recent, lastVars, announced, mSize, active, crossed>>

\* Mutant: the request is forgotten when the last one is too recent.
ChangedForgets == /\ MainAt(IF recent THEN "loop" ELSE "lock")
                  /\ resizeAt' = "none"
                  /\ UNCHANGED <<recent, lastVars, announced, mSize, active, crossed>>

\* It differs: wait on while the last request is less than 20 s old.
Changed == /\ MainAt(IF recent THEN "loop" ELSE "lock")
           /\ resizeAt' = IF recent THEN resizeAt ELSE "none"
           /\ UNCHANGED <<recent, lastVars, announced, mSize, active, crossed>>

\* OnAccept has taken a size and not stored it.
Announcing == lpc \in {"send", "storeWidth", "storeHeight"}

\* The width is loaded and compared first.
CompareWidth ==
    /\ mpc = "loop" /\ resizeAt = "due"
    /\ mSize' = HelloSize
    /\ MainAt(IF HelloSize[1] = lastHelloWidth THEN "compareHeight" ELSE "differs")
    /\ crossed' = (crossed \/ (Announcing /\ lSize # HelloSize))
    /\ UNCHANGED <<resizeAt, recent, lastVars, announced, active>>

\* Mutant: only the width decides.
CompareHeightNever == mpc = "compareHeight" /\ Unchanged

CompareHeight ==
    /\ mpc = "compareHeight"
    /\ IF mSize[2] = lastHelloHeight THEN Unchanged ELSE Changed

Differs == mpc = "differs" /\ Changed

\* active = session; with no session the resize is done with.
Lock ==
    /\ mpc = "lock"
    /\ active' = current
    /\ MainAt(IF current = 0 THEN "loop" ELSE "send")
    /\ UNCHANGED <<resizeAt, recent, lastVars, announced, mSize, crossed>>

SendResizeHello ==
    /\ mpc = "send"
    /\ announced' = [announced EXCEPT ![active] = mSize]
    /\ recent' = TRUE
    /\ MainAt("storeWidth")
    /\ crossed' = (crossed /\ lpc # "accept")
    /\ UNCHANGED <<resizeAt, lastVars, mSize, active>>

\* Mutant: the main thread does not store what it sent.
StoreResizeNever ==
    \/ /\ mpc = "storeWidth"
       /\ MainAt("storeHeight")
       /\ UNCHANGED <<lastVars, resizeAt, recent, announced, mSize, active, crossed>>
    \/ /\ mpc = "storeHeight"
       /\ MainAt("loop")
       /\ UNCHANGED <<lastVars, resizeAt, recent, announced, mSize, active, crossed>>

StoreResize ==
    \/ /\ mpc = "storeWidth"
       /\ lastHelloWidth' = mSize[1]
       /\ MainAt("storeHeight")
       /\ UNCHANGED <<lastHelloHeight, resizeAt, recent, announced, mSize, active, crossed>>
    \/ /\ mpc = "storeHeight"
       /\ lastHelloHeight' = mSize[2]
       /\ MainAt("loop")
       /\ UNCHANGED <<lastHelloWidth, resizeAt, recent, announced, mSize, active, crossed>>

-----------------------------------------------------------------------------
(* Listener thread: OnAccept.                                              *)

ListenerGoes(from, to) ==
    /\ lpc = from /\ lpc' = to
    /\ UNCHANGED <<client, resizeAt, recent, resizeVars>>

InstallSession ==
    /\ newest < MaxConnections
    /\ ListenerGoes("accept", "measure")
    /\ newest' = newest + 1 /\ current' = newest + 1
    /\ UNCHANGED <<lastVars, announced, lSize, crossed>>

Measure ==
    /\ ListenerGoes("measure", "send")
    /\ lSize' = HelloSize /\ crossed' = FALSE
    /\ UNCHANGED <<lastVars, current, newest, announced>>

SendFirstHello ==
    /\ ListenerGoes("send", "storeWidth")
    /\ announced' = [announced EXCEPT ![newest] = lSize]
    /\ UNCHANGED <<lastVars, current, newest, lSize, crossed>>

StoreFirst ==
    \/ /\ ListenerGoes("storeWidth", "storeHeight")
       /\ lastHelloWidth' = lSize[1]
       /\ UNCHANGED <<lastHelloHeight, current, newest, announced, lSize, crossed>>
    \/ /\ ListenerGoes("storeHeight", "accept")
       /\ lastHelloHeight' = lSize[2]
       /\ UNCHANGED <<lastHelloWidth, current, newest, announced, lSize, crossed>>

-----------------------------------------------------------------------------
SizesInit ==
    /\ client \in Clients \ {Minimized}
    /\ resizeAt \in {"none", "fresh"} /\ recent = FALSE
    /\ lastHelloWidth = 0 /\ lastHelloHeight = 0
    /\ current = 0 /\ newest = 0
    /\ announced = [s \in 1..MaxConnections |-> NoSize]
    /\ lpc = "accept" /\ lSize = NoSize
    /\ mpc = "loop" /\ mSize = NoSize /\ active = 0 /\ crossed = FALSE

MainStep == CompareWidth \/ CompareHeight \/ Differs \/ Lock \/ SendResizeHello \/ StoreResize
OnAcceptStep == Measure \/ SendFirstHello \/ StoreFirst

SizesNext ==
    \/ (\E area \in Clients : WmSize(area)) \/ ReapEnded
    \/ SizeSettles \/ TwentySecondsPass
    \/ MainStep \/ InstallSession \/ OnAcceptStep

SizesSpec == SizesInit /\ [][SizesNext]_sizesVars

(* Both threads run and time passes; window and senders do as they please. *)
SizesFairness ==
    /\ WF_sizesVars(MainStep) /\ WF_sizesVars(OnAcceptStep)
    /\ WF_sizesVars(SizeSettles) /\ WF_sizesVars(TwentySecondsPass)

SizesFairSpec == SizesSpec /\ SizesFairness

-----------------------------------------------------------------------------
(* Properties.                                                             *)

Idle == lpc = "accept" /\ mpc = "loop" /\ current # 0

(* What the receiver believes it announced is what the current sender got   *)
(* last, although two threads send and store, for sessions that replace one *)
(* another (main.cpp:607-608, 718-736): only then may a request be saved.   *)
(* Not where they crossed: a resize that settles while OnAccept's send      *)
(* blocks is sent and stored between that send and its stores.  The next    *)
(* hello sent undisturbed mends it.                                         *)
LastHelloIsKnown ==
    Idle /\ ~crossed => announced[current] = <<lastHelloWidth, lastHelloHeight>>

(* No resize is forgotten: with none pending, the sender knows the size of  *)
(* a visible window, whichever thread told it (main.cpp:603-608, 711-738),   *)
(* but where the two threads crossed; and no sender is ever told one that   *)
(* its encoder refuses, not even then (config.cpp:82-90).                   *)
SenderKnowsSize ==
    /\ Idle /\ ~crossed /\ resizeAt = "none" /\ client # Minimized =>
           announced[current] = HelloSize
    /\ \A s \in 1..MaxConnections : announced[s] = NoSize \/ IsDisplaySize(announced[s])

SizeKnown == current = 0 \/ client = Minimized \/ announced[current] = HelloSize

Settled == <>[][UNCHANGED <<client, current>>]_sizesVars

(* "The requested size follows both client dimensions" (README.md:119-120): *)
(* once window and session stay, the sender learns the size of the window.  *)
SizeReachesSender == Settled => []<>SizeKnown

(* It does unless the two threads crossed, and since then neither a new     *)
(* connection nor a resize had its hello.                                   *)
SizeReachesUncrossed == Settled => []<>(SizeKnown \/ crossed)
=============================================================================
