----------------------------- MODULE MCReceiver -----------------------------
(* Three parts of the program that share no state, each on a small instance *)
(* of its own: `part` says which one runs, the others stay where they began.*)
(* The threads around the video queue; the window, in two halves; and the   *)
(* sizes that are announced.                                                *)
EXTENDS AppLifecycle, MainWindow, AdaptiveHello

VARIABLE part

\* Mouse positions at the left edge and right of the rectangle.
MCPixels == {0, 3}

\* Window sizes that share the width or the height of the configured one,
\* which the window can take as well; one of them odd, one above 8192.
MCBase == <<1280, 720>>
MCClients == {Minimized, MCBase, <<1281, 481>>, <<9001, 720>>}

MCInit ==
    /\ part \in {"threads", "mouse", "pictures", "sizes"}
    /\ Init /\ WindowInit /\ SizesInit
    /\ part # "pictures" => clientW = CHOOSE w \in Sizes : TRUE
    /\ part # "sizes" => client = MCBase /\ resizeAt = "none"

\* The mouse with sessions that come and go and one picture, or pictures, the
\* window's size and failures with a mouse that stays where it is.
MCWindow ==
    /\ WindowNext
    /\ \/ part = "mouse" /\ latest'.n <= 1 /\ UNCHANGED <<clientW, failures>>
       \/ part = "pictures" /\ UNCHANGED <<sessions, pointer>>

MCNext ==
    /\ UNCHANGED part
    /\ \/ part = "threads" /\ Next /\ UNCHANGED <<windowVars, sizesVars>>
       \/ MCWindow /\ UNCHANGED <<vars, sizesVars>>
       \/ part = "sizes" /\ SizesNext /\ UNCHANGED <<vars, windowVars>>

\* Fairness of AppLifecycle and WindowFairness of MainWindow, for the part
\* that runs.
MCFairness ==
    /\ WF_vars(part = "threads" /\ SetUp) /\ WF_vars(part = "threads" /\ TearDown)
    /\ WF_vars(part = "threads" /\ decoding = "pop" /\ PopWait /\ CallPopWait)
    /\ WF_vars(part = "threads" /\ DecodeStep)
    /\ WF_vars(part = "threads" /\ Responder /\ MdnsStep)
    /\ WF_windowVars(part \in {"mouse", "pictures"} /\ SendTouch)
    /\ SF_windowVars(part \in {"mouse", "pictures"} /\ TakeLatest)
    /\ WF_windowVars(part \in {"mouse", "pictures"} /\ Draw)

MCSpec == MCInit /\ [][MCNext]_<<part, vars, windowVars, sizesVars>>
          /\ MCFairness /\ SizesFairness
=============================================================================
