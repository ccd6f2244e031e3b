----------------------------- MODULE LossyBuffer -----------------------------
(***************************************************************************)
(* What the video queue promises its two users, without locks, waiting or  *)
(* storage: samples are numbered as they are put, the buffer holds the     *)
(* latest of them, at most N, and hands them out in order, each at most    *)
(* once; a sample is lost only because N later ones were put.              *)
(***************************************************************************)
EXTENDS Naturals

CONSTANT N    \* the most samples held

VARIABLES
    put,      \* samples put so far
    gone,     \* samples 1..gone are handed out or lost
    taken,    \* the sample handed out last; 0: none
    closed    \* nobody has to take any more

vars == <<put, gone, taken, closed>>

Init == put = 0 /\ gone = 0 /\ taken = 0 /\ closed = FALSE

Put ==
    /\ put' = put + 1
    /\ gone' = IF put - gone = N THEN gone + 1 ELSE gone
    /\ UNCHANGED <<taken, closed>>

Take ==
    /\ gone < put
    /\ taken' = gone + 1 /\ gone' = gone + 1
    /\ UNCHANGED <<put, closed>>

Close == closed' = TRUE /\ UNCHANGED <<put, gone, taken>>

Next == Put \/ Take \/ Close

Spec == Init /\ [][Next]_vars

\* As long as the buffer is open, samples are taken out of it.
FairSpec == Spec /\ WF_vars(~closed /\ Take)
=============================================================================
