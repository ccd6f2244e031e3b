--------------------------- MODULE MCAppLifecycle ---------------------------
(* AppLifecycle on its own, for the run that asks whether the advertiser    *)
(* gets round to its announcements.                                         *)
EXTENDS AppLifecycle
=============================================================================
