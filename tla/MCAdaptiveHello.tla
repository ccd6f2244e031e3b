--------------------------- MODULE MCAdaptiveHello ---------------------------
(* AdaptiveHello with window sizes that share the width or the height of    *)
(* the configured one, which the window can take as well; one of them odd,  *)
(* one above 8192.                                                          *)
EXTENDS AdaptiveHello

MCBase == <<1280, 720>>
MCClients == {Minimized, MCBase, <<1281, 481>>, <<9001, 720>>}
=============================================================================
