-------------------------- MODULE MCVideoPipeline --------------------------
(* VideoPipeline on its own, for the run that asks for a repair after every *)
(* drop.                                                                    *)
EXTENDS VideoPipeline
============================================================================
