--------------------------- MODULE MCFrameDecoder ---------------------------
(* FrameDecoder on all streams of up to MaxFrames short frames, cut in     *)
(* every way.  With at most 3 frames of at most 6 bytes every payload byte *)
(* is a different number above every length byte.                          *)
EXTENDS FrameDecoder

MCPayloadByte(k, i) == 255 - 16 * k - i
=============================================================================
