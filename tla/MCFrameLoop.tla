---------------------------- MODULE MCFrameLoop ----------------------------
(* The frame loop with two workers and an int of two bits.                  *)
EXTENDS FrameLoop
=============================================================================
