----------------------------- MODULE MCStartup -----------------------------
(* Start-up on a machine with up to three adapters, with the engine's numbers  *)
(* of frame buffers and of render threads.                                   *)
EXTENDS Startup
=============================================================================
