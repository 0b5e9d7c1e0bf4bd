----------------------------- MODULE MCLogging -----------------------------
(* The log with a few threads, each of which writes a line or two.  No name  *)
(* of a thread is special, so the runs of safety properties may permute them.*)
EXTENDS Logging, TLC

Symmetry == Permutations(Threads)
=============================================================================
