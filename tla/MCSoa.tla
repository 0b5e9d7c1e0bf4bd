------------------------------- MODULE MCSoa -------------------------------
(* A container of three types on a machine whose uint64_t has 64 values, so   *)
(* that some of the lengths asked for do not fit.                            *)
EXTENDS Soa
=============================================================================
