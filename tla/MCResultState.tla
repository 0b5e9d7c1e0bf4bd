--------------------------- MODULE MCResultState ---------------------------
(* One producer and one consumer of one result.                             *)
EXTENDS ResultState
=============================================================================
