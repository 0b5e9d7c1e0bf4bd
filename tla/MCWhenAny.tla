------------------------------ MODULE MCWhenAny ------------------------------
(* Three results, so that two may come while the coroutine registers with    *)
(* the third, and three calls.                                               *)
EXTENDS WhenAny
=============================================================================
