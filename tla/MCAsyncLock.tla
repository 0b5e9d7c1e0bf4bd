----------------------------- MODULE MCAsyncLock -----------------------------
(* Three coroutines that share one lock and one condition variable.          *)
EXTENDS AsyncConditionVariable
=============================================================================
