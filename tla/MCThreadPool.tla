---------------------------- MODULE MCThreadPool ----------------------------
(* Two workers and four tasks: as many as it takes until a task submits one  *)
(* while its worker has others and no worker is idle.                        *)
EXTENDS ThreadPool
=============================================================================
