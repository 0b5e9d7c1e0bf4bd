--------------------------- MODULE FramePipeline ---------------------------
(***************************************************************************)
(* What a frame promises, whatever threads run it: the timeline of         *)
(* readme.txt ("Example frame timeline").  Game and Render overlap freely  *)
(* inside a frame, the Sync window opens when both are over, and a new     *)
(* frame or the end of the game comes only after the Sync window.          *)
(*                                                                         *)
(* FrameLoop implements this specification.                                *)
(***************************************************************************)

CONSTANT Tasks            \* the updates of one frame

VARIABLES status,         \* how far each update of the current frame is
          phase           \* "frame", "sync" or "closed"

vars == <<status, phase>>

TypeOK ==
    /\ status \in [Tasks -> {"none", "running", "done"}]
    /\ phase \in {"frame", "sync", "closed"}

NoUpdates == status = [k \in Tasks |-> "none"]

Init == NoUpdates /\ phase = "frame"

Start(k) ==
    /\ phase = "frame" /\ status[k] = "none"
    /\ status' = [status EXCEPT ![k] = "running"]
    /\ UNCHANGED phase

Finish(k) ==
    /\ status[k] = "running"
    /\ status' = [status EXCEPT ![k] = "done"]
    /\ UNCHANGED phase

OpenSync ==
    /\ phase = "frame"
    /\ \A k \in Tasks : status[k] = "done"
    /\ status' = [k \in Tasks |-> "none"]
    /\ phase' = "sync"

EndFrame ==
    /\ phase = "sync"
    /\ phase' = "frame"
    /\ UNCHANGED status

Close ==
    /\ phase = "frame" /\ NoUpdates
    /\ phase' = "closed"
    /\ UNCHANGED status

Next ==
    \/ \E k \in Tasks : Start(k) \/ Finish(k)
    \/ OpenSync
    \/ EndFrame
    \/ Close

Spec == Init /\ [][Next]_vars
=============================================================================
