------------------------------ MODULE Executor ------------------------------
(***************************************************************************)
(* What an executor promises about the tasks given to it: a task is run    *)
(* once or, when the executor is shut down before the task began, it is    *)
(* broken; never both and never twice.                                     *)
(*                                                                         *)
(* ThreadPool implements this specification.                               *)
(***************************************************************************)
CONSTANT Tasks

VARIABLES waiting, running, done, broken,   \* where each submitted task is
          closed                            \* shutdown was called

vars == <<waiting, running, done, broken, closed>>

Fresh == Tasks \ (waiting \cup running \cup done \cup broken)

Init == waiting = {} /\ running = {} /\ done = {} /\ broken = {} /\ ~closed

Submit(t) ==
    /\ t \in Fresh
    /\ waiting' = waiting \cup {t}
    /\ UNCHANGED <<running, done, broken, closed>>

Begin(t) ==
    /\ t \in waiting
    /\ waiting' = waiting \ {t} /\ running' = running \cup {t}
    /\ UNCHANGED <<done, broken, closed>>

End(t) ==
    /\ t \in running
    /\ running' = running \ {t} /\ done' = done \cup {t}
    /\ UNCHANGED <<waiting, broken, closed>>

\* What was waiting in a queue that is closed, and what comes too late.
Break(ts) ==
    /\ closed /\ ts \subseteq waiting \cup Fresh
    /\ waiting' = waiting \ ts /\ broken' = broken \cup ts
    /\ UNCHANGED <<running, done, closed>>

Close == ~closed /\ closed' = TRUE /\ UNCHANGED <<waiting, running, done, broken>>

Next ==
    \/ \E t \in Tasks : Submit(t) \/ Begin(t) \/ End(t)
    \/ \E ts \in SUBSET Tasks : Break(ts)
    \/ Close

Spec == Init /\ [][Next]_vars
=============================================================================
