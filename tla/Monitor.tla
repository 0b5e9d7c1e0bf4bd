------------------------------- MODULE Monitor -------------------------------
(***************************************************************************)
(* What async_lock and async_condition_variable promise together: at most  *)
(* one coroutine is inside; awaiting the condition leaves and begins to    *)
(* wait in one step; a notification releases who has waited longest, or    *)
(* everybody, and they have to enter again.                                *)
(*                                                                         *)
(* AsyncConditionVariable implements this specification.                   *)
(***************************************************************************)
EXTENDS Sequences

CONSTANT Coroutines

VARIABLES entering,    \* those that want to enter
          inside,      \* who is inside, as a set
          waiting      \* those that wait for the condition, the first first

vars == <<entering, inside, waiting>>

Waits(c) == \E i \in DOMAIN waiting : waiting[i] = c

Init == entering = {} /\ inside = {} /\ waiting = <<>>

Ask(c) ==
    /\ c \notin entering \cup inside /\ ~Waits(c)
    /\ entering' = entering \cup {c}
    /\ UNCHANGED <<inside, waiting>>

Enter(c) ==
    /\ inside = {} /\ ~Waits(c)
    /\ inside' = {c} /\ entering' = entering \ {c}
    /\ UNCHANGED waiting

Leave(c) ==
    /\ c \in inside
    /\ inside' = {}
    /\ UNCHANGED <<entering, waiting>>

Wait(c) ==
    /\ c \in inside
    /\ inside' = {} /\ waiting' = Append(waiting, c)
    /\ UNCHANGED entering

NotifyOne ==
    /\ waiting # <<>>
    /\ waiting' = Tail(waiting)
    /\ UNCHANGED <<entering, inside>>

NotifyAll == waiting' = <<>> /\ UNCHANGED <<entering, inside>>

\* An executor that is shut down throws the coroutine out.
GiveUp(c) ==
    /\ c \in entering
    /\ entering' = entering \ {c}
    /\ UNCHANGED <<inside, waiting>>

Next ==
    \/ \E c \in Coroutines : Ask(c) \/ Enter(c) \/ Leave(c) \/ Wait(c) \/ GiveUp(c)
    \/ NotifyOne \/ NotifyAll

Spec == Init /\ [][Next]_vars
=============================================================================
