------------------------------- MODULE Future -------------------------------
(***************************************************************************)
(* What a result object promises to the producer and the one consumer of   *)
(* an asynchronous value: it is fulfilled once, the consumer takes exactly *)
(* what was put in or gives it up, and the memory is reclaimed once, after *)
(* both sides are through with it.                                         *)
(*                                                                         *)
(* ResultState implements this specification.                              *)
(***************************************************************************)
CONSTANTS Values,      \* what an asynchronous task may yield
          Empty        \* no value

VARIABLES slot,        \* the published value
          holder,      \* the consumer: "holding", "taken" or "dropped"
          got,         \* what the consumer took
          reclaimed    \* the shared state was freed

vars == <<slot, holder, got, reclaimed>>

Init == slot = Empty /\ holder = "holding" /\ got = Empty /\ ~reclaimed

\* To whom the last user of the shared state falls: it frees it.
Fulfil(v) ==
    /\ slot = Empty
    /\ slot' = v
    /\ reclaimed' = (holder = "dropped")
    /\ UNCHANGED <<holder, got>>

Take ==
    /\ holder = "holding" /\ slot # Empty
    /\ holder' = "taken" /\ got' = slot
    /\ ~reclaimed /\ reclaimed' = TRUE
    /\ UNCHANGED slot

Drop ==
    /\ holder = "holding"
    /\ holder' = "dropped"
    /\ ~reclaimed /\ reclaimed' = (slot # Empty)
    /\ UNCHANGED <<slot, got>>

Next == (\E v \in Values : Fulfil(v)) \/ Take \/ Drop

Spec == Init /\ [][Next]_vars
=============================================================================
