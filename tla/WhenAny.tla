------------------------------- MODULE WhenAny -------------------------------
(***************************************************************************)
(* when_any: a coroutine awaits several results at once and is resumed by  *)
(* the first to be there.  Each call has a context of its own; its status  *)
(* is "processing" while the coroutine registers the context with one      *)
(* result after the other, "done_processing" once it is through, and then  *)
(* the result that came first.  Resumed, the coroutine takes the context   *)
(* back from every result, and may call when_any again with the others.    *)
(*                                                                         *)
(* An action is one access to shared memory.  A result is the part of      *)
(* ResultState that when_any touches; what the caller does with a result   *)
(* it was told of is ResultState's.                                        *)
(***************************************************************************)
EXTENDS Integers, FiniteSets

CONSTANT NumResults    \* how many results are given to the first call

ASSUME NumResultsAssumption == NumResults \in Nat \ {0}

Results == 1..NumResults
Calls == 1..NumResults
None == 0

\* k_processing and k_done_processing, the statuses that are no result.
Processing == -1
DoneProcessing == 0
Open == {Processing, DoneProcessing}

VARIABLES
    pcState,       \* m_pc_state of each result
    ctx,           \* m_consumer of each result: the call whose context it is, or None
    status,        \* m_status of each call's context
    asked,         \* the results given to the call
    call,          \* the call that is going on, or was last
    pos,           \* the result the loop of the call is at
    consumer,      \* where the coroutine is
    producer,      \* where the producer of each result is
    context,       \* the context it has read, with the status it has loaded
    missed         \* history: the results that were done when the call registered with them

results == <<pcState, ctx>>
consumers == <<asked, call, pos, consumer>>
producers == <<producer, context>>
vars == <<results, status, consumers, producers, missed>>

NoContext == [call |-> None, saw |-> Processing]

Init ==
    /\ pcState = [i \in Results |-> "idle"]
    /\ ctx = [i \in Results |-> None]
    /\ status = [k \in Calls |-> Processing]
    /\ asked = Results /\ call = 0 /\ pos = 1 /\ consumer = "ready"
    /\ producer = [i \in Results |-> "work"]
    /\ context = [i \in Results |-> NoContext]
    /\ missed = {}

TypeOK ==
    /\ pcState \in [Results -> {"idle", "consumer_set", "producer_done"}]
    /\ ctx \in [Results -> Calls \cup {None}]
    /\ status \in [Calls -> Results \cup Open]
    /\ asked \subseteq Results /\ missed \subseteq Results
    /\ call \in Calls \cup {None} /\ pos \in Results
    /\ consumer \in {"ready", "check", "load", "set", "cas", "inline", "finish",
                     "suspended", "rewind", "clear", "answered"}
    /\ producer \in [Results -> {"work", "resume", "load", "swap", "call", "done"}]
    /\ context \in [Results -> [call : Calls \cup {None}, saw : Results \cup Open]]

-----------------------------------------------------------------------------
(* await_suspend: the loop over the results.                               *)

First(S) == CHOOSE i \in S : \A j \in S : i <= j
After(i) == {j \in asked : j > i}

\* The loop goes on with the next result at p, or leaves to q.
NextResult(p, q) ==
    IF After(pos) = {}
    THEN consumer' = q /\ pos' = First(asked)
    ELSE consumer' = p /\ pos' = First(After(pos))

Call ==
    /\ consumer = "ready" /\ asked # {}
    /\ call' = call + 1 /\ pos' = First(asked) /\ consumer' = "check"
    /\ missed' = {}
    /\ UNCHANGED <<results, status, asked, producers>>

\* Done with the loop, however it came to be: every result is rewound.
Answered == consumer' = "rewind" /\ pos' = First(asked)

\* any_result_finished: a result registered before has come meanwhile.
AnyResultFinished ==
    /\ consumer = "check"
    /\ IF status[call] = Processing
       THEN consumer' = "load" /\ UNCHANGED pos
       ELSE Answered
    /\ UNCHANGED <<results, status, asked, call, producers, missed>>

\* result_state_base::when_any: the load, the context and the compare and exchange.
Load ==
    /\ consumer = "load"
    /\ consumer' = IF pcState[pos] = "producer_done" THEN "inline" ELSE "set"
    /\ UNCHANGED <<results, status, asked, call, pos, producers, missed>>

ResumeInline ==
    /\ consumer = "inline"
    /\ status' = [status EXCEPT ![call] = IF @ = Processing THEN pos ELSE @]
    /\ Answered
    /\ UNCHANGED <<results, asked, call, producers, missed>>

SetContext ==
    /\ consumer = "set" /\ consumer' = "cas"
    /\ ctx' = [ctx EXCEPT ![pos] = call]
    /\ UNCHANGED <<pcState, status, asked, call, pos, producers, missed>>

\* It returns the state it loaded, whether the exchange succeeds or not: the loop
\* does not learn that the result is done, and its producer did not find the context.
Register ==
    /\ consumer = "cas"
    /\ IF pcState[pos] = "idle"
       THEN /\ pcState' = [pcState EXCEPT ![pos] = "consumer_set"]
            /\ UNCHANGED missed
       ELSE /\ missed' = missed \cup {pos}
            /\ UNCHANGED pcState
    /\ NextResult("check", "finish")
    /\ UNCHANGED <<ctx, status, asked, call, producers>>

FinishProcessing ==
    /\ consumer = "finish"
    /\ IF status[call] = Processing
       THEN /\ status' = [status EXCEPT ![call] = DoneProcessing]
            /\ consumer' = "suspended" /\ UNCHANGED pos
       ELSE Answered /\ UNCHANGED status
    /\ UNCHANGED <<results, asked, call, producers, missed>>

-----------------------------------------------------------------------------
(* await_resume: try_rewind_consumer for every result.                     *)

\* A bug: the context is taken back though the producer may be reading it.
RewindBlindly ==
    /\ consumer = "rewind"
    /\ pcState' = [pcState EXCEPT ![pos] = IF @ = "consumer_set" THEN "idle" ELSE @]
    /\ consumer' = "clear" /\ UNCHANGED pos
    /\ UNCHANGED <<ctx, status, asked, call, producers, missed>>

\* The producer may still come first.
Rewind ==
    /\ consumer = "rewind"
    /\ IF pcState[pos] = "consumer_set"
       THEN /\ pcState' = [pcState EXCEPT ![pos] = "idle"]
            /\ consumer' = "clear" /\ UNCHANGED pos
       ELSE NextResult("rewind", "answered") /\ UNCHANGED pcState
    /\ UNCHANGED <<ctx, status, asked, call, producers, missed>>

Clear ==
    /\ consumer = "clear"
    /\ ctx' = [ctx EXCEPT ![pos] = None]
    /\ NextResult("rewind", "answered")
    /\ UNCHANGED <<pcState, status, asked, call, producers, missed>>

\* The caller keeps the results it was not told of for its next call.
Answer ==
    /\ consumer = "answered" /\ consumer' = "ready"
    /\ asked' = asked \ {status[call]}
    /\ UNCHANGED <<results, status, call, pos, producers, missed>>

-----------------------------------------------------------------------------
(* The producers: complete_producer, resume_consumer and try_resume.       *)

ProducerIs(i, p) == producer' = [producer EXCEPT ![i] = p]

CompleteProducer(i) ==
    /\ producer[i] = "work"
    /\ ProducerIs(i, IF pcState[i] = "consumer_set" THEN "resume" ELSE "done")
    /\ pcState' = [pcState EXCEPT ![i] = "producer_done"]
    /\ UNCHANGED <<ctx, status, consumers, context, missed>>

ResumeConsumer(i) ==
    /\ producer[i] = "resume"
    /\ IF ctx[i] = None
       THEN ProducerIs(i, "done") /\ UNCHANGED context
       ELSE /\ context' = [context EXCEPT ![i].call = ctx[i]]
            /\ ProducerIs(i, "load")
    /\ UNCHANGED <<results, status, consumers, missed>>

TryLoad(i) ==
    /\ producer[i] = "load"
    /\ LET now == status[context[i].call]
       IN  /\ ProducerIs(i, IF now \in Open THEN "swap" ELSE "done")
           /\ context' = [context EXCEPT ![i].saw = now]
    /\ UNCHANGED <<results, status, consumers, missed>>

\* A bug: whoever loses an exchange leaves.
BailOut(saw) == "done"

\* Where a producer goes whose exchange failed.
Retry(saw) == IF saw = Processing THEN "load" ELSE "done"

\* A bug: a plain store for the exchange.
TryStore(i) ==
    /\ producer[i] = "swap"
    /\ status' = [status EXCEPT ![context[i].call] = i]
    /\ ProducerIs(i, IF context[i].saw = Processing THEN "done" ELSE "call")
    /\ UNCHANGED <<results, consumers, context, missed>>

\* The first to come leaves itself in the status; it resumes the coroutine if that one
\* is through with its loop, and leaves it to the loop if not.
TrySwap(i) ==
    /\ producer[i] = "swap"
    /\ LET k == context[i].call
           saw == context[i].saw
       IN  IF status[k] = saw
           THEN /\ status' = [status EXCEPT ![k] = i]
                /\ ProducerIs(i, IF saw = Processing THEN "done" ELSE "call")
           ELSE /\ ProducerIs(i, Retry(saw))
                /\ UNCHANGED status
    /\ UNCHANGED <<results, consumers, context, missed>>

\* m_coro_handle(): the coroutine goes on, on the producer's thread.
CallHandle(i) ==
    /\ producer[i] = "call"
    /\ ProducerIs(i, "done")
    /\ Answered
    /\ UNCHANGED <<results, status, asked, call, context, missed>>

-----------------------------------------------------------------------------
Consumer ==
    \/ AnyResultFinished \/ Load \/ ResumeInline \/ SetContext \/ Register
    \/ FinishProcessing \/ Rewind \/ Clear \/ Answer
Producer(i) ==
    \/ CompleteProducer(i) \/ ResumeConsumer(i) \/ TryLoad(i) \/ TrySwap(i) \/ CallHandle(i)

\* Every task has ended and the coroutine has called for the last time; or it is
\* suspended for good, which only AnsweredUnlessMissed can excuse.
Over ==
    /\ \A i \in Results : producer[i] = "done"
    /\ consumer \in {"ready", "suspended"}
    /\ UNCHANGED vars

Next == Call \/ Consumer \/ (\E i \in Results : Producer(i)) \/ Over

\* The tasks end, and a coroutine that called goes on; it need not call again.
Spec == Init /\ [][Next]_vars
FairSpec == Spec /\ WF_vars(Consumer) /\ \A i \in Results : WF_vars(Producer(i))

-----------------------------------------------------------------------------
(* Properties.                                                             *)

\* The coroutine is resumed once per call, while it is suspended, and is told of a
\* result that is done and that it asked for (await_resume's assertion), whoever else
\* comes at the same time and whatever contexts of earlier calls are still in use.
OneAnswer ==
    /\ Cardinality({i \in Results : producer[i] = "call"}) <= 1
    /\ \A i \in Results :
           producer[i] = "call" =>
               consumer = "suspended" /\ status[call] = i /\ context[i].call = call
    /\ consumer \in {"rewind", "clear", "answered"} =>
           status[call] \in asked /\ pcState[status[call]] = "producer_done"
    /\ consumer = "suspended" => status[call] # Processing

\* A producer on its way to the context finds it whole: neither being set nor being
\* cleared, and a new context is only set where the old one was cleared
\* (set_when_any_context's assertion).
ContextWhole ==
    /\ \A i \in Results :
           producer[i] = "resume" =>
               ctx[i] # None /\ ~(consumer \in {"set", "cas", "clear"} /\ pos = i)
    /\ consumer = "set" => ctx[pos] = None

\* A coroutine is not suspended for good when a result it asked for is there, unless
\* every one of them came between the load and the exchange of its registration.
AnsweredUnlessMissed ==
    (consumer = "suspended") ~> (consumer # "suspended" \/ asked \subseteq missed)

\* It goes on once one result is there.  This the code does not keep.
AlwaysAnswered == (consumer = "suspended") ~> (consumer # "suspended")
=============================================================================
