---------------------------- MODULE ResultState ----------------------------
(***************************************************************************)
(* result_state: the state a result object shares with the task that       *)
(* produces its value.  Every frame of the engine goes through four of     *)
(* them and WinMain through one.  The producer and the consumer meet in    *)
(* one atomic word, pcState; what they hand over beside it, the value and  *)
(* the consumer context, is plain memory.                                  *)
(*                                                                         *)
(* An action is one access to shared memory.  The consumer may get() the   *)
(* value, co_await it, poll it with wait_for() or drop the result object.  *)
(***************************************************************************)
EXTENDS Naturals

CONSTANTS Values,      \* results and exceptions a task may end with
          Empty        \* nothing built yet

ASSUME ValuesAssumption == Empty \notin Values

VARIABLES
    pcState,           \* m_pc_state
    ctx,               \* m_consumer: whom complete_producer is to resume
    value,             \* m_producer
    sem,               \* the semaphore of the wait_for() call going on
    producer,          \* where the producer is
    consumer,          \* where the consumer is
    got,               \* what the consumer was given
    freed              \* how often delete_self ran

vars == <<pcState, ctx, value, sem, producer, consumer, got, freed>>

ProducerPoints == {"work", "publish", "resume", "release", "notify", "done"}
ConsumerPoints ==
    {"holding", "get_cas", "get_check", "get_wait", "asleep",
     "await_set", "await_cas", "suspended",
     "wf_set", "wf_cas", "wf_acquire", "wf_rewind", "wf_clear",
     "take", "drop", "gone"}

TypeOK ==
    /\ pcState \in {"idle", "consumer_set", "consumer_waiting", "consumer_done", "producer_done"}
    /\ ctx \in {"idle", "await", "wait_for"}
    /\ value \in Values \cup {Empty}
    /\ sem \in {0, 1}
    /\ producer \in ProducerPoints
    /\ consumer \in ConsumerPoints
    /\ got \in Values \cup {Empty}
    /\ freed \in {0, 1}

Init ==
    /\ pcState = "idle" /\ ctx = "idle" /\ value = Empty /\ sem = 0
    /\ producer = "work" /\ consumer = "holding"
    /\ got = Empty /\ freed = 0

ConsumerGoes(from, to) == consumer = from /\ consumer' = to

\* m_pc_state.load, with where to go when the result is there and when not.
LoadDone(from, done, other) ==
    ConsumerGoes(from, IF pcState = "producer_done" THEN done ELSE other)

\* compare_exchange_strong(idle, wanted).  It fails only to a finished producer.
BlindStore(wanted, from, won, lost) ==
    /\ ConsumerGoes(from, won)
    /\ pcState' = wanted
CasIdle(wanted, from, won, lost) ==
    /\ ConsumerGoes(from, IF pcState = "idle" THEN won ELSE lost)
    /\ pcState' = IF pcState = "idle" THEN wanted ELSE pcState

DeleteSelf == freed' = freed + 1

-----------------------------------------------------------------------------
(* result::get: wait(), then the value, then the state is deleted.         *)

GetLoad ==
    /\ LoadDone("holding", "take", "get_cas")
    /\ UNCHANGED <<pcState, ctx, value, sem, producer, got, freed>>

GetCas ==
    /\ CasIdle("consumer_waiting", "get_cas", "get_check", "take")
    /\ UNCHANGED <<ctx, value, sem, producer, got, freed>>

GetCheck ==
    /\ LoadDone("get_check", "take", "get_wait")
    /\ UNCHANGED <<pcState, ctx, value, sem, producer, got, freed>>

\* atomic::wait compares and goes to sleep in one step.
GetWait ==
    /\ ConsumerGoes("get_wait", IF pcState = "consumer_waiting" THEN "asleep" ELSE "get_check")
    /\ UNCHANGED <<pcState, ctx, value, sem, producer, got, freed>>

SpuriousWake ==
    /\ ConsumerGoes("asleep", "get_check")
    /\ UNCHANGED <<pcState, ctx, value, sem, producer, got, freed>>

Take ==
    /\ ConsumerGoes("take", "gone")
    /\ got' = value
    /\ DeleteSelf
    /\ UNCHANGED <<pcState, ctx, value, sem, producer>>

-----------------------------------------------------------------------------
(* co_await: await().                                                      *)

AwaitLoad ==
    /\ LoadDone("holding", "take", "await_set")
    /\ UNCHANGED <<pcState, ctx, value, sem, producer, got, freed>>

AwaitSet ==
    /\ ConsumerGoes("await_set", "await_cas")
    /\ ctx' = "await"
    /\ UNCHANGED <<pcState, value, sem, producer, got, freed>>

AwaitCas ==
    /\ CasIdle("consumer_set", "await_cas", "suspended", "take")
    /\ UNCHANGED <<ctx, value, sem, producer, got, freed>>

-----------------------------------------------------------------------------
(* wait_for: the context is set, and taken back when the time is over.     *)

WaitForLoad ==
    /\ LoadDone("holding", "holding", "wf_set")
    /\ UNCHANGED <<pcState, ctx, value, sem, producer, got, freed>>

WaitForSet ==
    /\ ConsumerGoes("wf_set", "wf_cas")
    /\ ctx' = "wait_for" /\ sem' = 0
    /\ UNCHANGED <<pcState, value, producer, got, freed>>

WaitForCas ==
    /\ CasIdle("consumer_set", "wf_cas", "wf_acquire", "holding")
    /\ UNCHANGED <<ctx, value, sem, producer, got, freed>>

WaitForAcquire ==
    /\ ConsumerGoes("wf_acquire", "holding")
    /\ sem = 1 /\ sem' = 0
    /\ UNCHANGED <<pcState, ctx, value, producer, got, freed>>

WaitForTimeout ==
    /\ ConsumerGoes("wf_acquire", "wf_rewind")
    /\ UNCHANGED <<pcState, ctx, value, sem, producer, got, freed>>

\* The compare and exchange back from consumer_set to idle.
RewindBlindly ==
    /\ ConsumerGoes("wf_rewind", "wf_clear")
    /\ pcState' = "idle"
    /\ UNCHANGED <<ctx, value, sem, producer, got, freed>>
WaitForRewind ==
    /\ ConsumerGoes("wf_rewind", IF pcState = "consumer_set" THEN "wf_clear" ELSE "holding")
    /\ pcState' = IF pcState = "consumer_set" THEN "idle" ELSE pcState
    /\ UNCHANGED <<ctx, value, sem, producer, got, freed>>

LeaveContext ==
    /\ ConsumerGoes("wf_clear", "holding")
    /\ UNCHANGED <<pcState, ctx, value, sem, producer, got, freed>>
WaitForClear ==
    /\ ConsumerGoes("wf_clear", "holding")
    /\ ctx' = "idle"
    /\ UNCHANGED <<pcState, value, sem, producer, got, freed>>

-----------------------------------------------------------------------------
(* ~result: complete_consumer().                                           *)

DropLoad ==
    /\ LoadDone("holding", "gone", "drop")
    /\ IF pcState = "producer_done" THEN DeleteSelf ELSE UNCHANGED freed
    /\ UNCHANGED <<pcState, ctx, value, sem, producer, got>>

DropAndForget ==
    /\ ConsumerGoes("drop", "gone")
    /\ pcState' = "consumer_done"
    /\ UNCHANGED <<ctx, value, sem, producer, got, freed>>
DropExchange ==
    /\ ConsumerGoes("drop", "gone")
    /\ pcState' = "consumer_done"
    /\ IF pcState = "producer_done" THEN DeleteSelf ELSE UNCHANGED freed
    /\ UNCHANGED <<ctx, value, sem, producer, got>>

-----------------------------------------------------------------------------
(* The producer: set_result or set_exception, then complete_producer.      *)

BuildResult(v) ==
    /\ producer = "work" /\ producer' = "publish"
    /\ value' = v
    /\ UNCHANGED <<pcState, ctx, sem, consumer, got, freed>>

\* The exchange to producer_done, and what the word held before decides.
ForgetWaiter(before) ==
    CASE before = "consumer_set" -> "resume" [] OTHER -> "done"
NextDuty(before) ==
    CASE before = "consumer_set" -> "resume"
      [] before = "consumer_waiting" -> "notify"
      [] OTHER -> "done"

CompleteProducer ==
    /\ producer = "publish"
    /\ pcState' = "producer_done"
    /\ producer' = NextDuty(pcState)
    /\ IF pcState = "consumer_done" THEN DeleteSelf ELSE UNCHANGED freed
    /\ UNCHANGED <<ctx, value, sem, consumer, got>>

\* resume_consumer runs the suspended coroutine on the producer's thread, or
\* takes a reference to the semaphore of wait_for.
ResumeConsumer ==
    /\ producer = "resume"
    /\ \/ /\ ctx = "await"
          /\ ConsumerGoes("suspended", "take")
          /\ producer' = "done"
       \/ /\ ctx = "wait_for"
          /\ producer' = "release"
          /\ UNCHANGED consumer
    /\ UNCHANGED <<pcState, ctx, value, sem, got, freed>>

ReleaseSemaphore ==
    /\ producer = "release" /\ producer' = "done"
    /\ sem' = 1
    /\ UNCHANGED <<pcState, ctx, value, consumer, got, freed>>

NotifyOne ==
    /\ producer = "notify" /\ producer' = "done"
    /\ consumer' = IF consumer = "asleep" THEN "get_check" ELSE consumer
    /\ UNCHANGED <<pcState, ctx, value, sem, got, freed>>

-----------------------------------------------------------------------------
Call == GetLoad \/ AwaitLoad \/ WaitForLoad \/ DropLoad

ConsumerStep ==
    \/ GetCas \/ GetCheck \/ GetWait \/ Take
    \/ AwaitSet \/ AwaitCas
    \/ WaitForSet \/ WaitForCas \/ WaitForAcquire \/ WaitForTimeout
    \/ WaitForRewind \/ WaitForClear
    \/ DropExchange

Producer ==
    \/ \E v \in Values : BuildResult(v)
    \/ CompleteProducer \/ ResumeConsumer \/ ReleaseSemaphore \/ NotifyOne

\* Both sides are through with the state.
Finished == producer = "done" /\ consumer = "gone" /\ UNCHANGED vars

Next == Call \/ ConsumerStep \/ SpuriousWake \/ Producer \/ Finished

\* The task ends, and a consumer that began a call goes on with it.
Fairness == WF_vars(Producer) /\ WF_vars(ConsumerStep)

Spec == Init /\ [][Next]_vars
FairSpec == Spec /\ Fairness

-----------------------------------------------------------------------------
(* What must hold.                                                         *)

\* delete_self runs once, and it has run when both sides are through: each
\* side leaves the deletion to the other exactly when the other comes later.
FreedOnce ==
    /\ freed <= 1
    /\ producer = "done" /\ consumer = "gone" => freed = 1

\* complete_producer finds the consumer context whole: whoever it resumes has
\* finished setting the context and has not begun to take it back.
ContextWhole ==
    producer = "resume" =>
        \/ ctx = "await" /\ consumer = "suspended"
        \/ ctx = "wait_for" /\ consumer \notin {"wf_set", "wf_cas", "wf_clear", "await_set", "await_cas"}

\* The coroutine that co_awaits is suspended only while somebody is going to
\* resume it, and the memory its context is in lives until then.
ResumerExists ==
    consumer = "suspended" =>
        /\ ctx = "await" /\ freed = 0
        /\ \/ pcState = "consumer_set" /\ producer \in {"work", "publish"}
           \/ producer = "resume"

\* The assertions of result_state: a consumer that lost a compare and exchange
\* finds the producer done, a new context is set over a cleared one, and the
\* result object is dropped only while the word is idle or done.
Asserted ==
    /\ consumer = "take" => pcState = "producer_done"
    /\ consumer \in {"wf_set", "await_set"} => ctx = "idle"
    /\ consumer = "drop" => pcState \in {"idle", "producer_done"}
    /\ consumer \in {"get_cas", "await_cas", "wf_cas"} => pcState \in {"idle", "producer_done"}
    /\ producer \in {"work", "publish"} => pcState # "producer_done"

\* wait_for's comment (result_state.h:125-133): while it takes its context back
\* the producer may not use it; the state outlives the producer's access.
StateOutlivesResume == producer = "resume" => freed = 0

\* get() comes back and a suspended coroutine goes on.
ConsumersGoOn == consumer \in {"get_cas", "await_set"} ~> consumer = "gone"

\* The protocol is a future.
Published == producer \notin {"work", "publish"}
Holder == IF consumer # "gone" THEN "holding" ELSE IF got # Empty THEN "taken" ELSE "dropped"
Promise == INSTANCE Future WITH
    slot <- IF Published THEN value ELSE Empty,
    holder <- Holder,
    reclaimed <- freed > 0

\* result_state implements the future.
ImplementsFuture == Promise!Spec
=============================================================================
