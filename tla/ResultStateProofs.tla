------------------------- MODULE ResultStateProofs -------------------------
(***************************************************************************)
(* The result_state protocol is safe whatever the results are.             *)
(***************************************************************************)
EXTENDS ResultState, TLAPS

\* Before the result is published the word follows the consumer alone.
WordOf(c) ==
    IF c \in {"get_check", "get_wait", "asleep"} THEN "consumer_waiting"
    ELSE IF c \in {"suspended", "wf_acquire", "wf_rewind"} THEN "consumer_set"
    ELSE IF c = "gone" THEN "consumer_done"
    ELSE "idle"

BeforeInv ==
    ~Published =>
        /\ pcState = WordOf(consumer)
        /\ consumer # "take"
        /\ producer = "publish" => value # Empty

\* Afterwards it says so, until the consumer has dropped the result.
AfterInv ==
    Published =>
        /\ value # Empty
        /\ pcState = "producer_done" \/ consumer = "gone"
        /\ consumer = "suspended" => producer = "resume"
        /\ producer = "resume" =>
               \/ ctx = "await" /\ consumer = "suspended"
               \/ ctx = "wait_for" /\ consumer \in {"holding", "wf_acquire", "wf_rewind", "take", "gone"}
        /\ consumer # "wf_clear" \/ producer = "done"

\* The consumer context is the one of the call the consumer is in.
ContextInv ==
    /\ consumer \in {"await_cas", "suspended"} => ctx = "await"
    /\ consumer \in {"wf_cas", "wf_acquire", "wf_rewind", "wf_clear"} => ctx = "wait_for"
    /\ consumer \in {"await_set", "wf_set"} => ctx = "idle"
    /\ consumer = "holding" /\ ~Published => ctx = "idle"
    /\ sem = 1 => producer = "done"

\* The state is deleted when both sides have said goodbye, by the later one.
FreedInv ==
    /\ freed = IF Published /\ consumer = "gone" THEN 1 ELSE 0
    /\ got # Empty => consumer = "gone" /\ Published

IInv == TypeOK /\ BeforeInv /\ AfterInv /\ ContextInv /\ FreedInv

-----------------------------------------------------------------------------

\* The protocol starts in the inductive invariant.
LEMMA InitInv == Init => IInv
  BY ValuesAssumption
     DEF Init, IInv, TypeOK, BeforeInv, AfterInv, ContextInv, FreedInv, WordOf,
         Published, ProducerPoints, ConsumerPoints

\* Every access to the shared state keeps the inductive invariant.
LEMMA NextInv == IInv /\ [Next]_vars => IInv'
<1> SUFFICES ASSUME IInv, [Next]_vars PROVE IInv'
  OBVIOUS
<1> USE ValuesAssumption
    DEF IInv, TypeOK, BeforeInv, AfterInv, ContextInv, FreedInv, WordOf, Published,
        ProducerPoints, ConsumerPoints, ConsumerGoes, LoadDone, CasIdle, DeleteSelf
<1>1. CASE Call
  BY <1>1 DEF Call, GetLoad, AwaitLoad, WaitForLoad, DropLoad
<1>2. CASE GetCas \/ GetCheck \/ GetWait \/ SpuriousWake
  BY <1>2 DEF GetCas, GetCheck, GetWait, SpuriousWake
<1>3. CASE Take
  BY <1>3 DEF Take
<1>4. CASE AwaitSet \/ AwaitCas
  BY <1>4 DEF AwaitSet, AwaitCas
<1>5. CASE WaitForSet \/ WaitForCas
  BY <1>5 DEF WaitForSet, WaitForCas
<1>6. CASE WaitForAcquire \/ WaitForTimeout
  BY <1>6 DEF WaitForAcquire, WaitForTimeout
<1>7. CASE WaitForRewind \/ WaitForClear
  BY <1>7 DEF WaitForRewind, WaitForClear
<1>8. CASE DropExchange
  BY <1>8 DEF DropExchange
<1>9. ASSUME NEW v \in Values, BuildResult(v) PROVE IInv'
  BY <1>9 DEF BuildResult
<1>10. CASE CompleteProducer
  BY <1>10 DEF CompleteProducer, NextDuty
<1>11. CASE ResumeConsumer
  BY <1>11 DEF ResumeConsumer
<1>12. CASE ReleaseSemaphore \/ NotifyOne
  BY <1>12 DEF ReleaseSemaphore, NotifyOne
<1>13. CASE UNCHANGED vars
  BY <1>13 DEF vars
<1> QED
  BY <1>1, <1>2, <1>3, <1>4, <1>5, <1>6, <1>7, <1>8, <1>9, <1>10, <1>11, <1>12, <1>13
     DEF Next, ConsumerStep, Producer, Finished

\* The inductive invariant holds throughout.
THEOREM Invariant == Spec => []IInv
  BY InitInv, NextInv, PTL DEF Spec

\* The state is deleted at most once, and once both sides are through.
THEOREM DeletedOnce == Spec => []FreedOnce
<1>1. IInv => FreedOnce
  BY DEF IInv, FreedInv, FreedOnce, Published
<1> QED
  BY <1>1, Invariant, PTL

\* complete_producer only ever resumes a consumer whose context is whole.
THEOREM ContextIsWhole == Spec => []ContextWhole
<1>1. IInv => ContextWhole
  BY DEF IInv, AfterInv, Published, ContextWhole
<1> QED
  BY <1>1, Invariant, PTL

\* A suspended coroutine has somebody who is going to resume it.
THEOREM SuspendedIsResumed == Spec => []ResumerExists
<1>1. IInv => ResumerExists
  BY DEF IInv, TypeOK, BeforeInv, AfterInv, ContextInv, FreedInv, WordOf, Published, ResumerExists
<1> QED
  BY <1>1, Invariant, PTL

\* The assertions written in result_state never fail.
THEOREM AssertionsHold == Spec => []Asserted
<1>1. IInv => Asserted
  BY DEF IInv, TypeOK, BeforeInv, AfterInv, ContextInv, WordOf, Published, ProducerPoints, Asserted
<1> QED
  BY <1>1, Invariant, PTL

\* result_state implements the future: the exchange of complete_producer
\* fulfils it, and the side that comes last reclaims the memory.
THEOREM ResultStateIsAFuture == Spec => ImplementsFuture
<1>1. Init => Promise!Init
  BY DEF Init, Promise!Init, Published, Holder
<1>2. IInv /\ [Next]_vars => [Promise!Next]_(Promise!vars)
  <2> SUFFICES ASSUME IInv, [Next]_vars PROVE [Promise!Next]_(Promise!vars)
    OBVIOUS
  <2> USE ValuesAssumption
      DEF IInv, TypeOK, BeforeInv, AfterInv, FreedInv, WordOf, Published, Holder,
          ConsumerGoes, LoadDone, CasIdle, DeleteSelf, ProducerPoints, Promise!vars
  <2>1. CASE GetLoad \/ AwaitLoad \/ WaitForLoad
    BY <2>1 DEF GetLoad, AwaitLoad, WaitForLoad
  <2>2. CASE DropLoad
    <3>1. CASE pcState = "producer_done"
      BY <2>2, <3>1 DEF DropLoad, Promise!Drop, Promise!Next
    <3>2. CASE pcState # "producer_done"
      BY <2>2, <3>2 DEF DropLoad
    <3> QED
      BY <3>1, <3>2
  <2>3. CASE Take
    BY <2>3 DEF Take, Promise!Take, Promise!Next
  <2>4. CASE DropExchange
    BY <2>4 DEF DropExchange, Promise!Drop, Promise!Next
  <2>5. CASE GetCas \/ GetCheck \/ GetWait \/ SpuriousWake \/ AwaitSet \/ AwaitCas
    BY <2>5 DEF GetCas, GetCheck, GetWait, SpuriousWake, AwaitSet, AwaitCas
  <2>6. CASE WaitForSet \/ WaitForCas \/ WaitForAcquire \/ WaitForTimeout
    BY <2>6 DEF WaitForSet, WaitForCas, WaitForAcquire, WaitForTimeout
  <2>7. CASE WaitForRewind \/ WaitForClear
    BY <2>7 DEF WaitForRewind, WaitForClear
  <2>8. ASSUME NEW v \in Values, BuildResult(v) PROVE UNCHANGED Promise!vars
    BY <2>8 DEF BuildResult
  <2>9. CASE CompleteProducer
    <3>1. Published' /\ value \in Values
      BY <2>9 DEF CompleteProducer, NextDuty
    <3>2. (freed' > 0) <=> Holder = "dropped"
      BY <2>9 DEF CompleteProducer
    <3>3. UNCHANGED <<Holder, got>>
      BY <2>9 DEF CompleteProducer
    <3>4. Promise!Fulfil(value)
      BY <2>9, <3>1, <3>2, <3>3 DEF CompleteProducer, Promise!Fulfil
    <3> QED
      BY <3>1, <3>4 DEF Promise!Next
  <2>10. CASE ResumeConsumer \/ ReleaseSemaphore \/ NotifyOne
    BY <2>10 DEF ResumeConsumer, ReleaseSemaphore, NotifyOne
  <2>11. CASE UNCHANGED vars
    BY <2>11 DEF vars
  <2> QED
    BY <2>1, <2>2, <2>3, <2>4, <2>5, <2>6, <2>7, <2>8, <2>9, <2>10, <2>11
       DEF Next, Call, ConsumerStep, Producer, Finished, vars
<1> QED
  BY <1>1, <1>2, Invariant, PTL DEF Spec, ImplementsFuture, Promise!Spec
=============================================================================
