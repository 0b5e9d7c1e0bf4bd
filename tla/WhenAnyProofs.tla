---------------------------- MODULE WhenAnyProofs ----------------------------
(***************************************************************************)
(* Proofs about when_any, for any number of results.                       *)
(*                                                                         *)
(* IInv says what each place of the coroutine knows of the word of every   *)
(* result: the loop registers with the results in their order and          *)
(* await_resume rewinds them in the same order, so that the word of result *)
(* i can only be consumer_set once the loop is past i and as long as the   *)
(* rewind has not come to it; and a status is only open while its call is. *)
(***************************************************************************)
EXTENDS WhenAny, FiniteSetTheorems, WellFoundedInduction, TLAPS

Loop == {"check", "load", "set", "cas", "inline"}

\* Every call was answered with a result that the next one does not ask for.
CallInv ==
    /\ Cardinality(asked) = NumResults - call + (IF consumer = "ready" THEN 0 ELSE 1)
    /\ consumer # "ready" => call \in Calls /\ pos \in asked

\* What the word of a result says of its context and of its producer.
WordInv ==
    \A i \in Results :
        /\ pcState[i] = "producer_done" <=> producer[i] # "work"
        /\ consumer = "cas" /\ pos = i => ctx[i] # None
        /\ pcState[i] = "idle" => ctx[i] = None \/ (consumer \in {"cas", "clear"} /\ pos = i)
        /\ pcState[i] = "consumer_set" =>
               /\ ctx[i] # None /\ i \in asked
               /\ consumer \notin {"ready", "answered"}
               /\ consumer \in Loop => i < pos
               /\ consumer = "rewind" => pos <= i
               /\ consumer = "clear" => pos < i

\* No context is of a call to come, and one of this call was given to a result it asked for.
ContextInv ==
    \A i \in Results :
        /\ ctx[i] <= call /\ context[i].call <= call
        /\ consumer # "ready" /\ (ctx[i] = call \/ context[i].call = call) => i \in asked
        /\ producer[i] \in {"load", "swap", "call"} => context[i].call # None
        /\ producer[i] = "swap" => context[i].saw \in Open

\* The statuses of the calls that are over, of this one and of those to come.
StatusInv ==
    /\ \A k \in Calls :
           /\ k < call \/ (k = call /\ consumer = "ready") => status[k] \in Results
           /\ k > call => status[k] = Processing
           /\ status[k] \in Results => pcState[status[k]] = "producer_done"
    /\ consumer \in Loop \cup {"finish"} => status[call] # DoneProcessing
    /\ consumer = "inline" => pcState[pos] = "producer_done"
    /\ consumer # "ready" /\ status[call] \in Results => status[call] \in asked
    /\ consumer \in {"rewind", "clear", "answered"} => status[call] \in Results
    /\ consumer = "suspended" => status[call] # Processing

\* The producers that are about to resume the coroutine.
CallerInv ==
    \A i \in Results :
        producer[i] = "call" =>
            consumer = "suspended" /\ status[call] = i /\ context[i].call = call

IInv ==
    /\ TypeOK /\ CallInv /\ WordInv /\ ContextInv /\ StatusInv /\ CallerInv /\ ContextWhole
-----------------------------------------------------------------------------
(* The first of a set of results is its least.                             *)

LEMMA ResultsFinite == IsFiniteSet(Results) /\ Results \subseteq Nat \ {0} /\ Cardinality(Results) = NumResults
<1>1. IsFiniteSet(1..NumResults) /\ Cardinality(1..NumResults) = IF 1 > NumResults THEN 0 ELSE NumResults - 1 + 1
  BY NumResultsAssumption, FS_Interval
<1> QED BY <1>1, NumResultsAssumption DEF Results

LEMMA FirstIsLeast ==
    ASSUME NEW S \in SUBSET Results, S # {}
    PROVE  First(S) \in S /\ (\A j \in S : First(S) <= j)
<1> DEFINE Below(k) == {i \in S : i <= k}
           T == {Below(k) : k \in S}
           R == StrictSubsetOrdering(S)
<1>1. S \subseteq Nat /\ IsFiniteSet(S)
  BY ResultsFinite, FS_Subset
<1>2. IsWellFoundedOn(R, FiniteSubsetsOf(S))
  BY FS_StrictSubsetOrderingWellFounded
<1>3. T \subseteq FiniteSubsetsOf(S) /\ T # {}
  <2>1. T \subseteq SUBSET S /\ T # {}
    OBVIOUS
  <2>2. FiniteSubsetsOf(S) = SUBSET S
    BY <1>1, FS_FiniteSubsetsOfFinite
  <2> QED BY <2>1, <2>2
<1>4. PICK U \in T : \A V \in T : ~(<<V, U>> \in R)
  <2> HIDE DEF T, R
  <2> QED BY <1>2, <1>3, WFMin
<1>5. PICK k \in S : U = Below(k)
  OBVIOUS
<1>6. ASSUME NEW j \in S, j < k PROVE FALSE
  <2>1. Below(j) \in T /\ k \in U /\ k \notin Below(j)
    BY <1>1, <1>5, <1>6
  <2>3. Below(j) \subseteq U
    <3>1. \A i \in S : i <= j => i <= k
      BY <1>1, <1>6
    <3> QED BY <3>1, <1>5
  <2>2. <<Below(j), U>> \in R
    BY <2>1, <2>3, <1>5 DEF StrictSubsetOrdering
  <2> QED BY <1>4, <2>1, <2>2
<1>7. \A j \in S : k <= j
  BY <1>1, <1>6
<1> QED BY <1>7 DEF First

\* Where the loops go.
LEMMA LoopGoesOn ==
    ASSUME TypeOK, pos \in asked, NEW p, NEW q, NextResult(p, q)
    PROVE  /\ pos' \in asked
           /\ \/ consumer' = q /\ \A j \in asked : j <= pos /\ pos' <= j
              \/ consumer' = p /\ pos < pos' /\ \A j \in asked : pos < j => pos' <= j
<1>1. asked \subseteq Results /\ Results \subseteq Nat /\ pos \in Results
  BY ResultsFinite DEF TypeOK
<1>2. CASE After(pos) = {}
  BY <1>1, <1>2, FirstIsLeast DEF NextResult, After
<1>3. CASE After(pos) # {}
  <2>1. First(After(pos)) \in After(pos) /\ \A j \in After(pos) : First(After(pos)) <= j
    BY <1>1, <1>3, FirstIsLeast DEF After
  <2> QED BY <1>1, <1>3, <2>1 DEF NextResult, After
<1> QED BY <1>2, <1>3

LEMMA RewindBegins ==
    ASSUME TypeOK, asked # {}, Answered
    PROVE  consumer' = "rewind" /\ pos' \in asked /\ \A j \in asked : pos' <= j
BY FirstIsLeast DEF TypeOK, Answered

\* A call is only begun with a result left to ask for, so none is one too many.
LEMMA CallStarts ==
    ASSUME TypeOK, CallInv, Call
    PROVE  call' = call + 1 /\ call' \in Calls /\ pos' \in asked /\ \A j \in asked : pos' <= j
<1>1. pos' \in asked /\ \A j \in asked : pos' <= j
  BY FirstIsLeast DEF TypeOK, Call
<1>2. IsFiniteSet(asked) /\ Cardinality(asked) \in Nat /\ Cardinality(asked) # 0
  BY <1>1, ResultsFinite, FS_Subset, FS_EmptySet, FS_CardinalityType DEF TypeOK
<1>3. Cardinality(asked) = NumResults - call
  <2>1. consumer = "ready" /\ Cardinality(asked) = NumResults - call + 0
    BY DEF CallInv, Call
  <2> QED BY <2>1, NumResultsAssumption DEF TypeOK, Calls, None
<1>4. call' = call + 1 /\ call \in Nat
  BY NumResultsAssumption DEF Call, TypeOK, Calls, None
<1> QED BY <1>1, <1>2, <1>3, <1>4, NumResultsAssumption DEF Calls

\* An exchange that succeeds is one on the status of the call that is going on.
LEMMA SwapIsForThisCall ==
    ASSUME IInv, NEW i \in Results, TrySwap(i)
    PROVE  \/ /\ UNCHANGED status
              /\ \E p \in {"load", "done"} : producer' = [producer EXCEPT ![i] = p]
           \/ /\ status[call] \in Open /\ context[i].call = call /\ consumer # "ready" /\ i \in asked
              /\ status' = [status EXCEPT ![call] = i]
              /\ \/ status[call] = Processing /\ producer' = [producer EXCEPT ![i] = "done"]
                 \/ status[call] = DoneProcessing /\ producer' = [producer EXCEPT ![i] = "call"]
<1> DEFINE k == context[i].call
<1>1. k \in Calls /\ k <= call /\ context[i].saw \in Open /\ producer[i] = "swap"
  BY DEF IInv, TypeOK, ContextInv, TrySwap
<1>2. CASE status[k] # context[i].saw
  BY <1>1, <1>2 DEF TrySwap, ProducerIs, Retry
<1>3. CASE status[k] = context[i].saw
  <2>1. status[k] \notin Results
    BY <1>1, <1>3, ResultsFinite DEF Open, Processing, DoneProcessing
  <2>2. k = call /\ consumer # "ready"
    BY <1>1, <2>1 DEF IInv, TypeOK, StatusInv, Calls, None
  <2>3. i \in asked
    BY <2>2 DEF IInv, ContextInv
  <2>4. status' = [status EXCEPT ![call] = i]
    BY <1>3, <2>2 DEF TrySwap
  <2>5. producer' = [producer EXCEPT ![i] = IF context[i].saw = Processing THEN "done" ELSE "call"]
    BY <1>3 DEF TrySwap, ProducerIs
  <2> QED BY <1>1, <1>3, <2>2, <2>3, <2>4, <2>5 DEF Open
<1> QED BY <1>2, <1>3

\* The types: that no call is made beyond the last is because each one uses up a result.
LEMMA TypeNext == IInv /\ [Next]_vars => TypeOK'
<1> SUFFICES ASSUME IInv, [Next]_vars PROVE TypeOK'
  OBVIOUS
<1> USE ResultsFinite, NumResultsAssumption DEF IInv, TypeOK, CallInv, Calls, Open, None, Processing, DoneProcessing
<1>1. CASE UNCHANGED vars
  BY <1>1 DEF vars, results, consumers, producers
<1>2. CASE Call
  BY <1>2, CallStarts DEF Call, ProducerIs, results, consumers, producers
<1>3. CASE AnyResultFinished
  BY <1>3, RewindBegins DEF AnyResultFinished, ProducerIs, results, consumers, producers
<1>4. CASE Load
  BY <1>4 DEF Load, ProducerIs, results, consumers, producers
<1>5. CASE ResumeInline
  BY <1>5, RewindBegins DEF ResumeInline, ProducerIs, results, consumers, producers
<1>6. CASE SetContext
  BY <1>6 DEF SetContext, ProducerIs, results, consumers, producers
<1>7. CASE Register
  <2>1. pcState' \in [Results -> {"idle", "consumer_set", "producer_done"}] /\ missed' \subseteq Results
    <3>1. /\ pcState \in [Results -> {"idle", "consumer_set", "producer_done"}] /\ missed \subseteq Results
          /\ pos \in Results
      OBVIOUS
    <3> HIDE DEF IInv, TypeOK, CallInv
    <3> QED BY <1>7, <3>1 DEF Register
  <2>2. pos' \in Results /\ consumer' \in {"check", "finish"}
    <3>1. consumer = "cas" /\ NextResult("check", "finish")
      BY <1>7 DEF Register
    <3> QED BY <3>1, LoopGoesOn
  <2> QED BY <1>7, <2>1, <2>2 DEF Register, producers
<1>8. CASE FinishProcessing
  BY <1>8, RewindBegins DEF FinishProcessing, ProducerIs, results, consumers, producers
<1>9. CASE Rewind
  BY <1>9, LoopGoesOn DEF Rewind, ProducerIs, results, consumers, producers
<1>10. CASE Clear
  BY <1>10, LoopGoesOn DEF Clear, ProducerIs, results, consumers, producers
<1>11. CASE Answer
  BY <1>11 DEF Answer, ProducerIs, results, consumers, producers
<1>12. ASSUME NEW i \in Results, CompleteProducer(i) PROVE TypeOK'
  <2>1. producer' \in [Results -> {"work", "resume", "load", "swap", "call", "done"}]
    BY <1>12 DEF CompleteProducer, ProducerIs
  <2>2. pcState' \in [Results -> {"idle", "consumer_set", "producer_done"}]
    BY <1>12 DEF CompleteProducer
  <2> QED BY <1>12, <2>1, <2>2 DEF CompleteProducer, consumers
<1>13. ASSUME NEW i \in Results, ResumeConsumer(i) PROVE TypeOK'
  <2>1. producer' \in [Results -> {"work", "resume", "load", "swap", "call", "done"}]
    <3>1. producer \in [Results -> {"work", "resume", "load", "swap", "call", "done"}]
      OBVIOUS
    <3> HIDE DEF IInv, TypeOK, CallInv
    <3> QED BY <1>13, <3>1 DEF ResumeConsumer, ProducerIs
  <2>2. context' \in [Results -> [call : Calls \cup {None}, saw : Results \cup Open]]
    <3>1. context[i] \in [call : Calls \cup {None}, saw : Results \cup Open]
      OBVIOUS
    <3>2. \A x \in Calls \cup {None} : [context[i] EXCEPT !.call = x] \in [call : Calls \cup {None}, saw : Results \cup Open]
      BY <3>1
    <3>3. context' = context \/ context' = [context EXCEPT ![i] = [context[i] EXCEPT !.call = ctx[i]]]
      BY <1>13 DEF ResumeConsumer
    <3> DEFINE Records == [call : Calls \cup {None}, saw : Results \cup Open]
               new == [context[i] EXCEPT !.call = ctx[i]]
    <3>4. context \in [Results -> Records] /\ new \in Records
      BY <3>2
    <3>5. context' = context \/ context' = [context EXCEPT ![i] = new]
      BY <3>3
    <3>6. \A x \in Records : [context EXCEPT ![i] = x] \in [Results -> Records]
      <4> HIDE DEF Records, TypeOK
      <4> QED BY <3>4
    <3>7. context' \in [Results -> Records]
      <4> HIDE DEF Records, TypeOK, new
      <4> QED BY <3>4, <3>5, <3>6
    <3> QED BY <3>7
  <2> QED BY <1>13, <2>1, <2>2 DEF ResumeConsumer, results, consumers
<1>14. ASSUME NEW i \in Results, TryLoad(i) PROVE TypeOK'
  <2>1. producer' \in [Results -> {"work", "resume", "load", "swap", "call", "done"}]
    BY <1>14 DEF TryLoad, ProducerIs
  <2>2. status[context[i].call] \in Results \cup Open
    BY <1>14 DEF TryLoad, ContextInv
  <2>3. context' \in [Results -> [call : Calls \cup {None}, saw : Results \cup Open]]
    BY <1>14, <2>2 DEF TryLoad
  <2> QED BY <1>14, <2>1, <2>3 DEF TryLoad, results, consumers
<1>15. ASSUME NEW i \in Results, TrySwap(i) PROVE TypeOK'
  <2>1. producer' \in [Results -> {"work", "resume", "load", "swap", "call", "done"}]
    BY <1>15 DEF TrySwap, ProducerIs, Retry
  <2>2. status' = status \/ status' = [status EXCEPT ![context[i].call] = i]
    BY <1>15 DEF TrySwap
  <2>3. status' \in [Calls -> Results \cup Open]
    BY <2>2
  <2> QED BY <1>15, <2>1, <2>3 DEF TrySwap, results, consumers
<1>16. ASSUME NEW i \in Results, CallHandle(i) PROVE TypeOK'
  BY <1>16, RewindBegins DEF CallHandle, CallerInv, ProducerIs, results, consumers, producers
<1> QED
  BY <1>1, <1>2, <1>3, <1>4, <1>5, <1>6, <1>7, <1>8, <1>9, <1>10, <1>11, <1>12, <1>13, <1>14, <1>15, <1>16 DEF Next, Consumer, Producer, Over

\* A call uses up a result.
LEMMA CallNext == IInv /\ [Next]_vars => CallInv'
<1> SUFFICES ASSUME IInv, [Next]_vars PROVE CallInv'
  OBVIOUS
<1> USE ResultsFinite, NumResultsAssumption DEF IInv, CallInv, TypeOK, Calls, None
<1>1. CASE UNCHANGED vars
  BY <1>1 DEF vars, results, consumers, producers
<1>2. CASE Call
  BY <1>2, CallStarts DEF Call, ProducerIs, results, consumers, producers
<1>3. CASE AnyResultFinished
  BY <1>3, RewindBegins DEF AnyResultFinished, ProducerIs, results, consumers, producers
<1>4. CASE Load
  BY <1>4 DEF Load, ProducerIs, results, consumers, producers
<1>5. CASE ResumeInline
  BY <1>5, RewindBegins DEF ResumeInline, ProducerIs, results, consumers, producers
<1>6. CASE SetContext
  BY <1>6 DEF SetContext, ProducerIs, results, consumers, producers
<1>7. CASE Register
  <2>1. consumer = "cas" /\ UNCHANGED <<asked, call>> /\ NextResult("check", "finish")
    BY <1>7 DEF Register
  <2>2. pos' \in asked /\ consumer' \in {"check", "finish"}
    BY <2>1, LoopGoesOn
  <2> QED BY <2>1, <2>2
<1>8. CASE FinishProcessing
  BY <1>8, RewindBegins DEF FinishProcessing, ProducerIs, results, consumers, producers
<1>9. CASE Rewind
  BY <1>9, LoopGoesOn DEF Rewind, ProducerIs, results, consumers, producers
<1>10. CASE Clear
  BY <1>10, LoopGoesOn DEF Clear, ProducerIs, results, consumers, producers
<1>11. CASE Answer
  <2>1. status[call] \in asked
    BY <1>11 DEF Answer, StatusInv
  <2>2. IsFiniteSet(asked) /\ Cardinality(asked \ {status[call]}) = Cardinality(asked) - 1
    BY <2>1, FS_Subset, FS_RemoveElement
  <2> QED BY <1>11, <2>2 DEF Answer, results, producers
<1>12. ASSUME NEW i \in Results, CompleteProducer(i) PROVE CallInv'
  BY <1>12 DEF CompleteProducer, ProducerIs, results, consumers, producers
<1>13. ASSUME NEW i \in Results, ResumeConsumer(i) PROVE CallInv'
  BY <1>13 DEF ResumeConsumer, ProducerIs, results, consumers, producers
<1>14. ASSUME NEW i \in Results, TryLoad(i) PROVE CallInv'
  BY <1>14 DEF TryLoad, ProducerIs, results, consumers, producers
<1>15. ASSUME NEW i \in Results, TrySwap(i) PROVE CallInv'
  BY <1>15 DEF TrySwap, ProducerIs, results, consumers, producers
<1>16. ASSUME NEW i \in Results, CallHandle(i) PROVE CallInv'
  BY <1>16, RewindBegins DEF CallHandle, CallerInv, ProducerIs, results, consumers, producers
<1> QED
  BY <1>1, <1>2, <1>3, <1>4, <1>5, <1>6, <1>7, <1>8, <1>9, <1>10, <1>11, <1>12, <1>13, <1>14, <1>15, <1>16 DEF Next, Consumer, Producer, Over

\* The loops keep the words in order.
LEMMA WordNext == IInv /\ [Next]_vars => WordInv'
<1> SUFFICES ASSUME IInv, [Next]_vars PROVE WordInv'
  OBVIOUS
<1> USE ResultsFinite DEF IInv, TypeOK, CallInv, Calls, None, Loop, WordInv
<1>1. CASE UNCHANGED vars
  BY <1>1 DEF vars, results, consumers, producers
<1>2. CASE Call
  BY <1>2, CallStarts DEF Call, ProducerIs, results, consumers, producers
<1>3. CASE AnyResultFinished
  BY <1>3, RewindBegins DEF AnyResultFinished, ProducerIs, results, consumers, producers
<1>4. CASE Load
  BY <1>4 DEF Load, ContextWhole, ProducerIs, results, consumers, producers
<1>5. CASE ResumeInline
  BY <1>5, RewindBegins DEF ResumeInline, ProducerIs, results, consumers, producers
<1>6. CASE SetContext
  BY <1>6 DEF SetContext, ContextWhole, ProducerIs, results, consumers, producers
<1>7. CASE Register
  <2>1. pos \in asked /\ consumer = "cas" /\ UNCHANGED <<ctx, producer, asked>>
    BY <1>7 DEF Register, producers
  <2>4. pos \in Results /\ ctx[pos] # None
    BY <2>1
  <2>2. pos' \in asked /\ ((consumer' = "finish" /\ (\A j \in asked : j <= pos)) \/ (consumer' = "check" /\ pos < pos'))
    <3>1. NextResult("check", "finish")
      BY <1>7 DEF Register
    <3> QED BY <2>1, <3>1, LoopGoesOn
  <2>3. \A j \in Results : pcState'[j] = IF j = pos /\ pcState[j] = "idle" THEN "consumer_set" ELSE pcState[j]
    BY <1>7 DEF Register
  <2> QED BY <2>4, <2>1, <2>2, <2>3
<1>8. CASE FinishProcessing
  BY <1>8, RewindBegins DEF FinishProcessing, ProducerIs, results, consumers, producers
<1>9. CASE Rewind
  <2>1. consumer = "rewind" /\ pos \in asked /\ UNCHANGED <<ctx, producer, asked>>
    BY <1>9 DEF Rewind, producers
  <2>2. CASE pcState[pos] = "consumer_set"
    <3>1. consumer' = "clear" /\ pos' = pos /\ pcState' = [pcState EXCEPT ![pos] = "idle"]
      BY <1>9, <2>2 DEF Rewind
    <3> QED BY <2>1, <2>2, <3>1
  <2>3. CASE pcState[pos] # "consumer_set"
    <3>1. NextResult("rewind", "answered") /\ pcState' = pcState
      BY <1>9, <2>3 DEF Rewind
    <3>2. \/ consumer' = "answered" /\ \A j \in asked : j <= pos
          \/ consumer' = "rewind" /\ \A j \in asked : pos < j => pos' <= j
      BY <2>1, <3>1, LoopGoesOn
    <3>3. \A j \in Results : pcState[j] = "consumer_set" => j \in asked /\ pos < j /\ consumer' = "rewind"
      BY <2>1, <2>3, <3>2
    <3> QED BY <2>1, <3>1, <3>2, <3>3
  <2> QED BY <2>2, <2>3
<1>10. CASE Clear
  <2>1. consumer = "clear" /\ pos \in asked /\ UNCHANGED <<pcState, producer, asked>>
    BY <1>10 DEF Clear, producers
  <2>2. \/ consumer' = "answered" /\ \A j \in asked : j <= pos
        \/ consumer' = "rewind" /\ \A j \in asked : pos < j => pos' <= j
    <3>1. NextResult("rewind", "answered")
      BY <1>10 DEF Clear
    <3> QED BY <2>1, <3>1, LoopGoesOn
  <2>3. \A j \in Results : ctx'[j] = IF j = pos THEN None ELSE ctx[j]
    BY <1>10 DEF Clear
  <2>4. \A j \in Results : pcState[j] = "consumer_set" => j \in asked /\ pos < j /\ consumer' = "rewind"
    BY <2>1, <2>2
  <2> QED BY <2>1, <2>2, <2>3, <2>4
<1>11. CASE Answer
  BY <1>11 DEF Answer, ProducerIs, results, consumers, producers
<1>12. ASSUME NEW i \in Results, CompleteProducer(i) PROVE WordInv'
  BY <1>12 DEF CompleteProducer, ProducerIs, results, consumers, producers
<1>13. ASSUME NEW i \in Results, ResumeConsumer(i) PROVE WordInv'
  BY <1>13 DEF ResumeConsumer, ProducerIs, results, consumers, producers
<1>14. ASSUME NEW i \in Results, TryLoad(i) PROVE WordInv'
  BY <1>14 DEF TryLoad, ProducerIs, results, consumers, producers
<1>15. ASSUME NEW i \in Results, TrySwap(i) PROVE WordInv'
  <2>1. producer[i] = "swap" /\ UNCHANGED <<results, consumers, context>>
    BY <1>15 DEF TrySwap
  <2>2. \A j \in Results : producer'[j] # "work" <=> producer[j] # "work"
    BY <1>15, <2>1, SwapIsForThisCall
  <2> QED BY <2>1, <2>2 DEF results, consumers
<1>16. ASSUME NEW i \in Results, CallHandle(i) PROVE WordInv'
  BY <1>16, RewindBegins DEF CallHandle, CallerInv, ProducerIs, results, consumers, producers
<1> QED
  BY <1>1, <1>2, <1>3, <1>4, <1>5, <1>6, <1>7, <1>8, <1>9, <1>10, <1>11, <1>12, <1>13, <1>14, <1>15, <1>16 DEF Next, Consumer, Producer, Over

\* Contexts are handed on from the coroutine to the result and to its producer.
LEMMA ContextNext == IInv /\ [Next]_vars => ContextInv'
<1> SUFFICES ASSUME IInv, [Next]_vars PROVE ContextInv'
  OBVIOUS
<1> USE ResultsFinite DEF IInv, TypeOK, CallInv, Calls, None, Loop, ContextInv
<1>1. CASE UNCHANGED vars
  BY <1>1 DEF vars, results, consumers, producers
<1>2. CASE Call
  BY <1>2, CallStarts DEF Call, ProducerIs, results, consumers, producers
<1>3. CASE AnyResultFinished
  BY <1>3, RewindBegins DEF AnyResultFinished, ProducerIs, results, consumers, producers
<1>4. CASE Load
  BY <1>4 DEF Load, ProducerIs, results, consumers, producers
<1>5. CASE ResumeInline
  BY <1>5, RewindBegins DEF ResumeInline, ProducerIs, results, consumers, producers
<1>6. CASE SetContext
  BY <1>6 DEF SetContext, ProducerIs, results, consumers, producers
<1>7. CASE Register
  BY <1>7, LoopGoesOn DEF Register, ProducerIs, results, consumers, producers
<1>8. CASE FinishProcessing
  BY <1>8, RewindBegins DEF FinishProcessing, ProducerIs, results, consumers, producers
<1>9. CASE Rewind
  BY <1>9, LoopGoesOn DEF Rewind, ProducerIs, results, consumers, producers
<1>10. CASE Clear
  BY <1>10, LoopGoesOn DEF Clear, ProducerIs, results, consumers, producers
<1>11. CASE Answer
  BY <1>11 DEF Answer, ProducerIs, results, consumers, producers
<1>12. ASSUME NEW i \in Results, CompleteProducer(i) PROVE ContextInv'
  BY <1>12 DEF CompleteProducer, ProducerIs, results, consumers, producers
<1>13. ASSUME NEW i \in Results, ResumeConsumer(i) PROVE ContextInv'
  BY <1>13 DEF ResumeConsumer, ProducerIs, results, consumers, producers
<1>14. ASSUME NEW i \in Results, TryLoad(i) PROVE ContextInv'
  BY <1>14 DEF TryLoad, ProducerIs, results, consumers, producers
<1>15. ASSUME NEW i \in Results, TrySwap(i) PROVE ContextInv'
  BY <1>15 DEF TrySwap, ProducerIs, results, consumers, producers
<1>16. ASSUME NEW i \in Results, CallHandle(i) PROVE ContextInv'
  BY <1>16, RewindBegins DEF CallHandle, CallerInv, ProducerIs, results, consumers, producers
<1> QED
  BY <1>1, <1>2, <1>3, <1>4, <1>5, <1>6, <1>7, <1>8, <1>9, <1>10, <1>11, <1>12, <1>13, <1>14, <1>15, <1>16 DEF Next, Consumer, Producer, Over

\* The first result to come stays in the status of a call.
LEMMA StatusNext == IInv /\ [Next]_vars => StatusInv'
<1> SUFFICES ASSUME IInv, [Next]_vars PROVE StatusInv'
  OBVIOUS
<1> USE ResultsFinite DEF IInv, TypeOK, CallInv, Calls, None, Loop, StatusInv, Open, Processing, DoneProcessing
<1>1. CASE UNCHANGED vars
  BY <1>1 DEF vars, results, consumers, producers
<1>2. CASE Call
  BY <1>2, CallStarts DEF Call, ProducerIs, results, consumers, producers
<1>3. CASE AnyResultFinished
  <2>1. consumer = "check" /\ call \in Calls /\ UNCHANGED <<pcState, status, asked, call>>
    BY <1>3 DEF AnyResultFinished, results
  <2>2. CASE status[call] = Processing
    <3>1. consumer' = "load"
      BY <1>3, <2>2 DEF AnyResultFinished
    <3> QED BY <2>1, <3>1
  <2>3. CASE status[call] # Processing
    <3>1. consumer' = "rewind" /\ status[call] \in Results
      BY <1>3, <2>1, <2>3 DEF AnyResultFinished, Answered
    <3> QED BY <2>1, <3>1
  <2> QED BY <2>2, <2>3
<1>4. CASE Load
  BY <1>4 DEF Load, ProducerIs, results, consumers, producers
<1>5. CASE ResumeInline
  BY <1>5, RewindBegins DEF ResumeInline, ProducerIs, results, consumers, producers
<1>6. CASE SetContext
  BY <1>6 DEF SetContext, ProducerIs, results, consumers, producers
<1>7. CASE Register
  <2>1. consumer = "cas" /\ UNCHANGED <<status, asked, call>>
    BY <1>7 DEF Register
  <2>2. consumer' \in {"check", "finish"}
    BY <1>7 DEF Register, NextResult
  <2>3. \A j \in Results : pcState[j] = "producer_done" => pcState'[j] = "producer_done"
    BY <1>7 DEF Register
  <2> QED BY <2>1, <2>2, <2>3
<1>8. CASE FinishProcessing
  <2>1. consumer = "finish" /\ call \in Calls /\ UNCHANGED <<pcState, asked, call>>
    BY <1>8 DEF FinishProcessing, results
  <2>2. CASE status[call] = Processing
    <3>1. consumer' = "suspended" /\ status' = [status EXCEPT ![call] = DoneProcessing]
      BY <1>8, <2>2 DEF FinishProcessing
    <3>2. status'[call] = DoneProcessing /\ \A k \in Calls \ {call} : status'[k] = status[k]
      BY <2>1, <3>1
    <3>3. DoneProcessing \notin Results /\ DoneProcessing # Processing
      OBVIOUS
    <3> HIDE DEF DoneProcessing
    <3> QED BY <2>1, <3>1, <3>2, <3>3
  <2>3. CASE status[call] # Processing
    <3>1. consumer' = "rewind" /\ UNCHANGED status
      BY <1>8, <2>1, <2>3, RewindBegins DEF FinishProcessing
    <3> QED BY <2>1, <2>3, <3>1
  <2> QED BY <2>2, <2>3
<1>9. CASE Rewind
  <2>1. consumer = "rewind" /\ UNCHANGED <<status, asked, call>>
    BY <1>9 DEF Rewind
  <2>2. consumer' \in {"rewind", "clear", "answered"}
    BY <1>9 DEF Rewind, NextResult
  <2>3. \A j \in Results : pcState[j] = "producer_done" => pcState'[j] = "producer_done"
    BY <1>9 DEF Rewind
  <2> QED BY <2>1, <2>2, <2>3
<1>10. CASE Clear
  BY <1>10, LoopGoesOn DEF Clear, ProducerIs, results, consumers, producers
<1>11. CASE Answer
  BY <1>11 DEF Answer, ProducerIs, results, consumers, producers
<1>12. ASSUME NEW i \in Results, CompleteProducer(i) PROVE StatusInv'
  BY <1>12 DEF CompleteProducer, ProducerIs, results, consumers, producers
<1>13. ASSUME NEW i \in Results, ResumeConsumer(i) PROVE StatusInv'
  BY <1>13 DEF ResumeConsumer, ProducerIs, results, consumers, producers
<1>14. ASSUME NEW i \in Results, TryLoad(i) PROVE StatusInv'
  BY <1>14 DEF TryLoad, ProducerIs, results, consumers, producers
<1>15. ASSUME NEW i \in Results, TrySwap(i) PROVE StatusInv'
  <2>1. producer[i] = "swap" /\ pcState[i] = "producer_done" /\ UNCHANGED <<pcState, ctx, consumers, context>>
    BY <1>15 DEF TrySwap, WordInv, results
  <2>2. CASE UNCHANGED status
    BY <2>1, <2>2 DEF consumers
  <2>3. CASE /\ status[call] \in Open /\ i \in asked /\ consumer # "ready"
             /\ status' = [status EXCEPT ![call] = i]
    <3>1. call \in Calls /\ i \notin Open /\ status[call] \notin Results
      BY <2>3
    <3>2. consumer \notin {"rewind", "clear", "answered"}
      BY <2>3, <3>1
    <3>3. status'[call] = i /\ \A k \in Calls \ {call} : status'[k] = status[k]
      BY <2>3, <3>1
    <3> QED BY <2>1, <2>3, <3>1, <3>2, <3>3 DEF consumers
  <2> QED BY <1>15, <2>2, <2>3, SwapIsForThisCall
<1>16. ASSUME NEW i \in Results, CallHandle(i) PROVE StatusInv'
  BY <1>16, RewindBegins DEF CallHandle, CallerInv, ProducerIs, results, consumers, producers
<1> QED
  BY <1>1, <1>2, <1>3, <1>4, <1>5, <1>6, <1>7, <1>8, <1>9, <1>10, <1>11, <1>12, <1>13, <1>14, <1>15, <1>16 DEF Next, Consumer, Producer, Over

\* Who turns done_processing into a result is alone.
LEMMA CallerNext == IInv /\ [Next]_vars => CallerInv'
<1> SUFFICES ASSUME IInv, [Next]_vars PROVE CallerInv'
  OBVIOUS
<1> USE ResultsFinite DEF IInv, TypeOK, CallInv, Calls, None, Loop, CallerInv, StatusInv, Open, Processing, DoneProcessing
<1>1. CASE UNCHANGED vars
  BY <1>1 DEF vars, results, consumers, producers
<1>2. CASE Call
  BY <1>2, CallStarts DEF Call, ProducerIs, results, consumers, producers
<1>3. CASE AnyResultFinished
  BY <1>3, RewindBegins DEF AnyResultFinished, ProducerIs, results, consumers, producers
<1>4. CASE Load
  BY <1>4 DEF Load, ProducerIs, results, consumers, producers
<1>5. CASE ResumeInline
  BY <1>5, RewindBegins DEF ResumeInline, ProducerIs, results, consumers, producers
<1>6. CASE SetContext
  BY <1>6 DEF SetContext, ProducerIs, results, consumers, producers
<1>7. CASE Register
  BY <1>7, LoopGoesOn DEF Register, ProducerIs, results, consumers, producers
<1>8. CASE FinishProcessing
  BY <1>8, RewindBegins DEF FinishProcessing, ProducerIs, results, consumers, producers
<1>9. CASE Rewind
  BY <1>9, LoopGoesOn DEF Rewind, ProducerIs, results, consumers, producers
<1>10. CASE Clear
  BY <1>10, LoopGoesOn DEF Clear, ProducerIs, results, consumers, producers
<1>11. CASE Answer
  BY <1>11 DEF Answer, ProducerIs, results, consumers, producers
<1>12. ASSUME NEW i \in Results, CompleteProducer(i) PROVE CallerInv'
  BY <1>12 DEF CompleteProducer, ProducerIs, results, consumers, producers
<1>13. ASSUME NEW i \in Results, ResumeConsumer(i) PROVE CallerInv'
  BY <1>13 DEF ResumeConsumer, ProducerIs, results, consumers, producers
<1>14. ASSUME NEW i \in Results, TryLoad(i) PROVE CallerInv'
  BY <1>14 DEF TryLoad, ProducerIs, results, consumers, producers
<1>15. ASSUME NEW i \in Results, TrySwap(i) PROVE CallerInv'
  <2>1. producer[i] = "swap" /\ UNCHANGED <<results, consumers, context>>
    BY <1>15 DEF TrySwap
  <2>2. CASE /\ UNCHANGED status
             /\ \E p \in {"load", "done"} : producer' = [producer EXCEPT ![i] = p]
    BY <2>1, <2>2 DEF consumers
  <2>3. CASE /\ status[call] = Processing
             /\ status' = [status EXCEPT ![call] = i] /\ producer' = [producer EXCEPT ![i] = "done"]
    <3>1. \A j \in Results : producer[j] # "call"
      BY <2>3
    <3> QED BY <2>1, <2>3, <3>1 DEF consumers
  <2>4. CASE /\ status[call] = DoneProcessing /\ context[i].call = call /\ consumer # "ready"
             /\ status' = [status EXCEPT ![call] = i] /\ producer' = [producer EXCEPT ![i] = "call"]
    <3>1. \A j \in Results : producer[j] # "call"
      BY <2>4
    <3>2. consumer = "suspended" /\ call \in Calls
      BY <2>4
    <3> QED BY <2>1, <2>4, <3>1, <3>2 DEF consumers
  <2> QED BY <1>15, <2>2, <2>3, <2>4, SwapIsForThisCall
<1>16. ASSUME NEW i \in Results, CallHandle(i) PROVE CallerInv'
  BY <1>16, RewindBegins DEF CallHandle, CallerInv, ProducerIs, results, consumers, producers
<1> QED
  BY <1>1, <1>2, <1>3, <1>4, <1>5, <1>6, <1>7, <1>8, <1>9, <1>10, <1>11, <1>12, <1>13, <1>14, <1>15, <1>16 DEF Next, Consumer, Producer, Over

\* No context is written while a producer is on its way to it.
LEMMA WholeNext == IInv /\ [Next]_vars => ContextWhole'
<1> SUFFICES ASSUME IInv, [Next]_vars PROVE ContextWhole'
  OBVIOUS
<1> USE ResultsFinite DEF IInv, TypeOK, CallInv, Calls, None, Loop, ContextWhole, WordInv
<1>1. CASE UNCHANGED vars
  BY <1>1 DEF vars, results, consumers, producers
<1>2. CASE Call
  BY <1>2, CallStarts DEF Call, ProducerIs, results, consumers, producers
<1>3. CASE AnyResultFinished
  BY <1>3, RewindBegins DEF AnyResultFinished, ProducerIs, results, consumers, producers
<1>4. CASE Load
  BY <1>4 DEF Load, ProducerIs, results, consumers, producers
<1>5. CASE ResumeInline
  BY <1>5, RewindBegins DEF ResumeInline, ProducerIs, results, consumers, producers
<1>6. CASE SetContext
  BY <1>6 DEF SetContext, ProducerIs, results, consumers, producers
<1>7. CASE Register
  BY <1>7, LoopGoesOn DEF Register, ProducerIs, results, consumers, producers
<1>8. CASE FinishProcessing
  BY <1>8, RewindBegins DEF FinishProcessing, ProducerIs, results, consumers, producers
<1>9. CASE Rewind
  <2>1. consumer = "rewind" /\ consumer' \in {"rewind", "clear", "answered"} /\ UNCHANGED <<ctx, producer>>
    BY <1>9 DEF Rewind, NextResult, producers
  <2>2. consumer' = "clear" => pos' = pos /\ producer[pos] = "work"
    BY <1>9 DEF Rewind, NextResult
  <2> QED BY <2>1, <2>2
<1>10. CASE Clear
  BY <1>10, LoopGoesOn DEF Clear, ProducerIs, results, consumers, producers
<1>11. CASE Answer
  BY <1>11 DEF Answer, ProducerIs, results, consumers, producers
<1>12. ASSUME NEW i \in Results, CompleteProducer(i) PROVE ContextWhole'
  BY <1>12 DEF CompleteProducer, ProducerIs, results, consumers, producers
<1>13. ASSUME NEW i \in Results, ResumeConsumer(i) PROVE ContextWhole'
  BY <1>13 DEF ResumeConsumer, ProducerIs, results, consumers, producers
<1>14. ASSUME NEW i \in Results, TryLoad(i) PROVE ContextWhole'
  BY <1>14 DEF TryLoad, ProducerIs, results, consumers, producers
<1>15. ASSUME NEW i \in Results, TrySwap(i) PROVE ContextWhole'
  <2>1. producer[i] = "swap" /\ UNCHANGED <<results, consumers, context>>
    BY <1>15 DEF TrySwap
  <2>2. \A j \in Results : producer'[j] = "resume" => producer[j] = "resume"
    BY <1>15, <2>1, SwapIsForThisCall
  <2> QED BY <2>1, <2>2 DEF results, consumers
<1>16. ASSUME NEW i \in Results, CallHandle(i) PROVE ContextWhole'
  BY <1>16, RewindBegins DEF CallHandle, CallerInv, ProducerIs, results, consumers, producers
<1> QED
  BY <1>1, <1>2, <1>3, <1>4, <1>5, <1>6, <1>7, <1>8, <1>9, <1>10, <1>11, <1>12, <1>13, <1>14, <1>15, <1>16 DEF Next, Consumer, Producer, Over

LEMMA InvInit == Init => IInv
<1> SUFFICES ASSUME Init PROVE IInv
  OBVIOUS
<1> USE ResultsFinite, NumResultsAssumption DEF Init, NoContext, Calls, None, Open, Processing, DoneProcessing, Loop
<1>1. TypeOK
  <2>1. 1 \in Results
    BY DEF Results
  <2> QED BY <2>1 DEF TypeOK
<1>2. CallInv
  BY DEF CallInv
<1>3. WordInv /\ ContextInv
  BY DEF WordInv, ContextInv
<1>4. StatusInv /\ CallerInv
  BY DEF StatusInv, CallerInv
<1>5. ContextWhole
  BY DEF ContextWhole
<1> QED BY <1>1, <1>2, <1>3, <1>4, <1>5 DEF IInv

\* IInv holds of every reachable state, for any number of results.
THEOREM Invariant == Spec => []IInv
<1>1. IInv /\ [Next]_vars => IInv'
  <2> SUFFICES ASSUME IInv, [Next]_vars PROVE IInv'
    OBVIOUS
  <2>1. TypeOK' /\ CallInv' /\ WordInv' /\ ContextInv' /\ StatusInv' /\ CallerInv' /\ ContextWhole'
    BY TypeNext, CallNext, WordNext, ContextNext, StatusNext, CallerNext, WholeNext
  <2> QED BY <2>1 DEF IInv
<1> QED BY InvInit, <1>1, PTL DEF Spec

-----------------------------------------------------------------------------
(* What the runs check of two results and more, for any number of them.    *)

\* Every variable keeps its type; with it, that when_any is never called once more than
\* there are results: an answer takes one from the results of the calls to come.
THEOREM TypeCorrect == Spec => []TypeOK
<1>1. IInv => TypeOK
  BY DEF IInv
<1> QED BY <1>1, Invariant, PTL

\* complete_producer never finds a context that set_when_any_context or
\* try_rewind_consumer is still writing, and set_when_any_context only writes to a result
\* whose context of an earlier call was cleared (result_state.cpp's assertion).
THEOREM ContextsAreWhole == Spec => []ContextWhole
<1>1. IInv => ContextWhole
  BY DEF IInv
<1> QED BY <1>1, Invariant, PTL

\* However many producers come at once, on contexts of this call and of earlier ones, one
\* of them resumes the coroutine, and await_resume is told of a result of this call that
\* is done.
THEOREM OneAnswerEach == Spec => []OneAnswer
<1>1. IInv => OneAnswer
  <2> SUFFICES ASSUME IInv PROVE OneAnswer
    OBVIOUS
  <2> DEFINE Callers == {i \in Results : producer[i] = "call"}
  <2>1. Callers \subseteq {status[call]}
    BY DEF IInv, CallerInv
  <2>2. Cardinality(Callers) <= 1
    <3> HIDE DEF Callers
    <3>1. IsFiniteSet({status[call]}) /\ Cardinality({status[call]}) = 1
      BY FS_Singleton
    <3>2. Cardinality(Callers) <= Cardinality({status[call]})
      BY <2>1, <3>1, FS_Subset
    <3> QED BY <3>1, <3>2
  <2>3. ASSUME consumer \in {"rewind", "clear", "answered"}
        PROVE  status[call] \in asked /\ pcState[status[call]] = "producer_done"
    <3>1. call \in Calls /\ status[call] \in Results
      BY <2>3 DEF IInv, CallInv, StatusInv
    <3> QED BY <2>3, <3>1 DEF IInv, StatusInv
  <2> QED BY <2>2, <2>3 DEF OneAnswer, IInv, CallerInv, StatusInv
<1> QED BY <1>1, Invariant, PTL
-----------------------------------------------------------------------------
(* Somebody is on the way to tell the coroutine.                           *)

\* The producer that has the context of this call, or is to read it.
Telling(i) ==
    \/ producer[i] = "resume" /\ ctx[i] = call
    \/ producer[i] \in {"load", "swap"} /\ context[i].call = call

\* The results whose exchange went through.
Registered == {i \in asked \ missed : consumer \in Loop => i < pos}

\* A context that is set is that of this call; who saw done_processing saw the last
\* status before a result.
SeenInv ==
    /\ consumer = "cas" => ctx[pos] = call
    /\ \A i \in Results :
           /\ pcState[i] = "consumer_set" => ctx[i] = call
           /\ producer[i] = "swap" /\ context[i].saw = DoneProcessing => status[context[i].call] # Processing

\* As long as no result is in the status, who is registered with still has the context or
\* is telling.
TellInv ==
    consumer \in Loop \cup {"finish", "suspended"} /\ status[call] \in Open =>
        \A i \in Registered : pcState[i] = "consumer_set" \/ Telling(i)

\* Whoever left its result in the status of a suspended coroutine resumes it.
ResumeInv == consumer = "suspended" /\ status[call] \in Results => producer[status[call]] = "call"

\* A status goes from processing to done_processing and never back.
LEMMA SeenNext == IInv /\ SeenInv /\ [Next]_vars => SeenInv'
<1> SUFFICES ASSUME IInv, SeenInv, [Next]_vars PROVE SeenInv'
  OBVIOUS
<1> USE ResultsFinite DEF IInv, TypeOK, CallInv, Calls, None, Loop, SeenInv, StatusInv, ContextInv, WordInv, Open, Processing, DoneProcessing
<1>1. CASE UNCHANGED vars
  BY <1>1 DEF vars, results, consumers, producers
<1>2. CASE Call
  BY <1>2, CallStarts DEF Call, ProducerIs, results, consumers, producers
<1>3. CASE AnyResultFinished
  BY <1>3, RewindBegins DEF AnyResultFinished, ProducerIs, results, consumers, producers
<1>4. CASE Load
  BY <1>4 DEF Load, ProducerIs, results, consumers, producers
<1>5. CASE ResumeInline
  BY <1>5, RewindBegins DEF ResumeInline, ProducerIs, results, consumers, producers
<1>6. CASE SetContext
  BY <1>6 DEF SetContext, ProducerIs, results, consumers, producers
<1>7. CASE Register
  BY <1>7, LoopGoesOn DEF Register, ProducerIs, results, consumers, producers
<1>8. CASE FinishProcessing
  <2>1. consumer' # "cas" /\ UNCHANGED <<pcState, ctx, call, producer, context>>
    BY <1>8 DEF FinishProcessing, Answered, results, producers
  <2>2. \A k \in Calls : status[k] # Processing => status'[k] # Processing
    BY <1>8 DEF FinishProcessing
  <2>3. \A i \in Results : producer[i] = "swap" => context[i].call \in Calls
    OBVIOUS
  <2> QED BY <2>1, <2>2, <2>3
<1>9. CASE Rewind
  <2>1. consumer' # "cas" /\ UNCHANGED <<ctx, status, call, producer, context>>
    BY <1>9 DEF Rewind, NextResult, producers
  <2>2. \A j \in Results : pcState'[j] = "consumer_set" => pcState[j] = "consumer_set"
    BY <1>9 DEF Rewind
  <2> QED BY <2>1, <2>2
<1>10. CASE Clear
  <2>1. consumer = "clear" /\ pos \in Results /\ UNCHANGED <<pcState, status, call, producer, context>>
    BY <1>10 DEF Clear, producers
  <2>2. consumer' # "cas"
    BY <1>10 DEF Clear, NextResult
  <2>3. \A j \in Results : ctx'[j] = ctx[j] \/ j = pos
    BY <1>10 DEF Clear
  <2>4. pcState[pos] # "consumer_set"
    BY <2>1
  <2> QED BY <2>1, <2>2, <2>3, <2>4
<1>11. CASE Answer
  BY <1>11 DEF Answer, ProducerIs, results, consumers, producers
<1>12. ASSUME NEW i \in Results, CompleteProducer(i) PROVE SeenInv'
  BY <1>12 DEF CompleteProducer, ProducerIs, results, consumers, producers
<1>13. ASSUME NEW i \in Results, ResumeConsumer(i) PROVE SeenInv'
  BY <1>13 DEF ResumeConsumer, ProducerIs, results, consumers, producers
<1>14. ASSUME NEW i \in Results, TryLoad(i) PROVE SeenInv'
  BY <1>14 DEF TryLoad, ProducerIs, results, consumers, producers
<1>15. ASSUME NEW i \in Results, TrySwap(i) PROVE SeenInv'
  <2>1. producer[i] = "swap" /\ UNCHANGED <<pcState, ctx, call, pos, consumer, context>>
    BY <1>15 DEF TrySwap, results, consumers
  <2>2. \A j \in Results : producer'[j] = "swap" => producer[j] = "swap"
    <3>1. \A j \in Results : producer'[j] = producer[j] \/ (j = i /\ producer'[j] # "swap")
      <4>1. producer \in [Results -> {"work", "resume", "load", "swap", "call", "done"}]
        OBVIOUS
      <4> HIDE DEF IInv
      <4> QED BY <1>15, <4>1 DEF TrySwap, ProducerIs, Retry
    <3> QED BY <3>1
  <2>3. \A k \in Calls : status[k] # Processing => status'[k] # Processing
    <3>1. status' = status \/ status' = [status EXCEPT ![call] = i]
      BY <1>15, SwapIsForThisCall
    <3>2. i # Processing
      OBVIOUS
    <3> QED BY <3>1, <3>2
  <2>4. \A j \in Results : producer[j] = "swap" => context[j].call \in Calls
    OBVIOUS
  <2> QED BY <2>1, <2>2, <2>3, <2>4
<1>16. ASSUME NEW i \in Results, CallHandle(i) PROVE SeenInv'
  <2>1. consumer' = "rewind" /\ UNCHANGED <<pcState, ctx, status, call, context>>
    BY <1>16 DEF CallHandle, Answered, results
  <2>2. \A j \in Results : producer'[j] = "swap" => producer[j] = "swap"
    BY <1>16 DEF CallHandle, ProducerIs
  <2> QED BY <2>1, <2>2
<1> QED
  BY <1>1, <1>2, <1>3, <1>4, <1>5, <1>6, <1>7, <1>8, <1>9, <1>10, <1>11, <1>12, <1>13, <1>14, <1>15, <1>16 DEF Next, Consumer, Producer, Over

\* Nobody who tells leaves before a result is in the status.
LEMMA TellNext == IInv /\ SeenInv /\ TellInv /\ [Next]_vars => TellInv'
<1> SUFFICES ASSUME IInv, SeenInv, TellInv, [Next]_vars PROVE TellInv'
  OBVIOUS
<1> USE ResultsFinite DEF IInv, TypeOK, CallInv, Calls, None, Loop, SeenInv, StatusInv, ContextInv, WordInv, TellInv, Telling, Registered, Open, Processing, DoneProcessing
<1>1. CASE UNCHANGED vars
  BY <1>1 DEF vars, results, consumers, producers
<1>2. CASE Call
  <2>1. consumer' = "check" /\ (\A j \in asked' : pos' <= j) /\ pos' \in Results /\ asked' \subseteq Results
    BY <1>2, CallStarts DEF Call
  <2>2. ASSUME NEW j \in Registered' PROVE FALSE
    <3>1. j \in asked' /\ j < pos' /\ pos' <= j
      BY <2>1
    <3> QED BY <2>1, <3>1
  <2> QED BY <2>2
<1>3. CASE AnyResultFinished
  BY <1>3, RewindBegins DEF AnyResultFinished, ProducerIs, results, consumers, producers
<1>4. CASE Load
  BY <1>4 DEF Load, ProducerIs, results, consumers, producers
<1>5. CASE ResumeInline
  BY <1>5, RewindBegins DEF ResumeInline, ProducerIs, results, consumers, producers
<1>6. CASE SetContext
  BY <1>6 DEF SetContext, ProducerIs, results, consumers, producers
<1>7. CASE Register
  <2>1. /\ consumer = "cas" /\ pos \in asked /\ asked \subseteq Results
        /\ UNCHANGED <<ctx, status, asked, call, producer, context>>
    BY <1>7 DEF Register, producers
  <2>2. \/ consumer' = "finish" /\ \A j \in asked : j <= pos
        \/ consumer' = "check" /\ \A j \in asked : pos < j => pos' <= j
    <3>1. NextResult("check", "finish")
      BY <1>7 DEF Register
    <3> QED BY <2>1, <3>1, LoopGoesOn
  <2>3. pos' \in Results
    BY <1>7, LoopGoesOn DEF Register
  <2>4. \/ pcState'[pos] = "consumer_set" /\ missed' = missed
        \/ missed' = missed \cup {pos}
    BY <1>7, <2>1 DEF Register
  <2>5. \A j \in Results : pcState[j] = "consumer_set" => pcState'[j] = "consumer_set"
    BY <1>7 DEF Register
  <2>6. \A j \in Registered' : j \in Registered \/ (j = pos /\ pcState'[pos] = "consumer_set")
    BY <2>1, <2>2, <2>3, <2>4
  <2> QED BY <2>1, <2>5, <2>6
<1>8. CASE FinishProcessing
  BY <1>8, RewindBegins DEF FinishProcessing, ProducerIs, results, consumers, producers
<1>9. CASE Rewind
  BY <1>9, LoopGoesOn DEF Rewind, ProducerIs, results, consumers, producers
<1>10. CASE Clear
  BY <1>10, LoopGoesOn DEF Clear, ProducerIs, results, consumers, producers
<1>11. CASE Answer
  BY <1>11 DEF Answer, ProducerIs, results, consumers, producers
<1>12. ASSUME NEW i \in Results, CompleteProducer(i) PROVE TellInv'
  BY <1>12 DEF CompleteProducer, ProducerIs, results, consumers, producers
<1>13. ASSUME NEW i \in Results, ResumeConsumer(i) PROVE TellInv'
  <2>1. producer[i] = "resume" /\ UNCHANGED <<pcState, ctx, status, asked, missed, pos, consumer, call>>
    BY <1>13 DEF ResumeConsumer, results, consumers
  <2>2. \A j \in Results : j # i => producer'[j] = producer[j] /\ context'[j] = context[j]
    BY <1>13 DEF ResumeConsumer, ProducerIs
  <2>3. ctx[i] = call /\ call \in Calls => producer'[i] = "load" /\ context'[i].call = call
    BY <1>13, <2>1 DEF ResumeConsumer, ProducerIs
  <2>4. consumer # "ready" => \A j \in Results : Telling(j) => Telling(j)'
    BY <2>1, <2>2, <2>3
  <2> QED BY <2>1, <2>4
<1>14. ASSUME NEW i \in Results, TryLoad(i) PROVE TellInv'
  BY <1>14 DEF TryLoad, ProducerIs, results, consumers, producers
<1>15. ASSUME NEW i \in Results, TrySwap(i) PROVE TellInv'
  <2>1. producer[i] = "swap" /\ UNCHANGED <<pcState, ctx, asked, missed, pos, consumer, call, context>>
    BY <1>15 DEF TrySwap, results, consumers
  <2>2. CASE UNCHANGED status
    <3>1. SUFFICES ASSUME consumer \in Loop \cup {"finish", "suspended"}, status[call] \in Open
                   PROVE  \A j \in Registered' : pcState'[j] = "consumer_set" \/ Telling(j)'
      BY <2>1, <2>2
    <3>2. call \in Calls
      BY <3>1
    <3>3. ASSUME context[i].call = call PROVE producer'[i] = "load"
      <4>1. status[call] # context[i].saw
        <5>1. status[call] = context[i].saw => status'[call] = i
          <6>1. status \in [Calls -> Results \cup Open]
            OBVIOUS
          <6> HIDE DEF IInv, SeenInv, TellInv, Calls
          <6> QED BY <1>15, <3>2, <3>3, <6>1 DEF TrySwap
        <5> QED BY <2>2, <3>1, <5>1
      <4>2. context[i].saw = Processing
        BY <2>1, <3>1, <3>3, <4>1
      <4> QED BY <1>15, <3>3, <4>1, <4>2 DEF TrySwap, ProducerIs, Retry
    <3>4. \A j \in Results : j # i => producer'[j] = producer[j]
      BY <1>15 DEF TrySwap, ProducerIs
    <3>5. \A j \in Results : Telling(j) => Telling(j)'
      BY <2>1, <3>3, <3>4
    <3> QED BY <2>1, <3>1, <3>5
  <2>3. CASE consumer # "ready" /\ status' = [status EXCEPT ![call] = i]
    BY <2>1, <2>3
  <2> QED BY <1>15, <2>2, <2>3, SwapIsForThisCall
<1>16. ASSUME NEW i \in Results, CallHandle(i) PROVE TellInv'
  BY <1>16, RewindBegins DEF CallHandle, ProducerIs, results, consumers, producers
<1> QED
  BY <1>1, <1>2, <1>3, <1>4, <1>5, <1>6, <1>7, <1>8, <1>9, <1>10, <1>11, <1>12, <1>13, <1>14, <1>15, <1>16 DEF Next, Consumer, Producer, Over

\* The status of a suspended coroutine is only taken by who resumes it.
LEMMA ResumeStays == IInv /\ ResumeInv /\ [Next]_vars => ResumeInv'
<1> SUFFICES ASSUME IInv, ResumeInv, [Next]_vars PROVE ResumeInv'
  OBVIOUS
<1> USE ResultsFinite DEF IInv, TypeOK, CallInv, Calls, None, Loop, StatusInv, ResumeInv, CallerInv, Open, Processing, DoneProcessing
<1>1. CASE UNCHANGED vars
  BY <1>1 DEF vars, results, consumers, producers
<1>2. CASE Call
  BY <1>2, CallStarts DEF Call, ProducerIs, results, consumers, producers
<1>3. CASE AnyResultFinished
  BY <1>3, RewindBegins DEF AnyResultFinished, ProducerIs, results, consumers, producers
<1>4. CASE Load
  BY <1>4 DEF Load, ProducerIs, results, consumers, producers
<1>5. CASE ResumeInline
  BY <1>5, RewindBegins DEF ResumeInline, ProducerIs, results, consumers, producers
<1>6. CASE SetContext
  BY <1>6 DEF SetContext, ProducerIs, results, consumers, producers
<1>7. CASE Register
  BY <1>7, LoopGoesOn DEF Register, ProducerIs, results, consumers, producers
<1>8. CASE FinishProcessing
  BY <1>8, RewindBegins DEF FinishProcessing, ProducerIs, results, consumers, producers
<1>9. CASE Rewind
  BY <1>9, LoopGoesOn DEF Rewind, ProducerIs, results, consumers, producers
<1>10. CASE Clear
  BY <1>10, LoopGoesOn DEF Clear, ProducerIs, results, consumers, producers
<1>11. CASE Answer
  BY <1>11 DEF Answer, ProducerIs, results, consumers, producers
<1>12. ASSUME NEW i \in Results, CompleteProducer(i) PROVE ResumeInv'
  BY <1>12 DEF CompleteProducer, ProducerIs, results, consumers, producers
<1>13. ASSUME NEW i \in Results, ResumeConsumer(i) PROVE ResumeInv'
  BY <1>13 DEF ResumeConsumer, ProducerIs, results, consumers, producers
<1>14. ASSUME NEW i \in Results, TryLoad(i) PROVE ResumeInv'
  BY <1>14 DEF TryLoad, ProducerIs, results, consumers, producers
<1>15. ASSUME NEW i \in Results, TrySwap(i) PROVE ResumeInv'
  <2>1. producer[i] = "swap" /\ UNCHANGED <<consumer, call>>
    BY <1>15 DEF TrySwap, consumers
  <2>2. CASE /\ UNCHANGED status
             /\ \E p \in {"load", "done"} : producer' = [producer EXCEPT ![i] = p]
    BY <2>1, <2>2
  <2>3. CASE /\ consumer # "ready" /\ status' = [status EXCEPT ![call] = i]
             /\ \/ status[call] = Processing
                \/ producer' = [producer EXCEPT ![i] = "call"]
    BY <2>1, <2>3
  <2> QED BY <1>15, <2>2, <2>3, SwapIsForThisCall
<1>16. ASSUME NEW i \in Results, CallHandle(i) PROVE ResumeInv'
  BY <1>16, RewindBegins DEF CallHandle, ProducerIs, results, consumers, producers
<1> QED
  BY <1>1, <1>2, <1>3, <1>4, <1>5, <1>6, <1>7, <1>8, <1>9, <1>10, <1>11, <1>12, <1>13, <1>14, <1>15, <1>16 DEF Next, Consumer, Producer, Over

\* No result goes unheard: while the coroutine is suspended, once a result that it asked for
\* is there, some producer is on its way to resume it, on the context of this very call,
\* unless the result came between the load and the exchange of its registration
\* (result_state_base::when_any, try_resume).  AnsweredUnlessMissed needs this in every state.
AnswerComes ==
    consumer = "suspended" =>
        \A i \in asked \ missed :
            pcState[i] = "producer_done" => \E j \in asked : Telling(j) \/ producer[j] = "call"

\* A suspended when_any whose result is there is being told, for any number of results.
THEOREM AnAnswerIsUnderWay == Spec => []AnswerComes
<1>1. Init => SeenInv /\ TellInv /\ ResumeInv
  BY DEF Init, SeenInv, TellInv, ResumeInv, Loop
<1>2. IInv /\ SeenInv /\ TellInv /\ ResumeInv /\ [Next]_vars => SeenInv' /\ TellInv' /\ ResumeInv'
  BY SeenNext, TellNext, ResumeStays
<1>3. IInv /\ TellInv /\ ResumeInv => AnswerComes
  <2> SUFFICES ASSUME IInv, TellInv, ResumeInv, consumer = "suspended",
                      NEW i \in asked \ missed, pcState[i] = "producer_done"
               PROVE  \E j \in asked : Telling(j) \/ producer[j] = "call"
    BY DEF AnswerComes
  <2>1. call \in Calls /\ i \in Registered /\ asked \subseteq Results /\ status[call] \in Results \cup Open
    BY DEF IInv, TypeOK, CallInv, Registered, Loop
  <2>2. CASE status[call] \in Open
    BY <2>1, <2>2 DEF TellInv
  <2>3. CASE status[call] \in Results
    <3>1. status[call] \in asked
      BY <2>3 DEF IInv, StatusInv
    <3> QED BY <2>3, <3>1 DEF ResumeInv
  <2> QED BY <2>1, <2>2, <2>3
<1>4. Spec => []IInv
  BY Invariant
<1> QED BY <1>1, <1>2, <1>3, <1>4, PTL DEF Spec
=============================================================================
