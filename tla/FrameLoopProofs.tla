-------------------------- MODULE FrameLoopProofs --------------------------
(***************************************************************************)
(* The safety properties of FrameLoop hold for any set of workers, any     *)
(* width of int and any length of the message queue.                       *)
(***************************************************************************)
EXTENDS FrameLoop, SequenceTheorems, TLAPS

Open(f) == result[f] \in {"idle", "consumer_set"}
Carries(w, k) == workerPc[w] \in Updating /\ task[w] = k

\* Which futures of the frame exist while Loop stands at each point.
Alive == [p \in LoopPoints |->
    CASE p = "submit_render" -> {"game", "game_inner"}
      [] p = "game" -> Futures
      [] p = "game_inner" -> Futures \ {"game"}
      [] p = "render" -> {"render", "render_inner"}
      [] p = "render_inner" -> {"render_inner"}
      [] OTHER -> {}]

FuturesInv == \A f \in Futures : result[f] # "none" <=> f \in Alive[loopAt]

\* A suspended Loop is the consumer of the future it awaits, and of no other.
ConsumerInv ==
    /\ \A f \in Futures : result[f] = "consumer_set" => loopAt = f /\ loopOn = Nobody
    /\ loopOn = Nobody /\ loopAt # "done" =>
           loopAt \in Futures /\ result[loopAt] = "consumer_set"

\* An unfinished update is in exactly one place: the queue of a worker or a worker itself.
CarrierInv ==
    /\ \A k \in Pending : Open(k) /\ \A w \in Workers : ~Carries(w, k)
    /\ \A w \in Workers : workerPc[w] \in Updating => Open(task[w])
    /\ \A w, v \in Workers :
           workerPc[w] \in Updating /\ Carries(v, task[w]) => w = v

\* Every unfinished update still has somebody to finish it.
OpenInv == \A k \in Tasks : Open(k) => k \in Pending \/ \E w \in Workers : Carries(w, k)

\* The coroutine of an update is over just before the task that started it.
InnerInv ==
    /\ \A k \in Pending : result[Inner(k)] = "idle"
    /\ \A k \in Tasks : ~Open(k) => result[Inner(k)] # "idle"
    /\ \A w \in Workers :
           /\ workerPc[w] \in {"load", "store", "draw", "inner"} => result[Inner(task[w])] = "idle"
           /\ workerPc[w] = "outer" => result[Inner(task[w])] = "producer_done"
           /\ workerPc[w] \in {"load", "store"} => task[w] = "game"
           /\ workerPc[w] = "draw" => task[w] = "render"

\* The counter is one frame behind exactly until its store.
Counting == queuedAt["game"] # Nobody \/ \E w \in Workers : workerPc[w] \in {"load", "store"}
CounterInv ==
    /\ frames = IF Counting THEN Succ(noFrame) ELSE noFrame
    /\ \A w \in Workers : workerPc[w] = "store" => loaded[w] = noFrame

MainInv ==
    /\ loopAt = "done" <=> loopResult = "producer_done"
    /\ loopAt = "done" => loopOn = Nobody /\ mainPc # "blocked"
    /\ mainPc \in {"shutdown", "returned"} => loopAt = "done"
    /\ \A w \in Workers : workerPc[w] = "gone" => mainPc \in {"shutdown", "returned"}

IInv ==
    /\ TypeOK /\ OneStack
    /\ FuturesInv /\ ConsumerInv /\ CarrierInv /\ OpenInv /\ InnerInv
    /\ CounterInv /\ MainInv

-----------------------------------------------------------------------------

\* The message queue keeps its type when a message is taken or replaced.
LEMMA QueueType ==
    ASSUME NEW S, NEW q \in Seq(S), q # <<>>, NEW x \in S
    PROVE  {Append(Tail(q), x), Tail(q), <<>>} \subseteq Seq(S)
<1>1. Tail(q) \in Seq(S)
  BY HeadTailProperties
<1>2. Append(Tail(q), x) \in Seq(S) /\ <<>> \in Seq(S)
  BY <1>1
<1> QED
  BY <1>1, <1>2

\* The frame loop starts in the inductive invariant.
LEMMA InitInv == Init => IInv
<1> SUFFICES ASSUME Init PROVE IInv
  OBVIOUS
<1> USE ThreadAssumption, IntMaxAssumption
    DEF Init, Open, Carries, Pending, Updating, Futures, Tasks, Threads, Inner
<1>1. TypeOK
  <2>1. 0 \in Int32
    BY DEF Int32
  <2>2. task \in [Workers -> Tasks]
    BY DEF Tasks
  <2>3. queue \in Seq({"key", "char", "close"})
    OBVIOUS
  <2>4. /\ workerPc \in [Workers -> {"loop", "gone"} \cup Waiting \cup Updating]
        /\ queuedAt \in [Tasks -> Workers \cup {Nobody}]
    BY DEF Waiting
  <2>5. loaded \in [Workers -> Int32]
    BY <2>1
  <2> QED
    BY <2>1, <2>2, <2>3, <2>4, <2>5 DEF TypeOK, LoopPoints
<1>2. OneStack
  BY DEF OneStack
<1>3. FuturesInv
  BY DEF FuturesInv, Alive, LoopPoints
<1>4. ConsumerInv /\ CarrierInv /\ OpenInv /\ InnerInv
  BY DEF ConsumerInv, CarrierInv, OpenInv, InnerInv
<1>5. CounterInv /\ MainInv
  BY DEF CounterInv, Counting, MainInv
<1> QED
  BY <1>1, <1>2, <1>3, <1>4, <1>5 DEF IInv

\* What workers without an update do among themselves, and where in the pool an update
\* waits, is nothing to the invariant.
LEMMA WaitingKeeps ==
    ASSUME IInv, UNCHANGED <<coroutine, result, update, messages, frames>>,
           workerPc' \in [Workers -> {"loop", "gone"} \cup Waiting \cup Updating],
           \A w \in Workers : workerPc'[w] # workerPc[w] => {workerPc[w], workerPc'[w]} \subseteq Waiting,
           queuedAt' \in [Tasks -> Workers \cup {Nobody}],
           Pending' = Pending
    PROVE  IInv'
<1>1. /\ TypeOK /\ OneStack /\ FuturesInv /\ ConsumerInv /\ CarrierInv /\ OpenInv
      /\ InnerInv /\ CounterInv /\ MainInv
  BY DEF IInv
<1>2. /\ UNCHANGED <<loopAt, loopOn, mainPc, loopResult, task, noFrame, loaded>>
      /\ UNCHANGED <<queue, quit, window, result, frames>>
  BY DEF coroutine, update, messages
<1>3. \A w \in Workers : workerPc[w] \notin Waiting \/ workerPc'[w] \notin Waiting => workerPc'[w] = workerPc[w]
  OBVIOUS
<1>4. \A w \in Workers, p \in {"loop", "gone"} \cup Updating : workerPc'[w] = p <=> workerPc[w] = p
  BY <1>3 DEF Waiting, Updating
<1>5. \A w \in Workers : \A k : Carries(w, k)' <=> Carries(w, k)
  BY <1>2, <1>4 DEF Carries
<1>6. "game" \in Pending' <=> "game" \in Pending
  OBVIOUS
<1>7. TypeOK'
  BY <1>1, <1>2 DEF TypeOK
<1>8. OneStack' /\ MainInv'
  BY <1>1, <1>2, <1>4 DEF OneStack, MainInv
<1>9. FuturesInv' /\ ConsumerInv'
  BY <1>1, <1>2 DEF FuturesInv, ConsumerInv
<1>10. CarrierInv'
  BY <1>1, <1>2, <1>4, <1>5 DEF CarrierInv, Open
<1>11. OpenInv'
  BY <1>1, <1>2, <1>5 DEF OpenInv, Open
<1>12. InnerInv'
  BY <1>1, <1>2, <1>4 DEF InnerInv, Open, Updating
<1>13. CounterInv'
  BY <1>1, <1>2, <1>4, <1>6 DEF CounterInv, Counting, Pending, Tasks, Updating
<1> QED
  BY <1>7, <1>8, <1>9, <1>10, <1>11, <1>12, <1>13 DEF IInv

\* Every step keeps the inductive invariant.  Posting, and WinMain until the
\* pool is shut down, disturb their own variables only; the steps of Loop move
\* futures between Alive and ConsumerInv; the steps of a worker move an update
\* between the queues, CarrierInv and InnerInv.
LEMMA NextInv == IInv /\ [Next]_vars => IInv'
<1> SUFFICES ASSUME IInv, [Next]_vars PROVE IInv'
  OBVIOUS
<1>inv. /\ TypeOK /\ OneStack /\ FuturesInv /\ ConsumerInv /\ CarrierInv /\ OpenInv
        /\ InnerInv /\ CounterInv /\ MainInv
  BY DEF IInv
<1> USE ThreadAssumption, IntMaxAssumption, MaxMsgsAssumption
    DEF IInv, TypeOK, OneStack, FuturesInv, ConsumerInv, CarrierInv, OpenInv,
        InnerInv, CounterInv, MainInv, Open, Carries, Alive, Counting, LoopPoints,
        Futures, Tasks, Threads, Inner, After, Succ, Int32, Updating, Waiting, Pending,
        Enqueue, coroutine, update, messages, vars
<1>1. ASSUME NEW m \in {"key", "close"}, Post(m) PROVE IInv'
  BY <1>1 DEF Post
<1>2. ASSUME NEW t \in Threads, PeekMessage(t) PROVE IInv'
  <2>1. queue' \in Seq({"key", "char", "close"})
    <3>1. queue \in Seq({"key", "char", "close"}) /\ queue # <<>>
      BY <1>2 DEF PeekMessage
    <3>2. queue' \in {Append(Tail(queue), "char"), Tail(queue), <<>>}
      BY <1>2 DEF PeekMessage, WndProcDestroy
    <3> HIDE DEF IInv
    <3>3. "char" \in {"key", "char", "close"}
      OBVIOUS
    <3> QED
      BY <3>1, <3>2, <3>3, QueueType, Zenon
  <2>2. quit' \in BOOLEAN /\ window' \in BOOLEAN
    BY <1>2 DEF PeekMessage, WndProcDestroy
  <2>3. UNCHANGED <<coroutine, workerPc, queuedAt, result, update, frames>>
    BY <1>2 DEF PeekMessage
  <2> QED
    BY <2>1, <2>2, <2>3
<1>3. ASSUME NEW t \in Threads, Quit(t) PROVE IInv'
  <2>1. t = Main /\ mainPc' = "leaving" /\ workerPc' = workerPc
    BY <1>3 DEF Quit, OwnsWindow, LeaveThread
  <2>2. TypeOK'
    BY <1>3, <2>1 DEF Quit, At
  <2>3. OneStack'
    BY <1>3, <2>1 DEF Quit, At
  <2>4. FuturesInv' /\ ConsumerInv' /\ CarrierInv' /\ OpenInv' /\ InnerInv'
    BY <1>3, <2>1 DEF Quit, At
  <2>5. CounterInv' /\ MainInv'
    BY <1>3, <2>1 DEF Quit, At
  <2> QED
    BY <2>2, <2>3, <2>4, <2>5
<1>4. ASSUME NEW t \in Threads, NoMessage(t) PROVE IInv'
  BY <1>4 DEF NoMessage, At
<1>5. ASSUME NEW t \in Threads, SubmitGame(t) PROVE IInv'
  <2> HIDE DEF IInv, TypeOK, OneStack, FuturesInv, ConsumerInv, CarrierInv, OpenInv, InnerInv,
               CounterInv, MainInv
  <2>1. TypeOK'
    BY <1>5, <1>inv DEF SubmitGame, SubmitTask, At, TypeOK
  <2>2. OneStack'
    BY <1>5, <1>inv DEF SubmitGame, SubmitTask, At, TypeOK, OneStack, ConsumerInv
  <2>3. FuturesInv'
    BY <1>5, <1>inv DEF SubmitGame, SubmitTask, At, TypeOK, FuturesInv
  <2>4. ConsumerInv'
    BY <1>5, <1>inv DEF SubmitGame, SubmitTask, At, TypeOK, ConsumerInv, OneStack, FuturesInv
  <2>5. CarrierInv'
    BY <1>5, <1>inv DEF SubmitGame, SubmitTask, At, TypeOK, CarrierInv, FuturesInv, ConsumerInv
  <2>6. OpenInv'
    BY <1>5, <1>inv
       DEF SubmitGame, SubmitTask, At, TypeOK, OpenInv, CarrierInv, FuturesInv, ConsumerInv
  <2>7. InnerInv'
    BY <1>5, <1>inv
       DEF SubmitGame, SubmitTask, At, TypeOK, InnerInv, FuturesInv, CarrierInv, ConsumerInv
  <2>8. CounterInv'
    BY <1>5, <1>inv
       DEF SubmitGame, SubmitTask, At, TypeOK, CounterInv, CarrierInv, OpenInv, FuturesInv,
           InnerInv
  <2>9. MainInv'
    BY <1>5, <1>inv DEF SubmitGame, SubmitTask, At, TypeOK, MainInv, OneStack
  <2> QED
    BY <2>1, <2>2, <2>3, <2>4, <2>5, <2>6, <2>7, <2>8, <2>9 DEF IInv
<1>6. ASSUME NEW t \in Threads, SubmitRender(t) PROVE IInv'
  <2> HIDE DEF IInv, TypeOK, OneStack, FuturesInv, ConsumerInv, CarrierInv, OpenInv, InnerInv,
               CounterInv, MainInv
  <2>1. TypeOK'
    BY <1>6, <1>inv DEF SubmitRender, SubmitTask, At, TypeOK
  <2>2. OneStack'
    BY <1>6, <1>inv DEF SubmitRender, SubmitTask, At, TypeOK, OneStack, ConsumerInv
  <2>3. FuturesInv'
    BY <1>6, <1>inv DEF SubmitRender, SubmitTask, At, TypeOK, FuturesInv
  <2>4. ConsumerInv'
    BY <1>6, <1>inv DEF SubmitRender, SubmitTask, At, TypeOK, ConsumerInv, OneStack, FuturesInv
  <2>5. CarrierInv'
    BY <1>6, <1>inv DEF SubmitRender, SubmitTask, At, TypeOK, CarrierInv, FuturesInv, ConsumerInv
  <2>6. OpenInv'
    BY <1>6, <1>inv
       DEF SubmitRender, SubmitTask, At, TypeOK, OpenInv, CarrierInv, FuturesInv, ConsumerInv
  <2>7. InnerInv'
    <3>1. PICK v \in Workers : Enqueue("render", v)
      BY <1>6 DEF SubmitRender, SubmitTask
    <3>2. /\ \A w \in Workers : workerPc'[w] \in Updating => workerPc'[w] = workerPc[w]
          /\ Pending' = Pending \cup {"render"}
      BY <1>inv, <3>1 DEF TypeOK
    <3>3. /\ loopAt = "submit_render" /\ task' = task
          /\ result' = [result EXCEPT !["render"] = "idle", !["render_inner"] = "idle"]
          /\ result \in [Futures -> {"none", "idle", "consumer_set", "producer_done"}]
      BY <1>6, <1>inv DEF SubmitRender, SubmitTask, At, TypeOK
    <3>4. result["render"] = "none" /\ result["render_inner"] = "none"
      BY <1>inv, <3>3 DEF FuturesInv
    <3>5. \A w \in Workers : workerPc'[w] \in Updating => task'[w] = "game"
      BY <1>inv, <3>2, <3>3, <3>4 DEF CarrierInv, TypeOK
    <3> HIDE DEF Pending, Enqueue
    <3>6. \A k \in Pending' : result'[Inner(k)] = "idle"
      BY <1>inv, <3>2, <3>3 DEF InnerInv
    <3>7. \A k \in Tasks : ~Open(k)' => result'[Inner(k)] # "idle"
      BY <1>inv, <3>3 DEF InnerInv
    <3>8. \A w \in Workers : workerPc'[w] \in Updating =>
              workerPc'[w] = workerPc[w] /\ task[w] = "game" /\ result'["game_inner"] = result["game_inner"]
      BY <3>2, <3>3, <3>5
    <3> QED
      BY <1>inv, <3>3, <3>6, <3>7, <3>8 DEF InnerInv
  <2>8. CounterInv'
    BY <1>6, <1>inv
       DEF SubmitRender, SubmitTask, At, TypeOK, CounterInv, CarrierInv, OpenInv, FuturesInv,
           InnerInv
  <2>9. MainInv'
    BY <1>6, <1>inv DEF SubmitRender, SubmitTask, At, TypeOK, MainInv, OneStack
  <2> QED
    BY <2>1, <2>2, <2>3, <2>4, <2>5, <2>6, <2>7, <2>8, <2>9 DEF IInv
<1>7. ASSUME NEW t \in Threads, NEW f \in Futures, AwaitReady(t, f) PROVE IInv'
  BY <1>7 DEF AwaitReady, At
<1>8. ASSUME NEW t \in Threads, NEW f \in Futures, AwaitSuspend(t, f) PROVE IInv'
  <2> HIDE DEF IInv, TypeOK, OneStack, FuturesInv, ConsumerInv, CarrierInv, OpenInv, InnerInv,
               CounterInv, MainInv
  <2>1. TypeOK'
    BY <1>8, <1>inv DEF AwaitSuspend, LeaveThread, At, TypeOK
  <2>2. OneStack'
    BY <1>8, <1>inv DEF AwaitSuspend, LeaveThread, At, TypeOK, OneStack, ConsumerInv
  <2>3. FuturesInv'
    BY <1>8, <1>inv DEF AwaitSuspend, LeaveThread, At, TypeOK, FuturesInv
  <2>4. ConsumerInv'
    BY <1>8, <1>inv DEF AwaitSuspend, LeaveThread, At, TypeOK, ConsumerInv, OneStack, FuturesInv
  <2>5. CarrierInv'
    BY <1>8, <1>inv
       DEF AwaitSuspend, LeaveThread, At, TypeOK, CarrierInv, FuturesInv, ConsumerInv, OneStack
  <2>6. OpenInv'
    BY <1>8, <1>inv
       DEF AwaitSuspend, LeaveThread, At, TypeOK, OpenInv, CarrierInv, FuturesInv, ConsumerInv,
           OneStack
  <2>7. InnerInv'
    BY <1>8, <1>inv
       DEF AwaitSuspend, LeaveThread, At, TypeOK, InnerInv, FuturesInv, CarrierInv, ConsumerInv,
           OneStack
  <2>8. CounterInv'
    BY <1>8, <1>inv
       DEF AwaitSuspend, LeaveThread, At, TypeOK, CounterInv, CarrierInv, OpenInv, FuturesInv,
           InnerInv, OneStack
  <2>9. MainInv'
    BY <1>8, <1>inv DEF AwaitSuspend, LeaveThread, At, TypeOK, MainInv, OneStack
  <2> QED
    BY <2>1, <2>2, <2>3, <2>4, <2>5, <2>6, <2>7, <2>8, <2>9 DEF IInv
<1>9. ASSUME NEW t \in Threads, SyncGameRender(t) PROVE IInv'
  BY <1>9 DEF SyncGameRender, At
<1>10. ASSUME NEW w \in Workers, NEW k \in Tasks, TakeTask(w, k) PROVE IInv'
  BY <1>10 DEF TakeTask, Goto
<1>11. ASSUME NEW w \in Workers, UpdateGameLoad(w) PROVE IInv'
  BY <1>11 DEF UpdateGameLoad, Goto
<1>12. ASSUME NEW w \in Workers, UpdateGameStore(w) PROVE IInv'
  <2> HIDE DEF IInv, TypeOK, OneStack, FuturesInv, ConsumerInv, CarrierInv, OpenInv, InnerInv,
               CounterInv, MainInv
  <2>1. TypeOK'
    BY <1>12, <1>inv DEF UpdateGameStore, Goto, TypeOK
  <2>2. OneStack'
    BY <1>12, <1>inv DEF UpdateGameStore, Goto, TypeOK, OneStack, ConsumerInv
  <2>3. FuturesInv'
    BY <1>12, <1>inv DEF UpdateGameStore, Goto, TypeOK, FuturesInv
  <2>4. ConsumerInv'
    BY <1>12, <1>inv DEF UpdateGameStore, Goto, TypeOK, ConsumerInv, OneStack, FuturesInv
  <2>5. CarrierInv'
    BY <1>12, <1>inv DEF UpdateGameStore, Goto, TypeOK, CarrierInv, FuturesInv, ConsumerInv
  <2>6. OpenInv'
    BY <1>12, <1>inv
       DEF UpdateGameStore, Goto, TypeOK, OpenInv, CarrierInv, FuturesInv, ConsumerInv
  <2>7. InnerInv'
    BY <1>12, <1>inv
       DEF UpdateGameStore, Goto, TypeOK, InnerInv, FuturesInv, CarrierInv, ConsumerInv
  <2>8. CounterInv'
    BY <1>12, <1>inv
       DEF UpdateGameStore, Goto, TypeOK, CounterInv, CarrierInv, OpenInv, FuturesInv, InnerInv
  <2>9. MainInv'
    BY <1>12, <1>inv DEF UpdateGameStore, Goto, TypeOK, MainInv, OneStack
  <2> QED
    BY <2>1, <2>2, <2>3, <2>4, <2>5, <2>6, <2>7, <2>8, <2>9 DEF IInv
<1>13. ASSUME NEW w \in Workers, UpdateRender(w) PROVE IInv'
  BY <1>13 DEF UpdateRender, Goto
<1>14. ASSUME NEW w \in Workers, CompleteAlone(w) PROVE IInv'
  <2> HIDE DEF IInv, TypeOK, OneStack, FuturesInv, ConsumerInv, CarrierInv, OpenInv, InnerInv,
               CounterInv, MainInv
  <2>1. TypeOK'
    BY <1>14, <1>inv DEF CompleteAlone, Completing, Goto, TypeOK
  <2>2. OneStack'
    BY <1>14, <1>inv DEF CompleteAlone, Completing, Goto, TypeOK, OneStack, ConsumerInv
  <2>3. FuturesInv'
    BY <1>14, <1>inv DEF CompleteAlone, Completing, Goto, TypeOK, FuturesInv
  <2>4. ConsumerInv'
    BY <1>14, <1>inv
       DEF CompleteAlone, Completing, Goto, TypeOK, ConsumerInv, OneStack, FuturesInv
  <2>5. CarrierInv'
    BY <1>14, <1>inv
       DEF CompleteAlone, Completing, Goto, TypeOK, CarrierInv, FuturesInv, ConsumerInv
  <2>6. OpenInv'
    BY <1>14, <1>inv
       DEF CompleteAlone, Completing, Goto, TypeOK, OpenInv, CarrierInv, FuturesInv, ConsumerInv
  <2>7. InnerInv'
    BY <1>14, <1>inv
       DEF CompleteAlone, Completing, Goto, TypeOK, InnerInv, FuturesInv, CarrierInv, ConsumerInv
  <2>8. CounterInv'
    BY <1>14, <1>inv
       DEF CompleteAlone, Completing, Goto, TypeOK, CounterInv, CarrierInv, OpenInv, FuturesInv,
           InnerInv
  <2>9. MainInv'
    BY <1>14, <1>inv DEF CompleteAlone, Completing, Goto, TypeOK, MainInv, OneStack
  <2> QED
    BY <2>1, <2>2, <2>3, <2>4, <2>5, <2>6, <2>7, <2>8, <2>9 DEF IInv
<1>15. ASSUME NEW w \in Workers, CompleteAndResume(w) PROVE IInv'
  <2> HIDE DEF IInv, TypeOK, OneStack, FuturesInv, ConsumerInv, CarrierInv, OpenInv, InnerInv,
               CounterInv, MainInv
  <2>1. TypeOK'
    BY <1>15, <1>inv DEF CompleteAndResume, Completing, Goto, TypeOK
  <2>2. OneStack'
    BY <1>15, <1>inv DEF CompleteAndResume, Completing, Goto, TypeOK, OneStack, ConsumerInv
  <2>3. FuturesInv'
    BY <1>15, <1>inv DEF CompleteAndResume, Completing, Goto, TypeOK, FuturesInv, ConsumerInv
  <2>4. ConsumerInv'
    BY <1>15, <1>inv
       DEF CompleteAndResume, Completing, Goto, TypeOK, ConsumerInv, OneStack, FuturesInv
  <2>5. CarrierInv'
    BY <1>15, <1>inv
       DEF CompleteAndResume, Completing, Goto, TypeOK, CarrierInv, FuturesInv, ConsumerInv
  <2>6. OpenInv'
    BY <1>15, <1>inv
       DEF CompleteAndResume, Completing, Goto, TypeOK, OpenInv, CarrierInv, FuturesInv,
           ConsumerInv
  <2>7. InnerInv'
    BY <1>15, <1>inv
       DEF CompleteAndResume, Completing, Goto, TypeOK, InnerInv, FuturesInv, CarrierInv,
           ConsumerInv
  <2>8. CounterInv'
    BY <1>15, <1>inv
       DEF CompleteAndResume, Completing, Goto, TypeOK, CounterInv, CarrierInv, OpenInv,
           FuturesInv, InnerInv
  <2>9. MainInv'
    BY <1>15, <1>inv
       DEF CompleteAndResume, Completing, Goto, TypeOK, MainInv, OneStack, ConsumerInv
  <2> QED
    BY <2>1, <2>2, <2>3, <2>4, <2>5, <2>6, <2>7, <2>8, <2>9 DEF IInv
<1>16. ASSUME NEW w \in Workers, Leave(w) PROVE IInv'
  BY <1>16 DEF Leave, Goto
<1>17. ASSUME NEW w \in Workers, Return(w) \/ DeadlinePasses(w) \/ TimedOut(w) PROVE IInv'
  <2>1. PICK p \in Waiting : Goto(w, p) /\ workerPc[w] \in Waiting
    BY <1>17 DEF Return, DeadlinePasses, TimedOut
  <2>2. UNCHANGED <<coroutine, queuedAt, result, update, messages, frames>>
    BY <1>17 DEF Return, DeadlinePasses, TimedOut
  <2>3. /\ workerPc' \in [Workers -> {"loop", "gone"} \cup Waiting \cup Updating]
        /\ \A u \in Workers : workerPc'[u] # workerPc[u] => {workerPc[u], workerPc'[u]} \subseteq Waiting
    BY <1>inv, <2>1 DEF Goto
  <2>4. Pending' = Pending /\ queuedAt' \in [Tasks -> Workers \cup {Nobody}]
    BY <1>inv, <2>2
  <2> HIDE DEF IInv, Pending
  <2> QED
    BY <1>inv, <2>2, <2>3, <2>4, WaitingKeeps DEF IInv
<1>18. ASSUME NEW w \in Workers, NEW k \in Tasks, Donate(w, k) PROVE IInv'
  <2>1. PICK v \in Workers : Enqueue(k, v)
    BY <1>18 DEF Donate
  <2>2. Pending' = Pending /\ queuedAt' \in [Tasks -> Workers \cup {Nobody}]
    BY <1>18, <2>1 DEF Donate
  <2>3. /\ workerPc' \in [Workers -> {"loop", "gone"} \cup Waiting \cup Updating]
        /\ \A u \in Workers : workerPc'[u] # workerPc[u] => {workerPc[u], workerPc'[u]} \subseteq Waiting
    BY <1>inv, <2>1
  <2>4. UNCHANGED <<coroutine, result, update, messages, frames>>
    BY <1>18 DEF Donate
  <2> HIDE DEF IInv, Pending, Enqueue
  <2> QED
    BY <1>inv, <2>2, <2>3, <2>4, WaitingKeeps DEF IInv
<1>19. CASE BackInWinMain
  BY <1>19 DEF BackInWinMain
<1>20. CASE GetBlocks
  BY <1>20 DEF GetBlocks
<1>21. CASE GetReturns
  BY <1>21 DEF GetReturns
<1>22. CASE Shutdown
  BY <1>22 DEF Shutdown
<1>23. CASE UNCHANGED vars
  BY <1>23
<1> QED
  <2> HIDE DEF IInv, vars, Futures, Tasks, Threads
  <2> QED
    BY <1>1, <1>2, <1>3, <1>4, <1>5, <1>6, <1>7, <1>8, <1>9, <1>10, <1>11, <1>12, <1>13,
       <1>14, <1>15, <1>16, <1>17, <1>18, <1>19, <1>20, <1>21, <1>22, <1>23
       DEF Next, Loop, Work, WinMain, Returned, LeftBehind

\* The inductive invariant holds throughout.
THEOREM Invariant == Spec => []IInv
<1>1. Init => IInv
  BY InitInv
<1>2. IInv /\ [Next]_vars => IInv'
  BY NextInv
<1> QED
  BY <1>1, <1>2, PTL DEF Spec

-----------------------------------------------------------------------------

\* Every variable of the frame loop keeps its type, the counter of UpdateGame
\* included: it wraps where the int does.
THEOREM TypeCorrect == Spec => []TypeOK
  BY Invariant, PTL DEF IInv

\* With any number of workers, no update of a frame is waiting, running or
\* unawaited while Loop is in its Sync window or handles messages.
THEOREM FramesAreIsolated == Spec => []FrameIsolation
<1>1. IInv => FrameIsolation
  <2> SUFFICES ASSUME IInv, loopAt \in {"peek", "submit_game", "sync", "done"}
               PROVE  /\ Pending = {}
                      /\ \A w \in Workers : workerPc[w] \notin Updating
                      /\ \A f \in Futures : result[f] = "none"
    BY DEF FrameIsolation
  <2>1. \A f \in Futures : result[f] = "none"
    BY DEF IInv, TypeOK, FuturesInv, Alive, LoopPoints, Futures
  <2>2. \A k \in Tasks : ~Open(k)
    BY <2>1 DEF Open, Tasks, Futures
  <2> QED
    BY <2>1, <2>2 DEF IInv, TypeOK, CarrierInv, Pending
<1> QED
  BY <1>1, Invariant, PTL

\* With any number of workers and any width of int, the counter UpdateGame
\* increments without a lock has counted every frame at its Sync window.
THEOREM NoFrameIsLost == Spec => []NoLostFrame
<1>1. IInv /\ FrameIsolation => NoLostFrame
  BY DEF IInv, FrameIsolation, NoLostFrame, CounterInv, Counting, Pending, Tasks, Updating
<1> QED
  BY <1>1, Invariant, FramesAreIsolated, PTL

\* With any number of workers, Loop is on the stack of one thread at most.
THEOREM LoopHasOneStack == Spec => []OneStack
  BY Invariant, PTL DEF IInv

\* ~Runtime finds no update queued or running.
THEOREM ShutdownIsClean == Spec => []CleanShutdown
<1>1. IInv /\ FrameIsolation => CleanShutdown
  BY ThreadAssumption
     DEF IInv, FrameIsolation, CleanShutdown, TypeOK, OneStack, MainInv, Updating
<1> QED
  BY <1>1, Invariant, FramesAreIsolated, PTL

\* The coroutine of an update is over before the task that started it, so that Loop, which
\* awaits the task first, never waits for the coroutine.
AwaitsTasks == \A k \in Tasks : result[Inner(k)] # "consumer_set"

LEMMA AwaitsTasksNext == IInv /\ AwaitsTasks /\ [Next]_vars => AwaitsTasks'
<1> SUFFICES ASSUME IInv, AwaitsTasks, [Next]_vars, NEW k \in Tasks
             PROVE  result'[Inner(k)] # "consumer_set"
  BY DEF AwaitsTasks
<1>1. Inner(k) \in Futures /\ result \in [Futures -> {"none", "idle", "consumer_set", "producer_done"}]
  BY DEF Inner, Futures, IInv, TypeOK
<1>2. ASSUME NEW t \in Threads, NEW f \in Futures, AwaitSuspend(t, f) PROVE f # Inner(k)
  <2>1. SUFFICES ASSUME loopAt = Inner(k) PROVE result[Inner(k)] # "idle"
    BY <1>2 DEF AwaitSuspend, At
  <2>2. k \notin Alive[loopAt] /\ k \in Futures
    BY <2>1 DEF Alive, LoopPoints, Futures, Inner, Tasks
  <2>3. ~Open(k)
    BY <2>2 DEF IInv, FuturesInv, Open
  <2> QED BY <2>3 DEF IInv, InnerInv
<1>3. CASE \E t \in Threads : Loop(t)
  <2>1. ASSUME NEW t \in Threads, NEW f \in Futures, AwaitSuspend(t, f)
        PROVE  result'[Inner(k)] # "consumer_set"
    <3>1. result'[Inner(k)] = result[Inner(k)]
      BY <1>1, <1>2, <2>1 DEF AwaitSuspend
    <3> QED BY <3>1 DEF AwaitsTasks
  <2>2. ASSUME NEW t \in Threads, SubmitGame(t) \/ SubmitRender(t)
        PROVE  result'[Inner(k)] # "consumer_set"
    BY <1>1, <2>2 DEF SubmitGame, SubmitRender, SubmitTask, AwaitsTasks
  <2>3. ASSUME NEW t \in Threads, NEW f \in Futures, AwaitReady(t, f)
        PROVE  result'[Inner(k)] # "consumer_set"
    BY <1>1, <2>3 DEF AwaitReady, AwaitsTasks
  <2>4. ASSUME NEW t \in Threads, PeekMessage(t) \/ Quit(t) \/ NoMessage(t) \/ SyncGameRender(t)
        PROVE  result'[Inner(k)] # "consumer_set"
    BY <2>4 DEF PeekMessage, Quit, NoMessage, SyncGameRender, AwaitsTasks
  <2> QED BY <1>3, <2>1, <2>2, <2>3, <2>4 DEF Loop
<1>4. CASE \E w \in Workers : Work(w) \/ DeadlinePasses(w)
  BY <1>1, <1>4
     DEF Work, Return, TimedOut, DeadlinePasses, TakeTask, Donate, UpdateGameLoad, UpdateGameStore, UpdateRender, CompleteAlone,
         CompleteAndResume, Leave, AwaitsTasks
<1>5. CASE (\E m \in {"key", "close"} : Post(m)) \/ WinMain \/ Returned \/ LeftBehind \/ UNCHANGED vars
  BY <1>5 DEF Post, WinMain, BackInWinMain, GetBlocks, GetReturns, Shutdown, Returned, LeftBehind, vars,
              AwaitsTasks
<1> QED BY <1>3, <1>4, <1>5 DEF Next

\* While Loop is suspended, the update it awaits waits in the queue of a worker or is on a
\* worker, no worker is in Loop or gone, and a worker that comes to the end of an update can
\* complete it (Loop in flavo_game.cpp, await_suspend and complete_producer).  Only a worker
\* whose thread ended over its queue can keep the frame from ending: what FrameCompletes
\* needs in every state.
LoopIsServed ==
    loopOn = Nobody /\ loopAt # "done" =>
        /\ loopAt \in Pending \/ \E w \in Workers : Carries(w, loopAt)
        /\ \A w \in Workers : workerPc[w] \in Waiting \cup Updating
        /\ \A w \in Workers : workerPc[w] \in {"inner", "outer"} => Open(Completing(w))

\* The update a suspended Loop awaits is never lost between the pool and its workers, for any
\* number of workers.
THEOREM SuspendedLoopIsServed == Spec => []LoopIsServed
<1>1. Init => AwaitsTasks
  BY DEF Init, AwaitsTasks, Inner, Futures, Tasks
<1>2. IInv /\ AwaitsTasks => LoopIsServed
  <2> SUFFICES ASSUME IInv, AwaitsTasks, loopOn = Nobody, loopAt # "done"
               PROVE  /\ loopAt \in Pending \/ \E w \in Workers : Carries(w, loopAt)
                      /\ \A w \in Workers : workerPc[w] \in Waiting \cup Updating
                      /\ \A w \in Workers : workerPc[w] \in {"inner", "outer"} => Open(Completing(w))
    BY DEF LoopIsServed
  <2>1. loopAt \in Futures /\ result[loopAt] = "consumer_set"
    BY DEF IInv, ConsumerInv
  <2>2. loopAt \in Tasks /\ Open(loopAt)
    BY <2>1 DEF AwaitsTasks, Futures, Tasks, Inner, Open
  <2>3. ASSUME NEW w \in Workers PROVE workerPc[w] \in Waiting \cup Updating
    <3>1. workerPc[w] # "loop" /\ workerPc[w] # "gone"
      BY ThreadAssumption DEF IInv, OneStack, MainInv
    <3> QED BY <3>1 DEF IInv, TypeOK
  <2>4. ASSUME NEW w \in Workers, workerPc[w] \in {"inner", "outer"} PROVE Open(Completing(w))
    BY <2>4 DEF IInv, InnerInv, CarrierInv, Completing, Open, Updating
  <2> QED BY <2>2, <2>3, <2>4 DEF IInv, OpenInv
<1> QED
  BY <1>1, <1>2, AwaitsTasksNext, Invariant, PTL DEF Spec

\* Once WinMain waits for a Loop that was suspended under it, it never returns:
\* whatever the user does, the process cannot be ended by closing its window.
THEOREM MainStaysBlocked == Spec => BlockedForGood
<1>1. IInv /\ [Next]_vars => (mainPc = "blocked" => mainPc' = "blocked")
  <2> SUFFICES ASSUME IInv, [Next]_vars, mainPc = "blocked"
               PROVE  mainPc' = "blocked"
    OBVIOUS
  <2>1. loopOn # Main /\ loopResult # "producer_done"
    BY DEF IInv, OneStack, MainInv
  <2>2. CASE \E t \in Threads : Loop(t)
    BY <2>1, <2>2
       DEF Loop, PeekMessage, Quit, NoMessage, SubmitGame, SubmitRender, SubmitTask,
           AwaitReady, AwaitSuspend, SyncGameRender, At, LeaveThread, OwnsWindow,
           coroutine
  <2>3. CASE \E w \in Workers : Work(w) \/ DeadlinePasses(w)
    BY <2>3
       DEF Work, Return, TimedOut, DeadlinePasses, TakeTask, Donate, UpdateGameLoad, UpdateGameStore, UpdateRender,
           CompleteAlone, CompleteAndResume, Leave, coroutine
  <2>4. CASE WinMain
    BY <2>1, <2>4 DEF WinMain, BackInWinMain, GetBlocks, GetReturns, Shutdown
  <2> QED
    BY <2>2, <2>3, <2>4 DEF Next, Post, Returned, LeftBehind, vars, coroutine
<1> QED
  BY <1>1, Invariant, PTL DEF Spec, BlockedForGood

\* Once Loop has left the main thread no message of the window is read again.
THEOREM MessagesAreNeverRead == Spec => MessagesStayUnread
<1>1. IInv /\ [Next]_vars => (Migrated => Migrated' /\ Len(queue') >= Len(queue))
  <2> SUFFICES ASSUME IInv, [Next]_vars, Migrated
               PROVE  Migrated' /\ Len(queue') >= Len(queue)
    OBVIOUS
  <2>1. loopOn # Main
    BY DEF IInv, OneStack, Migrated
  <2>2. queue \in Seq({"key", "char", "close"}) /\ Len(queue) \in Nat
    BY DEF IInv, TypeOK
  <2>3. CASE \E m \in {"key", "close"} : Post(m)
    BY <2>2, <2>3 DEF Post, Migrated, coroutine
  <2>4. CASE \E t \in Threads : Loop(t)
    BY <2>1, <2>2, <2>4
       DEF Loop, PeekMessage, Quit, NoMessage, SubmitGame, SubmitRender, SubmitTask,
           AwaitReady, AwaitSuspend, SyncGameRender, At, LeaveThread, OwnsWindow,
           After, Futures, Migrated, coroutine, messages
  <2>5. CASE \E w \in Workers : Work(w) \/ DeadlinePasses(w)
    <3>1. UNCHANGED <<mainPc, messages>>
      BY <2>5
         DEF Work, Return, TimedOut, DeadlinePasses, TakeTask, Donate, UpdateGameLoad, UpdateGameStore, UpdateRender,
             CompleteAlone, CompleteAndResume, Leave, coroutine
    <3>2. loopAt' # "done"
      BY <2>5
         DEF Work, Return, TimedOut, DeadlinePasses, TakeTask, Donate, UpdateGameLoad, UpdateGameStore, UpdateRender,
             CompleteAlone, CompleteAndResume, Leave, coroutine, Migrated,
             After, Completing, Inner, Tasks, IInv, TypeOK
    <3> QED
      BY <2>2, <3>1, <3>2 DEF Migrated, messages
  <2>6. CASE WinMain
    BY <2>2, <2>6 DEF WinMain, BackInWinMain, GetBlocks, GetReturns, Shutdown, Migrated, messages
  <2> QED
    BY <2>2, <2>3, <2>4, <2>5, <2>6 DEF Next, Returned, LeftBehind, vars, coroutine, messages, Migrated
<1> QED
  BY <1>1, Invariant, PTL DEF Spec, MessagesStayUnread

-----------------------------------------------------------------------------

\* FlavoGame::Loop implements the frame pipeline: submitting an update starts
\* it, completing the future of its task finishes it, the last co_await opens
\* the Sync window, and every other step is a step of no update.
THEOREM LoopImplementsPipeline == Spec => ImplementsPipeline
<1>1. Init => Pipeline!Init
  BY DEF Init, Pipeline!Init, Pipeline!NoUpdates, Status, Submitted, Phase
<1>2. IInv /\ [Next]_vars => [Pipeline!Next]_(Pipeline!vars)
  <2> SUFFICES ASSUME IInv, [Next]_vars PROVE [Pipeline!Next]_(Pipeline!vars)
    OBVIOUS
  <2> USE DEF IInv, TypeOK, FuturesInv, Alive, LoopPoints, Futures, Tasks, Status,
              Submitted, Phase, coroutine, Pipeline!vars, Pipeline!NoUpdates
  <2>1. ASSUME UNCHANGED <<loopAt, result>> PROVE UNCHANGED Pipeline!vars
    BY <2>1
  <2>2. ASSUME NEW t \in Threads, Quit(t) PROVE Pipeline!Close
    BY <2>2 DEF Quit, At, Pipeline!Close
  <2>3. ASSUME NEW t \in Threads, NoMessage(t) PROVE UNCHANGED Pipeline!vars
    BY <2>3 DEF NoMessage, At
  <2>4. ASSUME NEW t \in Threads, SubmitGame(t) PROVE Pipeline!Start("game")
    BY <2>4 DEF SubmitGame, SubmitTask, At, Inner, Pipeline!Start
  <2>5. ASSUME NEW t \in Threads, SubmitRender(t) PROVE Pipeline!Start("render")
    BY <2>5 DEF SubmitRender, SubmitTask, At, Inner, Pipeline!Start
  <2>6. ASSUME NEW t \in Threads, NEW f \in Futures, AwaitReady(t, f)
        PROVE  [Pipeline!OpenSync]_(Pipeline!vars)
    <3>1. CASE f = "render_inner"
      BY <2>6, <3>1 DEF AwaitReady, At, After, Pipeline!OpenSync
    <3>2. CASE f # "render_inner"
      BY <2>6, <3>2 DEF AwaitReady, At, After
    <3> QED
      BY <3>1, <3>2
  <2>7. ASSUME NEW t \in Threads, NEW f \in Futures, AwaitSuspend(t, f)
        PROVE  UNCHANGED Pipeline!vars
    BY <2>7 DEF AwaitSuspend, At
  <2>8. ASSUME NEW t \in Threads, SyncGameRender(t) PROVE Pipeline!EndFrame
    BY <2>8 DEF SyncGameRender, At, Pipeline!EndFrame
  <2>9. ASSUME NEW w \in Workers, CompleteAlone(w)
        PROVE  [\E k \in Tasks : Pipeline!Finish(k)]_(Pipeline!vars)
    <3>1. CASE workerPc[w] = "inner"
      BY <2>9, <3>1 DEF CompleteAlone, Completing, Inner
    <3>2. CASE workerPc[w] = "outer"
      <4>1. /\ result[task[w]] = "idle" /\ loopAt' = loopAt
            /\ result' = [result EXCEPT ![task[w]] = "producer_done"]
        BY <2>9, <3>2 DEF CompleteAlone, Completing
      <4>2. task[w] \in Tasks /\ Submitted(task[w])
        BY <4>1
      <4>3. Status(task[w]) = "running"
        BY <4>1, <4>2
      <4>4. \A k \in Tasks : Status(k)' = IF k = task[w] THEN "done" ELSE Status(k)
        BY <4>1, <4>2
      <4>5. UNCHANGED Phase
        BY <4>1
      <4>6. Pipeline!Finish(task[w])
        <5>1. [k \in Tasks |-> Status(k)]' = [[k \in Tasks |-> Status(k)] EXCEPT ![task[w]] = "done"]
          <6> HIDE DEF Status, IInv, Tasks
          <6> QED
            BY <4>2, <4>4
        <5> QED
          BY <4>2, <4>3, <4>5, <5>1 DEF Pipeline!Finish
      <4> HIDE DEF IInv, Tasks, Pipeline!vars, Status, Phase, Submitted
      <4> QED
        BY <4>2, <4>6 DEF Pipeline!Finish
    <3> QED
      BY <2>9, <3>1, <3>2 DEF CompleteAlone
  <2>10. ASSUME NEW w \in Workers, CompleteAndResume(w)
         PROVE  \E k \in Tasks : Pipeline!Finish(k)
    <3>1. workerPc[w] = "outer"
      BY <2>10 DEF CompleteAndResume, Completing, InnerInv
    <3>2. /\ loopAt = task[w] /\ loopAt' = Inner(task[w]) /\ result[task[w]] = "consumer_set"
          /\ result' = [result EXCEPT ![task[w]] = "none"]
      BY <2>10, <3>1 DEF CompleteAndResume, Completing, ConsumerInv, After, Inner
    <3>3. CASE task[w] = "game"
      BY <3>2, <3>3 DEF Inner, Pipeline!Finish
    <3>4. CASE task[w] = "render"
      BY <3>2, <3>4 DEF Inner, Pipeline!Finish
    <3> QED
      BY <3>3, <3>4
  <2>11. ASSUME \/ \E m \in {"key", "close"} : Post(m)
                \/ \E t \in Threads : PeekMessage(t)
                \/ WinMain \/ Returned \/ LeftBehind
         PROVE  UNCHANGED Pipeline!vars
    <3>1. UNCHANGED <<loopAt, result>>
      BY <2>11
         DEF Post, PeekMessage, WinMain, BackInWinMain, GetBlocks, GetReturns, Shutdown, Returned,
             LeftBehind, vars
    <3> QED
      BY <3>1, <2>1
  <2>12. ASSUME NEW w \in Workers,
                \/ \E k \in Tasks : TakeTask(w, k) \/ Donate(w, k)
                \/ Return(w) \/ TimedOut(w) \/ DeadlinePasses(w)
                \/ UpdateGameLoad(w) \/ UpdateGameStore(w) \/ UpdateRender(w) \/ Leave(w)
         PROVE  UNCHANGED Pipeline!vars
    <3>1. UNCHANGED <<loopAt, result>>
      BY <2>12 DEF Return, TimedOut, DeadlinePasses, TakeTask, Donate, UpdateGameLoad, UpdateGameStore, UpdateRender, Leave
    <3> QED
      BY <3>1, <2>1
  <2>13. CASE UNCHANGED vars
    BY <2>1, <2>13 DEF vars
  <2> HIDE DEF IInv, Pipeline!vars, Futures, Tasks, coroutine
  <2> QED
    BY <2>2, <2>3, <2>4, <2>5, <2>6, <2>7, <2>8, <2>9, <2>10, <2>11, <2>12, <2>13
       DEF Next, Loop, Work, Pipeline!Next, Tasks
<1> QED
  BY <1>1, <1>2, Invariant, PTL DEF Spec, ImplementsPipeline, Pipeline!Spec
=============================================================================
