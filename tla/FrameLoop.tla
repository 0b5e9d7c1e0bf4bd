----------------------------- MODULE FrameLoop -----------------------------
(***************************************************************************)
(* The frame loop of FlavoGame::Loop, the coroutine WinMain starts on the  *)
(* main thread, together with everything a frame touches: the message      *)
(* queue of the window, the two updates handed to the thread pool, the     *)
(* four futures the loop awaits, and WinMain blocked in get().             *)
(*                                                                         *)
(* A coroutine is not a thread.  loopAt is where Loop stands, loopOn is    *)
(* the thread whose stack it is executing on.  A co_await that finds its   *)
(* future unfinished takes the coroutine off its thread; the worker that   *)
(* finishes the future later executes the coroutine on its own stack.      *)
(*                                                                         *)
(* Of the pool the model has what a frame can feel: an update is put into  *)
(* the queue of one worker, whose thread is started if it has none, may be *)
(* given to another, and is left behind by a worker whose time is over;    *)
(* which worker is chosen is free.  ThreadPool has the detail, and         *)
(* ResultState that of the steps on `result'.                              *)
(***************************************************************************)
EXTENDS Integers, Sequences

CONSTANTS
    Main,          \* the thread of WinMain: it owns the window and its queue
    Workers,       \* the threads of the pool
    Nobody,        \* loopOn while Loop is suspended or finished; no queue
    IntMax,        \* the largest value of an int
    MaxMsgs        \* bound: messages waiting in the queue of the window

ASSUME IntMaxAssumption == IntMax \in Nat
ASSUME MaxMsgsAssumption == MaxMsgs \in Nat
ASSUME ThreadAssumption ==
    /\ Main \notin Workers
    /\ Nobody \notin Workers \cup {Main}

VARIABLES
    loopAt,        \* where the coroutine Loop stands
    loopOn,        \* the thread executing it
    mainPc,        \* WinMain: in Loop, leaving it, in get(), in ~Runtime, returned
    workerPc,      \* what each worker does
    task,          \* the update each worker took last
    queuedAt,      \* the worker in whose queue each update waits, or Nobody
    result,        \* the shared state behind each future of this frame
    loopResult,    \* the shared state behind the future Loop returned
    noFrame,       \* the static counter of UpdateGame
    loaded,        \* the value of it each worker has in a register
    queue,         \* posted messages of the window, first one first
    quit,          \* PostQuitMessage was called and WM_QUIT not removed
    window,        \* the window exists
    frames         \* history: frames begun, counted the way an int counts

coroutine == <<loopAt, loopOn, mainPc, loopResult>>
update == <<task, noFrame, loaded>>
messages == <<queue, quit, window>>
vars == <<coroutine, workerPc, queuedAt, result, update, messages, frames>>

Threads == Workers \cup {Main}
Tasks == {"game", "render"}

\* The future submit() returned for a task holds the future its coroutine
\* returned: the loop awaits the outer one, then the inner one.
Inner(k) == IF k = "game" THEN "game_inner" ELSE "render_inner"
Futures == {"game", "game_inner", "render", "render_inner"}

\* While Loop stands at a co_await, loopAt is the future it awaits.
AfterGameOnly(f) == CASE f = "game" -> "game_inner" [] OTHER -> "sync"
After(f) == CASE f = "game" -> "game_inner"
              [] f = "game_inner" -> "render"
              [] f = "render" -> "render_inner"
              [] f = "render_inner" -> "sync"

LoopPoints == {"peek", "submit_game", "submit_render", "sync", "done"} \cup Futures

\* ++ on an int: two's complement wraps, as the compiler's code does.
Int32 == (-IntMax - 1) .. IntMax
Succ(n) == IF n = IntMax THEN -IntMax - 1 ELSE n + 1

Updating == {"load", "store", "draw", "inner", "outer"}
Waiting == {"none", "idle", "timed_out", "leaving"}

\* The updates that were submitted and not taken yet.
Pending == {k \in Tasks : queuedAt[k] # Nobody}

TypeOK ==
    /\ loopAt \in LoopPoints
    /\ loopOn \in Threads \cup {Nobody}
    /\ mainPc \in {"loop", "leaving", "get", "blocked", "shutdown", "returned"}
    /\ workerPc \in [Workers -> {"loop", "gone"} \cup Waiting \cup Updating]
    /\ task \in [Workers -> Tasks]
    /\ queuedAt \in [Tasks -> Workers \cup {Nobody}]
    /\ result \in [Futures -> {"none", "idle", "consumer_set", "producer_done"}]
    /\ loopResult \in {"idle", "consumer_waiting", "producer_done"}
    /\ noFrame \in Int32 /\ frames \in Int32
    /\ loaded \in [Workers -> Int32]
    /\ queue \in Seq({"key", "char", "close"})
    /\ quit \in BOOLEAN /\ window \in BOOLEAN

Init ==
    /\ loopAt = "peek" /\ loopOn = Main /\ mainPc = "loop"
    /\ workerPc = [w \in Workers |-> "none"]
    /\ task \in [Workers -> {"game"}]
    /\ queuedAt = [k \in Tasks |-> Nobody]
    /\ result = [f \in Futures |-> "none"]
    /\ loopResult = "idle"
    /\ noFrame = 0 /\ frames = 0
    /\ loaded = [w \in Workers |-> 0]
    /\ queue = <<>> /\ quit = FALSE /\ window = TRUE

-----------------------------------------------------------------------------
(* The user and the window system.                                         *)

Post(m) ==
    /\ window /\ Len(queue) < MaxMsgs
    /\ queue' = Append(queue, m)
    /\ UNCHANGED <<coroutine, workerPc, queuedAt, result, update, quit, window, frames>>

-----------------------------------------------------------------------------
(* Loop, executed by thread t.                                             *)

At(t, p) == loopOn = t /\ loopAt = p

\* Loop is suspended or over, but t has still to return through await_suspend; Loop
\* may go on elsewhere before it has.
KeepThread(t) == UNCHANGED <<mainPc, workerPc>>
LeaveThread(t) ==
    /\ mainPc' = IF t = Main THEN "leaving" ELSE mainPc
    /\ workerPc' = IF t = Main THEN workerPc ELSE [workerPc EXCEPT ![t] = "leaving"]

\* PeekMessage reads the queue of the CALLING thread; a worker has no window.
AnyThread(t) == TRUE
OwnsWindow(t) == t = Main

\* WM_CLOSE destroys the window, which throws its messages away; WndProc
\* answers WM_DESTROY with PostQuitMessage.
DestroyOnly == queue' = <<>> /\ window' = FALSE /\ UNCHANGED quit
WndProcDestroy == queue' = <<>> /\ window' = FALSE /\ quit' = TRUE

PeekMessage(t) ==
    /\ At(t, "peek") /\ OwnsWindow(t) /\ queue # <<>>
    /\ \/ /\ Head(queue) = "key"                      \* TranslateMessage
          /\ queue' = Append(Tail(queue), "char")
          /\ UNCHANGED <<quit, window>>
       \/ /\ Head(queue) = "char"
          /\ queue' = Tail(queue)
          /\ UNCHANGED <<quit, window>>
       \/ /\ Head(queue) = "close"
          /\ WndProcDestroy
    /\ UNCHANGED <<coroutine, workerPc, queuedAt, result, update, frames>>

\* WM_QUIT comes after the posted messages; Loop returns and its result is set.
Quit(t) ==
    /\ At(t, "peek") /\ OwnsWindow(t) /\ queue = <<>> /\ quit
    /\ quit' = FALSE
    /\ loopAt' = "done" /\ loopOn' = Nobody
    /\ loopResult' = "producer_done"
    /\ LeaveThread(t)
    /\ UNCHANGED <<queuedAt, result, update, queue, window, frames>>

NoMessage(t) ==
    /\ At(t, "peek")
    /\ OwnsWindow(t) => queue = <<>> /\ ~quit
    /\ loopAt' = "submit_game"
    /\ UNCHANGED <<loopOn, mainPc, loopResult, workerPc, queuedAt, result, update, messages, frames>>

\* k comes into the queue of w, whose thread is started if it has none.
Enqueue(k, w) ==
    /\ queuedAt' = [queuedAt EXCEPT ![k] = w]
    /\ workerPc' = [workerPc EXCEPT ![w] = IF @ = "none" THEN "idle" ELSE @]

SubmitTask(k) ==
    /\ \E w \in Workers : Enqueue(k, w)
    /\ result' = [result EXCEPT ![k] = "idle", ![Inner(k)] = "idle"]
    /\ UNCHANGED <<loopOn, mainPc, loopResult, update, messages>>

SubmitGame(t) ==
    /\ At(t, "submit_game")
    /\ loopAt' = "submit_render"
    /\ frames' = Succ(frames)
    /\ SubmitTask("game")

SubmitRenderSkipGame(t) ==
    /\ At(t, "submit_render")
    /\ loopAt' = "render"
    /\ SubmitTask("render")
    /\ UNCHANGED frames
SubmitRender(t) ==
    /\ At(t, "submit_render")
    /\ loopAt' = "game"
    /\ SubmitTask("render")
    /\ UNCHANGED frames

\* co_await f, the result is there: Loop takes it and goes on.
AwaitReady(t, f) ==
    /\ At(t, f) /\ result[f] = "producer_done"
    /\ result' = [result EXCEPT ![f] = "none"]
    /\ loopAt' = After(f)
    /\ UNCHANGED <<loopOn, mainPc, loopResult, workerPc, queuedAt, update, messages, frames>>

\* co_await f, the result is not there: Loop is suspended, t goes on.
AwaitSuspend(t, f) ==
    /\ At(t, f) /\ result[f] = "idle"
    /\ result' = [result EXCEPT ![f] = "consumer_set"]
    /\ loopOn' = Nobody
    /\ LeaveThread(t)
    /\ UNCHANGED <<loopAt, loopResult, queuedAt, update, messages, frames>>

SyncGameRender(t) ==
    /\ At(t, "sync")
    /\ loopAt' = "peek"
    /\ UNCHANGED <<loopOn, mainPc, loopResult, workerPc, queuedAt, result, update, messages, frames>>

Loop(t) ==
    \/ PeekMessage(t) \/ Quit(t) \/ NoMessage(t)
    \/ SubmitGame(t) \/ SubmitRender(t)
    \/ \E f \in Futures : AwaitReady(t, f) \/ AwaitSuspend(t, f)
    \/ SyncGameRender(t)

-----------------------------------------------------------------------------
(* A worker of the pool.                                                   *)

Goto(w, p) == workerPc' = [workerPc EXCEPT ![w] = p]

\* The worker that ran Loop is back in its work loop.
Return(w) ==
    /\ workerPc[w] = "leaving"
    /\ Goto(w, "idle")
    /\ UNCHANGED <<coroutine, queuedAt, result, update, messages, frames>>

TakeTask(w, k) ==
    /\ workerPc[w] = "idle" /\ mainPc # "shutdown"
    /\ queuedAt[k] = w
    /\ queuedAt' = [queuedAt EXCEPT ![k] = Nobody]
    /\ task' = [task EXCEPT ![w] = k]
    /\ Goto(w, IF k = "game" THEN "load" ELSE "draw")
    /\ UNCHANGED <<coroutine, result, noFrame, loaded, messages, frames>>

\* balance_work: who has both updates may give one to another worker.
Donate(w, k) ==
    /\ workerPc[w] = "idle" /\ mainPc # "shutdown"
    /\ \A j \in Tasks : queuedAt[j] = w
    /\ \E v \in Workers \ {w} : Enqueue(k, v)
    /\ UNCHANGED <<coroutine, result, update, messages, frames>>

\* The idle time is over while there is nothing in the queue, ...
DeadlinePasses(w) ==
    /\ workerPc[w] = "idle"
    /\ \A k \in Tasks : queuedAt[k] # w
    /\ Goto(w, "timed_out")
    /\ UNCHANGED <<coroutine, queuedAt, result, update, messages, frames>>

\* ... and the thread ends without another look at it.
TimedOut(w) ==
    /\ workerPc[w] = "timed_out"
    /\ Goto(w, "none")
    /\ UNCHANGED <<coroutine, queuedAt, result, update, messages, frames>>

\* ++no_frame: a load and a store of a plain int.  The register is free after the store.
UpdateGameLoad(w) ==
    /\ workerPc[w] = "load"
    /\ loaded' = [loaded EXCEPT ![w] = noFrame]
    /\ Goto(w, "store")
    /\ UNCHANGED <<coroutine, queuedAt, result, task, noFrame, messages, frames>>

UpdateGameStore(w) ==
    /\ workerPc[w] = "store"
    /\ noFrame' = Succ(loaded[w])
    /\ loaded' = [loaded EXCEPT ![w] = 0]
    /\ Goto(w, "inner")
    /\ UNCHANGED <<coroutine, queuedAt, result, task, messages, frames>>

UpdateRender(w) ==
    /\ workerPc[w] = "draw"
    /\ Goto(w, "inner")
    /\ UNCHANGED <<coroutine, queuedAt, result, update, messages, frames>>

\* The coroutine of the update ends first, then the task that started it.
Completing(w) == IF workerPc[w] = "inner" THEN Inner(task[w]) ELSE task[w]

CompleteAlone(w) ==
    /\ workerPc[w] \in {"inner", "outer"}
    /\ result[Completing(w)] = "idle"
    /\ result' = [result EXCEPT ![Completing(w)] = "producer_done"]
    /\ Goto(w, IF workerPc[w] = "inner" THEN "outer" ELSE "idle")
    /\ UNCHANGED <<coroutine, queuedAt, update, messages, frames>>

\* The consumer is suspended: it goes on here, inside the worker's task.
CompleteForgetsConsumer(w) ==
    /\ workerPc[w] \in {"inner", "outer"}
    /\ result[Completing(w)] = "consumer_set"
    /\ result' = [result EXCEPT ![Completing(w)] = "producer_done"]
    /\ Goto(w, "idle")
    /\ UNCHANGED <<coroutine, queuedAt, update, messages, frames>>
CompleteAndResume(w) ==
    /\ workerPc[w] \in {"inner", "outer"}
    /\ result[Completing(w)] = "consumer_set"
    /\ result' = [result EXCEPT ![Completing(w)] = "none"]
    /\ loopAt' = After(Completing(w))
    /\ loopOn' = w
    /\ Goto(w, "loop")
    /\ UNCHANGED <<mainPc, loopResult, queuedAt, update, messages, frames>>

\* ~Runtime: the pool is told to stop, each worker leaves its work loop.
Leave(w) ==
    /\ mainPc = "shutdown" /\ workerPc[w] \in {"none", "idle"}
    /\ Goto(w, "gone")
    /\ UNCHANGED <<coroutine, queuedAt, result, update, messages, frames>>

Work(w) ==
    \/ Return(w) \/ TimedOut(w)
    \/ \E k \in Tasks : TakeTask(w, k) \/ Donate(w, k)
    \/ UpdateGameLoad(w) \/ UpdateGameStore(w) \/ UpdateRender(w)
    \/ CompleteAlone(w) \/ CompleteAndResume(w)
    \/ Leave(w)

-----------------------------------------------------------------------------
(* WinMain once Loop() has returned to it: get(), then ~Runtime.           *)

BackInWinMain ==
    /\ mainPc = "leaving"
    /\ mainPc' = "get"
    /\ UNCHANGED <<loopAt, loopOn, loopResult, workerPc, queuedAt, result, update, messages, frames>>

GetBlocks ==
    /\ mainPc = "get" /\ loopResult = "idle"
    /\ loopResult' = "consumer_waiting"
    /\ mainPc' = "blocked"
    /\ UNCHANGED <<loopAt, loopOn, workerPc, queuedAt, result, update, messages, frames>>

GetReturns ==
    /\ mainPc \in {"get", "blocked"} /\ loopResult = "producer_done"
    /\ mainPc' = "shutdown"
    /\ UNCHANGED <<loopAt, loopOn, loopResult, workerPc, queuedAt, result, update, messages, frames>>

\* Every worker joined; what is left in the queues of the pool is dropped.
Shutdown ==
    /\ mainPc = "shutdown"
    /\ \A w \in Workers : workerPc[w] = "gone"
    /\ mainPc' = "returned"
    /\ queuedAt' = [k \in Tasks |-> Nobody]
    /\ UNCHANGED <<loopAt, loopOn, loopResult, workerPc, result, update, messages, frames>>

WinMain == BackInWinMain \/ GetBlocks \/ GetReturns \/ Shutdown

\* The process is over: nothing is left to do.
Returned == mainPc = "returned" /\ UNCHANGED vars

\* Loop waits for an update its worker left behind, WinMain for Loop: neither goes on.
Stranded(k) == \E w \in Workers : queuedAt[k] = w /\ workerPc[w] = "none"
LeftBehind == mainPc = "blocked" /\ (\E k \in Tasks : Stranded(k)) /\ UNCHANGED vars

Next ==
    \/ \E m \in {"key", "close"} : Post(m)
    \/ \E t \in Threads : Loop(t)
    \/ \E w \in Workers : Work(w) \/ DeadlinePasses(w)
    \/ WinMain
    \/ Returned \/ LeftBehind

\* The operating system runs every thread that can run; no deadline has to pass.
Fairness ==
    /\ \A t \in Threads : WF_vars(Loop(t))
    /\ \A w \in Workers : WF_vars(Work(w))
    /\ WF_vars(WinMain)

Spec == Init /\ [][Next]_vars
FairSpec == Spec /\ Fairness
-----------------------------------------------------------------------------
(* What must hold.                                                         *)

\* Outside the part of a frame between its first submit and its last await no
\* update of any frame is waiting, running or unawaited: the Sync window and
\* the message handler have the game to themselves (readme.txt, Sync window).
FrameIsolation ==
    loopAt \in {"peek", "submit_game", "sync", "done"} =>
        /\ Pending = {}
        /\ \A w \in Workers : workerPc[w] \notin Updating
        /\ \A f \in Futures : result[f] = "none"

\* UpdateGame increments a plain static int on whichever worker took the task;
\* no increment is lost: at the Sync window it has counted every frame begun.
NoLostFrame == loopAt = "sync" => noFrame = frames

\* Loop has at most one stack: the thread named by loopOn, and no other, is
\* executing it, and while a future holds it as its consumer no thread is.
OneStack ==
    /\ mainPc = "loop" <=> loopOn = Main
    /\ \A w \in Workers : workerPc[w] = "loop" <=> loopOn = w
    /\ (\E f \in Futures : result[f] = "consumer_set") => loopOn = Nobody

\* When the Runtime of WinMain is destroyed no update is queued or running on
\* the pool, so the shutdown never breaks a promise of a frame.
CleanShutdown ==
    mainPc \in {"shutdown", "returned"} =>
        /\ loopAt = "done" /\ Pending = {}
        /\ \A w \in Workers : workerPc[w] \notin Updating \cup {"loop"}

\* Once Loop has been suspended under WinMain, WinMain stays blocked in get()
\* for good: the loop goes on on workers, whose PeekMessage never sees the
\* WM_QUIT that is posted to the main thread.
BlockedForGood == [][mainPc = "blocked" => mainPc' = "blocked"]_vars

\* Once Loop runs on a worker it never runs on the main thread again: nobody
\* empties the queue of the window any more.
Migrated == loopAt # "done" /\ mainPc # "loop"
MessagesStayUnread == [][Migrated => Migrated' /\ Len(queue') >= Len(queue)]_vars

\* A frame that was begun reaches its Sync window, unless the thread of a worker ended just
\* when an update was put into its queue: nothing is submitted any more that would start
\* it again, and Loop waits for good.
FrameCompletes ==
    loopAt = "submit_game" ~> loopAt = "sync" \/ [](\E k \in Tasks : Stranded(k))

\* Every frame ends in its Sync window, as readme.txt draws it.  This the code does not keep.
EveryFrameCompletes == loopAt = "submit_game" ~> loopAt = "sync"

\* A request to close the window ends the process, unless Loop has left the
\* main thread or leaves it before it comes to the request.
Closing == \E i \in DOMAIN queue : queue[i] = "close"
CloseEndsProcess == Closing ~> (mainPc = "returned" \/ Migrated)

\* The frame is the one readme.txt draws.
Submitted(k) ==
    /\ loopAt \notin {"peek", "submit_game", "sync", "done"}
    /\ k = "render" => loopAt # "submit_render"
Status(k) ==
    IF ~Submitted(k) THEN "none"
    ELSE IF result[k] \in {"idle", "consumer_set"} THEN "running" ELSE "done"
Phase == CASE loopAt = "sync" -> "sync" [] loopAt = "done" -> "closed" [] OTHER -> "frame"

Pipeline == INSTANCE FramePipeline WITH
    status <- [k \in Tasks |-> Status(k)], phase <- Phase

\* FlavoGame::Loop implements the frame pipeline.
ImplementsPipeline == Pipeline!Spec
=============================================================================
