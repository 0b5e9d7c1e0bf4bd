# FlavoEngine2 in TLA+

This directory holds formal models of FlavoEngine2: what its threads do to each other, what its frame loop promises, how it starts
and ends, and where its containers and its log can go wrong. TLC checks each model on a small instance, and TLAPS proves the safety
properties of each for every value of the constants.

1. The system
2. The models, module by module
3. What each run checks, its bounds and its fairness
4. What is proved
5. Where the code and its documentation disagree
6. What is abstracted or left out
7. Plan

## 1. The system

The engine is small and is built on a vendored library of coroutines. The engine's own code is under `src/engine`, `src/kernel`,
`src/renderer` and `src/wh`. Of `src/sdk/concurrencpp` the futures and the thread pool run in every frame; the timer queue is started and
shut down with the runtime; locks, condition variables and `when_any` are what the library offers the game's code beside them.

| Component | Source | State it keeps | Operations |
|---|---|---|---|
| Frame loop | `engine/.../flavo_game.cpp` | the coroutine `Loop`, the static counter of `UpdateGame`, the window | constructor, `Loop`, `UpdateGame`, `SyncGameRender`, `WndProc` |
| WinMain and the runtime | `wh/source/main.cpp`, `concurrencpp/.../runtime.cpp` | `task_runtime`, the future of `Loop` | `WinMain`, thread callbacks, `~runtime` |
| Futures | `concurrencpp/.../result_state.*`, `result_awaitable.h`, `promises.h` | one atomic word, the value, the consumer context | `get`, `co_await`, `wait_for`, drop; `set_result`, `complete_producer` |
| Thread pool | `concurrencpp/.../thread_pool_executor.*` | per worker two queues, a lock, a binary semaphore, abort and idle flags; one set of idle flags | enqueue, work loop, donation, time-out, shutdown |
| Async lock, condition variable | `concurrencpp/.../async_lock.*`, `async_condition_variable.*` | `m_locked`, lists of suspended coroutines, a mutex each | `lock`, `try_lock`, `unlock`; `await`, `notify_one`, `notify_all` |
| Timer queue | `concurrencpp/.../timer_queue.*`, `timer.*` | requests, timers by deadline, a thread on demand | make a timer, await a delay object, `cancel`, work loop, shutdown |
| `when_any` | `concurrencpp/.../when_result.h`, `consumer_context.cpp` | one atomic status per call, a context in each result | call, register, rewind; `try_resume` by the producers |
| Task system access | `kernel/.../task.*` | `g_Runtime` | `SetRuntime`, getters |
| Thread names | `kernel/.../thread_name.*` | `m_Names`, a map without a lock | register, unregister, get |
| Logger | `kernel/.../logger.*` | the path of the log, `m_Lock` | `Log` |
| Assertions | `kernel/.../assert.*` | none | `HandleAssert` with abort, ignore, break |
| Render manager | `renderer/.../render_manager.*` | `m_Renderer` | `Initialize`, `UpdateRender`, `Destroy` |
| DX12 renderer | `renderer/.../renderer_dx12.*` | `m_Data`: device, queue, swap chain, targets, allocators, lists | `Initialize`, `UpdateRender`, `Destroy` |
| soa container | `kernel/.../ftl/soa.h` | `m_Data`, `m_NumElements` | constructor, `resize`, `destroy`, `get_array`, destructor |
| ftl result | `kernel/.../ftl/result.h`, `sdk/result/result.h` | tagged union | construction, assignment, `RETURN_ON_ERROR` |
| ECS level | `kernel/.../ecs.*` | a flecs world | constructor, test system (nothing creates one) |

### How the components interact

`WinMain` builds the runtime, publishes a pointer to it (`SetRuntime`), constructs the game (window class, window, renderer, with an
assertion on each) and calls `Loop()`, a coroutine that starts **on the main thread**. Each frame `Loop` empties the message queue
with `PeekMessage`, submits two tasks to the pool and awaits four futures: `submit` returns a future of a future, because
`UpdateGame` and `UpdateRender` are coroutines themselves. A `co_await` on an unfinished future leaves the main thread: `Loop` goes on
on the worker that finishes the future, and `WinMain` comes to `get()`, where it blocks.

All meet in `result_state`: the worker that finishes a task and the coroutine that awaits it exchange one atomic word. The pool's
workers also start and end threads, whose callbacks write the map of thread names that every log call reads. `HandleAssert` shows a
message box whose own message loop dispatches to the game's window.

An `async_lock` resumes its next waiter inline, on the stack of whoever unlocks, and sends it on to the waiter's executor; the condition
variable calls that `unlock` while it holds its own mutex. The timer queue's thread posts what is due to executors, and `~runtime` shuts the
queue down before the executors. `when_any` puts one context into the consumer contexts of many futures, and whichever producer comes
first resumes the coroutine.

### What is hard here

- **A coroutine that changes threads.** Nothing in the source says on which thread the code after a `co_await` runs.
  `PeekMessage` reads the queue of the thread that calls it; the counter of `UpdateGame` is a plain static.
- **Lock-free hand-over.** `result_state` has plain memory beside its atomic word; the later of two parties deletes it.
- **Wake-ups.** A worker's semaphore is released only by the first enqueuer of a queue, outside the lock.
- **Donations.** A worker gives away parts of its queue while others end, start, shut down or are given tasks.
- **Time-outs against late arrivals**, in `wait_for`, in the pool's idle workers and in the timer queue's thread.
- **Resumption on a foreign stack**: an unlocked waiter runs on top of the coroutine that unlocks, and competes with those that come by.
- **First come, first served**: the producers of a `when_any` race each other, the registration, and those of an earlier call.
- **Shutdown** one worker at a time, while running tasks submit more.
- **Missing locks**: the thread names, and the log file outside of the buffer.
- **Partial failure**: start-up goes on after an ignored assertion; the renderer stops in the middle of its chain.

### What makes each component correct

| Component | Correct when | Stated by |
|---|---|---|
| Frame loop | no update runs in the Sync window or between frames; no increment is lost; a frame ends unless an update was left in the queue of a worker that ended; one stack | `FrameIsolation`, `NoLostFrame`, `FrameCompletes`, `OneStack`, `ImplementsPipeline` |
| WinMain, runtime | the pool is idle when it is destroyed; a close request ends the process, if `Loop` is still there to hear it | `CleanShutdown`, `CloseEndsProcess`, `BlockedForGood` |
| Futures | deleted once, by the later side; contexts whole when used; no lost wake-up | `FreedOnce`, `ContextWhole`, `ResumerExists`, `Asserted`, `ConsumersGoOn`, `ImplementsFuture` |
| Thread pool | a task is in one place and runs at most once; no lost wake-up; a task ends unless its worker gave up waiting at the wrong moment; shutdown ends | `OneHolder`, `Awakened`, `SleeperIsFound`, `DonorKeepsOne`, `TasksEndOrStranded`, `ShutdownEnds`, `ImplementsExecutor` |
| Async lock, condition variable | one holder, and the lock is free when nobody has it; a coroutine is resumed once for each time it suspends; no notification is lost; who waits gets the lock, unless others have it again and again | `OneHolder`, `OnePlace`, `ProducedIsFound`, `LockIsGranted`, `ImplementsMonitor` |
| Timer queue | one thread as long as there is something to serve; awaited delays end, cancelled timers leave; a delay resumes its coroutine once | `ServedByOne`, `TimersEnd`, `DelaysAreTasks` |
| `when_any` | one answer to each call, and one that is true; contexts whole when used; a suspended coroutine goes on | `OneAnswer`, `ContextWhole`, `AnsweredUnlessMissed` |
| Names, logger | a line carries its thread's name; only overlapping lines can be lost | `OwnName`, `KeptUnlessShared`, `ReturnedStay` |
| Start-up | the loop runs on half an engine only after somebody agreed to it | `OnlyKnowingly` |
| DX12 renderer | an error names the first link that failed, nothing after it is built; hardware before software | `ErrorNamesTheGap`, `HardwareFirst` |
| soa | no block is leaked; the places computed for the arrays fit the block exactly if the number of bytes does not wrap. The block holds its arrays, and `get_array` returns them: both **not kept** | `NoLeak`, `FitUnlessWrapped`; `HoldsItsArrays`, `SpanInBlock` |

The hazards behind these properties are listed, each with its source line, in `PROJECT.json`.

## 2. The models, module by module

### FramePipeline and FrameLoop

`FramePipeline` is the abstract specification: the timeline of `src/readme.txt` ("Example frame timeline"). Both updates start
and end freely within a frame, the Sync window opens when both are over, the next frame comes after it.

`FrameLoop` is `FlavoGame::Loop` with everything a frame touches.

| Model | Code |
|---|---|
| `loopAt`, `loopOn` | where the coroutine stands; the thread whose stack it is on, or `Nobody` while suspended |
| `mainPc` | `WinMain`: in `Loop`, leaving it, in `get()`, blocked, in `~Runtime`, returned |
| `workerPc`, `task` | a pool worker: without a thread, idle, timed out, on an update, in `Loop`, leaving it; the update it took |
| `queuedAt`, `result` | the worker in whose queue a submitted update waits; the word of each of the frame's four futures |
| `noFrame`, `loaded` | `static int no_frame` and the register of `++` |
| `queue`, `quit`, `window` | the window's message queue and WM_QUIT |
| `PeekMessage`, `Quit`, `NoMessage` | the message loop, with `TranslateMessage` and `WndProc`; on a worker there is never a message |
| `SubmitGame`, `SubmitRender`, `Enqueue` | the two `submit` calls; the pool puts the update into the queue of one worker and starts its thread if it has none |
| `TakeTask`, `Donate` | a worker takes an update from its own queue, or gives one of two away (`balance_work`) |
| `DeadlinePasses`, `TimedOut` | the idle time of a worker is over, and its thread ends without another look at its queue |
| `AwaitReady`, `AwaitSuspend` | a `co_await` whose future is, or is not, finished |
| `Return`, `BackInWinMain` | the thread that `Loop` left returns through `await_suspend`, while `Loop` may already go on elsewhere |
| `CompleteAlone`, `CompleteAndResume` | `complete_producer` without and with a suspended consumer |
| `GetBlocks`, `GetReturns`, `Shutdown`, `Leave` | `result.get()` in `WinMain`, `~Runtime`, and each worker's end |
| `LeftBehind` | nobody can go on: `Loop` awaits an update that is left in the queue of a worker without a thread |

An action of a future is one step here; `ResultState` is its detail. `ThreadPool` is the detail of `Enqueue`, `TakeTask`, `Donate` and `TimedOut`: which
worker the pool chooses is free here, and what the choice and its locks are is there.

### Future and ResultState

`Future` is the promise: fulfilled once, taken as put, reclaimed once. `ResultState` has one action per access to shared memory:
loads, compare-and-exchanges and exchanges of `m_pc_state` (`pcState`), the plain writes of the consumer context (`ctx`) and the value,
the semaphore of `wait_for`, and `delete_self` (`freed`, a counter so that two deletions can be seen). The consumer chooses among
`get` (`GetLoad` ... `Take`), `co_await` (`AwaitLoad`, `AwaitSet`, `AwaitCas`), `wait_for` (`WaitFor...`, as often as it likes) and
dropping the result (`DropLoad`, `DropExchange`); the producer goes `BuildResult`, `CompleteProducer`, then what the word tells it.
The wait of an atomic may wake spuriously (`SpuriousWake`).

### Executor and ThreadPool

`Executor` is the promise: a task is waiting, running, done or broken; it may be broken only if the executor was closed before it
began. `ThreadPool` has one action per critical section of a worker's lock or access to an atomic outside of it.

| Model | Code |
|---|---|
| `public`, `private` | `m_public_queue`, `m_private_queue` of each worker |
| `sem`, `found`, `abort`, `atomicAbort` | `m_semaphore`, `m_task_found_or_abort`, `m_abort`, `m_atomic_abort` |
| `flag`; `noThread` | the idle flags of `idle_worker_set`; `m_idle` of each worker |
| `hand`, `target`, `unseen` | a thread inside `enqueue`: its tasks, the worker chosen, the flags left to look at |
| `wanted`, `donees`, `given` | what is left of `find_idle_workers`' `max_waiters`, `m_idle_worker_list`, and how far `balance_work`'s loop has come |
| `DrainQueue` ... `Relock` | `drain_queue` and `wait_for_task`, with the time-out (`DeadlinePasses`, `TimedOut`) |
| `NextTask` ... `EndTask` | `drain_queue_impl`; `ScanDonee`, `BeginDonating`, `Donate` are `balance_work` |
| `SubmitFromTask`, `SubmitFromMain`, `Scan`, `NobodyIdle` | `enqueue` and `idle_worker_set::find_idle_worker` |
| `EnqueueForeign`, `Release` | `enqueue_foreign` with `ensure_worker_active`: it throws (`RefuseTask`, `RefuseDonation`), starts a thread (`InsertAndStart`) or finds one (`InsertToRunning`) |
| `BeginShutdown` ... `JoinAndClear` | `thread_pool_executor::shutdown` and `thread_pool_worker::shutdown` |

### Monitor, AsyncLock and AsyncConditionVariable

`Monitor` is the promise of a lock and a condition variable together: who wants to enter, who is inside, who waits. `AsyncLock` has the
lock's own actions, one per critical section of `m_awaiter_lock`; `AsyncConditionVariable` extends it with the condition variable and with
coroutines that use both as the documentation of concurrencpp shows: producers, consumers, and some that just hold the lock or try to.

| Model | Code |
|---|---|
| `locked`, `count`, `awaiters` | `m_locked`, `m_thread_count_in_critical_section`, `m_awaiters` |
| `waited` | the coroutines whose `resume_synchronously` is false |
| `stacks` | the threads: each a stack of coroutines, the top one runs; `Suspend`, `Resume`, `Schedule` are what suspending, resuming inline and an executor do to them |
| `resumes`, `then` | the coroutines a caller took off a list and has still to resume, and where it goes on afterwards |
| `Lock`, `ResumeOn`, `GiveUp`, `Enter` | `lock_impl`: the loop, `resume_on`, its `catch`, the end |
| `TryLock`, `Unlock`, `ResumeNext` | `try_lock`, `unlock`, `retry` or `cv_awaiter::resume` |
| `HandOver` | `resume_on`: refused, run at once (inline executor) or posted; `RunPosted`, `BreakPosted` are the executor's turn |
| `AwaitLock`, `AwaitUnlock`, `AwaitPush` | `cv_awaiter::await_suspend`, whose mutex (`mutex`) is held from the first to the last |
| `TestPredicate`, `CvResumeOn`, `NotifyOne`, `NotifyAll` | the predicate's loop, `await_impl`, the notifications |

### TimerQueue

One action per critical section of `m_lock` or step outside of it. Time is what is left (`rem`) until each deadline.

| Model | Code |
|---|---|
| `requests`, `abort`, `idle`, `worker` | `m_request_queue`, `m_abort`, `m_idle`, `m_worker` |
| `loop`; `batch`, `timers`, `due`, `firing` | where a thread is in `work_loop`; the requests it took, `m_timers`, and how far `process_timers` is |
| `Make`, `Notify`, `Join`; `MakeTooLate` | `add_timer` with `ensure_worker_thread`; the exception after a shutdown |
| `Cancel`, `Remove` | `timer::cancel`, which is the destructor too, and `remove_internal_timer` |
| `Wait`, `TimePasses`, `Late`, `Leave` | the two waits of `work_loop` and its ends |
| `Apply`, `Examine`, `Fire`, `EndProcess` | `process_request_queue` and the loop of `process_timers` |
| `Execute`, `Break` | the executor runs what was posted, or destroys it (`~await_via_functor`) |
| `BeginShutDown` ... `ShutDownExecutors` | `~runtime`: `timer_queue::shutdown`, then `shutdown_all` |

Awaited delay objects implement `Executor`: awaiting one is submitting a task that runs once, and it is broken only when the queue is shut down.

### WhenAny

One coroutine calls `when_any` over all results and, when told of one, again over the others. One action per access to shared memory:
`Load`, `SetContext`, `Register` (the compare and exchange of `result_state_base::when_any`), the reads and exchanges of the context's
status (`AnyResultFinished`, `FinishProcessing`, `ResumeInline`; `TryLoad`, `TrySwap` of the producers), and `Rewind`, `Clear`. A context
outlives its call as long as a producer holds it (`context`). `missed` is a history variable: the results that came between the load and the
exchange of their registration.

### RendererDX12 and Startup

`RendererDX12` is the chain of `Initialize`: every call into the graphics system is a step that may be refused; `built` holds the
objects of `m_Data`, `error` the link whose message `RETURN_ON_ERROR` adds. `Startup` instantiates it in whole and surrounds it with
`WinMain`, the constructor of the game, `RenderManager::Initialize`, the three assertions and their message boxes. While a box is open the
user may abort, ignore, continue from a breakpoint, or close the game's window. The loop itself is reduced to "turns, and ends on
WM_QUIT"; `FrameLoop` is its detail.

### Logging

Thread names and the logger together: a thread registers, logs, unregisters. Two uses of the map of which one writes are a data race,
after which (`broken`) every lookup may answer anything. A log call finds its name, opens a stream of its own, takes `m_Lock`, inserts
into the stream's buffer, gives the lock up, and only when the stream is closed does the line go to the file: the C runtime
seeks to the end (`SeekEnd`), then writes (`Write`).

### Soa

The life of one `ftl::soa`: default construction, `resize`, `destroy`, `get_array`, destructor, in any order; `new` may throw. The
sizes are computed in the arithmetic of `uint64_t`, modulo the number of its values (`Modulus`). A pointer is the number of the byte it points to, and a byte
has a value (`ByteValues`): `get_array` computes the place of an array, reads the byte there and makes a pointer of its value, which is kept in
the history variable `span` until the next call. A double deletion, a read of a deleted block or a read past the end of one is undefined, so
the behaviour ends there (`misused`).

### MC modules

`MCFrameLoop`, `MCResultState`, `MCThreadPool`, `MCAsyncLock`, `MCTimerQueue`, `MCWhenAny`, `MCStartup`, `MCLogging`, `MCSoa` extend the
models for TLC, `MCLogging` with a symmetry set. `FrameLoopProofs`, `ResultStateProofs`, `ThreadPoolProofs`,
`AsyncLockProofs`, `TimerQueueProofs`, `WhenAnyProofs`, `StartupProofs` and `KernelProofs` (the log and soa) hold theorems.

## 3. What each run checks

| Run | Instance | Shows |
|---|---|---|
| `frame_loop` | 2 workers, an int of 2 bits, 2 messages; 152,684 states | four invariants, `BlockedForGood`, two liveness properties and the refinement of `FramePipeline` |
| `result_state` | 2 values; 133 states | four invariants, no lost wake-up, refinement of `Future` |
| `wait_for_lifetime` | same | **violated**: see section 5 |
| `thread_pool` | 2 workers that may time out, 4 tasks, 2 of them from the main thread; 264,756 states | four invariants, `TasksEndOrStranded`, `ShutdownEnds`, refinement of `Executor` |
| `lost_task` | 1 worker, 2 tasks | **violated**: see section 5 |
| `async_lock` | 3 coroutines that use the lock as often as they like, holders on the inline executor; 210,703 states | three invariants, `LockIsGranted`, refinement of `Monitor` |
| `timers` | a delay object, a timer, 2 threads at a time; 154,306 states | `ServedByOne`, `TimersEnd`, delays implement `Executor` |
| `when_any` | 3 results, 3 calls; 20,635 states | two invariants, `AnsweredUnlessMissed` |
| `missed_result` | 2 results | **violated**: see section 5 |
| `startup` | 3 adapters, 3 frame buffers, 1 render thread; 29,552 states | start-up under every combination of failures and answers |
| `logging` | 3 threads, a call each; 373,712 states | names and lost lines |
| `soa` | 3 types of 1, 4 or 8 bytes, counts 0, 1, 3, 7, arithmetic modulo 64, 3 blocks, bytes of value 0 or 255; 65,664 states | `NoLeak`, `FitUnlessWrapped` |

### Why the bounds are enough

- *Frame loop.* A frame has two updates, so at most two workers are ever busy and a third stays idle; two already give every migration
  of `Loop`, every donation of an update and every queue left behind. Frames are not bounded: the counter wraps at `IntMax`, and a 2-bit int wraps within a few frames. `MaxMsgs = 2` has one
  message behind another, WM_CLOSE before or after a key. The proofs drop all three bounds.
- *Futures.* One producer and one consumer are all the protocol allows. Calls of `wait_for` are not bounded.
- *Pool.* Three parties per worker matter: the worker, one donor and one submitter; two workers and the main thread give each. A
  donation needs two tasks in a private queue and a donee; four tasks give a donation, an interrupted one and submissions during it.
  Each task is submitted once, so the model is finite; the main thread submits the tasks of `MainTasks` only, so that the two
  others come from a task whose worker has more to do while no worker is idle. A worker may time out whenever it waits. The proofs take any
  number of workers and tasks; with six tasks and without time-outs TLC finds the same.
- *Lock.* Three coroutines give a holder, a waiter and one that comes by, or a consumer that waits, a producer that notifies and a third that takes the
  lock in between. How often they use it is not bounded, so that competition for the lock need not end. The holder's executor is the inline one, so that a coroutine goes
  on on a foreign stack; producers and consumers are on executors that run them later. The proofs take any finite set of
  coroutines and any uses on the inline executor.
- *Timers.* A timer due at once or after a tick (`MaxDue`), whose executor has begun all but one execution (`MaxPosted`), and one delay
  object: two timers are what the sets of due and removed timers tell apart. A second thread is needed while the first one ends; a third cannot
  exist, since the adder joins the old thread, and TLC would not find one to start. The proofs take any number of timers and threads.
- *when_any.* Two producers race each other while the coroutine registers with a third result; the second call meets producers with
  the first call's context, the third has one result left. The proofs take any number.
- *Start-up.* Three adapters give two of one kind; three buffers are the engine's number, and one render thread is too.
  The proofs take any number of each.
- *Log.* Three threads are needed for a third call that begins after one of two overlapping calls has returned; the proofs take
  any number of threads and calls.
- *Soa.* Three types give a first, an inner and a last array. Modulo 64 a block of 64 bytes does not fit: 3 types of 8 bytes and 7 elements
  overflow, the smaller ones do not, so that both directions of `FitUnlessWrapped` are checked, at lengths beside the boundary. The addresses are those of
  blocks above the lowest page, as an operating system gives them out, and two values of a byte are enough, since no byte can hold such an address. The
  proofs take any number of types, any sizes and any modulus.

### Fairness

Only what the operating system gives: a thread that can go on does. In `FrameLoop` that is weak fairness of `Loop` on each
thread, of each worker and of `WinMain`; a worker takes updates from its own queue only, no deadline has to pass (and none is kept from passing), the
user is not fair and need not post anything. In `ThreadPool` it is weak
fairness of each worker (`Run`) and of the main thread inside a call; nobody has to submit or to shut down, and no deadline has to pass:
`DeadlinePasses` is left out of the fairness. Tasks end (the engine's updates have no loops). In `ResultState` the producer ends its task, and
a consumer that began a call goes on with it; starting one is not required. In `AsyncConditionVariable` a coroutine on top of its thread's
stack goes on, and an executor runs or breaks what was posted; nobody has to use the lock again or to close
an executor, and nobody is kept from using it for ever. In `TimerQueue` the threads, the
executors and the clock go on; nobody has to make or cancel a timer or to destroy the runtime. In `WhenAny` the tasks end and a call that
began goes on; calling again is not required. `Startup`, `Logging` and `Soa` have no liveness.

`CHECK_DEADLOCK FALSE` is set for `Soa` only: the object's life ends. Elsewhere an explicit stuttering step marks the proper end, and any
other stop would be reported as a deadlock. In `FrameLoop` there is a second one, `LeftBehind`, for the standstill that
`FrameCompletes` names.

## 4. What is proved

Everything in this section holds for all values of the constants under the named assumptions of the modules (`Main` is not a worker;
bounds are natural numbers; no value is `Empty`; `None` is no thread; `Null` is no block). TLC has checked each inductive invariant before.

Four theorems state what no run checks by itself: the part of a liveness property that is safety. A run shows that something awaited
comes, on a small instance and under fairness; the theorem shows, for any instance, that in every state where it is awaited somebody is
left to bring it. They are named at the end of their modules' paragraphs.

**FrameLoopProofs** (any set of workers, any width of int, any length of the message queue). `IInv` conjoins `TypeOK` and `OneStack` with

- `FuturesInv`: which of the four futures exist at each point of `Loop`;
- `ConsumerInv`: a suspended `Loop` is the consumer of exactly the future it awaits;
- `CarrierInv`, `OpenInv`: an unfinished update is in exactly one place, the queue of a worker or a worker, and it is in one;
- `InnerInv`: the coroutine of an update is over just before the task around it;
- `CounterInv`: the frame counter lags by one exactly until its store;
- `MainInv`: how `WinMain`'s progress follows from `Loop`'s.

`FrameIsolation` alone is not inductive: that nothing runs at the Sync window follows because each passed `co_await` used up a future that
only the update's worker could have finished. Theorems: `TypeCorrect`, `FramesAreIsolated`, `NoFrameIsLost`, `LoopHasOneStack`,
`ShutdownIsClean`, `MainStaysBlocked`, `MessagesAreNeverRead`, and `LoopImplementsPipeline` (each action is a step or a stutter of
`FramePipeline`). `SuspendedLoopIsServed` is the safety in `FrameCompletes`: while `Loop` is suspended, the update it awaits is in the queue of a worker
or on one, no worker is gone, and one that ends an update can complete it; so only a thread that ended over its queue stops a frame. It rests on `AwaitsTasks`: `Loop` awaits the future of the task
before the future of the coroutine in it, and by then the latter is there, so that only tasks are ever waited for.

**ResultStateProofs** (any set of values). `IInv` = `TypeOK` with `BeforeInv` (before publication the word is a function of
the consumer's place), `AfterInv` (afterwards it stays done until the consumer drops, and whom the producer still serves), `ContextInv` (the
plain context belongs to the call that is going on) and `FreedInv` (freed exactly when both are through). Theorems: `DeletedOnce`,
`ContextIsWhole`, `SuspendedIsResumed`, `AssertionsHold`, `ResultStateIsAFuture`.

**ThreadPoolProofs** (any number of workers and tasks). What a thread of the pool does rests on what it read a few steps before, under a
lock it no longer holds, so none of the four invariants is inductive. `IInv` = `TypeOK` with `OnceInv` (a task has one holder), `PlaceInv`
(which variables a thread uses at which place), `AbortInv` (`m_atomic_abort` is raised before `m_abort`), `HandInv` (nobody enqueues
nothing), `AwakeInv` (a worker past its look into the queue has `m_task_found_or_abort` up for whatever came since, and someone on the way to its
semaphore), `DonorInv` and `SleepInv`. `DonorInv` is the arithmetic of `balance_work`: a donor with more tasks than donees to come still has more after each
part it gives (`ShareLeavesOne`, `DonationLeavesOne`), unless a donee that is shut down will make its loop throw. `SleepInv` covers the steps between
waking up and `mark_worker_active`, where the flag is down though the worker may go back to sleep. Theorems: `TypeCorrect`, `TasksHaveOneHolder`,
`NoLostWakeUp`, `DonorsKeepATask`, `SleepersAreFound`, `PoolIsAnExecutor` (each action is a step or a stutter of `Executor`).

**AsyncLockProofs** (any finite set of coroutines, any choice of uses on the inline executor). `IInv` = `TypeOK` with

- `StackInv`: a coroutine that runs, or is below one that does, is once on one stack, and no other coroutine is on any;
- `ListInv`: one that waits is once in one list: the lock's, the condition variable's, or that of the one about to resume it;
- `HolderInv`: who is between taking the lock and giving it up is alone, and `m_locked` and the assertions' counter say so;
- `MutexInv`: the condition variable's mutex belongs to the one between `await_suspend`'s lock and its return;
- `UseInv`: who awaits is a consumer, and found the predicate false while it held the lock;
- `FoundInv`: while something is produced and somebody waits, or is about to, somebody `Seeks`.

`ProducedIsFound` alone is not inductive: a consumer joins the list after it gave the lock up, and a producer may come in between. `FoundInv`
therefore counts the owner of the mutex as waiting, and its producer, who cannot notify before it has the mutex, as one that seeks. `OnePlace`
needs to know who is on top of a stack and that a list handed over is the list taken off (`StackSuspends`, `StackResumes`, `ListHands`,
`ListResumes`, over the lemmas about sequences without repetition at the head of the module). The mapping to `Monitor` counts the same owner
as the last that waits (`WaitListIs`, `PusherIs`), so giving up and beginning to wait is one abstract step. Theorems: `TypeCorrect`,
`LockHasOneHolder`, `CoroutinesHaveOnePlace`, `NotificationsAreNotLost`, `LockIsAMonitor` (each action is a step or a stutter of `Monitor`).
`NoWaiterIsStranded` is the safety in `LockIsGranted`: while a coroutine is in the list of the lock, the lock is held or somebody is
about to look at it (`Served`), though the waiter that `unlock` takes off may find it taken again, and its executor may throw it out.

**TimerQueueProofs** (any number of timers, delay objects and threads). `IInv` = `TypeOK` with

- `ThreadInv`: `m_idle` is down while the thread of `m_worker` is in its loop, and no other thread is in it;
- `OldInv`: the thread a maker joins is over, is not the present one, and nobody else joins it;
- `HeldInv`: as long as there is a timer, or one asked for, there is a thread in the loop, and after a shutdown nothing is asked for;
- `WorkInv`: the variables of `process_timers` are in use only by a thread that is in it, and what it fires is not due a second time;
- `EndInv`: how far `~runtime` is, with the executors closed only after the thread is joined;
- `DelayInv`: a delay object is in one place, a request, the timers or an executor, until it is posted once.

`ServedByOne` alone is not inductive: that a maker may start a thread rests on the old one having raised `m_idle` under the same lock under
which it saw neither a timer nor a request. Requests are a sequence; what is asked for in one that grew or was joined to another is the lemmas
`OfAppend`, `AddsAre` and `OfConcat`. Theorems: `TypeCorrect`, `QueueIsServed`, `DelaysImplementExecutor` (each action is a step or a stutter of
`Executor`). `NoDelayIsForgotten` is the safety in `TimersEnd`: a delay object that is awaited is requested, in the queue, with its thread
or with its executor (`PlaceInv`, over `RemovalInv`: no delay object is ever asked to be removed), and when something was left for a thread that
sleeps, somebody has still to notify it (`SleepInv`), since the lock is held from the thread's test to its sleep.

**WhenAnyProofs** (any number of results). `IInv` = `TypeOK` with `CallInv` (each call but the one going on has used up a result),
`WordInv` (the word of a result is `consumer_set` only between the loop's passing it and the rewind's coming to it), `ContextInv` (a
context in use is of this call or an earlier one, and if of this one, its result was asked for), `StatusInv` (only the status of the call
going on can be open, so an exchange of an earlier call's producer fails), `CallerInv` (whoever turned `done_processing` into a result is
alone) and `ContextWhole`. `WordInv` rests on the loop and the rewind both going through the results in order (`LoopGoesOn`), and `CallInv`
on counting them. Theorems: `TypeCorrect`, `ContextsAreWhole`, `OneAnswerEach`. `AnAnswerIsUnderWay` is the safety in
`AnsweredUnlessMissed`: while the coroutine is suspended and a result it registered with is there, a producer is on its way to resume it. Its
invariants are `TellInv` (while the status holds no result, each registered result has the context still or its producer is telling),
`ResumeInv` (whoever left its result in the status resumes) and `SeenInv` (a context that is set is of this call, and a status does not go back from `done_processing`).

**StartupProofs** (any number of adapters, frame buffers and render threads). `IInv` = `TypeOK` with

- `LinkInv`: at the k-th link of `Initialize`, and after it failed, `m_Data` holds the parts of the links before it and the first n objects of
  its own, n less than all; in the end it holds everything;
- `ChoiceInv`: no adapter is in both lists, and the second list is only tried after every adapter of the first refused;
- `MainInv`: what the main thread has behind it at each point of `WinMain`.

`ErrorNamesTheGap` says nothing before the error is returned; `LinkInv` is what it becomes on the way. The loops over buffers count what they
built, so the lemmas are about the rows of objects (`RowCardinality`, `NextObject`), once for all links (`LinkStays`, `LinkAdvances`). Theorems:
`TypeCorrect`, `LoopRunsKnowingly`, `ErrorsNameTheGap`, `SoftwareIsLast`.

**KernelProofs** (the log: any number of threads and calls). `IInv` = `TypeOK` with `NameInv` (without a race a thread that is on is in
the map and a found name is its own), `DoneInv` (returned lines are older than the calls going on), `SharedInv` (two calls going on
know of each other), `PosInv` (what is in the file at or after the place a call is about to write came from calls it overlaps) and
`KeptUnlessShared`. `PosInv` is the heart: the place was the end of the file once, and only overlapping calls can have written since.
Theorems: `TypeCorrect`, `LinesCarryOwnName`, `LoneLinesAreKept`, `ReturnedLinesStay`.

The second half is about `ftl::soa` (any number of types, sizes and elements, any modulus). `SoaInv` = `NoLeak` with `BlockInv` (the block of
a container that is not empty is there, and as long as `calculate_allocated_bytes` said). `FitUnlessWrapped` is about sums over the types, that is about
recursive functions. That such a function exists is `Iterate`, and what it is at each type comes from `UpTo`: induction with a set in the
place of the formula, from the library's fact that a set of natural numbers has a least element (`NatLeast`). So `BytesGoOn` and
`TotalsGoOn` unfold the two sums, and `NothingWraps` says that they agree as long as the whole fits, from which `LayoutFits` has the arrays
one after the other. The converse is `FittingIsUnwrapped`: if the arrays fit, none of the sums can have wrapped on the way, so a
length that overflows is never laid out right by chance. Theorems: `NoBlockIsLeaked`, `LayoutFitsUnlessWrapped`. Nothing is proved of what `get_array`
returns, since it is wrong (section 5).

**Only model-checked**: all liveness under fairness (`FrameCompletes`, `CloseEndsProcess`, `ConsumersGoOn`, `TasksEndOrStranded`,
`ShutdownEnds`, `LockIsGranted`, `TimersEnd`, `AnsweredUnlessMissed`), which is outside what the prover can do. What is proved beside them is safety: the four theorems above, and for `ConsumersGoOn` and
`TasksEndOrStranded` that no wake-up is lost (`SuspendedIsResumed`, `NoLostWakeUp`). For `CloseEndsProcess` and `ShutdownEnds` there is no such theorem.

## 5. Where the code and its documentation disagree

Three runs look for a violation of something the repository says of itself, and find it. `PROJECT.json` quotes the lines.

1. `wait_for_lifetime` (`result_state.h:140`): `wait_for` whose time is over may find the result done while the producer is still on its
   way to the consumer context; a consumer that then takes the result deletes the state the producer reads. The engine does not
   call `wait_for`. `when_any` has the same weakness where its rewind fails.
2. `lost_task` (`thread_pool_executor.cpp:306`): an idle worker whose time is over ends its thread without looking at the queue a task
   was just put into. The task waits until some later enqueue chooses this worker. `TasksEndOrStranded` is what holds: only such a task waits.
3. `missed_result` (`result_state.cpp:77`): if a result ends between the load and the exchange of its registration, `when_any` reports it as
   unfinished, and its producer does not know of the coroutine. If every result of the call comes that way, the coroutine is suspended for good.
   `AnsweredUnlessMissed` is what holds.

Nine more are stated in the modules, marked "the code does not keep". No run of the project checks them; each is violated when its name is put into
the `.cfg` of its module's run (the tenth with the change it names):

4. `PrivateIsEmpty` of `ThreadPool` (`thread_pool_executor.cpp:359`): the assertion `m_private_queue.empty()` can fail when a worker left its
   loop on `m_atomic_abort` and an enqueue starts it again before `m_abort` is set.
5. `LateTasksAreRefused` of `ThreadPool` (`thread_pool_executor.cpp:414`): during a shutdown a worker that is not told yet still accepts
   tasks; the README of concurrencpp (lines 230, 2061) says that enqueue throws once shutdown was called.
6. `EveryFrameCompletes` of `FrameLoop` (`thread_pool_executor.cpp:306`): the second item, seen from the game. `Loop` submits nothing while it awaits
   its updates, so nobody starts the worker again that ended over one of them: the frame that line 21 of `src/readme.txt` draws does not come to
   its end. `FrameCompletes` is what holds.
7. `HoldsItsArrays` of `Soa` (`soa.h:141`): the number of bytes wraps around, and the block is shorter than the arrays it is to hold
   (line 16). `FitUnlessWrapped` is what holds.
8. `SpanInBlock` of `Soa` (`soa.h:122`, `134`): `get_array` ("Stored array retrieval functions", line 46) casts the value of the byte where an array
   begins to a pointer, instead of taking its address; the span it returns is not in the block. No code instantiates the template yet.
9. `DestroyedForGood` of `Soa` (`soa.h:97`): `destroy()` ("Clear and deallocate memory", line 41) keeps the pointer it deleted, and the next
   `destroy()`, `resize` or the destructor deletes it again.
10. `NoSelfDeadlock` of `AsyncConditionVariable` (`async_condition_variable.cpp:22`): `await` holds the condition variable's mutex while it unlocks the
   `async_lock`, which runs the lock's next owner inline. If that one's executor is the inline executor and it goes on to notify (lock, modify,
   unlock, notify: line 1885 of concurrencpp's README), it waits on its own thread for a mutex held further down its stack. It takes
   `InlineUses = {"push"}` to see it.
11. `NotScheduledAfterCancel` of `TimerQueue` (`timer_queue.cpp:117`): the thread may have read the flag before `cancel` set it, and posts the timer
   once more after `cancel` returned; concurrencpp's README (lines 1426-1428) says it does not. The callable does not run: `execute` tests
   the flag again.
12. `NobodyStarves` of `AsyncConditionVariable` (`async_lock.cpp:130-141`): `unlock` frees the lock before the waiter it took off the list tries
   again, so that one who comes by may have it first, and the waiter goes to the end of the list. That can go on for ever;
   `LockIsGranted` is what holds: it does only while others have the lock again and again.

`BlockedForGood` and `MessagesStayUnread` hold and are worth a reader's attention nevertheless: once a `co_await` has suspended,
closing the window can no longer end the process. No line of the repository promises that it does.

## 6. What is abstracted or left out

*Abstractions.*

- The updates of a frame have no content but the counter; `SyncGameRender` is empty in the source. The pool of `FrameLoop` is what a frame feels of
  `ThreadPool`: an enqueue, a donation and the end of a thread are one step each, and a pool that shuts down takes no update any more.
- Pool: queues are sets, since no property depends on the order; a scan for an idle worker reads the flags in any order (the
  code starts at its own index and wraps); shutdown takes the workers in any order; joining the stale thread of a restarted worker
  is part of the restart, because `m_idle` is set by that thread's last critical section; the empty tasks that an interrupted donation leaves
  in a queue are ignored; round robin may choose any worker; the semaphore saturates at one, as MSVC's binary semaphore does.
- Lock: the executors are shut down together (`closed`); a coroutine its executor throws out ends; what runs on the inline executor
  leaves the condition variable alone until it ends, which is what `NoSelfDeadlock` is about. The mutexes are atomic actions, but for the condition
  variable's, which is held across an inline resumption.
- Timers: the executors are shut down only by `~runtime`, after the queue (a user who shuts one down earlier makes `fire` throw in the queue's
  thread, which nobody catches). An interrupted coroutine leaves the queue alone: `m_request_queue.clear()` runs it under `m_lock`. A frequency is
  at least a tick. The order of timers whose deadlines have all passed is lost. A spurious wake-up is the same as a notification whose request was
  taken already.
- `when_any`: a result is only what the call touches; what the caller does with the answered one is `ResultState`'s. The final `resume_on` is
  left out.
- The order in which DXGI enumerates adapters is free, and so are their kinds. A swap chain is never created without a window.
- After a data race on `m_Names` lookups answer anything; a crash is not modelled. The append of the C runtime is modelled as a seek and a
  write of one line; a write of another length over a line is not.
- A misuse of memory in `Soa` ends the behaviour, as nothing can be said of what follows.

*Not modelled.*

- The other executors of concurrencpp (thread, worker thread, manual), shared results, `when_all`, generators, the bulk enqueue, and the argument
  checks, moves and swaps of `scoped_async_lock` and `timer`: the engine calls none, and the latter keep no shared state.
- The copy constructor, the move constructor and swap of `soa`: they cannot be instantiated as they are written.
- The console and debugger output of the logger, formatting, the output path, profiler macros, `ftl` aliases and strings: pure I/O or wording.
- `~IRenderer` is not virtual: deleting the renderer through it is undefined at the very end of the process, and a property
  would only restate that.
- The ECS level: no code creates one. flecs, optick, d3dx12 and the build: third party. These are nearly nine tenths of the lines of the
  repository (flecs alone is 95,000 lines in two files) and the engine only links them, so the models stand for a small share of all lines and for most of
  the engine's own and of the part of concurrencpp that has concurrent state.

## 7. Plan

The order is that of importance for the engine: frames first, then what they stand on, then start and end, then the rest.

Done: `FramePipeline`, `FrameLoop` with proofs; `Future`, `ResultState` with proofs; `Executor`, `ThreadPool` with proofs; `Monitor`, `AsyncLock`,
`AsyncConditionVariable` with proofs; `TimerQueue` with proofs; `WhenAny` with proofs; `RendererDX12`, `Startup` with proofs; `Logging` and `Soa` with proofs.

To come, in this order:

1. `ResultStorage`: the tagged union of `sdk/result/result.h`, whose assignment (lines 178-205, 228-237) destroys before it assigns; `Level` of `ecs.cpp`, if
   the engine begins to use it.
