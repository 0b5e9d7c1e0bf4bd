----------------------------- MODULE TimerQueue -----------------------------
(***************************************************************************)
(* timer_queue and the timers it serves.  Whoever makes or cancels a timer *)
(* leaves a request with the queue; one thread, started on demand, takes   *)
(* the requests, keeps the set of timers, sleeps until the next deadline   *)
(* and posts what is due to the timer's executor.  The thread ends after a *)
(* time without timers and requests; the next timer starts another one.    *)
(* A delay object is a one-shot timer that resumes the coroutine that      *)
(* awaits it, also when it is destroyed unfired.                           *)
(*                                                                         *)
(* An action is one critical section of m_lock or one step outside of it.  *)
(* Time is what is left until each deadline: the order of the deadlines    *)
(* that have passed is lost.                                               *)
(***************************************************************************)
EXTENDS Integers, Sequences, FiniteSets

CONSTANTS
    Delays,        \* the delay objects
    Handles,       \* the timers somebody holds, regular or one-shot
    MaxDue,        \* bound: the longest due time and frequency, in ticks
    MaxPosted,     \* bound: executions of a timer its executor has not begun
    Workers,       \* bound: the threads that may exist at a time
    None

Timers == Delays \cup Handles

ASSUME KindsAssumption ==
    /\ Delays \cap Handles = {}
    /\ None \notin Workers \cup Timers
ASSUME BoundsAssumption == MaxDue \in Nat \ {0} /\ MaxPosted \in Nat \ {0} /\ IsFiniteSet(Workers)

VARIABLES
    requests,      \* m_request_queue
    abort,         \* m_abort
    idle,          \* m_idle
    worker,        \* m_worker, None when it is not joinable
    loop,          \* where each thread is in work_loop
    batch,         \* the requests the thread has taken
    timers,        \* m_timers
    due,           \* the timers process_timers has still to go through
    firing,        \* the timer it fires
    rem,           \* the time left until each deadline
    periodic,      \* the regular timers, by m_is_oneshot
    cancelled,     \* the timers whose m_cancelled is set
    owner,         \* where the maker of each timer is
    old,           \* the thread each maker has to join
    delay,         \* how far the coroutine of each delay object is
    posted,        \* how many executions of each timer its executor has
    closed,        \* the executors are shut down
    main,          \* where ~runtime is
    terminated     \* an exception left a thread

queue == <<requests, abort, idle, worker>>
thread == <<loop, batch, timers, due, firing>>
users == <<periodic, cancelled, owner, old>>
executors == <<posted, closed, terminated>>
vars == <<queue, thread, users, executors, rem, delay, main>>

Init ==
    /\ requests = <<>> /\ abort = FALSE /\ idle = TRUE /\ worker = None
    /\ loop = [w \in Workers |-> "none"]
    /\ batch = <<>> /\ timers = {} /\ due = {} /\ firing = None
    /\ rem = [t \in Timers |-> 0] /\ cancelled = {} /\ periodic = {}
    /\ owner = [t \in Timers |-> "unmade"]
    /\ old = [t \in Timers |-> None]
    /\ delay = [t \in Delays |-> "unmade"]
    /\ posted = [t \in Timers |-> 0] /\ closed = FALSE
    /\ main = "up" /\ terminated = FALSE

LoopIs(w, p) == loop' = [loop EXCEPT ![w] = p]
OwnerIs(t, p) == owner' = [owner EXCEPT ![t] = p]

\* The timers a sequence of requests adds, or removes.
Of(kind, reqs) == {t \in Timers : \E i \in DOMAIN reqs : reqs[i] = <<kind, t>>}

\* Destroyed before it was executed, a delay object resumes its coroutine.
Interrupt(ts) ==
    delay' = [t \in Delays |-> IF t \in ts THEN "interrupted" ELSE delay[t]]

-----------------------------------------------------------------------------
(* make_timer, make_one_shot_timer, awaiting a delay object, and cancel.   *)

\* ensure_worker_thread: the thread that is over is left to the caller to join.
EnsureWorker(t) ==
    IF idle
    THEN \E w \in Workers :
             /\ loop[w] = "none" /\ LoopIs(w, "top")
             /\ worker' = w /\ idle' = FALSE
             /\ old' = [old EXCEPT ![t] = worker]
    ELSE UNCHANGED <<loop, worker, idle, old>>

Make(t) ==
    /\ owner[t] = "unmade" /\ ~abort
    /\ EnsureWorker(t)
    /\ \E d \in 0..MaxDue : rem' = [rem EXCEPT ![t] = d]
    /\ requests' = Append(requests, <<"add", t>>)
    /\ periodic' \in {periodic, periodic \cup ({t} \cap Handles)}
    /\ OwnerIs(t, "notify")
    /\ delay' = [d \in Delays |-> IF d = t THEN "waiting" ELSE delay[d]]
    /\ UNCHANGED <<abort, batch, timers, due, firing, cancelled, executors, main>>

\* add_timer throws; a coroutine is resumed by its delay object's end.
MakeTooLate(t) ==
    /\ owner[t] = "unmade" /\ abort
    /\ Interrupt({t})
    /\ OwnerIs(t, "gone")
    /\ UNCHANGED <<queue, thread, periodic, cancelled, old, executors, rem, main>>

Wake(w) == IF loop[w] = "asleep" THEN "notified" ELSE loop[w]
NotifyAll == loop' = [w \in Workers |-> Wake(w)]

Notify(t) ==
    /\ owner[t] \in {"notify", "notify_removal"}
    /\ NotifyAll
    /\ OwnerIs(t, IF owner[t] = "notify" THEN "join" ELSE "gone")
    /\ UNCHANGED <<queue, batch, timers, due, firing, periodic, cancelled, old, executors, rem, delay, main>>

Join(t) ==
    /\ owner[t] = "join"
    /\ \/ old[t] = None /\ UNCHANGED loop
       \/ old[t] # None /\ loop[old[t]] = "over" /\ LoopIs(old[t], "none")
    /\ old' = [old EXCEPT ![t] = None]
    /\ OwnerIs(t, "made")
    /\ UNCHANGED <<queue, batch, timers, due, firing, periodic, cancelled, executors, rem, delay, main>>

\* timer::cancel, which is also the timer's destructor: the flag, then the request.
Cancel(t) ==
    /\ owner[t] = "made" /\ t \in Handles
    /\ cancelled' = cancelled \cup {t}
    /\ OwnerIs(t, "remove")
    /\ UNCHANGED <<queue, thread, periodic, old, executors, rem, delay, main>>

Remove(t) ==
    /\ owner[t] = "remove"
    /\ requests' = Append(requests, <<"remove", t>>)
    /\ OwnerIs(t, "notify_removal")
    /\ UNCHANGED <<abort, idle, worker, thread, periodic, cancelled, old, executors, rem, delay, main>>

-----------------------------------------------------------------------------
(* work_loop and process_timers.                                           *)

\* What both waits wait for; what it finds is taken, an abort ends the loop.
Called == requests # <<>> \/ abort

Take(w) ==
    IF abort
    THEN /\ LoopIs(w, "leaving")
         /\ UNCHANGED <<requests, batch>>
    ELSE /\ batch' = requests /\ requests' = <<>>
         /\ LoopIs(w, "apply")

\* The first test of a wait, and the one after a notification, whose request may
\* have been taken meanwhile (a spurious wake-up is no different).
Wait(w) ==
    /\ loop[w] \in {"top", "notified"}
    /\ \/ Called /\ Take(w)
       \/ ~Called /\ LoopIs(w, "asleep") /\ UNCHANGED <<requests, batch>>
    /\ UNCHANGED <<abort, idle, worker, timers, due, firing, users, executors, rem, delay, main>>

\* m_max_waiting_time, or the next deadline.
TimePasses(w) ==
    /\ loop[w] = "asleep"
    /\ timers = {} \/ \E t \in timers : rem[t] = 0
    /\ LoopIs(w, "late")
    /\ UNCHANGED <<queue, batch, timers, due, firing, users, executors, rem, delay, main>>

\* A bug: after a time-out only the timers are looked at.
IdleLate(w) ==
    /\ loop[w] = "late"
    /\ \/ /\ timers = {}
          /\ LoopIs(w, "over") /\ idle' = TRUE
          /\ UNCHANGED <<requests, batch>>
       \/ /\ timers # {}
          /\ Take(w)
          /\ UNCHANGED idle
    /\ UNCHANGED <<abort, worker, timers, due, firing, users, executors, rem, delay, main>>

\* The test after a time-out: without timers and requests the thread ends.
Late(w) ==
    /\ loop[w] = "late"
    /\ \/ /\ timers = {} /\ ~Called
          /\ LoopIs(w, "over") /\ idle' = TRUE
          /\ UNCHANGED <<requests, batch>>
       \/ /\ timers # {} \/ Called
          /\ Take(w)
          /\ UNCHANGED idle
    /\ UNCHANGED <<abort, worker, timers, due, firing, users, executors, rem, delay, main>>

\* A bug: the timers are thrown away without their end.
LeaveSilently(w) ==
    /\ loop[w] = "leaving"
    /\ timers' = {}
    /\ LoopIs(w, "over")
    /\ UNCHANGED <<queue, batch, due, firing, users, executors, rem, delay, main>>

\* The thread that leaves its loop on an abort destroys its timers.
Leave(w) ==
    /\ loop[w] = "leaving"
    /\ Interrupt(timers)
    /\ timers' = {}
    /\ LoopIs(w, "over")
    /\ UNCHANGED <<queue, batch, due, firing, users, executors, rem, main>>

\* A timer's removal is requested after its addition: it wins.  Then the clock is
\* read, once.
Apply(w) ==
    /\ loop[w] = "apply" /\ LoopIs(w, "process")
    /\ timers' = (timers \cup Of("add", batch)) \ Of("remove", batch)
    /\ due' = {t \in timers' : rem[t] = 0}
    /\ batch' = <<>>
    /\ UNCHANGED <<queue, firing, users, executors, rem, delay, main>>

\* Of what is due, the cancelled is dropped, ...
Examine(w) ==
    /\ loop[w] = "process"
    /\ \E t \in due :
           /\ due' = due \ {t}
           /\ \/ /\ t \in cancelled /\ timers' = timers \ {t}
                 /\ UNCHANGED <<firing, loop>>
              \/ /\ t \notin cancelled /\ firing' = t
                 /\ LoopIs(w, "fire")
                 /\ UNCHANGED timers
    /\ UNCHANGED <<queue, batch, users, executors, rem, delay, main>>

\* A bug: a one-shot timer stays in the queue.
FireAndKeep(w) ==
    /\ loop[w] = "fire" /\ posted[firing] < MaxPosted
    /\ posted' = [posted EXCEPT ![firing] = @ + 1]
    /\ LoopIs(w, "process")
    /\ firing' = None
    /\ UNCHANGED <<queue, batch, timers, due, users, terminated, closed, rem, delay, main>>

\* ... the rest is posted, and kept if it is a regular timer.  set_frequency may
\* have changed the frequency.  What an executor that is shut down throws nobody
\* catches.
Fire(w) ==
    /\ loop[w] = "fire"
    /\ \E f \in 1..MaxDue : rem' = [rem EXCEPT ![firing] = IF firing \in periodic THEN f ELSE 0]
    /\ IF closed
       THEN /\ terminated' = TRUE
            /\ LoopIs(w, "dead")
            /\ UNCHANGED <<posted, timers>>
       ELSE /\ posted[firing] < MaxPosted
            /\ posted' = [posted EXCEPT ![firing] = @ + 1]
            /\ timers' = IF firing \in periodic THEN timers ELSE timers \ {firing}
            /\ LoopIs(w, "process")
            /\ UNCHANGED terminated
    /\ firing' = None
    /\ UNCHANGED <<queue, batch, due, users, closed, delay, main>>

EndProcess(w) ==
    /\ loop[w] = "process" /\ due = {}
    /\ LoopIs(w, "top")
    /\ UNCHANGED <<queue, batch, timers, due, firing, users, executors, rem, delay, main>>

Tick ==
    /\ \E t \in Timers : rem[t] > 0
    /\ rem' = [t \in Timers |-> IF rem[t] > 0 THEN rem[t] - 1 ELSE 0]
    /\ UNCHANGED <<queue, thread, users, executors, delay, main>>

-----------------------------------------------------------------------------
(* The executors, and ~runtime.                                            *)

\* A delay object's coroutine is resumed; a timer's callable is run, unless it is cancelled.
Execute(t) ==
    /\ posted[t] > 0
    /\ posted' = [posted EXCEPT ![t] = @ - 1]
    /\ delay' = [d \in Delays |-> IF d = t THEN "running" ELSE delay[d]]
    /\ UNCHANGED <<queue, thread, users, closed, terminated, rem, main>>

EndCoroutine(t) ==
    /\ delay[t] = "running"
    /\ delay' = [delay EXCEPT ![t] = "ended"]
    /\ UNCHANGED <<queue, thread, users, executors, rem, main>>

Break(t) ==
    /\ posted[t] > 0 /\ closed
    /\ posted' = [posted EXCEPT ![t] = @ - 1]
    /\ Interrupt({t})
    /\ UNCHANGED <<queue, thread, users, closed, terminated, rem, main>>

\* timer_queue::shutdown sets m_atomic_abort, by which a second call is told, ...
BeginShutDown ==
    /\ main = "up" /\ main' = "abort"
    /\ UNCHANGED <<queue, thread, users, executors, rem, delay>>

\* ... and under the lock m_abort.  If there is no thread there is no timer either.
ShutDown ==
    /\ main = "abort"
    /\ abort' = TRUE
    /\ \/ /\ worker = None /\ main' = "queue_down"
          /\ UNCHANGED <<requests, delay>>
       \/ /\ worker # None /\ main' = "notify"
          /\ Interrupt(Of("add", requests))
          /\ requests' = <<>>
    /\ UNCHANGED <<idle, worker, thread, users, executors, rem>>

NotifyWorker ==
    /\ main = "notify" /\ main' = "join"
    /\ NotifyAll
    /\ UNCHANGED <<queue, batch, timers, due, firing, users, executors, rem, delay>>

JoinWorker ==
    /\ main = "join" /\ loop[worker] = "over"
    /\ LoopIs(worker, "none")
    /\ worker' = None /\ main' = "queue_down"
    /\ UNCHANGED <<requests, abort, idle, batch, timers, due, firing, users, executors, rem, delay>>

ShutDownExecutors ==
    /\ main = "queue_down" /\ main' = "down"
    /\ closed' = TRUE
    /\ UNCHANGED <<queue, thread, users, posted, terminated, rem, delay>>

-----------------------------------------------------------------------------
WorkerStep(w) ==
    \/ Wait(w) \/ TimePasses(w) \/ Late(w) \/ Leave(w) \/ Apply(w)
    \/ Examine(w) \/ Fire(w) \/ EndProcess(w)
OwnerStep(t) == Notify(t) \/ Join(t) \/ Remove(t)
ExecutorStep(t) == Execute(t) \/ Break(t)
MainStep == ShutDown \/ NotifyWorker \/ JoinWorker \/ ShutDownExecutors

\* Everything is over.
Over ==
    /\ main = "down" /\ \A t \in Timers : owner[t] \in {"made", "gone"}
    /\ UNCHANGED vars

Next ==
    \/ \E w \in Workers : WorkerStep(w)
    \/ \E t \in Timers : Make(t) \/ MakeTooLate(t) \/ Cancel(t) \/ OwnerStep(t) \/ ExecutorStep(t)
    \/ \E t \in Delays : EndCoroutine(t)
    \/ BeginShutDown \/ MainStep \/ Tick \/ Over

\* The clock goes on, and so does every thread that can; nobody has to make or
\* cancel a timer, nor to destroy the runtime.
Fairness ==
    /\ \A w \in Workers : WF_vars(WorkerStep(w))
    /\ \A t \in Timers : WF_vars(OwnerStep(t)) /\ WF_vars(ExecutorStep(t))
    /\ \A t \in Delays : WF_vars(EndCoroutine(t))
    /\ WF_vars(MainStep) /\ WF_vars(Tick)

Spec == Init /\ [][Next]_vars
FairSpec == Spec /\ Fairness

-----------------------------------------------------------------------------
(* Properties.                                                             *)

InLoop == {w \in Workers : loop[w] \notin {"none", "over"}}

\* One thread serves the queue as long as there is something to serve: a thread
\* that ends for want of timers never leaves a request behind, two threads never
\* work on the set of timers, and none dies of an exception: the executors are
\* shut down only when it has been joined.
ServedByOne ==
    /\ Cardinality(InLoop) <= 1
    /\ timers \cup Of("add", requests \o batch) # {} => InLoop = {worker} /\ ~idle
    /\ ~terminated

\* Whoever awaits a delay object goes on in the end, whatever happens to the queue; a
\* cancelled timer leaves the queue in the end, and is not posted again.
TimersEnd ==
    /\ \A t \in Delays : (delay[t] = "waiting") ~> (delay[t] \in {"ended", "interrupted"})
    /\ \A t \in Timers : (t \in cancelled) ~> [](t \notin timers /\ posted[t] = 0)

\* After cancel has returned the timer is not scheduled again.  This the code does not
\* keep: the thread may have read the flag before.
NotScheduledAfterCancel ==
    [][\A t \in cancelled : owner[t] = "gone" => posted'[t] <= posted[t]]_vars

In(state) == {t \in Delays : delay[t] = state}

\* Awaiting a delay object is like submitting a task: the coroutine is resumed
\* once, and interrupted only if the queue is shut down.
E == INSTANCE Executor WITH
    Tasks <- Delays, waiting <- In("waiting"), running <- In("running"),
    done <- In("ended"), broken <- In("interrupted"), closed <- main # "up"
DelaysAreTasks == E!Spec
=============================================================================
