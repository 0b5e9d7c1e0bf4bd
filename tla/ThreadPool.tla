----------------------------- MODULE ThreadPool -----------------------------
(***************************************************************************)
(* thread_pool_executor, the pool every frame submits its updates to.  A   *)
(* worker has a public queue, behind its lock, for the tasks other threads *)
(* give it, and a private queue, for the tasks it took from the public one *)
(* or submitted itself.  It sleeps on a semaphore, tells the pool by a     *)
(* flag that it does, shares its private queue with workers whose flag     *)
(* says idle, and ends its thread when nothing came for too long.          *)
(*                                                                         *)
(* An action is one critical section of a worker's lock or one access to   *)
(* an atomic outside of it.  Queues are sets: no property depends on the   *)
(* order a worker runs its tasks in.                                       *)
(***************************************************************************)
EXTENDS FiniteSets, Integers

CONSTANTS
    Workers,       \* the workers of the pool
    Main,          \* a thread that is no worker: it submits and shuts down
    Tasks,         \* bound: each is submitted at most once
    MainTasks,     \* bound: those that Main submits, tasks submit the others
    Timeouts       \* whether a worker may be idle for m_max_idle_time

ASSUME WorkersAssumption == IsFiniteSet(Workers) /\ Workers # {} /\ Main \notin Workers
ASSUME TasksAssumption == IsFiniteSet(Tasks) /\ MainTasks \subseteq Tasks
ASSUME TimeoutsAssumption == Timeouts \in BOOLEAN

VARIABLES
    public,        \* m_public_queue of each worker
    private,       \* m_private_queue of each worker
    sem,           \* m_semaphore of each worker
    found,         \* m_task_found_or_abort of each worker
    abort,         \* m_abort of each worker
    atomicAbort,   \* m_atomic_abort of each worker
    flag,          \* the workers whose flag in idle_worker_set is idle
    noThread,      \* the workers whose m_idle is true
    pc,            \* where each thread is
    hand,          \* the tasks each thread is enqueuing
    target,        \* the worker each thread is enqueuing to
    unseen,        \* the flags each thread's scan for an idle worker still reads
    wanted,        \* how many more idle workers find_idle_workers is to find for each
    donees,        \* m_idle_worker_list of each worker
    given,         \* the donees balance_work's loop has been through
    running,       \* the task each worker executes, as a set
    done,          \* history: tasks that were executed to the end
    broken,        \* history: tasks that were destroyed unexecuted
    cleared        \* the workers whose shutdown is over

queues == <<public, private>>
wakeup == <<sem, found, flag, noThread>>
aborts == <<abort, atomicAbort, cleared>>
enqueuing == <<hand, target, unseen, wanted, donees, given>>
outcome == <<running, done, broken>>
vars == <<queues, wakeup, aborts, enqueuing, outcome, pc>>

Threads == Workers \cup {Main}

WorkerPoints ==
    {"none", "drain", "mark_idle", "count_idle", "wait", "check_found", "relock", "timed_out",
     "run", "balance", "donate", "give", "release", "check_abort", "throw",
     "task", "scan", "enqueue", "wake"}
MainPoints ==
    {"ready", "scan", "enqueue", "wake", "shutdown", "lock", "set_found", "signal", "join"}

TypeOK ==
    /\ public \in [Workers -> SUBSET Tasks] /\ private \in [Workers -> SUBSET Tasks]
    /\ sem \in [Workers -> {0, 1}] /\ found \in [Workers -> BOOLEAN]
    /\ abort \in [Workers -> BOOLEAN] /\ atomicAbort \in [Workers -> BOOLEAN]
    /\ flag \subseteq Workers /\ noThread \subseteq Workers /\ cleared \subseteq Workers
    /\ pc \in [Threads -> WorkerPoints \cup MainPoints]
    /\ hand \in [Threads -> SUBSET Tasks] /\ target \in [Threads -> Workers]
    /\ unseen \in [Threads -> SUBSET Workers] /\ wanted \in [Workers -> Nat]
    /\ donees \in [Workers -> SUBSET Workers] /\ given \in [Workers -> SUBSET Workers]
    /\ running \in [Workers -> SUBSET Tasks]
    /\ done \subseteq Tasks /\ broken \subseteq Tasks

Init ==
    /\ public = [w \in Workers |-> {}] /\ private = [w \in Workers |-> {}]
    /\ sem = [w \in Workers |-> 0] /\ found = [w \in Workers |-> FALSE]
    /\ abort = [w \in Workers |-> FALSE] /\ atomicAbort = [w \in Workers |-> FALSE]
    /\ flag = Workers /\ noThread = Workers /\ cleared = {}
    /\ pc = [t \in Threads |-> IF t = Main THEN "ready" ELSE "none"]
    /\ hand = [t \in Threads |-> {}]
    /\ target \in [Threads -> {CHOOSE w \in Workers : TRUE}]
    /\ unseen = [t \in Threads |-> {}]
    /\ wanted = [w \in Workers |-> 0]
    /\ donees = [w \in Workers |-> {}] /\ given = [w \in Workers |-> {}]
    /\ running = [w \in Workers |-> {}]
    /\ done = {} /\ broken = {}

Goto(t, p) == pc' = [pc EXCEPT ![t] = p]
At(t, p) == pc[t] = p

Held == (UNION {public[w] \cup private[w] \cup running[w] : w \in Workers})
        \cup (UNION {hand[s] : s \in Threads})
Fresh == Tasks \ (Held \cup done \cup broken)

-----------------------------------------------------------------------------
(* wait_for_task and drain_queue.                                          *)

\* The thread of w returns from its work loop; m_idle is set under the lock.
ExitThread(w) ==
    /\ noThread' = noThread \cup {w}
    /\ Goto(w, "none")

CopyPublic(w) ==
    /\ found' = [found EXCEPT ![w] = FALSE]
    /\ private' = [private EXCEPT ![w] = public[w]]
    /\ Goto(w, "run")
    /\ UNCHANGED public

\* With the lock held: the public and the private queue are swapped.
TakePublic(w) ==
    /\ found' = [found EXCEPT ![w] = FALSE]
    /\ private' = [private EXCEPT ![w] = public[w]]
    /\ public' = [public EXCEPT ![w] = private[w]]
    /\ Goto(w, "run")

FindAbort(w) ==
    /\ At(w, "drain") /\ abort[w]
    /\ found' = [found EXCEPT ![w] = FALSE]
    /\ ExitThread(w)
    /\ UNCHANGED <<queues, sem, flag, aborts, enqueuing, outcome>>

FindTasks(w) ==
    /\ At(w, "drain") /\ ~abort[w] /\ public[w] # {}
    /\ TakePublic(w)
    /\ UNCHANGED <<sem, flag, noThread, aborts, enqueuing, outcome>>

FindNothing(w) ==
    /\ At(w, "drain") /\ ~abort[w] /\ public[w] = {}
    /\ Goto(w, "mark_idle")
    /\ UNCHANGED <<queues, wakeup, aborts, enqueuing, outcome>>

\* Entering drain_queue with nothing to do the worker goes to sleep.
DrainQueue(w) == FindAbort(w) \/ FindTasks(w) \/ FindNothing(w)

SleepUnseen(w) ==
    /\ At(w, "mark_idle") /\ Goto(w, "wait")
    /\ UNCHANGED <<queues, wakeup, aborts, enqueuing, outcome>>

\* set_idle: the flag, then, if it was active, m_approx_size.
MarkIdle(w) ==
    /\ At(w, "mark_idle")
    /\ Goto(w, IF w \in flag THEN "wait" ELSE "count_idle")
    /\ flag' = flag \cup {w}
    /\ UNCHANGED <<queues, sem, found, noThread, aborts, enqueuing, outcome>>

CountIdle(w) ==
    /\ At(w, "count_idle") /\ Goto(w, "wait")
    /\ UNCHANGED <<queues, wakeup, aborts, enqueuing, outcome>>

Acquire(w) ==
    /\ At(w, "wait") /\ Goto(w, "check_found")
    /\ sem[w] = 1 /\ sem' = [sem EXCEPT ![w] = 0]
    /\ UNCHANGED <<queues, found, flag, noThread, aborts, enqueuing, outcome>>

DeadlinePasses(w) ==
    /\ Timeouts
    /\ At(w, "wait") /\ sem[w] = 0 /\ Goto(w, "timed_out")
    /\ UNCHANGED <<queues, wakeup, aborts, enqueuing, outcome>>

\* The loop breaks without event_found: m_idle is set, whatever the queue holds.
TimedOut(w) ==
    /\ At(w, "timed_out")
    /\ ExitThread(w)
    /\ UNCHANGED <<queues, sem, found, flag, aborts, enqueuing, outcome>>

CheckFound(w) ==
    /\ At(w, "check_found")
    /\ Goto(w, IF found[w] THEN "relock" ELSE "wait")
    /\ UNCHANGED <<queues, wakeup, aborts, enqueuing, outcome>>

WakeForAbort(w) ==
    /\ At(w, "relock") /\ abort[w]
    /\ ExitThread(w)
    /\ UNCHANGED <<queues, sem, found, flag, aborts, enqueuing, outcome>>

WakeForTasks(w) ==
    /\ At(w, "relock") /\ ~abort[w] /\ public[w] # {}
    /\ flag' = flag \ {w}
    /\ TakePublic(w)
    /\ UNCHANGED <<sem, noThread, aborts, enqueuing, outcome>>

WakeForNothing(w) ==
    /\ At(w, "relock") /\ ~abort[w] /\ public[w] = {}
    /\ Goto(w, "wait")
    /\ UNCHANGED <<queues, wakeup, aborts, enqueuing, outcome>>

\* Only w empties its queue, so that it finds something; the code tests it all the same.
Relock(w) ==
    WakeForAbort(w) \/ (IF public[w] # {} THEN WakeForTasks(w) ELSE WakeForNothing(w))

-----------------------------------------------------------------------------
(* drain_queue_impl and balance_work.                                      *)

\* m_approx_size: the flags that are idle, but for those not counted yet.
ApproxSize == Cardinality(flag) - Cardinality({w \in Workers : At(w, "count_idle")})

\* A scan reads the flags of the others one by one, if the size says there is one.
BeginScan(s) == unseen' = [unseen EXCEPT ![s] = IF ApproxSize > 0 THEN Workers \ {s} ELSE {}]

\* How many idle workers are looked for by a worker that has n tasks.
MaxWaiters(n) ==
    IF ApproxSize <= 0 THEN 0 ELSE IF ApproxSize < n THEN ApproxSize ELSE n - 1

\* How many tasks each of d workers and w itself gets out of n.
KeepNothing(n, d) == n \div d
Share(n, d) == (n + d) \div (d + 1)

NextTask(w) ==
    /\ At(w, "run")
    /\ \/ /\ private[w] = {}
          /\ Goto(w, "drain")
          /\ UNCHANGED <<unseen, wanted>>
       \/ /\ Cardinality(private[w]) = 1
          /\ Goto(w, "check_abort")
          /\ UNCHANGED <<unseen, wanted>>
       \/ /\ Cardinality(private[w]) > 1
          /\ Goto(w, "balance")
          /\ BeginScan(w)
          /\ wanted' = [wanted EXCEPT ![w] = MaxWaiters(Cardinality(private[w]))]
    /\ UNCHANGED <<queues, wakeup, aborts, hand, target, donees, given, outcome>>

\* try_acquire_flag: whoever turns the flag of v is the one to enqueue to v.
FindDonee(w, v) ==
    /\ At(w, "balance") /\ wanted[w] > 0 /\ v \in unseen[w] /\ v \in flag
    /\ flag' = flag \ {v}
    /\ unseen' = [unseen EXCEPT ![w] = @ \ {v}]
    /\ donees' = [donees EXCEPT ![w] = @ \cup {v}]
    /\ wanted' = [wanted EXCEPT ![w] = @ - 1]
    /\ UNCHANGED <<queues, sem, found, noThread, aborts, hand, target, given, outcome, pc>>

SkipActive(w, v) ==
    /\ At(w, "balance") /\ wanted[w] > 0 /\ v \in unseen[w] /\ v \notin flag
    /\ unseen' = [unseen EXCEPT ![w] = @ \ {v}]
    /\ UNCHANGED <<queues, wakeup, aborts, hand, target, wanted, donees, given, outcome, pc>>

ScanDonee(w) == \E v \in unseen[w] : FindDonee(w, v) \/ SkipActive(w, v)

BeginDonating(w) ==
    /\ At(w, "balance") /\ (unseen[w] = {} \/ wanted[w] = 0)
    /\ unseen' = [unseen EXCEPT ![w] = {}]
    /\ wanted' = [wanted EXCEPT ![w] = 0]
    /\ Goto(w, IF donees[w] = {} THEN "check_abort" ELSE "donate")
    /\ UNCHANGED <<queues, wakeup, aborts, hand, target, donees, given, outcome>>

\* One round of balance_work's loop: v is given its part of the queue.  A loop
\* an exception ended leaves the list as it was, for the next one to find.
DonateTo(w, v, ts) ==
    LET left == donees[w] \ given[w]
    IN  /\ At(w, "donate") /\ v \in left /\ ts \subseteq private[w]
        /\ Cardinality(ts) = Share(Cardinality(private[w]), Cardinality(left))
        /\ private' = [private EXCEPT ![w] = @ \ ts]
        /\ hand' = [hand EXCEPT ![w] = ts]
        /\ target' = [target EXCEPT ![w] = v]
        /\ given' = [given EXCEPT ![w] = @ \cup {v}]
        /\ Goto(w, "give")
        /\ UNCHANGED <<public, wakeup, aborts, unseen, wanted, donees, outcome>>

EndDonating(w) ==
    /\ At(w, "donate") /\ donees[w] \subseteq given[w]
    /\ donees' = [donees EXCEPT ![w] = {}]
    /\ given' = [given EXCEPT ![w] = {}]
    /\ Goto(w, "check_abort")
    /\ UNCHANGED <<queues, wakeup, aborts, hand, target, unseen, wanted, outcome>>

Donate(w) == EndDonating(w) \/ \E v \in donees[w], ts \in SUBSET private[w] : DonateTo(w, v, ts)

LoopAborted(w) ==
    /\ At(w, "check_abort") /\ atomicAbort[w]
    /\ Goto(w, "throw")
    /\ UNCHANGED <<queues, wakeup, aborts, enqueuing, outcome>>

BeginTask(w, t) ==
    /\ At(w, "check_abort") /\ ~atomicAbort[w] /\ t \in private[w]
    /\ private' = [private EXCEPT ![w] = @ \ {t}]
    /\ running' = [running EXCEPT ![w] = {t}]
    /\ Goto(w, "task")
    /\ UNCHANGED <<public, wakeup, aborts, enqueuing, done, broken>>

CheckAbort(w) == LoopAborted(w) \/ \E t \in private[w] : BeginTask(w, t)

\* An abort found outside drain_queue's lock, or runtime_shutdown caught.
Aborted(w) ==
    /\ At(w, "throw")
    /\ ExitThread(w)
    /\ UNCHANGED <<queues, sem, found, flag, aborts, enqueuing, outcome>>

EndTask(w) ==
    /\ At(w, "task") /\ Goto(w, "run")
    /\ done' = done \cup running[w]
    /\ running' = [running EXCEPT ![w] = {}]
    /\ UNCHANGED <<queues, wakeup, aborts, enqueuing, broken>>

-----------------------------------------------------------------------------
(* enqueue, by a running task on worker w or by the main thread.           *)

AppearsEmpty(w) == private[w] = {} /\ ~found[w]

\* On an abort it throws, and the task is destroyed.
EnqueueLocal(w, ts) ==
    IF atomicAbort[w]
    THEN /\ broken' = broken \cup ts
         /\ UNCHANGED private
    ELSE /\ private' = [private EXCEPT ![w] = @ \cup ts]
         /\ UNCHANGED broken

SubmitToSelf(w, t) ==
    /\ At(w, "task") /\ t \in Fresh /\ AppearsEmpty(w)
    /\ EnqueueLocal(w, {t})
    /\ UNCHANGED <<public, wakeup, aborts, enqueuing, running, done, pc>>

SubmitToOther(w, t) ==
    /\ At(w, "task") /\ t \in Fresh /\ ~AppearsEmpty(w)
    /\ hand' = [hand EXCEPT ![w] = {t}]
    /\ BeginScan(w)
    /\ Goto(w, "scan")
    /\ UNCHANGED <<queues, wakeup, aborts, target, wanted, donees, given, outcome>>

SubmitFromTask(w, t) == SubmitToSelf(w, t) \/ SubmitToOther(w, t)

SubmitFromMain(t) ==
    /\ At(Main, "ready") /\ t \in Fresh \cap MainTasks
    /\ hand' = [hand EXCEPT ![Main] = {t}]
    /\ BeginScan(Main)
    /\ Goto(Main, "scan")
    /\ UNCHANGED <<queues, wakeup, aborts, target, wanted, donees, given, outcome>>

FindIdle(s, v) ==
    /\ At(s, "scan") /\ v \in unseen[s] /\ v \in flag
    /\ flag' = flag \ {v}
    /\ target' = [target EXCEPT ![s] = v]
    /\ unseen' = [unseen EXCEPT ![s] = {}]
    /\ Goto(s, "enqueue")
    /\ UNCHANGED <<queues, sem, found, noThread, aborts, hand, wanted, donees, given, outcome>>

FindActive(s, v) ==
    /\ At(s, "scan") /\ v \in unseen[s] /\ v \notin flag
    /\ unseen' = [unseen EXCEPT ![s] = @ \ {v}]
    /\ UNCHANGED <<queues, wakeup, aborts, hand, target, wanted, donees, given, outcome, pc>>

Scan(s) == \E v \in unseen[s] : FindIdle(s, v) \/ FindActive(s, v)

\* Nobody is idle: a worker keeps the task.
KeepTask(w) ==
    /\ At(w, "scan") /\ unseen[w] = {} /\ w \in Workers
    /\ EnqueueLocal(w, hand[w])
    /\ hand' = [hand EXCEPT ![w] = {}]
    /\ Goto(w, "task")
    /\ UNCHANGED <<public, wakeup, aborts, target, unseen, wanted, donees, given, running, done>>

\* The round robin may have come to any worker.
NextInTurn(v) ==
    /\ At(Main, "scan") /\ unseen[Main] = {}
    /\ target' = [target EXCEPT ![Main] = v]
    /\ Goto(Main, "enqueue")
    /\ UNCHANGED <<queues, wakeup, aborts, hand, unseen, wanted, donees, given, outcome>>

NobodyIdle(s) == KeepTask(s) \/ (s = Main /\ \E v \in Workers : NextInTurn(v))

\* Where thread s goes on once its enqueue_foreign is over, or has thrown.
Back(s) == IF s = Main THEN "ready" ELSE IF At(s, "give") \/ At(s, "release") THEN "donate" ELSE "task"
Wake(s) == IF At(s, "give") THEN "release" ELSE "wake"

\* Read before the insertion: whether this is the first task v finds.
NeverFirst(v) == FALSE
First(v) == public[v] = {}

MustStart(v) == v \in noThread

\* enqueue_foreign up to the unlock in ensure_worker_active.  On an abort it throws:
\* the task is destroyed, and a donor ends its thread with what it has left.
RefuseTask(s) ==
    /\ At(s, "enqueue") /\ abort[target[s]]
    /\ broken' = broken \cup hand[s]
    /\ hand' = [hand EXCEPT ![s] = {}]
    /\ Goto(s, Back(s))
    /\ UNCHANGED <<queues, wakeup, aborts, target, unseen, wanted, donees, given, running, done>>

RefuseDonation(w) ==
    /\ At(w, "give") /\ abort[target[w]]
    /\ private' = [private EXCEPT ![w] = @ \cup hand[w]]
    /\ hand' = [hand EXCEPT ![w] = {}]
    /\ given' = [given EXCEPT ![w] = {}]
    /\ Goto(w, "throw")
    /\ UNCHANGED <<public, wakeup, aborts, target, unseen, wanted, donees, outcome>>

Insert(s) ==
    /\ pc[s] \in {"enqueue", "give"} /\ ~abort[target[s]]
    /\ found' = [found EXCEPT ![target[s]] = TRUE]
    /\ public' = [public EXCEPT ![target[s]] = @ \cup hand[s]]
    /\ hand' = [hand EXCEPT ![s] = {}]
    /\ UNCHANGED <<private, sem, flag, aborts, target, unseen, wanted, donees, given, outcome>>

InsertAndStart(s) ==
    /\ MustStart(target[s]) /\ Insert(s)
    /\ noThread' = noThread \ {target[s]}
    /\ pc' = [pc EXCEPT ![target[s]] = "drain", ![s] = Back(s)]

InsertToRunning(s) ==
    /\ ~MustStart(target[s]) /\ Insert(s)
    /\ Goto(s, IF First(target[s]) THEN Wake(s) ELSE Back(s))
    /\ UNCHANGED noThread

EnqueueForeign(s) == RefuseTask(s) \/ RefuseDonation(s) \/ InsertAndStart(s) \/ InsertToRunning(s)

\* The first enqueuer wakes the worker, after the unlock.  The semaphore is
\* binary: a token that is still there stays the only one.
Release(s) ==
    /\ pc[s] \in {"wake", "release"}
    /\ sem' = [sem EXCEPT ![target[s]] = 1]
    /\ Goto(s, Back(s))
    /\ UNCHANGED <<queues, found, flag, noThread, aborts, enqueuing, outcome>>

-----------------------------------------------------------------------------
(* shutdown, by the main thread: one worker after the other.               *)

BeginShutdown ==
    /\ At(Main, "ready")
    /\ \E w \in Workers \ cleared :
           /\ atomicAbort' = [atomicAbort EXCEPT ![w] = TRUE]
           /\ target' = [target EXCEPT ![Main] = w]
    /\ Goto(Main, "lock")
    /\ UNCHANGED <<queues, wakeup, abort, cleared, hand, unseen, wanted, donees, given, outcome>>

NextShutdown ==
    /\ At(Main, "shutdown")
    /\ \E w \in Workers \ cleared :
           /\ atomicAbort' = [atomicAbort EXCEPT ![w] = TRUE]
           /\ target' = [target EXCEPT ![Main] = w]
    /\ Goto(Main, "lock")
    /\ UNCHANGED <<queues, wakeup, abort, cleared, hand, unseen, wanted, donees, given, outcome>>

LockAbort ==
    /\ At(Main, "lock") /\ Goto(Main, "set_found")
    /\ abort' = [abort EXCEPT ![target[Main]] = TRUE]
    /\ UNCHANGED <<queues, wakeup, atomicAbort, cleared, enqueuing, outcome>>

SetFound ==
    /\ At(Main, "set_found") /\ Goto(Main, "signal")
    /\ found' = [found EXCEPT ![target[Main]] = TRUE]
    /\ UNCHANGED <<queues, sem, flag, noThread, aborts, enqueuing, outcome>>

SignalNobody ==
    /\ At(Main, "signal") /\ Goto(Main, "join")
    /\ UNCHANGED <<queues, wakeup, aborts, enqueuing, outcome>>

Signal ==
    /\ At(Main, "signal") /\ Goto(Main, "join")
    /\ sem' = [sem EXCEPT ![target[Main]] = 1]
    /\ UNCHANGED <<queues, found, flag, noThread, aborts, enqueuing, outcome>>

\* The thread of the worker has ended: what is left in its queues is destroyed.
JoinAndClear ==
    /\ At(Main, "join") /\ target[Main] \in noThread
    /\ LET w == target[Main]
       IN  /\ broken' = broken \cup public[w] \cup private[w]
           /\ public' = [public EXCEPT ![w] = {}]
           /\ private' = [private EXCEPT ![w] = {}]
           /\ cleared' = cleared \cup {w}
    /\ Goto(Main, "shutdown")
    /\ UNCHANGED <<wakeup, abort, atomicAbort, enqueuing, running, done>>

-----------------------------------------------------------------------------
Run(w) ==
    \/ DrainQueue(w) \/ MarkIdle(w) \/ Acquire(w) \/ TimedOut(w)
    \/ CountIdle(w) \/ CheckFound(w) \/ Relock(w)
    \/ NextTask(w) \/ ScanDonee(w) \/ BeginDonating(w) \/ Donate(w) \/ CheckAbort(w) \/ Aborted(w) \/ EndTask(w)
    \/ Scan(w) \/ NobodyIdle(w) \/ EnqueueForeign(w) \/ Release(w)

WorkerStep(w) == Run(w) \/ DeadlinePasses(w)

MainStep ==
    \/ Scan(Main) \/ NobodyIdle(Main) \/ EnqueueForeign(Main) \/ Release(Main)
    \/ NextShutdown \/ LockAbort \/ SetFound \/ Signal \/ JoinAndClear

Submit ==
    \/ \E w \in Workers, t \in Tasks : SubmitFromTask(w, t)
    \/ \E t \in Tasks : SubmitFromMain(t)

\* Every worker is shut down.
Over == cleared = Workers /\ UNCHANGED vars

Next == (\E w \in Workers : WorkerStep(w)) \/ MainStep \/ Submit \/ BeginShutdown \/ Over

\* A thread that can go on does; nobody has to submit, nor to shut down, and no
\* deadline has to pass, which would hide a lost wake-up.
Fairness == (\A w \in Workers : WF_vars(Run(w))) /\ WF_vars(MainStep)

Spec == Init /\ [][Next]_vars
FairSpec == Spec /\ Fairness

-----------------------------------------------------------------------------
(* Properties.                                                             *)

\* A task is in one place: no queue, hand or worker shares it with another,
\* and what is done or broken is in none (donations move tasks while their
\* worker, the donee and other submitters go on).
OneHolder ==
    /\ TypeOK
    /\ \A v, w \in Workers :
           /\ public[v] \cap private[w] = {} /\ public[v] \cap running[w] = {}
           /\ private[v] \cap running[w] = {}
           /\ v # w => /\ public[v] \cap public[w] = {}
                       /\ private[v] \cap private[w] = {}
                       /\ running[v] \cap running[w] = {}
    /\ \A s \in Threads : \A w \in Workers :
           hand[s] \cap (public[w] \cup private[w] \cup running[w]) = {}
    /\ \A s, u \in Threads : s # u => hand[s] \cap hand[u] = {}
    /\ Held \cap (done \cup broken) = {} /\ done \cap broken = {}

\* A thread that will release the semaphore of w.
Waker(w) ==
    \E s \in Threads : target[s] = w /\ pc[s] \in {"wake", "release", "set_found", "signal"}

\* No wake-up is lost: a worker asleep on tasks or on its shutdown is about to be
\* woken, though only the first enqueuer releases the semaphore and though a
\* token may be left over from a wake-up the worker did not need.
Awakened ==
    \A w \in Workers :
        At(w, "wait") /\ sem[w] = 0 /\ (public[w] # {} \/ abort[w]) => Waker(w)

\* balance_work's last assertion: a donor keeps a task for itself.
DonorKeepsOne == \A w \in Workers : At(w, "check_abort") => private[w] # {}

\* A worker that sleeps is found: its flag says idle unless a submitter or a
\* donor took the flag and has not come yet, or what it brought is still there.
SleeperIsFound ==
    \A w \in Workers :
        At(w, "wait") /\ w \notin flag =>
            \/ public[w] # {} \/ sem[w] = 1 \/ Waker(w)
            \/ \E s \in Threads : target[s] = w /\ pc[s] \in {"enqueue", "give"}
            \/ \E v \in Workers : w \in donees[v] \ given[v]
            \/ \E v \in Workers : atomicAbort[v]

\* drain_queue's assertion: the private queue is empty when it is swapped.  This the
\* code does not keep once a shutdown has begun.
PrivateIsEmpty ==
    \A w \in Workers :
        pc[w] \in {"drain", "relock"} /\ ~abort[w] /\ public[w] # {} => private[w] = {}

\* Every task that is submitted is run, or broken by a shutdown.  This the code does
\* not keep once a worker may time out.
TasksEnd == \A t \in Tasks : (t \in Held) ~> (t \in done \cup broken)

\* The task is in the queue of a worker that ended its thread while the token for
\* that task was being released, which is what is wrong with the time-outs.
Stranded(t) == \E w \in noThread : t \in public[w] /\ sem[w] = 1

\* Every task that is submitted is run or broken, unless its worker gave up waiting
\* at the wrong moment: no other interleaving loses one.
TasksEndOrStranded == \A t \in Tasks : (t \in Held) ~> (t \in done \cup broken \/ Stranded(t))

\* Once shutdown was called no task is accepted any more.  Nor this: shutdown goes
\* from worker to worker.
LateTasksAreRefused ==
    \A t \in Tasks :
        []((\E w \in Workers : atomicAbort[w]) /\ t \in Fresh
           => [](\A w \in Workers : t \notin public[w] \cup private[w]))

\* Shutdown joins every worker, whatever the workers are doing.
ShutdownEnds == At(Main, "lock") ~> (cleared = Workers)

Pool == INSTANCE Executor WITH
    waiting <- (UNION {public[w] \cup private[w] : w \in Workers}) \cup (UNION {hand[s] : s \in Threads}),
    running <- UNION {running[w] : w \in Workers},
    closed <- \E w \in Workers : atomicAbort[w]

\* The pool is an executor: it runs a task at most once and destroys one
\* unexecuted only if it was shut down before the task began.
ImplementsExecutor == Pool!Spec
=============================================================================
