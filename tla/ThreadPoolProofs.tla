-------------------------- MODULE ThreadPoolProofs --------------------------
(***************************************************************************)
(* Proofs about thread_pool_executor, for any number of workers and tasks. *)
(*                                                                         *)
(* What the pool promises is not inductive: a lock is held only between    *)
(* two lines, so most of what makes a step safe was read a few steps       *)
(* before it.  IInv says, place by place, what a thread still knows of     *)
(* what it has read:                                                       *)
(*   OnceInv   a task has one holder;                                      *)
(*   PlaceInv  which of its variables a thread uses at which place;        *)
(*   AbortInv  m_atomic_abort is raised before m_abort;                    *)
(*   HandInv   who is about to enqueue has something to enqueue;           *)
(*   AwakeInv  what a worker that is about to sleep has seen;              *)
(*   DonorInv  a donor has more tasks than workers left to give to;        *)
(*   SleepInv  a flag that was taken has a reason.                         *)
(* Each is preserved with the help of some of the others, one lemma each.  *)
(***************************************************************************)
EXTENDS ThreadPool, FiniteSetTheorems, TLAPS

\* Where a thread may have tasks in hand, where a worker is giving its own away, and
\* where it is about to sleep, asleep or waking up.
Submitting == {"scan", "enqueue", "give"}
Donating == {"donate", "give", "release"}
Sleeping == {"count_idle", "wait", "check_found", "relock"}

\* OneHolder, for one task.
Once(x) ==
    /\ \A v, w \in Workers :
           /\ x \in public[v] => x \notin private[w] /\ x \notin running[w]
           /\ x \in private[v] => x \notin running[w]
           /\ x \in public[v] /\ x \in public[w] => v = w
           /\ x \in private[v] /\ x \in private[w] => v = w
           /\ x \in running[v] /\ x \in running[w] => v = w
    /\ \A s \in Threads, w \in Workers :
           x \in hand[s] => x \notin public[w] /\ x \notin private[w] /\ x \notin running[w]
    /\ \A s, u \in Threads : x \in hand[s] /\ x \in hand[u] => s = u
    /\ x \in done => x \notin broken
    /\ x \in done \/ x \in broken =>
           /\ \A w \in Workers : x \notin public[w] /\ x \notin private[w] /\ x \notin running[w]
           /\ \A s \in Threads : x \notin hand[s]

OnceInv == \A x \in Tasks : Once(x)

\* What the place a worker is at says of its variables.
WorkerPlace(w) ==
    /\ pc[w] \in WorkerPoints
    /\ w \in noThread <=> pc[w] = "none"
    /\ running[w] # {} <=> pc[w] \in {"task", "scan", "enqueue", "wake"}
    /\ \A t, u \in running[w] : t = u
    /\ given[w] \subseteq donees[w]
    /\ given[w] # {} => pc[w] \in Donating
    /\ pc[w] = "give" => target[w] \in donees[w]

\* A thread has tasks in hand only while it is enqueuing them.
PlaceInv ==
    /\ \A w \in Workers : WorkerPlace(w)
    /\ pc[Main] \in MainPoints
    /\ \A s \in Threads : hand[s] # {} => pc[s] \in Submitting

\* A shutdown raises m_atomic_abort before m_abort.
AbortInv ==
    /\ \A w \in Workers : abort[w] => atomicAbort[w]
    /\ pc[Main] \in {"lock", "set_found", "signal", "join"} => atomicAbort[target[Main]]

\* A shutdown has begun.
ShutDown == \E v \in Workers : atomicAbort[v]

\* Who enqueues has something to enqueue; a donor's part may be empty once its
\* loop is bound to throw.
HandAt(s) ==
    /\ pc[s] \in {"scan", "enqueue"} => hand[s] # {}
    /\ pc[s] = "give" => hand[s] # {} \/ ShutDown

HandInv == \A s \in Threads : HandAt(s)

\* A worker that is about to sleep has m_task_found_or_abort up for whatever came
\* after it looked, and somebody will release its semaphore for it.
AwakeAt(w) ==
    /\ pc[w] \in Sleeping \cup {"mark_idle"} =>
           /\ public[w] # {} => found[w]
           /\ abort[w] => found[w] \/ (pc[Main] = "set_found" /\ target[Main] = w)
    /\ pc[w] \in {"mark_idle", "count_idle", "wait"} /\ sem[w] = 0 /\ (public[w] # {} \/ abort[w]) =>
           Waker(w)

AwakeInv == \A w \in Workers : AwakeAt(w)

\* One of the workers in the list has an m_abort that enqueue_foreign will find.
Doomed(list) == \E v \in list : abort[v]

\* How much a donor has for those it has not been through, and for itself.  The
\* list an exception left behind makes the next loop throw as well.
DonorAt(w) ==
    LET n == Cardinality(private[w])
        left == donees[w] \ given[w]
    IN  /\ pc[w] = "balance" =>
               /\ n > 1
               /\ n > Cardinality(donees[w]) + wanted[w] \/ Doomed(donees[w])
        /\ pc[w] \in Donating =>
               \/ n > Cardinality(left)
               \/ Doomed(left)
               \/ pc[w] = "give" /\ abort[target[w]]
        /\ pc[w] = "check_abort" => n > 0
        /\ pc[w] \notin Donating \cup {"balance"} => donees[w] = {} \/ Doomed(donees[w])

DonorInv == \A w \in Workers : DonorAt(w)

\* Who took the flag of a worker and has not been there yet.
Coming(w) == \E s \in Threads : target[s] = w /\ pc[s] \in {"enqueue", "give"}
Chosen(w) == \E v \in Workers : w \in donees[v] \ given[v]

\* A flag that is taken means something to wake up for, or that somebody comes.
SleepInv ==
    \A w \in Workers :
        pc[w] \in Sleeping /\ w \notin flag =>
            public[w] # {} \/ Coming(w) \/ Chosen(w) \/ ShutDown

\* The inductive invariant.
IInv ==
    /\ TypeOK /\ OnceInv /\ PlaceInv /\ AbortInv /\ HandInv
    /\ AwakeInv /\ DonorInv /\ SleepInv

-----------------------------------------------------------------------------
\* The threads that call into the pool: its workers and the one outside.
LEMMA ThreadsOf == /\ Main \in Threads /\ Workers \subseteq Threads
                  /\ \A s \in Threads : s \in Workers <=> s # Main
BY WorkersAssumption DEF Threads

\* A donor keeps one of its n tasks, whatever the size of the pool seems to be.
LEMMA MaxWaitersLess ==
    ASSUME TypeOK, NEW n \in Nat, n > 0
    PROVE  MaxWaiters(n) \in Nat /\ MaxWaiters(n) < n
<1>1. IsFiniteSet(flag) /\ IsFiniteSet({w \in Workers : At(w, "count_idle")})
  BY WorkersAssumption, FS_Subset DEF TypeOK
<1>2. ApproxSize \in Int
  BY <1>1, FS_CardinalityType DEF ApproxSize
<1> QED BY <1>2 DEF MaxWaiters

\* What is divided among d workers and the donor leaves the donor one more than there
\* are workers to come.
LEMMA ShareLeavesOne ==
    ASSUME NEW n \in Nat, NEW d \in Nat, 0 < d, d < n
    PROVE  /\ Share(n, d) \in Nat /\ Share(n, d) > 0
           /\ n - Share(n, d) >= d
<1> DEFINE q == (n + d) \div (d + 1)
<1>1. q \in Int /\ (d + 1) * q <= n + d /\ n + d < (d + 1) * q + (d + 1)
  OBVIOUS
<1>2. q >= 1
  <2> HIDE DEF q
  <2>1. SUFFICES ASSUME q <= 0 PROVE FALSE
    BY <1>1
  <2>2. (d + 1) * q <= 0
    BY <1>1, <2>1
  <2> QED BY <1>1, <2>2
<1>3. q <= n - d
  <2> HIDE DEF q
  <2>1. SUFFICES ASSUME q >= n - d + 1 PROVE FALSE
    BY <1>1
  <2>2. (d + 1) * q = d * q + q
    BY <1>1
  <2>3. d * q >= d * 2
    BY <1>1, <2>1
  <2> QED BY <1>1, <2>1, <2>2, <2>3
<1> QED BY <1>1, <1>2, <1>3 DEF Share

\* A donation is never empty, and leaves the donor more tasks than workers to come.
LEMMA DonationLeavesOne ==
    ASSUME TypeOK, NEW w \in Workers, NEW v, NEW ts, DonateTo(w, v, ts),
           Cardinality(private[w]) > Cardinality(donees[w] \ given[w])
    PROVE  /\ ts # {}
           /\ Cardinality(private'[w]) > Cardinality((donees[w] \ given[w]) \ {v})
<1> DEFINE left == donees[w] \ given[w]
           n == Cardinality(private[w])
           d == Cardinality(left)
<1>1. /\ v \in left /\ ts \subseteq private[w]
      /\ Cardinality(ts) = Share(n, d) /\ private'[w] = private[w] \ ts
  BY DEF DonateTo, TypeOK
<1>2. IsFiniteSet(private[w]) /\ IsFiniteSet(left)
  BY WorkersAssumption, TasksAssumption, FS_Subset DEF TypeOK
<1>3. /\ n \in Nat /\ d \in Nat /\ d > 0
      /\ Cardinality(left \ {v}) = d - 1
  <2> HIDE DEF left
  <2>1. n \in Nat /\ d \in Nat /\ d # 0
    BY <1>1, <1>2, FS_CardinalityType, FS_EmptySet
  <2>2. v \in left /\ IsFiniteSet(left)
    BY <1>1, <1>2
  <2>3. Cardinality(left \ {v}) = Cardinality(left) - 1
    BY <2>2, FS_RemoveElement
  <2> QED BY <2>1, <2>3
<1>4. IsFiniteSet(ts) /\ Cardinality(private[w] \ ts) = n - Cardinality(ts)
  <2>1. IsFiniteSet(ts) /\ private[w] \cap ts = ts
    BY <1>1, <1>2, FS_Subset
  <2>2. Cardinality(private[w] \ ts) = Cardinality(private[w]) - Cardinality(private[w] \cap ts)
    BY <1>2, FS_Difference
  <2>3. Cardinality(private[w] \cap ts) = Cardinality(ts)
    BY <2>1
  <2> QED BY <2>1, <2>2, <2>3
<1>5. Share(n, d) > 0 /\ Share(n, d) \in Nat /\ n - Share(n, d) >= d
  BY <1>3, ShareLeavesOne
<1>6. ts # {}
  <2>1. Cardinality(ts) > 0
    BY <1>1, <1>5
  <2>2. ts = {} => Cardinality(ts) = 0
    BY FS_EmptySet
  <2> QED BY <2>1, <2>2
<1> QED BY <1>1, <1>3, <1>4, <1>5, <1>6

\* A donor whose own variables a step leaves alone is as it was.
LEMMA DonorKept ==
    ASSUME TypeOK, NEW u \in Workers, DonorAt(u),
           private'[u] = private[u], donees'[u] = donees[u], given'[u] = given[u],
           wanted'[u] = wanted[u], target'[u] = target[u], pc'[u] = pc[u],
           \A v \in Workers : abort[v] => abort'[v]
    PROVE  DonorAt(u)'
<1>1. target[u] \in Workers /\ donees[u] \subseteq Workers
  BY ThreadsOf DEF TypeOK
<1>2. \A list \in SUBSET Workers : Doomed(list) => \E v \in list : abort'[v]
  BY DEF Doomed
<1>3. Doomed(donees[u]) => Doomed(donees[u])'
  BY <1>1, <1>2 DEF Doomed
<1>4. Doomed(donees[u] \ given[u]) => Doomed(donees[u] \ given[u])'
  BY <1>1, <1>2 DEF Doomed
<1> QED BY <1>1, <1>3, <1>4 DEF DonorAt

\* Held is the tasks in a queue, in a hand or on a thread.
LEMMA HeldIs ==
    ASSUME NEW x
    PROVE  x \in Held <=> \/ \E w \in Workers : x \in public[w] \/ x \in private[w] \/ x \in running[w]
                          \/ \E s \in Threads : x \in hand[s]
<1>1. x \in UNION {public[w] \cup private[w] \cup running[w] : w \in Workers}
        <=> \E w \in Workers : x \in public[w] \cup private[w] \cup running[w]
  OBVIOUS
<1>2. x \in UNION {hand[s] : s \in Threads} <=> \E s \in Threads : x \in hand[s]
  OBVIOUS
<1> DEFINE A == UNION {public[w] \cup private[w] \cup running[w] : w \in Workers}
           B == UNION {hand[s] : s \in Threads}
<1>3. Held = A \cup B
  BY DEF Held
<1>4. x \in A <=> \E w \in Workers : x \in public[w] \/ x \in private[w] \/ x \in running[w]
  BY <1>1
<1>5. x \in B <=> \E s \in Threads : x \in hand[s]
  BY <1>2
<1> HIDE DEF A, B
<1> QED BY <1>3, <1>4, <1>5

\* OneHolder, which is stated of sets, is OnceInv, which is stated of each task.
LEMMA OneHolderIsOnce == OneHolder <=> TypeOK /\ OnceInv
<1>1. ASSUME OneHolder, NEW x \in Tasks PROVE Once(x)
  <2>1. Held \cap (done \cup broken) = {} /\ done \cap broken = {}
    BY <1>1 DEF OneHolder
  <2>2. x \in done \/ x \in broken => x \notin Held
    BY <2>1
  <2>3. x \in done => x \notin broken
    BY <2>1
  <2>4. \A v, w \in Workers :
           /\ x \in public[v] => x \notin private[w] /\ x \notin running[w]
           /\ x \in private[v] => x \notin running[w]
           /\ x \in public[v] /\ x \in public[w] => v = w
           /\ x \in private[v] /\ x \in private[w] => v = w
           /\ x \in running[v] /\ x \in running[w] => v = w
    BY <1>1 DEF OneHolder
  <2>5. \A s \in Threads, w \in Workers :
           x \in hand[s] => x \notin public[w] /\ x \notin private[w] /\ x \notin running[w]
    BY <1>1 DEF OneHolder
  <2>6. \A s, u \in Threads : x \in hand[s] /\ x \in hand[u] => s = u
    BY <1>1 DEF OneHolder
  <2> QED BY <2>2, <2>3, <2>4, <2>5, <2>6, HeldIs DEF Once
<1>2. ASSUME TypeOK, OnceInv PROVE OneHolder
  <2>1. \A w \in Workers : public[w] \subseteq Tasks /\ private[w] \subseteq Tasks /\ running[w] \subseteq Tasks
    BY <1>2 DEF TypeOK
  <2>2. (\A s \in Threads : hand[s] \subseteq Tasks) /\ done \subseteq Tasks /\ broken \subseteq Tasks
    BY <1>2 DEF TypeOK
  <2>3. \A v, w \in Workers :
           /\ public[v] \cap private[w] = {} /\ public[v] \cap running[w] = {}
           /\ private[v] \cap running[w] = {}
           /\ v # w => /\ public[v] \cap public[w] = {}
                       /\ private[v] \cap private[w] = {}
                       /\ running[v] \cap running[w] = {}
    BY <1>2, <2>1 DEF OnceInv, Once
  <2>4. \A s \in Threads : \A w \in Workers :
           hand[s] \cap (public[w] \cup private[w] \cup running[w]) = {}
    BY <1>2, <2>2 DEF OnceInv, Once
  <2>5. \A s, u \in Threads : s # u => hand[s] \cap hand[u] = {}
    BY <1>2, <2>2 DEF OnceInv, Once
  <2>6. done \cap broken = {}
    BY <1>2, <2>2 DEF OnceInv, Once
  <2>7. Held \cap (done \cup broken) = {}
    BY <1>2, <2>2, HeldIs DEF OnceInv, Once
  <2> QED BY <1>2, <2>3, <2>4, <2>5, <2>6, <2>7 DEF OneHolder
<1> QED BY <1>1, <1>2 DEF OneHolder, OnceInv

\* A task that was not submitted has no holder.
LEMMA FreshIsNowhere ==
    ASSUME NEW t \in Fresh
    PROVE  /\ t \in Tasks /\ t \notin done /\ t \notin broken
           /\ \A w \in Workers : t \notin public[w] /\ t \notin private[w] /\ t \notin running[w]
           /\ \A s \in Threads : t \notin hand[s]
BY HeldIs DEF Fresh

\* What the executor sees of the pool.
Waiting == (UNION {public[w] \cup private[w] : w \in Workers}) \cup (UNION {hand[s] : s \in Threads})
Executing == UNION {running[w] : w \in Workers}

\* The executor's sets, before and after a step, task by task.
LEMMA WaitingIs ==
    ASSUME NEW x
    PROVE  /\ x \in Waiting <=> \/ \E w \in Workers : x \in public[w] \/ x \in private[w]
                                \/ \E s \in Threads : x \in hand[s]
           /\ x \in Waiting' <=> \/ \E w \in Workers : x \in public'[w] \/ x \in private'[w]
                                 \/ \E s \in Threads : x \in hand'[s]
           /\ x \in Executing <=> \E w \in Workers : x \in running[w]
           /\ x \in Executing' <=> \E w \in Workers : x \in running'[w]
<1> DEFINE A == UNION {public[w] \cup private[w] : w \in Workers}
           B == UNION {hand[s] : s \in Threads}
<1>1. Waiting = A \cup B /\ Waiting' = A' \cup B'
  BY DEF Waiting
<1>2. x \in A <=> \E w \in Workers : x \in public[w] \/ x \in private[w]
  OBVIOUS
<1>3. x \in A' <=> \E w \in Workers : x \in public'[w] \/ x \in private'[w]
  OBVIOUS
<1>4. (x \in B <=> \E s \in Threads : x \in hand[s]) /\ (x \in B' <=> \E s \in Threads : x \in hand'[s])
  OBVIOUS
<1>5. x \in Executing <=> \E w \in Workers : x \in running[w]
  BY DEF Executing
<1>6. x \in Executing' <=> \E w \in Workers : x \in running'[w]
  BY DEF Executing
<1> HIDE DEF A, B
<1> QED BY <1>1, <1>2, <1>3, <1>4, <1>5, <1>6

\* The steps of the executor, in terms of the pool.
LEMMA PoolSteps ==
    ASSUME \/ UNCHANGED <<Waiting, Executing, done, broken, ShutDown>>
           \/ \E t \in Tasks :
                  /\ t \notin Waiting \cup Executing \cup done \cup broken
                  /\ Waiting' = Waiting \cup {t} /\ UNCHANGED <<Executing, done, broken, ShutDown>>
           \/ \E t \in Tasks \cap Waiting :
                  /\ Waiting' = Waiting \ {t} /\ Executing' = Executing \cup {t}
                  /\ UNCHANGED <<done, broken, ShutDown>>
           \/ \E t \in Tasks \cap Executing :
                  /\ Executing' = Executing \ {t} /\ done' = done \cup {t}
                  /\ UNCHANGED <<Waiting, broken, ShutDown>>
           \/ \E ts \in SUBSET Tasks :
                  /\ ShutDown /\ \A x \in ts : x \in Waiting \/ x \notin Executing \cup done \cup broken
                  /\ Waiting' = Waiting \ ts /\ broken' = broken \cup ts
                  /\ UNCHANGED <<Executing, done, ShutDown>>
           \/ ~ShutDown /\ ShutDown' /\ UNCHANGED <<Waiting, Executing, done, broken>>
    PROVE  [Pool!Next]_(Pool!vars)
<1>1. CASE UNCHANGED <<Waiting, Executing, done, broken, ShutDown>>
  BY <1>1 DEF Pool!vars, Waiting, Executing, ShutDown
<1>2. ASSUME NEW t \in Tasks, t \notin Waiting \cup Executing \cup done \cup broken,
             Waiting' = Waiting \cup {t}, UNCHANGED <<Executing, done, broken, ShutDown>>
      PROVE  Pool!Next
  <2>1. Pool!Submit(t)
    BY <1>2 DEF Pool!Submit, Pool!Fresh, Waiting, Executing, ShutDown
  <2> QED BY <2>1 DEF Pool!Next
<1>3. ASSUME NEW t \in Tasks \cap Waiting, Waiting' = Waiting \ {t}, Executing' = Executing \cup {t},
             UNCHANGED <<done, broken, ShutDown>>
      PROVE  Pool!Next
  <2>1. Pool!Begin(t)
    BY <1>3 DEF Pool!Begin, Waiting, Executing, ShutDown
  <2> QED BY <2>1 DEF Pool!Next
<1>4. ASSUME NEW t \in Tasks \cap Executing, Executing' = Executing \ {t}, done' = done \cup {t},
             UNCHANGED <<Waiting, broken, ShutDown>>
      PROVE  Pool!Next
  <2>1. Pool!End(t)
    BY <1>4 DEF Pool!End, Waiting, Executing, ShutDown
  <2> QED BY <2>1 DEF Pool!Next
<1>5. ASSUME NEW ts \in SUBSET Tasks, ShutDown,
             \A x \in ts : x \in Waiting \/ x \notin Executing \cup done \cup broken,
             Waiting' = Waiting \ ts, broken' = broken \cup ts, UNCHANGED <<Executing, done, ShutDown>>
      PROVE  Pool!Next
  <2>1. ts \subseteq Waiting \cup Pool!Fresh
    BY <1>5 DEF Pool!Fresh, Waiting, Executing
  <2>2. Pool!Break(ts)
    BY <1>5, <2>1 DEF Pool!Break, Waiting, Executing, ShutDown
  <2> QED BY <2>2 DEF Pool!Next
<1>6. ASSUME ~ShutDown, ShutDown', UNCHANGED <<Waiting, Executing, done, broken>> PROVE Pool!Next
  <2>1. Pool!Close
    BY <1>6 DEF Pool!Close, Waiting, Executing, ShutDown
  <2> QED BY <2>1 DEF Pool!Next
<1> QED BY <1>1, <1>2, <1>3, <1>4, <1>5, <1>6

\* Every step keeps the types; a semaphore counts to 1, max_waiters is never negative.
LEMMA TypeNext == TypeOK /\ [Next]_vars => TypeOK'
<1> SUFFICES ASSUME TypeOK, [Next]_vars PROVE TypeOK'
  OBVIOUS
<1> USE ThreadsOf DEF TypeOK, WorkerPoints, MainPoints
<1>1. CASE UNCHANGED vars
  BY <1>1 DEF vars, queues, wakeup, aborts, enqueuing, outcome
<1>2. ASSUME NEW w \in Workers, FindAbort(w) PROVE TypeOK'
  BY <1>2 DEF FindAbort, At, ExitThread, queues, aborts, enqueuing, outcome, Goto
<1>3. ASSUME NEW w \in Workers, FindTasks(w) PROVE TypeOK'
  BY <1>3 DEF FindTasks, At, TakePublic, aborts, enqueuing, outcome, Goto
<1>4. ASSUME NEW w \in Workers, FindNothing(w) PROVE TypeOK'
  BY <1>4 DEF FindNothing, Goto, At, queues, wakeup, aborts, enqueuing, outcome
<1>5. ASSUME NEW w \in Workers, MarkIdle(w) PROVE TypeOK'
  BY <1>5 DEF MarkIdle, Goto, At, queues, aborts, enqueuing, outcome
<1>6. ASSUME NEW w \in Workers, CountIdle(w) PROVE TypeOK'
  BY <1>6 DEF CountIdle, Goto, At, queues, wakeup, aborts, enqueuing, outcome
<1>7. ASSUME NEW w \in Workers, Acquire(w) PROVE TypeOK'
  BY <1>7 DEF Acquire, Goto, At, queues, aborts, enqueuing, outcome
<1>8. ASSUME NEW w \in Workers, DeadlinePasses(w) PROVE TypeOK'
  BY <1>8 DEF DeadlinePasses, Goto, At, queues, wakeup, aborts, enqueuing, outcome
<1>9. ASSUME NEW w \in Workers, TimedOut(w) PROVE TypeOK'
  BY <1>9 DEF TimedOut, At, ExitThread, queues, aborts, enqueuing, outcome, Goto
<1>10. ASSUME NEW w \in Workers, CheckFound(w) PROVE TypeOK'
  BY <1>10 DEF CheckFound, Goto, At, queues, wakeup, aborts, enqueuing, outcome
<1>11. ASSUME NEW w \in Workers, WakeForAbort(w) PROVE TypeOK'
  BY <1>11 DEF WakeForAbort, At, ExitThread, queues, aborts, enqueuing, outcome, Goto
<1>12. ASSUME NEW w \in Workers, WakeForTasks(w) PROVE TypeOK'
  BY <1>12 DEF WakeForTasks, At, TakePublic, aborts, enqueuing, outcome, Goto
<1>13. ASSUME NEW w \in Workers, WakeForNothing(w) PROVE TypeOK'
  BY <1>13 DEF WakeForNothing, Goto, At, queues, wakeup, aborts, enqueuing, outcome
<1>14. ASSUME NEW w \in Workers, NextTask(w) PROVE TypeOK'
  <2>1. IsFiniteSet(private[w])
    BY TasksAssumption, FS_Subset
  <2>2. Cardinality(private[w]) > 1 => MaxWaiters(Cardinality(private[w])) \in Nat
    BY <2>1, MaxWaitersLess, FS_CardinalityType
  <2>3. wanted' \in [Workers -> Nat]
    BY <1>14, <2>2 DEF NextTask
  <2>4. unseen' \in [Threads -> SUBSET Workers]
    BY <1>14 DEF NextTask, BeginScan
  <2>5. pc' \in [Threads -> WorkerPoints \cup MainPoints]
    BY <1>14 DEF NextTask, Goto
  <2> QED BY <1>14, <2>3, <2>4, <2>5 DEF NextTask, queues, wakeup, aborts, outcome
<1>15. ASSUME NEW w \in Workers, NEW v, FindDonee(w, v) PROVE TypeOK'
  BY <1>15 DEF FindDonee, At, queues, aborts, outcome
<1>16. ASSUME NEW w \in Workers, NEW v, SkipActive(w, v) PROVE TypeOK'
  BY <1>16 DEF SkipActive, At, queues, wakeup, aborts, outcome
<1>17. ASSUME NEW w \in Workers, BeginDonating(w) PROVE TypeOK'
  BY <1>17 DEF BeginDonating, Goto, At, queues, wakeup, aborts, outcome
<1>18. ASSUME NEW w \in Workers, NEW v, NEW ts, DonateTo(w, v, ts) PROVE TypeOK'
  BY <1>18 DEF DonateTo, Goto, At, wakeup, aborts, outcome
<1>19. ASSUME NEW w \in Workers, EndDonating(w) PROVE TypeOK'
  BY <1>19 DEF EndDonating, Goto, At, queues, wakeup, aborts, outcome
<1>20. ASSUME NEW w \in Workers, LoopAborted(w) PROVE TypeOK'
  BY <1>20 DEF LoopAborted, Goto, At, queues, wakeup, aborts, enqueuing, outcome
<1>21. ASSUME NEW w \in Workers, NEW t, BeginTask(w, t) PROVE TypeOK'
  BY <1>21 DEF BeginTask, Goto, At, wakeup, aborts, enqueuing
<1>22. ASSUME NEW w \in Workers, Aborted(w) PROVE TypeOK'
  BY <1>22 DEF Aborted, At, ExitThread, queues, aborts, enqueuing, outcome, Goto
<1>23. ASSUME NEW w \in Workers, EndTask(w) PROVE TypeOK'
  BY <1>23 DEF EndTask, Goto, At, queues, wakeup, aborts, enqueuing
<1>24. ASSUME NEW w \in Workers, NEW t, SubmitToSelf(w, t) PROVE TypeOK'
  BY <1>24 DEF SubmitToSelf, At, AppearsEmpty, EnqueueLocal, Fresh, wakeup, aborts, enqueuing
<1>25. ASSUME NEW w \in Workers, NEW t, SubmitToOther(w, t) PROVE TypeOK'
  BY <1>25
     DEF SubmitToOther, Goto, At, BeginScan, AppearsEmpty, Fresh, queues, wakeup, aborts, outcome
<1>26. ASSUME NEW t, SubmitFromMain(t) PROVE TypeOK'
  BY <1>26 DEF SubmitFromMain, Goto, At, BeginScan, Fresh, queues, wakeup, aborts, outcome
<1>27. ASSUME NEW s \in Threads, NEW v, FindIdle(s, v) PROVE TypeOK'
  BY <1>27 DEF FindIdle, Goto, At, queues, aborts, outcome
<1>28. ASSUME NEW s \in Threads, NEW v, FindActive(s, v) PROVE TypeOK'
  BY <1>28 DEF FindActive, At, queues, wakeup, aborts, outcome
<1>29. ASSUME NEW w \in Workers, KeepTask(w) PROVE TypeOK'
  BY <1>29 DEF KeepTask, Goto, At, EnqueueLocal, wakeup, aborts
<1>30. ASSUME NEW v \in Workers, NextInTurn(v) PROVE TypeOK'
  BY <1>30 DEF NextInTurn, Goto, At, queues, wakeup, aborts, outcome
<1>31. ASSUME NEW s \in Threads, RefuseTask(s) PROVE TypeOK'
  BY <1>31 DEF RefuseTask, Goto, At, Back, queues, wakeup, aborts
<1>32. ASSUME NEW s \in Threads, RefuseDonation(s) PROVE TypeOK'
  BY <1>32 DEF RefuseDonation, Goto, At, wakeup, aborts, outcome
<1>33. ASSUME NEW s \in Threads, InsertAndStart(s) PROVE TypeOK'
  BY <1>33 DEF InsertAndStart, Insert, Back, MustStart, aborts, outcome, At
<1>34. ASSUME NEW s \in Threads, InsertToRunning(s) PROVE TypeOK'
  BY <1>34 DEF InsertToRunning, Goto, Insert, Back, Wake, First, MustStart, aborts, outcome, At
<1>35. ASSUME NEW s \in Threads, Release(s) PROVE TypeOK'
  BY <1>35 DEF Release, Goto, Back, queues, aborts, enqueuing, outcome, At
<1>36. CASE BeginShutdown
  BY <1>36 DEF BeginShutdown, Goto, At, queues, wakeup, outcome
<1>37. CASE NextShutdown
  BY <1>37 DEF NextShutdown, Goto, At, queues, wakeup, outcome
<1>38. CASE LockAbort
  BY <1>38 DEF LockAbort, Goto, At, queues, wakeup, enqueuing, outcome
<1>39. CASE SetFound
  BY <1>39 DEF SetFound, Goto, At, queues, aborts, enqueuing, outcome
<1>40. CASE Signal
  BY <1>40 DEF Signal, Goto, At, queues, aborts, enqueuing, outcome
<1>41. CASE JoinAndClear
  BY <1>41 DEF JoinAndClear, Goto, At, wakeup, enqueuing
<1>42. ASSUME NEW w \in Workers, WorkerStep(w) PROVE TypeOK'
  BY <1>42, ThreadsOf, <1>2, <1>3, <1>4, <1>5, <1>6, <1>7, <1>8, <1>9, <1>10, <1>11, <1>12,
     <1>13, <1>14, <1>15, <1>16, <1>17, <1>18, <1>19, <1>20, <1>21, <1>22, <1>23, <1>27, <1>28,
     <1>29, <1>31, <1>32, <1>33, <1>34, <1>35
     DEF WorkerStep, Run, DrainQueue, Relock, ScanDonee, Donate, CheckAbort, Scan, NobodyIdle,
     EnqueueForeign
<1>43. CASE MainStep
  BY <1>43, ThreadsOf, <1>27, <1>28, <1>30, <1>31, <1>32, <1>33, <1>34, <1>35, <1>37, <1>38,
     <1>39, <1>40, <1>41
     DEF MainStep, Scan, NobodyIdle, EnqueueForeign, KeepTask
<1>44. CASE Submit
  BY <1>44, <1>24, <1>25, <1>26 DEF Submit, SubmitFromTask
<1> QED
  BY <1>1, <1>36, <1>42, <1>43, <1>44 DEF Next, Over

\* Every step leaves each thread at a place that fits its variables.
LEMMA PlaceNext == TypeOK /\ PlaceInv /\ [Next]_vars => PlaceInv'
<1> SUFFICES ASSUME TypeOK, PlaceInv, [Next]_vars PROVE PlaceInv'
  OBVIOUS
<1> USE ThreadsOf DEF TypeOK, PlaceInv, WorkerPlace, WorkerPoints, MainPoints, Donating, Submitting
<1>1. CASE UNCHANGED vars
  BY <1>1 DEF vars, queues, wakeup, aborts, enqueuing, outcome
<1>2. ASSUME NEW w \in Workers, FindAbort(w) PROVE PlaceInv'
  BY <1>2 DEF FindAbort, At, ExitThread, queues, aborts, enqueuing, outcome, Goto
<1>3. ASSUME NEW w \in Workers, FindTasks(w) PROVE PlaceInv'
  BY <1>3 DEF FindTasks, At, TakePublic, aborts, enqueuing, outcome, Goto
<1>4. ASSUME NEW w \in Workers, FindNothing(w) PROVE PlaceInv'
  BY <1>4 DEF FindNothing, Goto, At, queues, wakeup, aborts, enqueuing, outcome
<1>5. ASSUME NEW w \in Workers, MarkIdle(w) PROVE PlaceInv'
  BY <1>5 DEF MarkIdle, Goto, At, queues, aborts, enqueuing, outcome
<1>6. ASSUME NEW w \in Workers, CountIdle(w) PROVE PlaceInv'
  BY <1>6 DEF CountIdle, Goto, At, queues, wakeup, aborts, enqueuing, outcome
<1>7. ASSUME NEW w \in Workers, Acquire(w) PROVE PlaceInv'
  BY <1>7 DEF Acquire, Goto, At, queues, aborts, enqueuing, outcome
<1>8. ASSUME NEW w \in Workers, DeadlinePasses(w) PROVE PlaceInv'
  BY <1>8 DEF DeadlinePasses, Goto, At, queues, wakeup, aborts, enqueuing, outcome
<1>9. ASSUME NEW w \in Workers, TimedOut(w) PROVE PlaceInv'
  BY <1>9 DEF TimedOut, At, ExitThread, queues, aborts, enqueuing, outcome, Goto
<1>10. ASSUME NEW w \in Workers, CheckFound(w) PROVE PlaceInv'
  BY <1>10 DEF CheckFound, Goto, At, queues, wakeup, aborts, enqueuing, outcome
<1>11. ASSUME NEW w \in Workers, WakeForAbort(w) PROVE PlaceInv'
  BY <1>11 DEF WakeForAbort, At, ExitThread, queues, aborts, enqueuing, outcome, Goto
<1>12. ASSUME NEW w \in Workers, WakeForTasks(w) PROVE PlaceInv'
  BY <1>12 DEF WakeForTasks, At, TakePublic, aborts, enqueuing, outcome, Goto
<1>13. ASSUME NEW w \in Workers, WakeForNothing(w) PROVE PlaceInv'
  BY <1>13 DEF WakeForNothing, Goto, At, queues, wakeup, aborts, enqueuing, outcome
<1>14. ASSUME NEW w \in Workers, NextTask(w) PROVE PlaceInv'
  <2>1. pc[w] = "run" /\ \E p \in {"drain", "check_abort", "balance"} : Goto(w, p)
    BY <1>14 DEF NextTask, At
  <2>2. UNCHANGED <<noThread, running, given, donees, target, hand>>
    BY <1>14 DEF NextTask, wakeup, outcome
  <2> QED BY <2>1, <2>2 DEF Goto
<1>15. ASSUME NEW w \in Workers, NEW v, FindDonee(w, v) PROVE PlaceInv'
  BY <1>15 DEF FindDonee, At, queues, aborts, outcome
<1>16. ASSUME NEW w \in Workers, NEW v, SkipActive(w, v) PROVE PlaceInv'
  BY <1>16 DEF SkipActive, At, queues, wakeup, aborts, outcome
<1>17. ASSUME NEW w \in Workers, BeginDonating(w) PROVE PlaceInv'
  BY <1>17 DEF BeginDonating, Goto, At, queues, wakeup, aborts, outcome
<1>18. ASSUME NEW w \in Workers, NEW v, NEW ts, DonateTo(w, v, ts) PROVE PlaceInv'
  BY <1>18 DEF DonateTo, Goto, At, wakeup, aborts, outcome
<1>19. ASSUME NEW w \in Workers, EndDonating(w) PROVE PlaceInv'
  BY <1>19 DEF EndDonating, Goto, At, queues, wakeup, aborts, outcome
<1>20. ASSUME NEW w \in Workers, LoopAborted(w) PROVE PlaceInv'
  BY <1>20 DEF LoopAborted, Goto, At, queues, wakeup, aborts, enqueuing, outcome
<1>21. ASSUME NEW w \in Workers, NEW t, BeginTask(w, t) PROVE PlaceInv'
  <2>1. pc[w] = "check_abort" /\ Goto(w, "task") /\ UNCHANGED <<noThread, given, donees, target, hand>>
    BY <1>21 DEF BeginTask, At, wakeup, enqueuing
  <2>2. running'[w] = {t} /\ (\A u \in Workers : u # w => running'[u] = running[u])
    BY <1>21 DEF BeginTask
  <2>3. WorkerPlace(w)'
    BY <2>1, <2>2 DEF Goto
  <2>4. ASSUME NEW u \in Workers, u # w PROVE WorkerPlace(u)'
    BY <2>1, <2>2, <2>4 DEF Goto
  <2> QED BY <2>1, <2>3, <2>4 DEF Goto
<1>22. ASSUME NEW w \in Workers, Aborted(w) PROVE PlaceInv'
  BY <1>22 DEF Aborted, At, ExitThread, queues, aborts, enqueuing, outcome, Goto
<1>23. ASSUME NEW w \in Workers, EndTask(w) PROVE PlaceInv'
  BY <1>23 DEF EndTask, Goto, At, queues, wakeup, aborts, enqueuing
<1>24. ASSUME NEW w \in Workers, NEW t, SubmitToSelf(w, t) PROVE PlaceInv'
  BY <1>24 DEF SubmitToSelf, At, EnqueueLocal, wakeup, aborts, enqueuing
<1>25. ASSUME NEW w \in Workers, NEW t, SubmitToOther(w, t) PROVE PlaceInv'
  BY <1>25 DEF SubmitToOther, Goto, At, queues, wakeup, aborts, outcome
<1>26. ASSUME NEW t, SubmitFromMain(t) PROVE PlaceInv'
  BY <1>26 DEF SubmitFromMain, Goto, At, queues, wakeup, aborts, outcome
<1>27. ASSUME NEW s \in Threads, NEW v, FindIdle(s, v) PROVE PlaceInv'
  BY <1>27 DEF FindIdle, Goto, At, queues, aborts, outcome
<1>28. ASSUME NEW s \in Threads, NEW v, FindActive(s, v) PROVE PlaceInv'
  BY <1>28 DEF FindActive, At, queues, wakeup, aborts, outcome
<1>29. ASSUME NEW w \in Workers, KeepTask(w) PROVE PlaceInv'
  BY <1>29 DEF KeepTask, Goto, At, EnqueueLocal, wakeup, aborts
<1>30. ASSUME NEW v \in Workers, NextInTurn(v) PROVE PlaceInv'
  BY <1>30 DEF NextInTurn, Goto, At, queues, wakeup, aborts, outcome
<1>31. ASSUME NEW s \in Threads, RefuseTask(s) PROVE PlaceInv'
  BY <1>31 DEF RefuseTask, Goto, At, Back, queues, wakeup, aborts
<1>32. ASSUME NEW s \in Threads, RefuseDonation(s) PROVE PlaceInv'
  BY <1>32 DEF RefuseDonation, Goto, At, wakeup, aborts, outcome
<1>33. ASSUME NEW s \in Threads, InsertAndStart(s) PROVE PlaceInv'
  <2>1. target[s] \in Workers /\ pc[target[s]] = "none" /\ pc[s] \in {"enqueue", "give"}
    BY <1>33 DEF InsertAndStart, Insert, MustStart
  <2>2. \A u \in Threads : pc'[u] = IF u = s THEN Back(s) ELSE IF u = target[s] THEN "drain" ELSE pc[u]
    BY <1>33, <2>1 DEF InsertAndStart
  <2>3. Back(s) = IF s = Main THEN "ready" ELSE IF pc[s] = "give" THEN "donate" ELSE "task"
    BY <2>1 DEF Back, At
  <2>4. UNCHANGED <<running, donees, given, target>> /\ noThread' = noThread \ {target[s]}
        /\ hand' = [hand EXCEPT ![s] = {}]
    BY <1>33 DEF InsertAndStart, Insert, outcome
  <2>5. pc'[target[s]] = "drain" /\ pc'[s] = Back(s) /\ s # target[s]
    BY <2>1, <2>2
  <2>6. ASSUME NEW u \in Workers PROVE WorkerPlace(u)'
    BY <2>1, <2>2, <2>3, <2>4
  <2>7. pc'[Main] \in MainPoints
    BY <2>1, <2>2, <2>3
  <2>8. ASSUME NEW u \in Threads, hand'[u] # {} PROVE pc'[u] \in Submitting
    <3>1. u # s /\ hand[u] # {}
      BY <2>4, <2>8
    <3> QED BY <3>1, <2>1, <2>2
  <2> QED BY <2>6, <2>7, <2>8
<1>34. ASSUME NEW s \in Threads, InsertToRunning(s) PROVE PlaceInv'
  BY <1>34 DEF InsertToRunning, Goto, Insert, Back, Wake, MustStart, aborts, outcome, At
<1>35. ASSUME NEW s \in Threads, Release(s) PROVE PlaceInv'
  BY <1>35 DEF Release, Goto, Back, queues, aborts, enqueuing, outcome, At
<1>36. CASE BeginShutdown
  BY <1>36 DEF BeginShutdown, Goto, At, queues, wakeup, outcome
<1>37. CASE NextShutdown
  BY <1>37 DEF NextShutdown, Goto, At, queues, wakeup, outcome
<1>38. CASE LockAbort
  BY <1>38 DEF LockAbort, Goto, At, queues, wakeup, enqueuing, outcome
<1>39. CASE SetFound
  BY <1>39 DEF SetFound, Goto, At, queues, aborts, enqueuing, outcome
<1>40. CASE Signal
  BY <1>40 DEF Signal, Goto, At, queues, aborts, enqueuing, outcome
<1>41. CASE JoinAndClear
  BY <1>41 DEF JoinAndClear, Goto, At, wakeup, enqueuing
<1>42. ASSUME NEW w \in Workers, WorkerStep(w) PROVE PlaceInv'
  BY <1>42, ThreadsOf, <1>2, <1>3, <1>4, <1>5, <1>6, <1>7, <1>8, <1>9, <1>10, <1>11, <1>12,
     <1>13, <1>14, <1>15, <1>16, <1>17, <1>18, <1>19, <1>20, <1>21, <1>22, <1>23, <1>27, <1>28,
     <1>29, <1>31, <1>32, <1>33, <1>34, <1>35
     DEF WorkerStep, Run, DrainQueue, Relock, ScanDonee, Donate, CheckAbort, Scan, NobodyIdle,
     EnqueueForeign
<1>43. CASE MainStep
  BY <1>43, ThreadsOf, <1>27, <1>28, <1>30, <1>31, <1>32, <1>33, <1>34, <1>35, <1>37, <1>38,
     <1>39, <1>40, <1>41
     DEF MainStep, Scan, NobodyIdle, EnqueueForeign, KeepTask
<1>44. CASE Submit
  BY <1>44, <1>24, <1>25, <1>26 DEF Submit, SubmitFromTask
<1> QED
  BY <1>1, <1>36, <1>42, <1>43, <1>44 DEF Next, Over

\* The flags of the shutdown: abort() raises m_atomic_abort, then takes the lock.
LEMMA AbortNext == TypeOK /\ PlaceInv /\ AbortInv /\ [Next]_vars => AbortInv'
<1> SUFFICES ASSUME TypeOK, PlaceInv, AbortInv, [Next]_vars PROVE AbortInv'
  OBVIOUS
<1> USE ThreadsOf DEF TypeOK, PlaceInv, AbortInv
<1>1. CASE UNCHANGED vars
  BY <1>1 DEF vars, queues, wakeup, aborts, enqueuing, outcome
<1>2. ASSUME NEW w \in Workers,
            FindAbort(w) \/ FindTasks(w) \/ FindNothing(w) \/ MarkIdle(w) \/ CountIdle(w)
            \/ Acquire(w)
     PROVE  AbortInv'
  BY <1>2
     DEF FindAbort, At, ExitThread, queues, aborts, enqueuing, outcome, Goto, FindTasks, TakePublic,
     FindNothing, wakeup, MarkIdle, CountIdle, Acquire
<1>3. ASSUME NEW w \in Workers,
            DeadlinePasses(w) \/ TimedOut(w) \/ CheckFound(w) \/ WakeForAbort(w) \/ WakeForTasks(w)
            \/ WakeForNothing(w)
     PROVE  AbortInv'
  BY <1>3
     DEF DeadlinePasses, Goto, At, queues, wakeup, aborts, enqueuing, outcome, TimedOut, ExitThread,
     CheckFound, WakeForAbort, WakeForTasks, TakePublic, WakeForNothing
<1>4. ASSUME NEW w \in Workers,
            NextTask(w) \/ (\E v : FindDonee(w, v)) \/ (\E v : SkipActive(w, v)) \/ BeginDonating(w)
            \/ (\E v, ts : DonateTo(w, v, ts)) \/ EndDonating(w)
     PROVE  AbortInv'
  BY <1>4
     DEF NextTask, Goto, At, queues, wakeup, aborts, outcome, FindDonee, SkipActive, BeginDonating,
     DonateTo, EndDonating
<1>5. ASSUME NEW w \in Workers,
            LoopAborted(w) \/ (\E t : BeginTask(w, t)) \/ Aborted(w) \/ EndTask(w)
            \/ (\E t : SubmitToSelf(w, t)) \/ (\E t : SubmitToOther(w, t))
     PROVE  AbortInv'
  BY <1>5
     DEF LoopAborted, Goto, At, queues, wakeup, aborts, enqueuing, outcome, BeginTask, Aborted,
     ExitThread, EndTask, SubmitToSelf, EnqueueLocal, SubmitToOther
<1>6. ASSUME NEW t, SubmitFromMain(t) PROVE AbortInv'
  BY <1>6 DEF SubmitFromMain, Goto, At, queues, wakeup, aborts, outcome
<1>7. ASSUME NEW s \in Threads,
            (\E v : FindIdle(s, v)) \/ (\E v : FindActive(s, v)) \/ RefuseTask(s)
            \/ RefuseDonation(s) \/ InsertAndStart(s) \/ InsertToRunning(s)
     PROVE  AbortInv'
  BY <1>7
     DEF FindIdle, Goto, At, queues, aborts, outcome, FindActive, wakeup, RefuseTask, Back,
     RefuseDonation, InsertAndStart, Insert, MustStart, InsertToRunning, Wake
<1>8. ASSUME NEW w \in Workers, KeepTask(w) PROVE AbortInv'
  BY <1>8 DEF KeepTask, Goto, At, EnqueueLocal, wakeup, aborts
<1>9. ASSUME NEW v \in Workers, NextInTurn(v) PROVE AbortInv'
  BY <1>9 DEF NextInTurn, Goto, At, queues, wakeup, aborts, outcome
<1>10. ASSUME NEW s \in Threads, Release(s) PROVE AbortInv'
  BY <1>10 DEF Release, Goto, Back, queues, aborts, enqueuing, outcome, At
<1>11. CASE BeginShutdown
  BY <1>11 DEF BeginShutdown, Goto, At, queues, wakeup, outcome
<1>12. CASE NextShutdown
  BY <1>12 DEF NextShutdown, Goto, At, queues, wakeup, outcome
<1>13. CASE LockAbort
  BY <1>13 DEF LockAbort, Goto, At, queues, wakeup, enqueuing, outcome
<1>14. CASE SetFound
  BY <1>14 DEF SetFound, Goto, At, queues, aborts, enqueuing, outcome
<1>15. CASE Signal
  BY <1>15 DEF Signal, Goto, At, queues, aborts, enqueuing, outcome
<1>16. CASE JoinAndClear
  BY <1>16 DEF JoinAndClear, Goto, At, wakeup, enqueuing
<1>17. ASSUME NEW w \in Workers, WorkerStep(w) PROVE AbortInv'
  BY <1>17, ThreadsOf, <1>2, <1>3, <1>4, <1>5, <1>7, <1>8, <1>10
     DEF WorkerStep, Run, DrainQueue, Relock, ScanDonee, Donate, CheckAbort, Scan, NobodyIdle,
     EnqueueForeign
<1>18. CASE MainStep
  BY <1>18, ThreadsOf, <1>7, <1>9, <1>10, <1>12, <1>13, <1>14, <1>15, <1>16
     DEF MainStep, Scan, NobodyIdle, EnqueueForeign, KeepTask
<1>19. CASE Submit
  BY <1>19, <1>5, <1>6 DEF Submit, SubmitFromTask
<1> QED
  BY <1>1, <1>11, <1>17, <1>18, <1>19 DEF Next, Over

\* find_idle_workers and donate_work leave nobody with an empty hand to enqueue.
LEMMA HandNext == TypeOK /\ PlaceInv /\ AbortInv /\ HandInv /\ DonorInv /\ [Next]_vars => HandInv'
<1> SUFFICES ASSUME TypeOK, PlaceInv, AbortInv, HandInv, DonorInv, [Next]_vars PROVE HandInv'
  OBVIOUS
<1> SUFFICES ASSUME NEW r \in Threads PROVE HandAt(r)'
  BY DEF HandInv
<1>a. HandAt(r)
  BY DEF HandInv
<1> USE <1>a, ThreadsOf DEF TypeOK, HandAt, ShutDown
<1>1. CASE UNCHANGED vars
  BY <1>1 DEF vars, queues, wakeup, aborts, enqueuing, outcome
<1>2. ASSUME NEW w \in Workers,
            FindAbort(w) \/ FindTasks(w) \/ FindNothing(w)
     PROVE  HandAt(r)'
  BY <1>2
     DEF FindAbort, At, ExitThread, queues, aborts, enqueuing, outcome, Goto, FindTasks, TakePublic,
     FindNothing, wakeup
<1>3. ASSUME NEW w \in Workers,
            MarkIdle(w) \/ CountIdle(w) \/ Acquire(w)
     PROVE  HandAt(r)'
  BY <1>3 DEF MarkIdle, Goto, At, queues, aborts, enqueuing, outcome, CountIdle, wakeup, Acquire
<1>4. ASSUME NEW w \in Workers,
            DeadlinePasses(w) \/ TimedOut(w) \/ CheckFound(w)
     PROVE  HandAt(r)'
  BY <1>4
     DEF DeadlinePasses, Goto, At, queues, wakeup, aborts, enqueuing, outcome, TimedOut, ExitThread,
     CheckFound
<1>5. ASSUME NEW w \in Workers,
            WakeForAbort(w) \/ WakeForTasks(w) \/ WakeForNothing(w)
     PROVE  HandAt(r)'
  BY <1>5
     DEF WakeForAbort, At, ExitThread, queues, aborts, enqueuing, outcome, Goto, WakeForTasks,
     TakePublic, WakeForNothing, wakeup
<1>6. ASSUME NEW w \in Workers,
            NextTask(w) \/ (\E v : FindDonee(w, v)) \/ (\E v : SkipActive(w, v))
     PROVE  HandAt(r)'
  BY <1>6 DEF NextTask, Goto, At, queues, wakeup, aborts, outcome, FindDonee, SkipActive
<1>7. ASSUME NEW w \in Workers,
            BeginDonating(w) \/ EndDonating(w) \/ LoopAborted(w)
     PROVE  HandAt(r)'
  BY <1>7
     DEF BeginDonating, Goto, At, queues, wakeup, aborts, outcome, EndDonating, LoopAborted,
     enqueuing
<1>8. ASSUME NEW w \in Workers, NEW v, NEW ts, DonateTo(w, v, ts) PROVE HandAt(r)'
  <2>1. pc[w] = "donate" /\ pc' = [pc EXCEPT ![w] = "give"] /\ hand' = [hand EXCEPT ![w] = ts]
        /\ UNCHANGED <<abort, atomicAbort>>
    BY <1>8 DEF DonateTo, Goto, At, aborts
  <2>2. ts # {} \/ ShutDown
    <3>1. CASE Cardinality(private[w]) > Cardinality(donees[w] \ given[w])
      BY <1>8, <3>1, DonationLeavesOne
    <3>2. CASE Doomed(donees[w] \ given[w])
      BY <3>2 DEF Doomed, AbortInv
    <3> QED BY <2>1, <3>1, <3>2 DEF DonorInv, DonorAt, Donating
  <2> QED BY <2>1, <2>2
<1>9. ASSUME NEW w \in Workers,
            (\E t : BeginTask(w, t)) \/ Aborted(w) \/ EndTask(w)
     PROVE  HandAt(r)'
  BY <1>9
     DEF BeginTask, Goto, At, wakeup, aborts, enqueuing, Aborted, ExitThread, queues, outcome,
     EndTask
<1>10. ASSUME NEW w \in Workers, NEW t, SubmitToSelf(w, t) PROVE HandAt(r)'
  BY <1>10 DEF SubmitToSelf, At, EnqueueLocal, wakeup, aborts, enqueuing
<1>11. ASSUME NEW w \in Workers, NEW t, SubmitToOther(w, t) PROVE HandAt(r)'
  BY <1>11 DEF SubmitToOther, Goto, At, queues, wakeup, aborts, outcome
<1>12. ASSUME NEW t, SubmitFromMain(t) PROVE HandAt(r)'
  BY <1>12 DEF SubmitFromMain, Goto, At, queues, wakeup, aborts, outcome
<1>13. ASSUME NEW s \in Threads, NEW v, FindIdle(s, v) PROVE HandAt(r)'
  BY <1>13 DEF FindIdle, Goto, At, queues, aborts, outcome
<1>14. ASSUME NEW s \in Threads,
            (\E v : FindActive(s, v)) \/ Release(s)
     PROVE  HandAt(r)'
  BY <1>14 DEF FindActive, At, queues, wakeup, aborts, outcome, Release, Goto, Back, enqueuing
<1>15. ASSUME NEW w \in Workers, KeepTask(w) PROVE HandAt(r)'
  BY <1>15 DEF KeepTask, Goto, At, EnqueueLocal, wakeup, aborts
<1>16. ASSUME NEW v \in Workers, NextInTurn(v) PROVE HandAt(r)'
  BY <1>16 DEF NextInTurn, Goto, At, queues, wakeup, aborts, outcome
<1>17. ASSUME NEW s \in Threads, RefuseTask(s) PROVE HandAt(r)'
  BY <1>17 DEF RefuseTask, Goto, At, Back, queues, wakeup, aborts
<1>18. ASSUME NEW s \in Threads, RefuseDonation(s) PROVE HandAt(r)'
  BY <1>18 DEF RefuseDonation, Goto, At, wakeup, aborts, outcome
<1>19. ASSUME NEW s \in Threads, InsertAndStart(s) PROVE HandAt(r)'
  BY <1>19 DEF InsertAndStart, Insert, Back, MustStart, aborts, outcome, At
<1>20. ASSUME NEW s \in Threads, InsertToRunning(s) PROVE HandAt(r)'
  BY <1>20 DEF InsertToRunning, Goto, Insert, Back, Wake, MustStart, aborts, outcome, At
<1>21. CASE BeginShutdown
  BY <1>21 DEF BeginShutdown, Goto, At, queues, wakeup, outcome
<1>22. CASE NextShutdown
  BY <1>22 DEF NextShutdown, Goto, At, queues, wakeup, outcome
<1>23. CASE LockAbort
  BY <1>23 DEF LockAbort, Goto, At, queues, wakeup, enqueuing, outcome
<1>24. CASE SetFound
  BY <1>24 DEF SetFound, Goto, At, queues, aborts, enqueuing, outcome
<1>25. CASE Signal
  BY <1>25 DEF Signal, Goto, At, queues, aborts, enqueuing, outcome
<1>26. CASE JoinAndClear
  BY <1>26 DEF JoinAndClear, Goto, At, wakeup, enqueuing
<1>27. ASSUME NEW w \in Workers, WorkerStep(w) PROVE HandAt(r)'
  BY <1>27, ThreadsOf, <1>2, <1>3, <1>4, <1>5, <1>6, <1>7, <1>8, <1>9, <1>13, <1>14, <1>15,
     <1>17, <1>18, <1>19, <1>20
     DEF WorkerStep, Run, DrainQueue, Relock, ScanDonee, Donate, CheckAbort, Scan, NobodyIdle,
     EnqueueForeign
<1>28. CASE MainStep
  BY <1>28, ThreadsOf, <1>13, <1>14, <1>16, <1>17, <1>18, <1>19, <1>20, <1>22, <1>23, <1>24,
     <1>25, <1>26
     DEF MainStep, Scan, NobodyIdle, EnqueueForeign, KeepTask
<1>29. CASE Submit
  BY <1>29, <1>10, <1>11, <1>12 DEF Submit, SubmitFromTask
<1> QED
  BY <1>1, <1>21, <1>27, <1>28, <1>29 DEF Next, Over

\* A worker goes to sleep only on a queue it has seen empty under its lock: whoever
\* fills it later finds the flag down, raises it and releases the semaphore.
LEMMA AwakeNext == TypeOK /\ PlaceInv /\ AwakeInv /\ [Next]_vars => AwakeInv'
<1> SUFFICES ASSUME TypeOK, PlaceInv, AwakeInv, [Next]_vars PROVE AwakeInv'
  OBVIOUS
<1> SUFFICES ASSUME NEW u \in Workers PROVE AwakeAt(u)'
  BY DEF AwakeInv
<1>a. AwakeAt(u)
  BY DEF AwakeInv
<1> USE <1>a, ThreadsOf DEF TypeOK, AwakeAt, Sleeping
<1>1. CASE UNCHANGED vars
  BY <1>1 DEF vars, queues, wakeup, aborts, enqueuing, outcome, Waker
<1>2. ASSUME NEW w \in Workers, FindAbort(w) PROVE AwakeAt(u)'
  BY <1>2 DEF FindAbort, At, ExitThread, queues, aborts, enqueuing, outcome, Goto, Waker
<1>3. ASSUME NEW w \in Workers, FindTasks(w) PROVE AwakeAt(u)'
  <2>1. Waker(u) => Waker(u)'
    BY <1>3 DEF FindTasks, At, TakePublic, aborts, enqueuing, outcome, Goto, Waker
  <2> QED
    BY <1>3, <2>1 DEF FindTasks, At, TakePublic, aborts, enqueuing, outcome, Goto
<1>4. ASSUME NEW w \in Workers, FindNothing(w) PROVE AwakeAt(u)'
  BY <1>4 DEF FindNothing, Goto, At, queues, wakeup, aborts, enqueuing, outcome, Waker
<1>5. ASSUME NEW w \in Workers, MarkIdle(w) PROVE AwakeAt(u)'
  <2>1. Waker(u) => Waker(u)'
    BY <1>5 DEF MarkIdle, Goto, At, queues, aborts, enqueuing, outcome, Waker
  <2> QED
    BY <1>5, <2>1 DEF MarkIdle, Goto, At, queues, aborts, enqueuing, outcome
<1>6. ASSUME NEW w \in Workers, CountIdle(w) PROVE AwakeAt(u)'
  <2>1. Waker(u) => Waker(u)'
    BY <1>6 DEF CountIdle, Goto, At, queues, wakeup, aborts, enqueuing, outcome, Waker
  <2> QED
    BY <1>6, <2>1 DEF CountIdle, Goto, At, queues, wakeup, aborts, enqueuing, outcome
<1>7. ASSUME NEW w \in Workers, Acquire(w) PROVE AwakeAt(u)'
  BY <1>7 DEF Acquire, Goto, At, queues, aborts, enqueuing, outcome, Waker
<1>8. ASSUME NEW w \in Workers, DeadlinePasses(w) PROVE AwakeAt(u)'
  BY <1>8 DEF DeadlinePasses, Goto, At, queues, wakeup, aborts, enqueuing, outcome, Waker
<1>9. ASSUME NEW w \in Workers, TimedOut(w) PROVE AwakeAt(u)'
  BY <1>9 DEF TimedOut, At, ExitThread, queues, aborts, enqueuing, outcome, Goto, Waker
<1>10. ASSUME NEW w \in Workers, CheckFound(w) PROVE AwakeAt(u)'
  <2>1. Waker(u) => Waker(u)'
    BY <1>10 DEF CheckFound, Goto, At, queues, wakeup, aborts, enqueuing, outcome, Waker
  <2>2. pc[Main] = "set_found" /\ target[Main] = w => Waker(w)'
    BY <1>10 DEF CheckFound, Goto, At, enqueuing, Waker
  <2> QED
    BY <1>10, <2>1, <2>2 DEF CheckFound, Goto, At, queues, wakeup, aborts, enqueuing, outcome
<1>11. ASSUME NEW w \in Workers, WakeForAbort(w) PROVE AwakeAt(u)'
  BY <1>11 DEF WakeForAbort, At, ExitThread, queues, aborts, enqueuing, outcome, Goto, Waker
<1>12. ASSUME NEW w \in Workers, WakeForTasks(w) PROVE AwakeAt(u)'
  <2>1. Waker(u) => Waker(u)'
    BY <1>12 DEF WakeForTasks, At, TakePublic, aborts, enqueuing, outcome, Goto, Waker
  <2> QED
    BY <1>12, <2>1 DEF WakeForTasks, At, TakePublic, aborts, enqueuing, outcome, Goto
<1>13. ASSUME NEW w \in Workers, WakeForNothing(w) PROVE AwakeAt(u)'
  BY <1>13 DEF WakeForNothing, Goto, At, queues, wakeup, aborts, enqueuing, outcome, Waker
<1>14. ASSUME NEW w \in Workers, NextTask(w) PROVE AwakeAt(u)'
  BY <1>14 DEF NextTask, Goto, At, queues, wakeup, aborts, outcome, Waker
<1>15. ASSUME NEW w \in Workers, NEW v, FindDonee(w, v) PROVE AwakeAt(u)'
  BY <1>15 DEF FindDonee, At, queues, aborts, outcome, Waker
<1>16. ASSUME NEW w \in Workers, NEW v, SkipActive(w, v) PROVE AwakeAt(u)'
  BY <1>16 DEF SkipActive, At, queues, wakeup, aborts, outcome, Waker
<1>17. ASSUME NEW w \in Workers, BeginDonating(w) PROVE AwakeAt(u)'
  BY <1>17 DEF BeginDonating, Goto, At, queues, wakeup, aborts, outcome, Waker
<1>18. ASSUME NEW w \in Workers, NEW v, NEW ts, DonateTo(w, v, ts) PROVE AwakeAt(u)'
  <2>1. Waker(u) => Waker(u)'
    BY <1>18 DEF DonateTo, Goto, At, wakeup, aborts, outcome, Waker
  <2> QED
    BY <1>18, <2>1 DEF DonateTo, Goto, At, wakeup, aborts, outcome
<1>19. ASSUME NEW w \in Workers, EndDonating(w) PROVE AwakeAt(u)'
  BY <1>19 DEF EndDonating, Goto, At, queues, wakeup, aborts, outcome, Waker
<1>20. ASSUME NEW w \in Workers, LoopAborted(w) PROVE AwakeAt(u)'
  BY <1>20 DEF LoopAborted, Goto, At, queues, wakeup, aborts, enqueuing, outcome, Waker
<1>21. ASSUME NEW w \in Workers, NEW t, BeginTask(w, t) PROVE AwakeAt(u)'
  BY <1>21 DEF BeginTask, Goto, At, wakeup, aborts, enqueuing, Waker
<1>22. ASSUME NEW w \in Workers, Aborted(w) PROVE AwakeAt(u)'
  BY <1>22 DEF Aborted, At, ExitThread, queues, aborts, enqueuing, outcome, Goto, Waker
<1>23. ASSUME NEW w \in Workers, EndTask(w) PROVE AwakeAt(u)'
  BY <1>23 DEF EndTask, Goto, At, queues, wakeup, aborts, enqueuing, Waker
<1>24. ASSUME NEW w \in Workers, NEW t, SubmitToSelf(w, t) PROVE AwakeAt(u)'
  BY <1>24 DEF SubmitToSelf, At, EnqueueLocal, wakeup, aborts, enqueuing, Waker
<1>25. ASSUME NEW w \in Workers, NEW t, SubmitToOther(w, t) PROVE AwakeAt(u)'
  BY <1>25 DEF SubmitToOther, Goto, At, queues, wakeup, aborts, outcome, Waker
<1>26. ASSUME NEW t, SubmitFromMain(t) PROVE AwakeAt(u)'
  BY <1>26 DEF SubmitFromMain, Goto, At, queues, wakeup, aborts, outcome, Waker
<1>27. ASSUME NEW s \in Threads, NEW v, FindIdle(s, v) PROVE AwakeAt(u)'
  BY <1>27 DEF FindIdle, Goto, At, queues, aborts, outcome, Waker
<1>28. ASSUME NEW s \in Threads, NEW v, FindActive(s, v) PROVE AwakeAt(u)'
  BY <1>28 DEF FindActive, At, queues, wakeup, aborts, outcome, Waker
<1>29. ASSUME NEW w \in Workers, KeepTask(w) PROVE AwakeAt(u)'
  BY <1>29 DEF KeepTask, Goto, At, EnqueueLocal, wakeup, aborts, Waker
<1>30. ASSUME NEW v \in Workers, NextInTurn(v) PROVE AwakeAt(u)'
  BY <1>30 DEF NextInTurn, Goto, At, queues, wakeup, aborts, outcome, Waker
<1>31. ASSUME NEW s \in Threads, RefuseTask(s) PROVE AwakeAt(u)'
  BY <1>31 DEF RefuseTask, Goto, At, Back, queues, wakeup, aborts, Waker
<1>32. ASSUME NEW s \in Threads, RefuseDonation(s) PROVE AwakeAt(u)'
  BY <1>32 DEF RefuseDonation, Goto, At, wakeup, aborts, outcome, Waker
<1>33. ASSUME NEW s \in Threads, InsertAndStart(s) PROVE AwakeAt(u)'
  <2>1. target[s] \in Workers /\ pc[target[s]] = "none" /\ pc[s] \in {"enqueue", "give"}
    BY <1>33 DEF InsertAndStart, Insert, MustStart, PlaceInv, WorkerPlace
  <2>2. \A r \in Threads : pc'[r] = IF r = s THEN Back(s) ELSE IF r = target[s] THEN "drain" ELSE pc[r]
    BY <1>33, <2>1 DEF InsertAndStart
  <2>3. Back(s) = IF s = Main THEN "ready" ELSE IF pc[s] = "give" THEN "donate" ELSE "task"
    BY <2>1 DEF Back, At
  <2>4. /\ UNCHANGED <<target, sem, abort>>
        /\ public' = [public EXCEPT ![target[s]] = public[target[s]] \cup hand[s]]
        /\ found' = [found EXCEPT ![target[s]] = TRUE]
    BY <1>33 DEF InsertAndStart, Insert, aborts
  <2>5. \A r \in Threads : pc[r] \in {"wake", "release", "set_found", "signal"} => pc'[r] = pc[r]
    BY <2>1, <2>2
  <2>6. Waker(u) => Waker(u)'
    BY <2>4, <2>5 DEF Waker
  <2> QED BY <2>1, <2>2, <2>3, <2>4, <2>5, <2>6
<1>34. ASSUME NEW s \in Threads, InsertToRunning(s) PROVE AwakeAt(u)'
  <2>1. Waker(u) => Waker(u)'
    BY <1>34 DEF InsertToRunning, Insert, Goto, Waker
  <2>2. public[target[s]] = {} /\ u = target[s] => Waker(u)'
    BY <1>34 DEF InsertToRunning, Insert, Goto, First, Wake, At, Waker
  <2>3. /\ UNCHANGED <<target, sem, abort>>
        /\ public' = [public EXCEPT ![target[s]] = public[target[s]] \cup hand[s]]
        /\ found' = [found EXCEPT ![target[s]] = TRUE]
    BY <1>34 DEF InsertToRunning, Insert, aborts
  <2>4. /\ pc[s] \in {"enqueue", "give"} /\ \A r \in Threads : r # s => pc'[r] = pc[r]
        /\ pc'[s] \in {"wake", "release", "ready", "donate", "task"}
    BY <1>34 DEF InsertToRunning, Insert, Goto, Wake, Back
  <2> QED BY <2>1, <2>2, <2>3, <2>4
<1>35. ASSUME NEW s \in Threads, Release(s) PROVE AwakeAt(u)'
  BY <1>35 DEF Release, Goto, Back, queues, aborts, enqueuing, outcome, At, Waker
<1>36. CASE BeginShutdown
  BY <1>36 DEF BeginShutdown, Goto, At, queues, wakeup, outcome, Waker
<1>37. CASE NextShutdown
  BY <1>37 DEF NextShutdown, Goto, At, queues, wakeup, outcome, Waker
<1>38. CASE LockAbort
  BY <1>38 DEF LockAbort, Goto, At, queues, wakeup, enqueuing, outcome, Waker
<1>39. CASE SetFound
  BY <1>39 DEF SetFound, Goto, At, queues, aborts, enqueuing, outcome, Waker
<1>40. CASE Signal
  BY <1>40 DEF Signal, Goto, At, queues, aborts, enqueuing, outcome, Waker
<1>41. CASE JoinAndClear
  BY <1>41 DEF JoinAndClear, Goto, At, wakeup, enqueuing, Waker
<1>42. ASSUME NEW w \in Workers, WorkerStep(w) PROVE AwakeAt(u)'
  BY <1>42, ThreadsOf, <1>2, <1>3, <1>4, <1>5, <1>6, <1>7, <1>8, <1>9, <1>10, <1>11, <1>12,
     <1>13, <1>14, <1>15, <1>16, <1>17, <1>18, <1>19, <1>20, <1>21, <1>22, <1>23, <1>27, <1>28,
     <1>29, <1>31, <1>32, <1>33, <1>34, <1>35
     DEF WorkerStep, Run, DrainQueue, Relock, ScanDonee, Donate, CheckAbort, Scan, NobodyIdle,
     EnqueueForeign
<1>43. CASE MainStep
  BY <1>43, ThreadsOf, <1>27, <1>28, <1>30, <1>31, <1>32, <1>33, <1>34, <1>35, <1>37, <1>38,
     <1>39, <1>40, <1>41
     DEF MainStep, Scan, NobodyIdle, EnqueueForeign, KeepTask
<1>44. CASE Submit
  BY <1>44, <1>24, <1>25, <1>26 DEF Submit, SubmitFromTask
<1> QED
  BY <1>1, <1>36, <1>42, <1>43, <1>44 DEF Next, Over

\* Whoever takes the idle flag of a worker comes to its queue, gives the part that was
\* meant for it, or fails because the pool is being shut down.
LEMMA SleepNext == TypeOK /\ PlaceInv /\ AbortInv /\ HandInv /\ SleepInv /\ [Next]_vars => SleepInv'
<1> SUFFICES ASSUME TypeOK, PlaceInv, AbortInv, HandInv, SleepInv, [Next]_vars PROVE SleepInv'
  OBVIOUS
<1> USE ThreadsOf DEF TypeOK, SleepInv, Sleeping
<1>1. CASE UNCHANGED vars
  BY <1>1 DEF vars, queues, wakeup, aborts, enqueuing, outcome, Coming, Chosen, ShutDown
<1>2. ASSUME NEW w \in Workers, FindAbort(w) PROVE SleepInv'
  BY <1>2
     DEF FindAbort, At, ExitThread, queues, aborts, enqueuing, outcome, Goto, Coming, Chosen,
     ShutDown
<1>3. ASSUME NEW w \in Workers, FindTasks(w) PROVE SleepInv'
  BY <1>3 DEF FindTasks, At, TakePublic, aborts, enqueuing, outcome, Goto, Coming, Chosen, ShutDown
<1>4. ASSUME NEW w \in Workers, FindNothing(w) PROVE SleepInv'
  BY <1>4
     DEF FindNothing, Goto, At, queues, wakeup, aborts, enqueuing, outcome, Coming, Chosen, ShutDown
<1>5. ASSUME NEW w \in Workers, MarkIdle(w) PROVE SleepInv'
  BY <1>5 DEF MarkIdle, Goto, At, queues, aborts, enqueuing, outcome, Coming, Chosen, ShutDown
<1>6. ASSUME NEW w \in Workers, CountIdle(w) PROVE SleepInv'
  BY <1>6
     DEF CountIdle, Goto, At, queues, wakeup, aborts, enqueuing, outcome, Coming, Chosen, ShutDown
<1>7. ASSUME NEW w \in Workers, Acquire(w) PROVE SleepInv'
  BY <1>7 DEF Acquire, Goto, At, queues, aborts, enqueuing, outcome, Coming, Chosen, ShutDown
<1>8. ASSUME NEW w \in Workers, DeadlinePasses(w) PROVE SleepInv'
  BY <1>8
     DEF DeadlinePasses, Goto, At, queues, wakeup, aborts, enqueuing, outcome, Coming, Chosen,
     ShutDown
<1>9. ASSUME NEW w \in Workers, TimedOut(w) PROVE SleepInv'
  BY <1>9
     DEF TimedOut, At, ExitThread, queues, aborts, enqueuing, outcome, Goto, Coming, Chosen,
     ShutDown
<1>10. ASSUME NEW w \in Workers, CheckFound(w) PROVE SleepInv'
  BY <1>10
     DEF CheckFound, Goto, At, queues, wakeup, aborts, enqueuing, outcome, Coming, Chosen, ShutDown
<1>11. ASSUME NEW w \in Workers, WakeForAbort(w) PROVE SleepInv'
  BY <1>11
     DEF WakeForAbort, At, ExitThread, queues, aborts, enqueuing, outcome, Goto, Coming, Chosen,
     ShutDown
<1>12. ASSUME NEW w \in Workers, WakeForTasks(w) PROVE SleepInv'
  BY <1>12
     DEF WakeForTasks, At, TakePublic, aborts, enqueuing, outcome, Goto, Coming, Chosen, ShutDown
<1>13. ASSUME NEW w \in Workers, WakeForNothing(w) PROVE SleepInv'
  BY <1>13
     DEF WakeForNothing, Goto, At, queues, wakeup, aborts, enqueuing, outcome, Coming, Chosen,
     ShutDown
<1>14. ASSUME NEW w \in Workers, NextTask(w) PROVE SleepInv'
  BY <1>14 DEF NextTask, Goto, At, queues, wakeup, aborts, outcome, Coming, Chosen, ShutDown
<1>15. ASSUME NEW w \in Workers, NEW v, FindDonee(w, v) PROVE SleepInv'
  <2>1. given[w] = {}
    BY <1>15 DEF FindDonee, At, PlaceInv, WorkerPlace, Donating
  <2>2. \A u \in Workers : u = v \/ Chosen(u) => Chosen(u)'
    BY <1>15, <2>1 DEF FindDonee, Chosen
  <2>3. \A u \in Workers : Coming(u) => Coming(u)'
    BY <1>15 DEF FindDonee, Coming
  <2>4. UNCHANGED <<public, pc, ShutDown>> /\ flag' = flag \ {v}
    BY <1>15 DEF FindDonee, queues, aborts, ShutDown
  <2> QED BY <2>2, <2>3, <2>4
<1>16. ASSUME NEW w \in Workers, NEW v, SkipActive(w, v) PROVE SleepInv'
  BY <1>16 DEF SkipActive, At, queues, wakeup, aborts, outcome, Coming, Chosen, ShutDown
<1>17. ASSUME NEW w \in Workers, BeginDonating(w) PROVE SleepInv'
  BY <1>17 DEF BeginDonating, Goto, At, queues, wakeup, aborts, outcome, Coming, Chosen, ShutDown
<1>18. ASSUME NEW w \in Workers, NEW v, NEW ts, DonateTo(w, v, ts) PROVE SleepInv'
  <2>1. Coming(v)'
    BY <1>18 DEF DonateTo, Goto, Coming
  <2>2. \A u \in Workers : Coming(u) => Coming(u)'
    BY <1>18 DEF DonateTo, Goto, At, Coming
  <2>3. \A u \in Workers : u # v /\ Chosen(u) => Chosen(u)'
    BY <1>18 DEF DonateTo, Chosen
  <2>4. UNCHANGED <<public, flag, ShutDown>> /\ pc' = [pc EXCEPT ![w] = "give"]
    BY <1>18 DEF DonateTo, Goto, wakeup, aborts, ShutDown
  <2> QED BY <2>1, <2>2, <2>3, <2>4
<1>19. ASSUME NEW w \in Workers, EndDonating(w) PROVE SleepInv'
  <2>1. \A u \in Workers : Coming(u) => Coming(u)'
    BY <1>19 DEF EndDonating, Goto, At, Coming
  <2>2. \A u \in Workers : Chosen(u) => Chosen(u)'
    BY <1>19 DEF EndDonating, Chosen
  <2>3. UNCHANGED <<public, flag, ShutDown>> /\ pc' = [pc EXCEPT ![w] = "check_abort"]
    BY <1>19 DEF EndDonating, Goto, queues, wakeup, aborts, ShutDown
  <2> QED BY <2>1, <2>2, <2>3
<1>20. ASSUME NEW w \in Workers, LoopAborted(w) PROVE SleepInv'
  BY <1>20
     DEF LoopAborted, Goto, At, queues, wakeup, aborts, enqueuing, outcome, Coming, Chosen, ShutDown
<1>21. ASSUME NEW w \in Workers, NEW t, BeginTask(w, t) PROVE SleepInv'
  BY <1>21 DEF BeginTask, Goto, At, wakeup, aborts, enqueuing, Coming, Chosen, ShutDown
<1>22. ASSUME NEW w \in Workers, Aborted(w) PROVE SleepInv'
  BY <1>22
     DEF Aborted, At, ExitThread, queues, aborts, enqueuing, outcome, Goto, Coming, Chosen, ShutDown
<1>23. ASSUME NEW w \in Workers, EndTask(w) PROVE SleepInv'
  BY <1>23 DEF EndTask, Goto, At, queues, wakeup, aborts, enqueuing, Coming, Chosen, ShutDown
<1>24. ASSUME NEW w \in Workers, NEW t, SubmitToSelf(w, t) PROVE SleepInv'
  BY <1>24 DEF SubmitToSelf, At, EnqueueLocal, wakeup, aborts, enqueuing, Coming, Chosen, ShutDown
<1>25. ASSUME NEW w \in Workers, NEW t, SubmitToOther(w, t) PROVE SleepInv'
  BY <1>25 DEF SubmitToOther, Goto, At, queues, wakeup, aborts, outcome, Coming, Chosen, ShutDown
<1>26. ASSUME NEW t, SubmitFromMain(t) PROVE SleepInv'
  BY <1>26 DEF SubmitFromMain, Goto, At, queues, wakeup, aborts, outcome, Coming, Chosen, ShutDown
<1>27. ASSUME NEW s \in Threads, NEW v, FindIdle(s, v) PROVE SleepInv'
  BY <1>27 DEF FindIdle, Goto, At, queues, aborts, outcome, Coming, Chosen, ShutDown
<1>28. ASSUME NEW s \in Threads, NEW v, FindActive(s, v) PROVE SleepInv'
  BY <1>28 DEF FindActive, At, queues, wakeup, aborts, outcome, Coming, Chosen, ShutDown
<1>29. ASSUME NEW w \in Workers, KeepTask(w) PROVE SleepInv'
  BY <1>29 DEF KeepTask, Goto, At, EnqueueLocal, wakeup, aborts, Coming, Chosen, ShutDown
<1>30. ASSUME NEW v \in Workers, NextInTurn(v) PROVE SleepInv'
  BY <1>30 DEF NextInTurn, Goto, At, queues, wakeup, aborts, outcome, Coming, Chosen, ShutDown
<1>31. ASSUME NEW s \in Threads, RefuseTask(s) PROVE SleepInv'
  <2>1. ShutDown'
    BY <1>31 DEF RefuseTask, AbortInv, ShutDown, aborts
  <2> QED BY <2>1
<1>32. ASSUME NEW s \in Threads, RefuseDonation(s) PROVE SleepInv'
  <2>1. ShutDown'
    BY <1>32 DEF RefuseDonation, AbortInv, ShutDown, aborts
  <2> QED BY <2>1
<1>33. ASSUME NEW s \in Threads, InsertAndStart(s) PROVE SleepInv'
  <2>1. target[s] \in Workers /\ pc[target[s]] = "none" /\ pc[s] \in {"enqueue", "give"}
    BY <1>33 DEF InsertAndStart, Insert, MustStart, PlaceInv, WorkerPlace
  <2>2. \A r \in Threads : pc'[r] = IF r = s THEN Back(s) ELSE IF r = target[s] THEN "drain" ELSE pc[r]
    BY <1>33, <2>1 DEF InsertAndStart
  <2>3. Back(s) = IF s = Main THEN "ready" ELSE IF pc[s] = "give" THEN "donate" ELSE "task"
    BY <2>1 DEF Back, At
  <2>4. /\ UNCHANGED <<target, flag, donees, given, ShutDown>>
        /\ public' = [public EXCEPT ![target[s]] = public[target[s]] \cup hand[s]]
    BY <1>33 DEF InsertAndStart, Insert, aborts, ShutDown
  <2>5. hand[s] # {} \/ ShutDown
    BY <2>1 DEF HandInv, HandAt
  <2>6. \A u \in Workers : u # target[s] /\ Coming(u) => Coming(u)'
    BY <2>1, <2>2, <2>4 DEF Coming
  <2>7. \A u \in Workers : Chosen(u) => Chosen(u)'
    BY <2>4 DEF Chosen
  <2>8. \A u \in Workers : pc'[u] \in Sleeping => pc[u] = pc'[u]
    BY <2>1, <2>2, <2>3
  <2> QED BY <2>1, <2>4, <2>5, <2>6, <2>7, <2>8
<1>34. ASSUME NEW s \in Threads, InsertToRunning(s) PROVE SleepInv'
  <2>1. pc[s] \in {"enqueue", "give"}
    BY <1>34 DEF InsertToRunning, Insert
  <2>2. \A u \in Threads : u # s => pc'[u] = pc[u]
    BY <1>34 DEF InsertToRunning, Goto
  <2>3. pc'[s] \in {"wake", "release", "ready", "donate", "task"}
    BY <1>34 DEF InsertToRunning, Goto, Wake, Back
  <2>4. /\ UNCHANGED <<target, flag, donees, given, ShutDown>>
        /\ public' = [public EXCEPT ![target[s]] = public[target[s]] \cup hand[s]]
    BY <1>34 DEF InsertToRunning, Insert, aborts, ShutDown
  <2>5. hand[s] # {} \/ ShutDown
    BY <2>1 DEF HandInv, HandAt
  <2>6. \A u \in Workers : u # target[s] /\ Coming(u) => Coming(u)'
    BY <2>2, <2>4 DEF Coming
  <2>7. \A u \in Workers : Chosen(u) => Chosen(u)'
    BY <2>4 DEF Chosen
  <2>8. \A u \in Workers : pc'[u] \in Sleeping => pc[u] = pc'[u]
    BY <2>2, <2>3
  <2> QED BY <2>4, <2>5, <2>6, <2>7, <2>8
<1>35. ASSUME NEW s \in Threads, Release(s) PROVE SleepInv'
  BY <1>35 DEF Release, Goto, Back, queues, aborts, enqueuing, outcome, At, Coming, Chosen, ShutDown
<1>36. CASE BeginShutdown
  BY <1>36 DEF BeginShutdown, Goto, At, queues, wakeup, outcome, Coming, Chosen, ShutDown
<1>37. CASE NextShutdown
  BY <1>37 DEF NextShutdown, Goto, At, queues, wakeup, outcome, Coming, Chosen, ShutDown
<1>38. CASE LockAbort
  BY <1>38 DEF LockAbort, Goto, At, queues, wakeup, enqueuing, outcome, Coming, Chosen, ShutDown
<1>39. CASE SetFound
  BY <1>39 DEF SetFound, Goto, At, queues, aborts, enqueuing, outcome, Coming, Chosen, ShutDown
<1>40. CASE Signal
  BY <1>40 DEF Signal, Goto, At, queues, aborts, enqueuing, outcome, Coming, Chosen, ShutDown
<1>41. CASE JoinAndClear
  <2>1. ShutDown'
    BY <1>41 DEF JoinAndClear, At, AbortInv, ShutDown
  <2> QED BY <2>1
<1>42. ASSUME NEW w \in Workers, WorkerStep(w) PROVE SleepInv'
  BY <1>42, ThreadsOf, <1>2, <1>3, <1>4, <1>5, <1>6, <1>7, <1>8, <1>9, <1>10, <1>11, <1>12,
     <1>13, <1>14, <1>15, <1>16, <1>17, <1>18, <1>19, <1>20, <1>21, <1>22, <1>23, <1>27, <1>28,
     <1>29, <1>31, <1>32, <1>33, <1>34, <1>35
     DEF WorkerStep, Run, DrainQueue, Relock, ScanDonee, Donate, CheckAbort, Scan, NobodyIdle,
     EnqueueForeign
<1>43. CASE MainStep
  BY <1>43, ThreadsOf, <1>27, <1>28, <1>30, <1>31, <1>32, <1>33, <1>34, <1>35, <1>37, <1>38,
     <1>39, <1>40, <1>41
     DEF MainStep, Scan, NobodyIdle, EnqueueForeign, KeepTask
<1>44. CASE Submit
  BY <1>44, <1>24, <1>25, <1>26 DEF Submit, SubmitFromTask
<1> QED
  BY <1>1, <1>36, <1>42, <1>43, <1>44 DEF Next, Over

\* A donor chooses fewer workers than it has tasks, and nothing takes from its private
\* queue but itself.
LEMMA DonorNext == TypeOK /\ PlaceInv /\ DonorInv /\ [Next]_vars => DonorInv'
<1> SUFFICES ASSUME TypeOK, PlaceInv, DonorInv, [Next]_vars PROVE DonorInv'
  OBVIOUS
<1> USE ThreadsOf DEF TypeOK, DonorInv
<1>1. CASE UNCHANGED vars
  BY <1>1 DEF vars, queues, wakeup, aborts, enqueuing, outcome, DonorAt, Donating, Doomed
<1>2. ASSUME NEW w \in Workers, FindAbort(w) PROVE DonorInv'
  BY <1>2
     DEF FindAbort, At, ExitThread, queues, aborts, enqueuing, outcome, Goto, DonorAt, Donating,
     Doomed
<1>3. ASSUME NEW w \in Workers, FindTasks(w) PROVE DonorInv'
  BY <1>3 DEF FindTasks, At, TakePublic, aborts, enqueuing, outcome, Goto, DonorAt, Donating, Doomed
<1>4. ASSUME NEW w \in Workers, FindNothing(w) PROVE DonorInv'
  BY <1>4
     DEF FindNothing, Goto, At, queues, wakeup, aborts, enqueuing, outcome, DonorAt, Donating,
     Doomed
<1>5. ASSUME NEW w \in Workers, MarkIdle(w) PROVE DonorInv'
  BY <1>5 DEF MarkIdle, Goto, At, queues, aborts, enqueuing, outcome, DonorAt, Donating, Doomed
<1>6. ASSUME NEW w \in Workers, CountIdle(w) PROVE DonorInv'
  BY <1>6
     DEF CountIdle, Goto, At, queues, wakeup, aborts, enqueuing, outcome, DonorAt, Donating, Doomed
<1>7. ASSUME NEW w \in Workers, Acquire(w) PROVE DonorInv'
  BY <1>7 DEF Acquire, Goto, At, queues, aborts, enqueuing, outcome, DonorAt, Donating, Doomed
<1>8. ASSUME NEW w \in Workers, DeadlinePasses(w) PROVE DonorInv'
  BY <1>8
     DEF DeadlinePasses, Goto, At, queues, wakeup, aborts, enqueuing, outcome, DonorAt, Donating,
     Doomed
<1>9. ASSUME NEW w \in Workers, TimedOut(w) PROVE DonorInv'
  BY <1>9
     DEF TimedOut, At, ExitThread, queues, aborts, enqueuing, outcome, Goto, DonorAt, Donating,
     Doomed
<1>10. ASSUME NEW w \in Workers, CheckFound(w) PROVE DonorInv'
  BY <1>10
     DEF CheckFound, Goto, At, queues, wakeup, aborts, enqueuing, outcome, DonorAt, Donating, Doomed
<1>11. ASSUME NEW w \in Workers, WakeForAbort(w) PROVE DonorInv'
  BY <1>11
     DEF WakeForAbort, At, ExitThread, queues, aborts, enqueuing, outcome, Goto, DonorAt, Donating,
     Doomed
<1>12. ASSUME NEW w \in Workers, WakeForTasks(w) PROVE DonorInv'
  BY <1>12
     DEF WakeForTasks, At, TakePublic, aborts, enqueuing, outcome, Goto, DonorAt, Donating, Doomed
<1>13. ASSUME NEW w \in Workers, WakeForNothing(w) PROVE DonorInv'
  BY <1>13
     DEF WakeForNothing, Goto, At, queues, wakeup, aborts, enqueuing, outcome, DonorAt, Donating,
     Doomed
<1>14. ASSUME NEW w \in Workers, NextTask(w) PROVE DonorInv'
  <2>1. ASSUME NEW u \in Workers, u # w PROVE DonorAt(u)'
    BY <1>14, <2>1, DonorKept DEF NextTask, Goto, queues, aborts
  <2>2. IsFiniteSet(private[w]) /\ IsFiniteSet(donees[w]) /\ IsFiniteSet(donees[w] \ given[w])
    BY WorkersAssumption, TasksAssumption, FS_Subset
  <2>3. Cardinality(private[w]) \in Nat /\ Cardinality(donees[w]) \in Nat /\ wanted[w] \in Nat
    BY <2>2, FS_CardinalityType
  <2>4. given[w] = {} /\ (donees[w] = {} \/ Doomed(donees[w]))
    BY <1>14 DEF NextTask, At, PlaceInv, WorkerPlace, DonorAt, Donating
  <2>5. UNCHANGED <<private, donees, given, abort>>
    BY <1>14 DEF NextTask, queues, aborts
  <2>6. Doomed(donees[w]) => Doomed(donees[w])'
    BY <2>5 DEF Doomed
  <2>7. donees[w] = {} => Cardinality(donees[w]) = 0
    BY FS_EmptySet
  <2>8. CASE Cardinality(private[w]) > 1 /\ pc'[w] = "balance"
    <3>1. wanted'[w] = MaxWaiters(Cardinality(private[w]))
      BY <1>14, <2>8 DEF NextTask, Goto
    <3>2. wanted'[w] < Cardinality(private[w])
      BY <3>1, <2>3, <2>8, MaxWaitersLess
    <3>3. donees[w] = {} => Cardinality(donees[w]) + wanted'[w] < Cardinality(private[w])
      BY <2>3, <2>7, <3>1, <3>2, <2>8, MaxWaitersLess
    <3>4. DonorAt(w)'
      BY <2>4, <2>5, <2>6, <2>8, <3>3 DEF DonorAt, Donating
    <3> QED BY <2>1, <3>4
  <2>9. CASE pc'[w] = "drain" \/ (pc'[w] = "check_abort" /\ Cardinality(private[w]) = 1)
    <3>1. DonorAt(w)'
      BY <2>4, <2>5, <2>6, <2>9 DEF DonorAt, Donating
    <3> QED BY <2>1, <3>1
  <2> QED BY <1>14, <2>8, <2>9 DEF NextTask, Goto
<1>15. ASSUME NEW w \in Workers, NEW v, FindDonee(w, v) PROVE DonorInv'
  <2>1. ASSUME NEW u \in Workers, u # w PROVE DonorAt(u)'
    BY <1>15, <2>1, DonorKept DEF FindDonee, queues, aborts
  <2>2. IsFiniteSet(private[w]) /\ IsFiniteSet(donees[w]) /\ IsFiniteSet(donees[w] \ given[w])
    BY WorkersAssumption, TasksAssumption, FS_Subset
  <2>3. Cardinality(private[w]) \in Nat /\ Cardinality(donees[w]) \in Nat /\ wanted[w] \in Nat
    BY <2>2, FS_CardinalityType
  <2>4. pc[w] = "balance" /\ pc'[w] = "balance" /\ donees'[w] = donees[w] \cup {v}
        /\ wanted'[w] = wanted[w] - 1 /\ UNCHANGED <<private, abort>>
    BY <1>15 DEF FindDonee, At, queues, aborts
  <2>5. Cardinality(donees[w] \cup {v}) \in Nat /\ Cardinality(donees[w] \cup {v}) <= Cardinality(donees[w]) + 1
    <3>1. Cardinality(donees[w] \cup {v})
            = IF v \in donees[w] THEN Cardinality(donees[w]) ELSE Cardinality(donees[w]) + 1
      BY <2>2, FS_AddElement
    <3> QED BY <3>1, <2>3
  <2>6. Doomed(donees[w]) => Doomed(donees[w])'
    BY <2>4 DEF Doomed
  <2>7. DonorAt(w)'
    <3>1. Cardinality(donees'[w]) + wanted'[w] <= Cardinality(donees[w]) + wanted[w]
      BY <2>3, <2>4, <2>5
    <3>2. Cardinality(donees'[w]) \in Nat /\ wanted'[w] \in Int
      BY <2>3, <2>4, <2>5
    <3>3. Cardinality(private[w]) > 1
          /\ (Cardinality(private[w]) > Cardinality(donees[w]) + wanted[w] \/ Doomed(donees[w]))
      BY <2>4 DEF DonorAt
    <3>4. CASE Doomed(donees[w])
      BY <2>4, <2>6, <3>3, <3>4 DEF DonorAt, Donating
    <3>5. CASE Cardinality(private[w]) > Cardinality(donees[w]) + wanted[w]
      <4>1. Cardinality(private[w]) > Cardinality(donees'[w]) + wanted'[w]
        <5> HIDE DEF TypeOK
        <5> QED BY <2>3, <3>1, <3>2, <3>5
      <4> QED BY <2>4, <3>3, <4>1 DEF DonorAt, Donating
    <3> QED BY <3>3, <3>4, <3>5
  <2> QED BY <2>1, <2>7
<1>16. ASSUME NEW w \in Workers, NEW v, SkipActive(w, v) PROVE DonorInv'
  BY <1>16 DEF SkipActive, At, queues, wakeup, aborts, outcome, DonorAt, Donating, Doomed
<1>17. ASSUME NEW w \in Workers, BeginDonating(w) PROVE DonorInv'
  <2>1. ASSUME NEW u \in Workers, u # w PROVE DonorAt(u)'
    BY <1>17, <2>1, DonorKept DEF BeginDonating, Goto, queues, aborts
  <2>2. IsFiniteSet(private[w]) /\ IsFiniteSet(donees[w]) /\ IsFiniteSet(donees[w] \ given[w])
    BY WorkersAssumption, TasksAssumption, FS_Subset
  <2>3. Cardinality(private[w]) \in Nat /\ Cardinality(donees[w]) \in Nat /\ wanted[w] \in Nat
    BY <2>2, FS_CardinalityType
  <2>4. pc[w] = "balance" /\ UNCHANGED <<private, donees, given, abort>>
        /\ pc'[w] = IF donees[w] = {} THEN "check_abort" ELSE "donate"
    BY <1>17 DEF BeginDonating, Goto, At, queues, aborts
  <2>5. donees[w] \ given[w] = donees[w]
    BY <2>4 DEF PlaceInv, WorkerPlace, Donating
  <2>6. Doomed(donees[w]) => Doomed(donees[w] \ given[w])'
    BY <2>4, <2>5 DEF Doomed
  <2>7. Cardinality(donees[w] \ given[w])' = Cardinality(donees[w])
    BY <2>4, <2>5
  <2>8. DonorAt(w)'
    BY <2>3, <2>4, <2>6, <2>7 DEF DonorAt, Donating
  <2> QED BY <2>1, <2>8
<1>18. ASSUME NEW w \in Workers, NEW v, NEW ts, DonateTo(w, v, ts) PROVE DonorInv'
  <2>1. ASSUME NEW u \in Workers, u # w PROVE DonorAt(u)'
    BY <1>18, <2>1, DonorKept DEF DonateTo, Goto, aborts
  <2>2. pc[w] = "donate" /\ pc'[w] = "give" /\ target'[w] = v /\ donees' = donees /\ abort' = abort
        /\ donees'[w] \ given'[w] = (donees[w] \ given[w]) \ {v}
    BY <1>18 DEF DonateTo, Goto, At, aborts
  <2>3. CASE Cardinality(private[w]) > Cardinality(donees[w] \ given[w])
    BY <1>18, <2>1, <2>2, <2>3, DonationLeavesOne DEF DonorAt, Donating
  <2>4. CASE Doomed(donees[w] \ given[w])
    <3>1. abort'[target'[w]] \/ Doomed(donees[w] \ given[w])'
      BY <2>2, <2>4 DEF Doomed
    <3> QED BY <2>1, <2>2, <3>1 DEF DonorAt, Donating
  <2> QED BY <2>2, <2>3, <2>4 DEF DonorAt, Donating
<1>19. ASSUME NEW w \in Workers, EndDonating(w) PROVE DonorInv'
  <2>1. ASSUME NEW u \in Workers, u # w PROVE DonorAt(u)'
    BY <1>19, <2>1, DonorKept DEF EndDonating, Goto, queues, aborts
  <2>2. IsFiniteSet(private[w]) /\ IsFiniteSet(donees[w]) /\ IsFiniteSet(donees[w] \ given[w])
    BY WorkersAssumption, TasksAssumption, FS_Subset
  <2>3. Cardinality(private[w]) \in Nat /\ Cardinality(donees[w]) \in Nat /\ wanted[w] \in Nat
    BY <2>2, FS_CardinalityType
  <2>4. pc[w] = "donate" /\ pc'[w] = "check_abort" /\ donees'[w] = {} /\ private' = private
        /\ donees[w] \ given[w] = {}
    BY <1>19 DEF EndDonating, Goto, At, queues
  <2>5. ~Doomed(donees[w] \ given[w]) /\ Cardinality(donees[w] \ given[w]) = 0
    BY <2>4, FS_EmptySet DEF Doomed
  <2>6. DonorAt(w)'
    BY <2>3, <2>4, <2>5 DEF DonorAt, Donating
  <2> QED BY <2>1, <2>6
<1>20. ASSUME NEW w \in Workers, LoopAborted(w) PROVE DonorInv'
  BY <1>20
     DEF LoopAborted, Goto, At, queues, wakeup, aborts, enqueuing, outcome, DonorAt, Donating,
     Doomed
<1>21. ASSUME NEW w \in Workers, NEW t, BeginTask(w, t) PROVE DonorInv'
  BY <1>21 DEF BeginTask, Goto, At, wakeup, aborts, enqueuing, DonorAt, Donating, Doomed
<1>22. ASSUME NEW w \in Workers, Aborted(w) PROVE DonorInv'
  BY <1>22
     DEF Aborted, At, ExitThread, queues, aborts, enqueuing, outcome, Goto, DonorAt, Donating,
     Doomed
<1>23. ASSUME NEW w \in Workers, EndTask(w) PROVE DonorInv'
  BY <1>23 DEF EndTask, Goto, At, queues, wakeup, aborts, enqueuing, DonorAt, Donating, Doomed
<1>24. ASSUME NEW w \in Workers, NEW t, SubmitToSelf(w, t) PROVE DonorInv'
  BY <1>24 DEF SubmitToSelf, At, EnqueueLocal, wakeup, aborts, enqueuing, DonorAt, Donating, Doomed
<1>25. ASSUME NEW w \in Workers, NEW t, SubmitToOther(w, t) PROVE DonorInv'
  BY <1>25 DEF SubmitToOther, Goto, At, queues, wakeup, aborts, outcome, DonorAt, Donating, Doomed
<1>26. ASSUME NEW t, SubmitFromMain(t) PROVE DonorInv'
  BY <1>26 DEF SubmitFromMain, Goto, At, queues, wakeup, aborts, outcome, DonorAt, Donating, Doomed
<1>27. ASSUME NEW s \in Threads, NEW v, FindIdle(s, v) PROVE DonorInv'
  BY <1>27 DEF FindIdle, Goto, At, queues, aborts, outcome, DonorAt, Donating, Doomed
<1>28. ASSUME NEW s \in Threads, NEW v, FindActive(s, v) PROVE DonorInv'
  BY <1>28 DEF FindActive, At, queues, wakeup, aborts, outcome, DonorAt, Donating, Doomed
<1>29. ASSUME NEW w \in Workers, KeepTask(w) PROVE DonorInv'
  <2>1. ASSUME NEW u \in Workers, u # w PROVE DonorAt(u)'
    BY <1>29, <2>1, DonorKept DEF KeepTask, EnqueueLocal, Goto, aborts
  <2>2. UNCHANGED <<donees, given, abort>> /\ pc[w] = "scan" /\ pc'[w] = "task"
    BY <1>29 DEF KeepTask, Goto, At, aborts
  <2>3. Doomed(donees[w]) => Doomed(donees[w])'
    BY <2>2 DEF Doomed
  <2>4. DonorAt(w)'
    BY <2>2, <2>3 DEF DonorAt, Donating
  <2> QED BY <2>1, <2>4
<1>30. ASSUME NEW v \in Workers, NextInTurn(v) PROVE DonorInv'
  BY <1>30 DEF NextInTurn, Goto, At, queues, wakeup, aborts, outcome, DonorAt, Donating, Doomed
<1>31. ASSUME NEW s \in Threads, RefuseTask(s) PROVE DonorInv'
  BY <1>31 DEF RefuseTask, Goto, At, Back, queues, wakeup, aborts, DonorAt, Donating, Doomed
<1>32. ASSUME NEW s \in Threads, RefuseDonation(s) PROVE DonorInv'
  <2>1. ASSUME NEW u \in Workers, u # s PROVE DonorAt(u)'
    BY <1>32, <2>1, DonorKept DEF RefuseDonation, Goto, aborts
  <2>2. s \in Workers
    BY <1>32 DEF RefuseDonation, At, PlaceInv, MainPoints
  <2>3. pc'[s] = "throw" /\ target[s] \in donees[s] /\ abort[target[s]] /\ UNCHANGED <<donees, abort>>
    BY <1>32, <2>2 DEF RefuseDonation, Goto, At, aborts, PlaceInv, WorkerPlace
  <2>4. Doomed(donees[s])'
    BY <2>3 DEF Doomed
  <2>5. DonorAt(s)'
    BY <2>3, <2>4 DEF DonorAt, Donating
  <2> QED BY <2>1, <2>5
<1>33. ASSUME NEW s \in Threads, InsertAndStart(s) PROVE DonorInv'
  <2>1. target[s] \in Workers /\ pc[target[s]] = "none" /\ pc[s] \in {"enqueue", "give"}
    BY <1>33 DEF InsertAndStart, Insert, MustStart, PlaceInv, WorkerPlace
  <2>2. \A r \in Threads : pc'[r] = IF r = s THEN Back(s) ELSE IF r = target[s] THEN "drain" ELSE pc[r]
    BY <1>33, <2>1 DEF InsertAndStart
  <2>3. Back(s) = IF s = Main THEN "ready" ELSE IF pc[s] = "give" THEN "donate" ELSE "task"
    BY <2>1 DEF Back, At
  <2>4. UNCHANGED <<private, donees, given, wanted, target, abort>>
    BY <1>33 DEF InsertAndStart, Insert, aborts
  <2>5. ~abort[target[s]]
    BY <1>33 DEF InsertAndStart, Insert
  <2>6. Doomed(donees[s] \ given[s]) => Doomed(donees[s] \ given[s])'
    BY <2>4 DEF Doomed
  <2>7. \A u \in Workers : Doomed(donees[u]) => Doomed(donees[u])'
    BY <2>4 DEF Doomed
  <2>8. ASSUME NEW u \in Workers PROVE DonorAt(u)'
    <3>1. CASE u = s
      BY <3>1, <2>1, <2>2, <2>3, <2>4, <2>5, <2>6, <2>7 DEF DonorAt, Donating
    <3>2. CASE u # s /\ u = target[s]
      BY <3>2, <2>1, <2>2, <2>4, <2>7 DEF DonorAt, Donating
    <3>3. CASE u # s /\ u # target[s]
      BY <3>3, <2>2, <2>4, DonorKept
    <3> QED BY <3>1, <3>2, <3>3
  <2> QED BY <2>8
<1>34. ASSUME NEW s \in Threads, InsertToRunning(s) PROVE DonorInv'
  <2>1. ASSUME NEW u \in Workers, u # s PROVE DonorAt(u)'
    BY <1>34, <2>1, DonorKept DEF InsertToRunning, Insert, Goto, aborts
  <2>2. UNCHANGED <<private, donees, given, wanted, target, abort>> /\ ~abort[target[s]]
    BY <1>34 DEF InsertToRunning, Insert, aborts
  <2>3. CASE s \in Workers
    <3>1. /\ pc[s] = "give" => pc'[s] \in {"release", "donate"}
          /\ pc[s] # "give" => pc[s] = "enqueue" /\ pc'[s] \in {"wake", "task"}
      BY <1>34, <2>3 DEF InsertToRunning, Insert, Goto, Wake, Back, At
    <3>2. Doomed(donees[s]) => Doomed(donees[s])'
      BY <2>2 DEF Doomed
    <3>3. Doomed(donees[s] \ given[s]) => Doomed(donees[s] \ given[s])'
      BY <2>2 DEF Doomed
    <3>4. DonorAt(s)'
      BY <2>2, <2>3, <3>1, <3>2, <3>3 DEF DonorAt, Donating
    <3> QED BY <2>1, <3>4
  <2> QED BY <2>1, <2>3
<1>35. ASSUME NEW s \in Threads, Release(s) PROVE DonorInv'
  <2>1. ASSUME NEW u \in Workers, u # s PROVE DonorAt(u)'
    BY <1>35, <2>1, DonorKept DEF Release, Goto, queues, aborts, enqueuing
  <2>2. UNCHANGED <<private, donees, given, abort, wanted, target>>
    BY <1>35 DEF Release, queues, aborts, enqueuing
  <2>3. CASE s \in Workers
    <3>1. pc'[s] = IF pc[s] = "release" THEN "donate" ELSE "task"
      BY <1>35, <2>3 DEF Release, Goto, Back, At
    <3>2. pc[s] \in {"release", "wake"}
      BY <1>35 DEF Release
    <3>3. (Doomed(donees[s]) => Doomed(donees[s])') /\ (Doomed(donees[s] \ given[s]) => Doomed(donees[s] \ given[s])')
      BY <2>2 DEF Doomed
    <3>4. DonorAt(s)'
      BY <2>2, <2>3, <3>1, <3>2, <3>3 DEF DonorAt, Donating
    <3> QED BY <2>1, <3>4
  <2> QED BY <2>1, <2>3
<1>36. CASE BeginShutdown
  <2>1. ASSUME NEW u \in Workers PROVE DonorAt(u)'
    BY <1>36, DonorKept DEF BeginShutdown, queues, Goto
  <2> QED BY <2>1
<1>37. CASE NextShutdown
  <2>1. ASSUME NEW u \in Workers PROVE DonorAt(u)'
    BY <1>37, DonorKept DEF NextShutdown, queues, Goto
  <2> QED BY <2>1
<1>38. CASE LockAbort
  <2>1. ASSUME NEW u \in Workers PROVE DonorAt(u)'
    BY <1>38, DonorKept DEF LockAbort, queues, Goto, enqueuing
  <2> QED BY <2>1
<1>39. CASE SetFound
  BY <1>39 DEF SetFound, Goto, At, queues, aborts, enqueuing, outcome, DonorAt, Donating, Doomed
<1>40. CASE Signal
  BY <1>40 DEF Signal, Goto, At, queues, aborts, enqueuing, outcome, DonorAt, Donating, Doomed
<1>41. CASE JoinAndClear
  <2>1. PICK x \in Workers : x = target[Main]
    OBVIOUS
  <2>2. ASSUME NEW u \in Workers, u # x PROVE DonorAt(u)'
    BY <1>41, <2>1, <2>2, DonorKept DEF JoinAndClear, Goto, enqueuing
  <2>3. pc[x] = "none" /\ pc'[x] = "none" /\ UNCHANGED <<donees, abort>>
    BY <1>41, <2>1 DEF JoinAndClear, PlaceInv, WorkerPlace, Goto, enqueuing
  <2>4. Doomed(donees[x]) => Doomed(donees[x])'
    BY <2>3 DEF Doomed
  <2>5. DonorAt(x)'
    BY <2>3, <2>4 DEF DonorAt, Donating
  <2> QED BY <2>2, <2>5
<1>42. ASSUME NEW w \in Workers, WorkerStep(w) PROVE DonorInv'
  BY <1>42, ThreadsOf, <1>2, <1>3, <1>4, <1>5, <1>6, <1>7, <1>8, <1>9, <1>10, <1>11, <1>12,
     <1>13, <1>14, <1>15, <1>16, <1>17, <1>18, <1>19, <1>20, <1>21, <1>22, <1>23, <1>27, <1>28,
     <1>29, <1>31, <1>32, <1>33, <1>34, <1>35
     DEF WorkerStep, Run, DrainQueue, Relock, ScanDonee, Donate, CheckAbort, Scan, NobodyIdle,
     EnqueueForeign
<1>43. CASE MainStep
  BY <1>43, ThreadsOf, <1>27, <1>28, <1>30, <1>31, <1>32, <1>33, <1>34, <1>35, <1>37, <1>38,
     <1>39, <1>40, <1>41
     DEF MainStep, Scan, NobodyIdle, EnqueueForeign, KeepTask
<1>44. CASE Submit
  BY <1>44, <1>24, <1>25, <1>26 DEF Submit, SubmitFromTask
<1> QED
  BY <1>1, <1>36, <1>42, <1>43, <1>44 DEF Next, Over

\* A step moves tasks from one holder to another, and never leaves a copy.
LEMMA OnceNext == TypeOK /\ PlaceInv /\ OnceInv /\ [Next]_vars => OnceInv'
<1> SUFFICES ASSUME TypeOK, PlaceInv, OnceInv, [Next]_vars PROVE OnceInv'
  OBVIOUS
<1> SUFFICES ASSUME NEW x \in Tasks PROVE Once(x)'
  BY DEF OnceInv
<1> Once(x)
  BY DEF OnceInv
<1> USE ThreadsOf DEF TypeOK, Once
<1>1. CASE UNCHANGED <<public, private, running, hand, done, broken>>
  BY <1>1
<1>2. ASSUME NEW w \in Workers, FindTasks(w) PROVE Once(x)'
  BY <1>2 DEF FindTasks, TakePublic, aborts, enqueuing, outcome
<1>3. ASSUME NEW w \in Workers, WakeForTasks(w) PROVE Once(x)'
  BY <1>3 DEF WakeForTasks, TakePublic, aborts, enqueuing, outcome
<1>4. ASSUME NEW w \in Workers, NEW v, NEW ts, DonateTo(w, v, ts) PROVE Once(x)'
  BY <1>4 DEF DonateTo, wakeup, aborts, outcome
<1>5. ASSUME NEW w \in Workers, NEW t, BeginTask(w, t) PROVE Once(x)'
  BY <1>5 DEF BeginTask, wakeup, aborts, enqueuing
<1>6. ASSUME NEW w \in Workers, EndTask(w) PROVE Once(x)'
  BY <1>6 DEF EndTask, queues, wakeup, aborts, enqueuing
<1>7. ASSUME NEW w \in Workers, NEW t, SubmitToSelf(w, t) PROVE Once(x)'
  <2>1. t \in Fresh /\ UNCHANGED <<public, running, hand, done>>
    BY <1>7 DEF SubmitToSelf, enqueuing
  <2>2. \/ broken' = broken \cup {t} /\ private' = private
        \/ private' = [private EXCEPT ![w] = private[w] \cup {t}] /\ broken' = broken
    BY <1>7 DEF SubmitToSelf, EnqueueLocal
  <2>3. x = t => \A v \in Workers : x \notin public[v] /\ x \notin private[v] /\ x \notin running[v]
    BY <2>1, FreshIsNowhere
  <2>4. x = t => x \notin done /\ x \notin broken /\ \A s \in Threads : x \notin hand[s]
    BY <2>1, FreshIsNowhere
  <2>5. CASE broken' = broken \cup {t} /\ private' = private
    BY <2>1, <2>3, <2>4, <2>5
  <2>6. CASE private' = [private EXCEPT ![w] = private[w] \cup {t}] /\ broken' = broken
    BY <2>1, <2>3, <2>4, <2>6
  <2> QED BY <2>2, <2>5, <2>6
<1>8. ASSUME NEW w \in Workers, NEW t, SubmitToOther(w, t) PROVE Once(x)'
  <2>1. t \in Fresh /\ UNCHANGED <<public, private, running, done, broken>>
    BY <1>8 DEF SubmitToOther, queues, outcome
  <2>2. hand' = [hand EXCEPT ![w] = {t}]
    BY <1>8 DEF SubmitToOther
  <2>3. x = t => \A v \in Workers : x \notin public[v] /\ x \notin private[v] /\ x \notin running[v]
    BY <2>1, FreshIsNowhere
  <2>4. x = t => x \notin done /\ x \notin broken /\ \A s \in Threads : x \notin hand[s]
    BY <2>1, FreshIsNowhere
  <2> QED BY <2>1, <2>2, <2>3, <2>4
<1>9. ASSUME NEW t, SubmitFromMain(t) PROVE Once(x)'
  <2>1. t \in Fresh /\ UNCHANGED <<public, private, running, done, broken>>
    BY <1>9 DEF SubmitFromMain, queues, outcome
  <2>2. hand' = [hand EXCEPT ![Main] = {t}]
    BY <1>9 DEF SubmitFromMain
  <2>3. x = t => \A v \in Workers : x \notin public[v] /\ x \notin private[v] /\ x \notin running[v]
    BY <2>1, FreshIsNowhere
  <2>4. x = t => x \notin done /\ x \notin broken /\ \A s \in Threads : x \notin hand[s]
    BY <2>1, FreshIsNowhere
  <2> QED BY <2>1, <2>2, <2>3, <2>4
<1>10. ASSUME NEW w \in Workers, KeepTask(w) PROVE Once(x)'
  <2>1. UNCHANGED <<public, running, done>> /\ hand' = [hand EXCEPT ![w] = {}]
    BY <1>10 DEF KeepTask
  <2>2. \/ broken' = broken \cup hand[w] /\ private' = private
        \/ private' = [private EXCEPT ![w] = private[w] \cup hand[w]] /\ broken' = broken
    BY <1>10 DEF KeepTask, EnqueueLocal
  <2>3. CASE broken' = broken \cup hand[w] /\ private' = private
    BY <2>1, <2>3
  <2>4. CASE private' = [private EXCEPT ![w] = private[w] \cup hand[w]] /\ broken' = broken
    BY <2>1, <2>4
  <2> QED BY <2>2, <2>3, <2>4
<1>11. ASSUME NEW s \in Threads, RefuseTask(s) PROVE Once(x)'
  BY <1>11 DEF RefuseTask, queues, wakeup, aborts
<1>12. ASSUME NEW s \in Threads, RefuseDonation(s) PROVE Once(x)'
  BY <1>12 DEF RefuseDonation, wakeup, aborts, outcome
<1>13. ASSUME NEW s \in Threads, InsertAndStart(s) PROVE Once(x)'
  BY <1>13 DEF InsertAndStart, Insert, MustStart, aborts, outcome
<1>14. ASSUME NEW s \in Threads, InsertToRunning(s) PROVE Once(x)'
  BY <1>14 DEF InsertToRunning, Insert, MustStart, aborts, outcome
<1>15. CASE JoinAndClear
  BY <1>15 DEF JoinAndClear, wakeup, enqueuing
<1>16. ASSUME NEW w \in Workers,
            FindAbort(w) \/ FindNothing(w) \/ MarkIdle(w) \/ CountIdle(w) \/ Acquire(w)
            \/ DeadlinePasses(w) \/ TimedOut(w) \/ CheckFound(w) \/ WakeForAbort(w)
            \/ WakeForNothing(w) \/ NextTask(w) \/ (\E v : FindDonee(w, v))
            \/ (\E v : SkipActive(w, v)) \/ BeginDonating(w) \/ EndDonating(w) \/ LoopAborted(w)
     PROVE  UNCHANGED <<public, private, running, hand, done, broken>>
  BY <1>16
     DEF FindAbort, ExitThread, queues, aborts, enqueuing, outcome, FindNothing, wakeup, MarkIdle,
     CountIdle, Acquire, DeadlinePasses, TimedOut, CheckFound, WakeForAbort, WakeForNothing,
     NextTask, FindDonee, SkipActive, BeginDonating, EndDonating, LoopAborted
<1>17. ASSUME NEW w \in Workers,
            Aborted(w)
     PROVE  UNCHANGED <<public, private, running, hand, done, broken>>
  BY <1>17 DEF Aborted, ExitThread, queues, aborts, enqueuing, outcome
<1>18. ASSUME NEW s \in Threads,
            (\E v : FindIdle(s, v)) \/ (\E v : FindActive(s, v)) \/ Release(s)
     PROVE  UNCHANGED <<public, private, running, hand, done, broken>>
  BY <1>18 DEF FindIdle, queues, aborts, outcome, FindActive, wakeup, Release, enqueuing
<1>19. ASSUME NEW v \in Workers, NextInTurn(v) PROVE UNCHANGED <<public, private, running, hand, done, broken>>
  BY <1>19 DEF NextInTurn, queues, wakeup, aborts, outcome
<1>20. ASSUME BeginShutdown \/ NextShutdown \/ LockAbort \/ SetFound \/ Signal
     PROVE  UNCHANGED <<public, private, running, hand, done, broken>>
  BY <1>20
     DEF BeginShutdown, queues, wakeup, outcome, NextShutdown, LockAbort, enqueuing, SetFound,
     aborts, Signal
<1>21. ASSUME NEW w \in Workers, WorkerStep(w) PROVE Once(x)'
  BY <1>21, <1>1, ThreadsOf, <1>2, <1>3, <1>4, <1>5, <1>6, <1>10, <1>11, <1>12, <1>13, <1>14,
     <1>16, <1>17, <1>18
     DEF WorkerStep, Run, DrainQueue, Relock, ScanDonee, Donate, CheckAbort, Scan, NobodyIdle,
     EnqueueForeign
<1>22. CASE MainStep
  BY <1>22, <1>1, ThreadsOf, <1>11, <1>12, <1>13, <1>14, <1>15, <1>18, <1>19, <1>20
     DEF MainStep, Scan, NobodyIdle, EnqueueForeign, KeepTask
<1>23. CASE Submit
  BY <1>23, <1>1, <1>7, <1>8, <1>9 DEF Submit, SubmitFromTask
<1> QED
  BY <1>1, <1>20, <1>21, <1>22, <1>23
     DEF Next, Over, vars, queues, wakeup, aborts, enqueuing, outcome

\* What each step of the pool is to the executor.
LEMMA PoolNext == TypeOK /\ PlaceInv /\ AbortInv /\ OnceInv /\ [Next]_vars => [Pool!Next]_(Pool!vars)
<1> SUFFICES ASSUME TypeOK, PlaceInv, AbortInv, OnceInv, [Next]_vars PROVE [Pool!Next]_(Pool!vars)
  OBVIOUS
<1> USE ThreadsOf DEF TypeOK, OnceInv
<1>1. CASE UNCHANGED <<public, private, running, hand, done, broken, atomicAbort>>
  BY <1>1, PoolSteps DEF Waiting, Executing, ShutDown
<1>2. ASSUME NEW w \in Workers, FindTasks(w) PROVE [Pool!Next]_(Pool!vars)
  <2>1. /\ public' = [public EXCEPT ![w] = private[w]] /\ private' = [private EXCEPT ![w] = public[w]]
        /\ UNCHANGED <<hand, running, done, broken, ShutDown>>
    BY <1>2 DEF FindTasks, TakePublic, aborts, enqueuing, outcome, ShutDown
  <2>2. ASSUME NEW x PROVE x \in Waiting' <=> x \in Waiting
    <3>1. \A u \in Workers : x \in public'[u] \/ x \in private'[u] <=> x \in public[u] \/ x \in private[u]
      BY <2>1
    <3> QED BY <3>1, <2>1, WaitingIs
  <2>3. Waiting' = Waiting
    BY <2>2
  <2>4. Executing' = Executing
    BY <2>1 DEF Executing
  <2> QED BY <2>1, <2>3, <2>4, PoolSteps
<1>3. ASSUME NEW w \in Workers, WakeForTasks(w) PROVE [Pool!Next]_(Pool!vars)
  <2>1. /\ public' = [public EXCEPT ![w] = private[w]] /\ private' = [private EXCEPT ![w] = public[w]]
        /\ UNCHANGED <<hand, running, done, broken, ShutDown>>
    BY <1>3 DEF WakeForTasks, TakePublic, aborts, enqueuing, outcome, ShutDown
  <2>2. ASSUME NEW x PROVE x \in Waiting' <=> x \in Waiting
    <3>1. \A u \in Workers : x \in public'[u] \/ x \in private'[u] <=> x \in public[u] \/ x \in private[u]
      BY <2>1
    <3> QED BY <3>1, <2>1, WaitingIs
  <2>3. Waiting' = Waiting
    BY <2>2
  <2>4. Executing' = Executing
    BY <2>1 DEF Executing
  <2> QED BY <2>1, <2>3, <2>4, PoolSteps
<1>4. ASSUME NEW w \in Workers, NEW v, NEW ts, DonateTo(w, v, ts) PROVE [Pool!Next]_(Pool!vars)
  <2>1. /\ private' = [private EXCEPT ![w] = private[w] \ ts] /\ hand' = [hand EXCEPT ![w] = ts]
        /\ ts \subseteq private[w] /\ hand[w] = {}
        /\ UNCHANGED <<public, running, done, broken, ShutDown>>
    BY <1>4 DEF DonateTo, At, aborts, outcome, ShutDown, PlaceInv, Submitting
  <2>2. ASSUME NEW x PROVE x \in Waiting' <=> x \in Waiting
    <3>1. ASSUME x \in Waiting PROVE x \in Waiting'
      BY <2>1, <3>1, WaitingIs
    <3>2. ASSUME x \in Waiting' PROVE x \in Waiting
      BY <2>1, <3>2, WaitingIs
    <3> QED BY <3>1, <3>2
  <2>3. Waiting' = Waiting
    BY <2>2
  <2>4. Executing' = Executing
    BY <2>1 DEF Executing
  <2> QED BY <2>1, <2>3, <2>4, PoolSteps
<1>5. ASSUME NEW w \in Workers, NEW t, BeginTask(w, t) PROVE [Pool!Next]_(Pool!vars)
  <2>1. /\ t \in private[w] /\ private' = [private EXCEPT ![w] = private[w] \ {t}]
        /\ running' = [running EXCEPT ![w] = {t}] /\ running[w] = {}
        /\ UNCHANGED <<public, hand, done, broken, ShutDown>>
    BY <1>5 DEF BeginTask, At, aborts, enqueuing, ShutDown, PlaceInv, WorkerPlace
  <2>2. t \in Tasks /\ Once(t) /\ t \in Waiting
    BY <2>1, WaitingIs
  <2>3. ASSUME NEW x PROVE x \in Waiting' <=> x \in Waiting \ {t}
    <3>1. ASSUME x \in Waiting, x # t PROVE x \in Waiting'
      BY <2>1, <3>1, WaitingIs
    <3>2. ASSUME x \in Waiting' PROVE x \in Waiting
      BY <2>1, <3>2, WaitingIs
    <3>3. t \notin Waiting'
      BY <2>1, <2>2, WaitingIs DEF Once
    <3> QED BY <3>1, <3>2, <3>3
  <2>4. ASSUME NEW x PROVE x \in Executing' <=> x \in Executing \cup {t}
    BY <2>1, WaitingIs
  <2>5. Waiting' = Waiting \ {t} /\ Executing' = Executing \cup {t}
    BY <2>3, <2>4
  <2> QED BY <2>1, <2>2, <2>5, PoolSteps
<1>6. ASSUME NEW w \in Workers, EndTask(w) PROVE [Pool!Next]_(Pool!vars)
  <2>1. /\ running[w] # {} /\ \A t, u \in running[w] : t = u
        /\ UNCHANGED <<public, private, hand, broken, ShutDown>>
        /\ done' = done \cup running[w] /\ running' = [running EXCEPT ![w] = {}]
    BY <1>6 DEF EndTask, At, queues, aborts, enqueuing, ShutDown, PlaceInv, WorkerPlace
  <2>2. PICK t \in running[w] : running[w] = {t}
    BY <2>1
  <2>3. t \in Tasks /\ Once(t) /\ t \in Executing
    BY <2>2, WaitingIs
  <2>4. ASSUME NEW x PROVE x \in Executing' <=> x \in Executing \ {t}
    <3>1. ASSUME x \in Executing, x # t PROVE x \in Executing'
      BY <2>1, <2>2, <3>1, WaitingIs
    <3>2. ASSUME x \in Executing' PROVE x \in Executing
      BY <2>1, <3>2, WaitingIs
    <3>3. t \notin Executing'
      BY <2>1, <2>2, <2>3, WaitingIs DEF Once
    <3> QED BY <3>1, <3>2, <3>3
  <2>5. Executing' = Executing \ {t} /\ Waiting' = Waiting /\ done' = done \cup {t}
    BY <2>1, <2>2, <2>4 DEF Waiting
  <2> QED BY <2>1, <2>3, <2>5, PoolSteps
<1>7. ASSUME NEW w \in Workers, NEW t, SubmitToSelf(w, t) PROVE [Pool!Next]_(Pool!vars)
  <2>1. t \in Fresh /\ UNCHANGED <<public, hand, running, done, ShutDown>>
    BY <1>7 DEF SubmitToSelf, enqueuing, aborts, ShutDown
  <2>2. t \in Tasks /\ t \notin Waiting \cup Executing \cup done \cup broken
    BY <2>1, FreshIsNowhere, WaitingIs
  <2>3. CASE atomicAbort[w]
    <3>1. ShutDown /\ broken' = broken \cup {t} /\ private' = private
      BY <1>7, <2>3 DEF SubmitToSelf, EnqueueLocal, ShutDown
    <3>2. Waiting' = Waiting \ {t} /\ Executing' = Executing
      BY <2>1, <2>2, <3>1 DEF Waiting, Executing
    <3>3. {t} \in SUBSET Tasks /\ \A x \in {t} : x \notin Executing \cup done \cup broken
      BY <2>2
    <3> QED BY <2>1, <3>1, <3>2, <3>3, PoolSteps
  <2>4. CASE ~atomicAbort[w]
    <3>1. private' = [private EXCEPT ![w] = private[w] \cup {t}] /\ broken' = broken
      BY <1>7, <2>4 DEF SubmitToSelf, EnqueueLocal
    <3>2. ASSUME NEW x PROVE x \in Waiting' <=> x \in Waiting \cup {t}
      BY <2>1, <3>1, WaitingIs
    <3>3. Waiting' = Waiting \cup {t}
      BY <3>2
    <3>4. Executing' = Executing
      BY <2>1 DEF Executing
    <3> QED BY <2>1, <2>2, <3>1, <3>3, <3>4, PoolSteps
  <2> QED BY <2>3, <2>4
<1>8. ASSUME NEW w \in Workers, NEW t, SubmitToOther(w, t) PROVE [Pool!Next]_(Pool!vars)
  <2>1. /\ t \in Fresh /\ hand[w] = {} /\ hand' = [hand EXCEPT ![w] = {t}]
        /\ UNCHANGED <<public, private, running, done, broken, ShutDown>>
    BY <1>8 DEF SubmitToOther, At, queues, aborts, outcome, ShutDown, PlaceInv, Submitting
  <2>2. t \in Tasks /\ t \notin Waiting \cup Executing \cup done \cup broken
    BY <2>1, FreshIsNowhere, WaitingIs
  <2>3. ASSUME NEW x PROVE x \in Waiting' <=> x \in Waiting \cup {t}
    BY <2>1, WaitingIs
  <2>4. Waiting' = Waiting \cup {t}
    BY <2>3
  <2>5. Executing' = Executing
    BY <2>1 DEF Executing
  <2> QED BY <2>1, <2>2, <2>4, <2>5, PoolSteps
<1>9. ASSUME NEW t, SubmitFromMain(t) PROVE [Pool!Next]_(Pool!vars)
  <2>1. /\ t \in Fresh /\ hand[Main] = {} /\ hand' = [hand EXCEPT ![Main] = {t}]
        /\ UNCHANGED <<public, private, running, done, broken, ShutDown>>
    BY <1>9 DEF SubmitFromMain, At, queues, aborts, outcome, ShutDown, PlaceInv, Submitting
  <2>2. t \in Tasks /\ t \notin Waiting \cup Executing \cup done \cup broken
    BY <2>1, FreshIsNowhere, WaitingIs
  <2>3. ASSUME NEW x PROVE x \in Waiting' <=> x \in Waiting \cup {t}
    BY <2>1, WaitingIs
  <2>4. Waiting' = Waiting \cup {t}
    BY <2>3
  <2>5. Executing' = Executing
    BY <2>1 DEF Executing
  <2> QED BY <2>1, <2>2, <2>4, <2>5, PoolSteps
<1>10. ASSUME NEW w \in Workers, KeepTask(w) PROVE [Pool!Next]_(Pool!vars)
  <2>1. hand' = [hand EXCEPT ![w] = {}] /\ UNCHANGED <<public, running, done, ShutDown>>
    BY <1>10 DEF KeepTask, aborts, ShutDown
  <2>2. hand[w] \in SUBSET Tasks
    OBVIOUS
  <2>3. CASE atomicAbort[w]
    <3>1. ShutDown /\ broken' = broken \cup hand[w] /\ private' = private
      BY <1>10, <2>3 DEF KeepTask, EnqueueLocal, ShutDown
    <3>2. ASSUME NEW x \in hand[w] PROVE Once(x) /\ x \in Waiting
      BY WaitingIs
    <3>3. ASSUME NEW x PROVE x \in Waiting' <=> x \in Waiting \ hand[w]
      <4>1. ASSUME x \in Waiting, x \notin hand[w] PROVE x \in Waiting'
        BY <2>1, <3>1, <4>1, WaitingIs
      <4>2. ASSUME x \in Waiting' PROVE x \in Waiting
        BY <2>1, <3>1, <4>2, WaitingIs
      <4>3. ASSUME x \in hand[w] PROVE x \notin Waiting'
        <5>1. \A u \in Workers : x \notin public[u] /\ x \notin private[u]
          BY <3>2, <4>3, ThreadsOf DEF Once
        <5>2. \A r \in Threads : r # w => x \notin hand[r]
          BY <3>2, <4>3, ThreadsOf DEF Once
        <5> QED BY <2>1, <3>1, <5>1, <5>2, WaitingIs
      <4> QED BY <4>1, <4>2, <4>3
    <3>4. Waiting' = Waiting \ hand[w]
      BY <3>3
    <3>5. Executing' = Executing
      BY <2>1 DEF Executing
    <3> QED BY <2>1, <3>1, <3>2, <3>4, <3>5, PoolSteps
  <2>4. CASE ~atomicAbort[w]
    <3>1. private' = [private EXCEPT ![w] = private[w] \cup hand[w]] /\ broken' = broken
      BY <1>10, <2>4 DEF KeepTask, EnqueueLocal
    <3>2. ASSUME NEW x PROVE x \in Waiting' <=> x \in Waiting
      <4>1. ASSUME x \in Waiting PROVE x \in Waiting'
        BY <2>1, <3>1, <4>1, WaitingIs
      <4>2. ASSUME x \in Waiting' PROVE x \in Waiting
        BY <2>1, <3>1, <4>2, WaitingIs
      <4> QED BY <4>1, <4>2
    <3>3. Waiting' = Waiting
      BY <3>2
    <3>4. Executing' = Executing
      BY <2>1 DEF Executing
    <3> QED BY <2>1, <3>1, <3>3, <3>4, PoolSteps
  <2> QED BY <2>3, <2>4
<1>11. ASSUME NEW s \in Threads, RefuseTask(s) PROVE [Pool!Next]_(Pool!vars)
  <2>1. hand' = [hand EXCEPT ![s] = {}] /\ UNCHANGED <<public, private, running, done, ShutDown>>
    BY <1>11 DEF RefuseTask, queues, aborts, ShutDown
  <2>2. hand[s] \in SUBSET Tasks
    OBVIOUS
  <2>3. Waiting' = Waiting \ hand[s] /\ ShutDown /\ broken' = broken \cup hand[s]
        /\ \A x \in hand[s] : x \in Waiting
    <3>1. ShutDown /\ broken' = broken \cup hand[s]
      BY <1>11 DEF RefuseTask, AbortInv, ShutDown
    <3>2. ASSUME NEW x \in hand[s] PROVE Once(x) /\ x \in Waiting
      BY WaitingIs
    <3>3. ASSUME NEW x PROVE x \in Waiting' <=> x \in Waiting \ hand[s]
      <4>1. ASSUME x \in Waiting, x \notin hand[s] PROVE x \in Waiting'
        BY <2>1, <3>1, <4>1, WaitingIs
      <4>2. ASSUME x \in Waiting' PROVE x \in Waiting
        BY <2>1, <3>1, <4>2, WaitingIs
      <4>3. ASSUME x \in hand[s] PROVE x \notin Waiting'
        <5>1. \A u \in Workers : x \notin public[u] /\ x \notin private[u]
          BY <3>2, <4>3, ThreadsOf DEF Once
        <5>2. \A r \in Threads : r # s => x \notin hand[r]
          BY <3>2, <4>3, ThreadsOf DEF Once
        <5> QED BY <2>1, <3>1, <5>1, <5>2, WaitingIs
      <4> QED BY <4>1, <4>2, <4>3
    <3> QED BY <3>1, <3>2, <3>3
  <2>4. Executing' = Executing
    BY <2>1 DEF Executing
  <2> QED BY <2>1, <2>2, <2>3, <2>4, PoolSteps
<1>12. ASSUME NEW s \in Threads, RefuseDonation(s) PROVE [Pool!Next]_(Pool!vars)
  <2>0. s \in Workers
    BY <1>12 DEF RefuseDonation, At, PlaceInv, MainPoints
  <2>1. /\ private' = [private EXCEPT ![s] = private[s] \cup hand[s]] /\ hand' = [hand EXCEPT ![s] = {}]
        /\ UNCHANGED <<public, running, done, broken, ShutDown>>
    BY <1>12 DEF RefuseDonation, aborts, outcome, ShutDown
  <2>2. ASSUME NEW x PROVE x \in Waiting' <=> x \in Waiting
    <3>1. ASSUME x \in Waiting PROVE x \in Waiting'
      BY <2>0, <2>1, <3>1, WaitingIs
    <3>2. ASSUME x \in Waiting' PROVE x \in Waiting
      BY <2>0, <2>1, <3>2, WaitingIs
    <3> QED BY <3>1, <3>2
  <2>3. Waiting' = Waiting
    BY <2>2
  <2>4. Executing' = Executing
    BY <2>1 DEF Executing
  <2> QED BY <2>0, <2>1, <2>3, <2>4, PoolSteps
<1>13. ASSUME NEW s \in Threads, InsertAndStart(s) PROVE [Pool!Next]_(Pool!vars)
  <2>0. target[s] \in Workers
    OBVIOUS
  <2>1. /\ public' = [public EXCEPT ![target[s]] = public[target[s]] \cup hand[s]] /\ hand' = [hand EXCEPT ![s] = {}]
        /\ UNCHANGED <<private, running, done, broken, ShutDown>>
    BY <1>13 DEF InsertAndStart, Insert, aborts, outcome, ShutDown
  <2>2. ASSUME NEW x PROVE x \in Waiting' <=> x \in Waiting
    <3>1. ASSUME x \in Waiting PROVE x \in Waiting'
      BY <2>0, <2>1, <3>1, WaitingIs
    <3>2. ASSUME x \in Waiting' PROVE x \in Waiting
      BY <2>0, <2>1, <3>2, WaitingIs
    <3> QED BY <3>1, <3>2
  <2>3. Waiting' = Waiting
    BY <2>2
  <2>4. Executing' = Executing
    BY <2>1 DEF Executing
  <2> QED BY <2>0, <2>1, <2>3, <2>4, PoolSteps
<1>14. ASSUME NEW s \in Threads, InsertToRunning(s) PROVE [Pool!Next]_(Pool!vars)
  <2>0. target[s] \in Workers
    OBVIOUS
  <2>1. /\ public' = [public EXCEPT ![target[s]] = public[target[s]] \cup hand[s]] /\ hand' = [hand EXCEPT ![s] = {}]
        /\ UNCHANGED <<private, running, done, broken, ShutDown>>
    BY <1>14 DEF InsertToRunning, Insert, aborts, outcome, ShutDown
  <2>2. ASSUME NEW x PROVE x \in Waiting' <=> x \in Waiting
    <3>1. ASSUME x \in Waiting PROVE x \in Waiting'
      BY <2>0, <2>1, <3>1, WaitingIs
    <3>2. ASSUME x \in Waiting' PROVE x \in Waiting
      BY <2>0, <2>1, <3>2, WaitingIs
    <3> QED BY <3>1, <3>2
  <2>3. Waiting' = Waiting
    BY <2>2
  <2>4. Executing' = Executing
    BY <2>1 DEF Executing
  <2> QED BY <2>0, <2>1, <2>3, <2>4, PoolSteps
<1>15. CASE JoinAndClear
  <2>1. PICK w \in Workers : w = target[Main]
    OBVIOUS
  <2> DEFINE ts == public[w] \cup private[w]
  <2>2. /\ public' = [public EXCEPT ![w] = {}] /\ private' = [private EXCEPT ![w] = {}]
        /\ broken' = broken \cup ts /\ UNCHANGED <<hand, running, done, ShutDown>>
    BY <1>15, <2>1 DEF JoinAndClear, enqueuing, ShutDown
  <2>3. ShutDown /\ ts \in SUBSET Tasks
    BY <1>15 DEF JoinAndClear, At, AbortInv, ShutDown
  <2>4. ASSUME NEW x \in ts PROVE Once(x) /\ x \in Waiting
    BY WaitingIs
  <2>5. ASSUME NEW x PROVE x \in Waiting' <=> x \in Waiting \ ts
    <3>1. ASSUME x \in Waiting, x \notin ts PROVE x \in Waiting'
      BY <2>2, <3>1, WaitingIs
    <3>2. ASSUME x \in Waiting' PROVE x \in Waiting
      BY <2>2, <3>2, WaitingIs
    <3>3. ASSUME x \in ts PROVE x \notin Waiting'
      BY <2>2, <2>4, <3>3, WaitingIs DEF Once
    <3> QED BY <3>1, <3>2, <3>3
  <2>6. Waiting' = Waiting \ ts
    BY <2>5
  <2>7. Executing' = Executing
    BY <2>2 DEF Executing
  <2> HIDE DEF ts
  <2> QED BY <2>2, <2>3, <2>4, <2>6, <2>7, PoolSteps
<1>16. CASE BeginShutdown
  <2>1. ShutDown'
    BY <1>16 DEF BeginShutdown, ShutDown
  <2>2. UNCHANGED <<Waiting, Executing, done, broken>>
    BY <1>16 DEF BeginShutdown, queues, outcome, Waiting, Executing
  <2> QED BY <2>1, <2>2, PoolSteps
<1>17. CASE NextShutdown
  <2>1. ShutDown'
    BY <1>17 DEF NextShutdown, ShutDown
  <2>2. UNCHANGED <<Waiting, Executing, done, broken>>
    BY <1>17 DEF NextShutdown, queues, outcome, Waiting, Executing
  <2> QED BY <2>1, <2>2, PoolSteps
<1>18. ASSUME NEW w \in Workers,
            FindAbort(w) \/ FindNothing(w) \/ MarkIdle(w) \/ CountIdle(w) \/ Acquire(w)
            \/ DeadlinePasses(w) \/ TimedOut(w) \/ CheckFound(w) \/ WakeForAbort(w)
            \/ WakeForNothing(w) \/ NextTask(w) \/ (\E v : FindDonee(w, v))
            \/ (\E v : SkipActive(w, v)) \/ BeginDonating(w) \/ EndDonating(w) \/ LoopAborted(w)
     PROVE  UNCHANGED <<public, private, running, hand, done, broken, atomicAbort>>
  BY <1>18
     DEF FindAbort, ExitThread, queues, aborts, enqueuing, outcome, FindNothing, wakeup, MarkIdle,
     CountIdle, Acquire, DeadlinePasses, TimedOut, CheckFound, WakeForAbort, WakeForNothing,
     NextTask, FindDonee, SkipActive, BeginDonating, EndDonating, LoopAborted
<1>19. ASSUME NEW w \in Workers,
            Aborted(w)
     PROVE  UNCHANGED <<public, private, running, hand, done, broken, atomicAbort>>
  BY <1>19 DEF Aborted, ExitThread, queues, aborts, enqueuing, outcome
<1>20. ASSUME NEW s \in Threads,
            (\E v : FindIdle(s, v)) \/ (\E v : FindActive(s, v)) \/ Release(s)
     PROVE  UNCHANGED <<public, private, running, hand, done, broken, atomicAbort>>
  BY <1>20 DEF FindIdle, queues, aborts, outcome, FindActive, wakeup, Release, enqueuing
<1>21. ASSUME NEW v \in Workers, NextInTurn(v) PROVE UNCHANGED <<public, private, running, hand, done, broken, atomicAbort>>
  BY <1>21 DEF NextInTurn, queues, wakeup, aborts, outcome
<1>22. ASSUME LockAbort \/ SetFound \/ Signal
     PROVE  UNCHANGED <<public, private, running, hand, done, broken, atomicAbort>>
  BY <1>22 DEF LockAbort, queues, wakeup, enqueuing, outcome, SetFound, aborts, Signal
<1>23. ASSUME NEW w \in Workers, WorkerStep(w) PROVE [Pool!Next]_(Pool!vars)
  BY <1>23, <1>1, ThreadsOf, <1>2, <1>3, <1>4, <1>5, <1>6, <1>10, <1>11, <1>12, <1>13, <1>14,
     <1>18, <1>19, <1>20
     DEF WorkerStep, Run, DrainQueue, Relock, ScanDonee, Donate, CheckAbort, Scan, NobodyIdle,
     EnqueueForeign
<1>24. CASE MainStep
  BY <1>24, <1>1, ThreadsOf, <1>11, <1>12, <1>13, <1>14, <1>15, <1>17, <1>20, <1>21, <1>22
     DEF MainStep, Scan, NobodyIdle, EnqueueForeign, KeepTask
<1>25. CASE Submit
  BY <1>25, <1>1, <1>7, <1>8, <1>9 DEF Submit, SubmitFromTask
<1> QED
  BY <1>1, <1>16, <1>23, <1>24, <1>25
     DEF Next, Over, vars, queues, wakeup, aborts, enqueuing, outcome

-----------------------------------------------------------------------------
\* IInv holds of a pool that has just been made,
LEMMA InitIInv == Init => IInv
<1> SUFFICES ASSUME Init PROVE IInv
  OBVIOUS
<1> USE ThreadsOf DEF Init
<1>1. TypeOK
  <2>1. (CHOOSE w \in Workers : TRUE) \in Workers
    BY WorkersAssumption
  <2>2. pc \in [Threads -> WorkerPoints \cup MainPoints]
    BY DEF WorkerPoints, MainPoints
  <2> QED BY <2>1, <2>2 DEF TypeOK
<1>2. OnceInv
  BY DEF OnceInv, Once
<1>3. PlaceInv
  BY DEF PlaceInv, WorkerPlace, WorkerPoints, MainPoints, Donating, Submitting
<1>4. AbortInv /\ HandInv /\ AwakeInv /\ SleepInv
  BY DEF AbortInv, HandInv, HandAt, AwakeInv, AwakeAt, SleepInv, Sleeping
<1>5. DonorInv
  BY DEF DonorInv, DonorAt, Donating
<1> QED BY <1>1, <1>2, <1>3, <1>4, <1>5 DEF IInv

\* and every step preserves it.
LEMMA NextIInv == IInv /\ [Next]_vars => IInv'
BY TypeNext, OnceNext, PlaceNext, AbortNext, HandNext, AwakeNext, DonorNext, SleepNext DEF IInv

\* IInv holds in every state of the pool.
THEOREM Invariance == Spec => []IInv
BY InitIInv, NextIInv, PTL DEF Spec

\* The types of the pool's variables (thread_pool_worker's members).
THEOREM TypeCorrect == Spec => []TypeOK
<1>1. IInv => TypeOK
  BY DEF IInv
<1> QED BY <1>1, Invariance, PTL

\* A task is in one queue, hand or worker, or done or broken, however donations,
\* submissions and the shutdown meet.
THEOREM TasksHaveOneHolder == Spec => []OneHolder
<1>1. IInv => OneHolder
  BY OneHolderIsOnce DEF IInv
<1> QED BY <1>1, Invariance, PTL

\* No worker sleeps on a task or on its shutdown without a thread that will release
\* its semaphore.
THEOREM NoLostWakeUp == Spec => []Awakened
<1>1. IInv => Awakened
  BY DEF IInv, AwakeInv, AwakeAt, Awakened, At
<1> QED BY <1>1, Invariance, PTL

\* balance_work's last assertion: what is left for the donor is never empty.
THEOREM DonorsKeepATask == Spec => []DonorKeepsOne
<1>1. IInv => DonorKeepsOne
  <2> SUFFICES ASSUME IInv, NEW w \in Workers, pc[w] = "check_abort" PROVE private[w] # {}
    BY DEF DonorKeepsOne, At
  <2>1. Cardinality(private[w]) > 0
    BY DEF IInv, DonorInv, DonorAt
  <2>2. private[w] = {} => Cardinality(private[w]) = 0
    BY FS_EmptySet
  <2> QED BY <2>1, <2>2
<1> QED BY <1>1, Invariance, PTL

\* A worker that sleeps has its flag idle, or somebody who took it is on the way.
THEOREM SleepersAreFound == Spec => []SleeperIsFound
<1>1. IInv => SleeperIsFound
  BY DEF IInv, SleepInv, SleeperIsFound, At, Sleeping, Coming, Chosen, ShutDown
<1> QED BY <1>1, Invariance, PTL

\* The pool is an executor: a task is run at most once, and destroyed unexecuted only
\* when a shutdown began before the task did.
THEOREM PoolIsAnExecutor == Spec => ImplementsExecutor
<1>1. Init => Pool!Init
  <2> SUFFICES ASSUME Init PROVE Pool!Init
    OBVIOUS
  <2>1. Waiting = {} /\ Executing = {} /\ ~ShutDown
    BY ThreadsOf DEF Init, Waiting, Executing, ShutDown
  <2> QED BY <2>1 DEF Pool!Init, Init, Waiting, Executing, ShutDown
<1>2. IInv /\ [Next]_vars => [Pool!Next]_(Pool!vars)
  BY PoolNext DEF IInv
<1> QED BY <1>1, <1>2, Invariance, PTL DEF Spec, ImplementsExecutor, Pool!Spec

=============================================================================
