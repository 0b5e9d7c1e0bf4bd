----------------------- MODULE AsyncConditionVariable -----------------------
(***************************************************************************)
(* async_condition_variable on top of AsyncLock, used the way the docs of  *)
(* concurrencpp use the two: producers lock, make the predicate true,      *)
(* unlock and notify; consumers lock and await the predicate; others just  *)
(* hold the lock for a while, or try to.                                   *)
(*                                                                         *)
(* await gives up the async_lock while it holds the condition variable's   *)
(* own mutex, so the next owner of the async_lock may run on top of it.    *)
(***************************************************************************)
EXTENDS AsyncLock, FiniteSets

CONSTANTS
    Nobody

ASSUME CoroutinesAssumption == IsFiniteSet(Coroutines) /\ Nobody \notin Coroutines
ASSUME InlineAssumption == InlineUses \subseteq {"hold", "push", "pop"}

VARIABLES
    mutex,         \* who owns m_lock, the condition variable's own mutex
    cvAwaiters,    \* the condition variable's m_awaiters
    ready          \* what the predicate says

cvVars == <<mutex, cvAwaiters, ready>>
vars == <<lvars, cvVars>>

Init ==
    /\ locked = FALSE /\ count = 0 /\ awaiters = <<>> /\ closed = FALSE
    /\ stacks = {<<c>> : c \in Coroutines}
    /\ pc = [c \in Coroutines |-> "idle"]
    /\ use = [c \in Coroutines |-> "hold"]
    /\ waited = {}
    /\ resumes = [c \in Coroutines |-> <<>>]
    /\ then = [c \in Coroutines |-> "idle"]
    /\ mutex = Nobody /\ cvAwaiters = <<>> /\ ready = FALSE

-----------------------------------------------------------------------------
(* What a coroutine wants: the bodies of the coroutines are the callers'.  *)

Begin(c) ==
    /\ At(c, "idle")
    /\ \E u \in {"hold", "push", "pop"} :
           /\ use' = [use EXCEPT ![c] = u]
           /\ \/ Goto(c, "lock")
              \/ u = "hold" /\ Goto(c, "try_lock")
    /\ UNCHANGED <<lockVars, closed, stacks, resumes, then, mutex, cvAwaiters, ready>>

End(c) ==
    /\ At(c, "ending") \/ At(c, "idle")
    /\ Suspend(c)
    /\ Goto(c, "done")
    /\ UNCHANGED <<lockVars, closed, use, resumes, then, cvVars>>

\* Assumed of the callers: what runs on the inline executor leaves the condition
\* variable alone until it ends or suspends (see NoSelfDeadlock).
Hold(c) ==
    /\ At(c, "inside") /\ use[c] = "hold"
    /\ Unlock(c, IF "hold" \in InlineUses THEN "ending" ELSE "idle")
    /\ UNCHANGED cvVars

Produce(c) ==
    /\ At(c, "inside") /\ use[c] = "push"
    /\ ready' = TRUE
    /\ \E p \in {"notify_one", "notify_all"} : Unlock(c, p)
    /\ UNCHANGED <<mutex, cvAwaiters>>

\* The loop of await_impl with a predicate.
TestPredicate(c) ==
    /\ At(c, "inside") /\ use[c] = "pop"
    /\ Goto(c, IF ready THEN "awaited" ELSE "await")
    /\ UNCHANGED <<lockVars, closed, stacks, use, resumes, then, cvVars>>

Consume(c) ==
    /\ At(c, "awaited")
    /\ ready' = FALSE
    /\ Unlock(c, "idle")
    /\ UNCHANGED <<mutex, cvAwaiters>>

\* The executors are shut down.
Close ==
    /\ ~closed /\ closed' = TRUE
    /\ UNCHANGED <<lockVars, stacks, pc, use, resumes, then, cvVars>>

-----------------------------------------------------------------------------
(* cv_awaiter and async_condition_variable.                                *)

MutexIs(c) == mutex' = c /\ UNCHANGED <<cvAwaiters, ready>>

\* A bug: await_suspend does without the mutex.
AwaitBare(c) ==
    /\ At(c, "await")
    /\ Goto(c, "await_unlock")
    /\ UNCHANGED <<lockVars, closed, stacks, use, resumes, then, cvVars>>

\* await_suspend takes the mutex, ...
AwaitLock(c) ==
    /\ At(c, "await") /\ mutex = Nobody
    /\ MutexIs(c)
    /\ Goto(c, "await_unlock")
    /\ UNCHANGED <<lockVars, closed, stacks, use, resumes, then>>

\* ... gives the async_lock up, which runs the next owner, and joins the list.
AwaitUnlock(c) ==
    /\ At(c, "await_unlock")
    /\ Unlock(c, "await_push")
    /\ UNCHANGED cvVars

AwaitPush(c) ==
    /\ At(c, "await_push")
    /\ cvAwaiters' = Append(cvAwaiters, c)
    /\ mutex' = Nobody
    /\ Suspend(c)
    /\ Goto(c, "waiting")
    /\ UNCHANGED <<lockVars, closed, use, resumes, then, ready>>

\* A notified coroutine goes to its executor before it locks the lock again.
CvResumeOn(c) ==
    /\ At(c, "cv_resume_on")
    /\ HandOver(c, "ending", "lock", "cv_posted")
    /\ UNCHANGED <<lockVars, closed, use, resumes, then, cvVars>>

CvRunPosted(c) ==
    /\ pc[c] = "cv_posted"
    /\ Schedule(c)
    /\ \/ Goto(c, "lock")
       \/ closed /\ Goto(c, "ending")
    /\ UNCHANGED <<lockVars, closed, use, resumes, then, cvVars>>

\* A bug: the list is taken for a stack.
NotifyLast(c) ==
    /\ At(c, "notify_one") /\ mutex = Nobody
    /\ cvAwaiters' = Reverse(Rest(Reverse(cvAwaiters)))
    /\ ToResume(c, First(Reverse(cvAwaiters)), "idle")
    /\ UNCHANGED <<lockVars, closed, stacks, use, mutex, ready>>

NotifyOne(c) ==
    /\ At(c, "notify_one") /\ mutex = Nobody
    /\ cvAwaiters' = Rest(cvAwaiters)
    /\ ToResume(c, First(cvAwaiters), "idle")
    /\ UNCHANGED <<lockVars, closed, stacks, use, mutex, ready>>

NotifyAll(c) ==
    /\ At(c, "notify_all") /\ mutex = Nobody
    /\ cvAwaiters' = <<>>
    /\ ToResume(c, cvAwaiters, "idle")
    /\ UNCHANGED <<lockVars, closed, stacks, use, mutex, ready>>

-----------------------------------------------------------------------------
CvStep(c) ==
    \/ AwaitLock(c) \/ AwaitUnlock(c) \/ AwaitPush(c) \/ CvResumeOn(c) \/ CvRunPosted(c)
    \/ NotifyOne(c) \/ NotifyAll(c)

Body(c) ==
    \/ Hold(c) \/ Produce(c) \/ TestPredicate(c) \/ Consume(c) \/ End(c)

Step(c) == (LockStep(c) /\ UNCHANGED cvVars) \/ CvStep(c) \/ Body(c)

\* Every coroutine has ended, or waits for one that has: for a notification it may
\* wait in vain, for the lock it may not (see LockIsGranted).
Over ==
    /\ \A c \in Coroutines : pc[c] \in {"done", "waiting", "queued"}
    /\ UNCHANGED vars

Next == (\E c \in Coroutines : Step(c) \/ Begin(c)) \/ Close \/ Over

\* A thread goes on with the coroutine on top of its stack, an executor runs or
\* breaks what was posted to it; nobody has to use the lock again, nor to
\* shut an executor down.
Spec == Init /\ [][Next]_vars
FairSpec == Spec /\ \A c \in Coroutines : WF_vars(Step(c))

-----------------------------------------------------------------------------
(* Properties.                                                             *)

\* The coroutines that have the async_lock.
Holders ==
    {c \in Coroutines : pc[c] \in {"resume_on", "posted", "broken", "enter", "inside",
                                   "await", "await_unlock", "awaited"}}
Counted ==
    {c \in Coroutines : pc[c] \in {"inside", "await", "await_unlock", "awaited"}}

\* Only one coroutine at a time has the lock, and m_locked says whether one has:
\* though a woken waiter competes with those that come by, and though it may be
\* thrown out by its executor after it got the lock.  So the assertions on
\* m_thread_count_in_critical_section in lock_impl, try_lock and unlock hold.
OneHolder ==
    /\ Cardinality(Holders) <= 1
    /\ locked <=> Holders # {}
    /\ count = Cardinality(Counted)

\* A coroutine is resumed once for each time it suspends: an unfinished one is
\* on one stack, in one list, with one executor, or one other is to resume it.
Places(c) ==
    Cardinality({s \in stacks : Contains(s, c)})
    + Cardinality({i \in DOMAIN awaiters : awaiters[i] = c})
    + Cardinality({i \in DOMAIN cvAwaiters : cvAwaiters[i] = c})
    + Cardinality({d \in Coroutines : Contains(resumes[d], c)})
    + (IF pc[c] \in {"posted", "cv_posted"} THEN 1 ELSE 0)
OnePlace == \A c \in Coroutines : Places(c) = IF pc[c] = "done" THEN 0 ELSE 1

\* No notification is lost: what was produced while consumers wait is on its way to one of
\* them, unless the executors were shut down.
ProducedIsFound ==
    ready /\ cvAwaiters # <<>> =>
        \/ closed
        \/ \E c \in Coroutines :
               \/ pc[c] \in {"notify_one", "notify_all"}
               \/ then[c] \in {"notify_one", "notify_all"} /\ pc[c] = "resuming"
               \/ use[c] = "pop" /\ pc[c] \notin {"waiting", "idle", "done", "ending"}
               \/ \E d \in Coroutines : Contains(resumes[d], c)

\* A thread never waits for a mutex a coroutine further down its own stack owns.
\* This one the code does not keep: the mutex of the condition variable is held
\* while the next owner of the async_lock runs inline.
NoSelfDeadlock ==
    \A c \in Coroutines :
        At(c, "await") \/ At(c, "notify_one") \/ At(c, "notify_all") =>
            mutex = Nobody \/ ~Contains(StackOf(c), mutex)

\* Who waits for the lock gets it or is thrown out by its executor, unless the others take
\* the lock and give it up again for ever: unlock frees the lock before the waiter tries, so
\* that one who comes by may have it first, and who tries in vain goes to the end of the list.
LockIsGranted ==
    \A c \in Coroutines :
        pc[c] = "queued" ~>
            \/ pc[c] \in {"inside", "done"}
            \/ []<>(\E d \in Coroutines \ {c} : pc[d] = "inside")

\* No waiter is overtaken for ever.  This the code does not keep.
NobodyStarves == \A c \in Coroutines : pc[c] = "queued" ~> pc[c] \in {"inside", "done"}

AwaitsFrom(c) == pc[c] = "await_push" \/ (pc[c] = "resuming" /\ then[c] = "await_push")
Pusher == {c \in Coroutines : AwaitsFrom(c)}

M == INSTANCE Monitor WITH
    entering <- {c \in Coroutines : pc[c] \in {"lock", "queued"}},
    inside <- Holders,
    waiting <- cvAwaiters \o SetToSeq(Pusher)

\* The two together are a monitor: leaving and beginning to wait is one step for
\* whoever notifies, and those that wait are notified first in, first out.
ImplementsMonitor == M!Spec
=============================================================================
