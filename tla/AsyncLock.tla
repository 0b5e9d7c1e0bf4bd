------------------------------ MODULE AsyncLock ------------------------------
(***************************************************************************)
(* async_lock: a lock whose waiters are suspended coroutines.  unlock      *)
(* takes the first waiter off the list and resumes it inline, on top of    *)
(* the stack of the coroutine that unlocks; the waiter tries again, may    *)
(* find the lock taken by another one and queue up again, and once it has  *)
(* the lock goes on in its resume executor.                                *)
(*                                                                         *)
(* An action is one critical section of m_awaiter_lock or one step outside *)
(* of it.  The module has the lock's own actions; who calls them, and how  *)
(* they are composed, is AsyncConditionVariable's.                         *)
(***************************************************************************)
EXTENDS Integers, Sequences, SequencesExt

CONSTANTS
    Coroutines,    \* the coroutines that share the lock
    InlineUses     \* the uses of the lock whose resume executor is the inline one

VARIABLES
    locked,        \* m_locked
    count,         \* m_thread_count_in_critical_section
    awaiters,      \* m_awaiters
    closed,        \* the resume executors are shut down
    stacks,        \* the threads, each the coroutines on its stack
    pc,            \* where each coroutine is
    use,           \* what each coroutine wants the lock for
    waited,        \* the coroutines whose resume_synchronously is false
    resumes,       \* the suspended coroutines each one has taken off a list to resume
    then           \* where each coroutine goes on after that

lockVars == <<locked, count, awaiters, waited>>
lvars == <<lockVars, closed, stacks, pc, use, resumes, then>>

Goto(c, p) == pc' = [pc EXCEPT ![c] = p]

\* A coroutine runs when it is on top of the stack of a thread.
Runs(c) == \E s \in stacks : Last(s) = c
At(c, p) == pc[c] = p /\ Runs(c)

\* What becomes of the threads when c, which runs, suspends or ends, when it
\* resumes d inline, and when an executor runs c.
StackOf(c) == CHOOSE s \in stacks : Last(s) = c
Suspend(c) == stacks' = (stacks \ {StackOf(c)}) \cup ({Front(StackOf(c))} \ {<<>>})
Resume(c, d) == stacks' = (stacks \ {StackOf(c)}) \cup {Append(StackOf(c), d)}
Schedule(c) == stacks' = stacks \cup {<<c>>}

\* The first of a list, as the list of those to resume.
First(list) == IF list = <<>> THEN <<>> ELSE <<Head(list)>>
Rest(list) == IF list = <<>> THEN <<>> ELSE Tail(list)

ToResume(c, list, next) ==
    /\ resumes' = [resumes EXCEPT ![c] = list]
    /\ then' = [then EXCEPT ![c] = next]
    /\ Goto(c, "resuming")

-----------------------------------------------------------------------------
\* A bug of the kind the code avoids: the woken waiter takes the lock for granted.
LockUnasked(c) ==
    /\ At(c, "lock")
    /\ \/ /\ ~locked \/ c \in waited
          /\ locked' = TRUE
          /\ Goto(c, IF c \in waited THEN "resume_on" ELSE "enter")
          /\ UNCHANGED <<awaiters, waited, stacks>>
       \/ /\ locked /\ c \notin waited
          /\ awaiters' = Append(awaiters, c)
          /\ waited' = waited \cup {c}
          /\ Suspend(c)
          /\ Goto(c, "queued")
          /\ UNCHANGED locked
    /\ UNCHANGED <<count, closed, use, resumes, then>>

\* The head of lock_impl's loop.
Lock(c) ==
    /\ At(c, "lock")
    /\ \/ /\ ~locked /\ locked' = TRUE
          /\ Goto(c, IF c \in waited THEN "resume_on" ELSE "enter")
          /\ UNCHANGED <<awaiters, waited, stacks>>
       \/ /\ locked
          /\ awaiters' = Append(awaiters, c)
          /\ waited' = waited \cup {c}
          /\ Suspend(c)
          /\ Goto(c, "queued")
          /\ UNCHANGED locked
    /\ UNCHANGED <<count, closed, use, resumes, then>>

\* resume_on: an executor that is shut down refuses the coroutine, which finds out
\* at once; the inline executor runs it at once; the others run it later.
HandOver(c, refused, accepted, posted) ==
    LET there == CASE closed -> refused
                   [] ~closed /\ use[c] \in InlineUses -> accepted
                   [] OTHER -> posted
    IN  /\ Goto(c, there)
        /\ IF there = posted THEN Suspend(c) ELSE UNCHANGED stacks

\* A coroutine that had to wait goes to its executor, with the lock taken.
ResumeOn(c) ==
    /\ At(c, "resume_on")
    /\ HandOver(c, "broken", "enter", "posted")
    /\ UNCHANGED <<lockVars, closed, use, resumes, then>>

RunPosted(c) ==
    /\ pc[c] = "posted"
    /\ Schedule(c)
    /\ Goto(c, "enter")
    /\ UNCHANGED <<lockVars, closed, use, resumes, then>>

BreakPosted(c) ==
    /\ pc[c] = "posted" /\ closed
    /\ Schedule(c)
    /\ Goto(c, "broken")
    /\ UNCHANGED <<lockVars, closed, use, resumes, then>>

\* A bug: the exception leaves lock_impl with the lock taken.
KeepLock(c) ==
    /\ At(c, "broken")
    /\ ToResume(c, <<>>, "ending")
    /\ waited' = waited \ {c}
    /\ UNCHANGED <<locked, awaiters, count, closed, stacks, use>>

\* resume_on throws in the coroutine that has the lock: it gives it to the next.
GiveUp(c) ==
    /\ At(c, "broken")
    /\ locked' = FALSE
    /\ awaiters' = Rest(awaiters)
    /\ waited' = waited \ {c}
    /\ ToResume(c, First(awaiters), "ending")
    /\ UNCHANGED <<count, closed, stacks, use>>

Enter(c) ==
    /\ At(c, "enter")
    /\ count' = count + 1
    /\ waited' = waited \ {c}
    /\ Goto(c, "inside")
    /\ UNCHANGED <<locked, awaiters, closed, stacks, use, resumes, then>>

TryLock(c) ==
    /\ At(c, "try_lock")
    /\ Goto(c, IF locked THEN "idle" ELSE "enter")
    /\ locked' = TRUE
    /\ UNCHANGED <<count, awaiters, waited, closed, stacks, use, resumes, then>>

\* A bug: the waiter that is resumed stays on the list.
UnlockPeeking(c, next) ==
    /\ locked' = FALSE
    /\ count' = count - 1
    /\ ToResume(c, First(awaiters), next)
    /\ UNCHANGED <<awaiters, waited, closed, use, stacks>>

\* unlock, called by c, which goes on at next.
Unlock(c, next) ==
    /\ locked' = FALSE
    /\ count' = count - 1
    /\ awaiters' = Rest(awaiters)
    /\ ToResume(c, First(awaiters), next)
    /\ UNCHANGED <<waited, closed, use, stacks>>

\* retry, or cv_awaiter's resume: the coroutine goes on on top of c.
ResumeNext(c) ==
    /\ At(c, "resuming") /\ resumes[c] # <<>>
    /\ LET d == Head(resumes[c])
       IN  /\ Resume(c, d)
           /\ Goto(d, IF pc[d] = "queued" THEN "lock" ELSE "cv_resume_on")
    /\ resumes' = [resumes EXCEPT ![c] = Tail(@)]
    /\ UNCHANGED <<lockVars, closed, use, then>>

AllResumed(c) ==
    /\ At(c, "resuming") /\ resumes[c] = <<>>
    /\ Goto(c, then[c])
    /\ then' = [then EXCEPT ![c] = "idle"]
    /\ UNCHANGED <<lockVars, closed, stacks, use, resumes>>

LockStep(c) ==
    \/ Lock(c) \/ ResumeOn(c) \/ RunPosted(c) \/ BreakPosted(c) \/ GiveUp(c)
    \/ Enter(c) \/ TryLock(c) \/ ResumeNext(c) \/ AllResumed(c)
=============================================================================
