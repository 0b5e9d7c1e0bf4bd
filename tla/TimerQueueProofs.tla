-------------------------- MODULE TimerQueueProofs --------------------------
(***************************************************************************)
(* Proofs about timer_queue, for any number of timers and threads.         *)
(*                                                                         *)
(* That one thread serves the queue is not inductive: it rests on m_idle   *)
(* being down from the start of a thread to the test that ends it, on each *)
(* maker joining a thread nobody else joins, and on what a thread has in   *)
(* its own variables at each point of its loop.  IInv says these.          *)
(***************************************************************************)
EXTENDS TimerQueue, SequenceTheorems, FiniteSetTheorems, TLAPS

\* Where a thread is in work_loop, the maker of a timer, a coroutine, and ~runtime.
LoopPoints == {"none", "top", "asleep", "notified", "late", "leaving", "apply", "process", "fire",
               "over", "dead"}
OwnerPoints == {"unmade", "notify", "join", "made", "remove", "notify_removal", "gone"}
DelayPoints == {"unmade", "waiting", "running", "ended", "interrupted"}
MainPoints == {"up", "abort", "notify", "join", "queue_down", "down"}

\* Lists of requests.
Requests == Seq({"add", "remove"} \X Timers)

\* The types of timer_queue's members, of the timers and of the executors' queues.
TypeOK ==
    /\ requests \in Requests /\ batch \in Requests
    /\ abort \in BOOLEAN /\ idle \in BOOLEAN /\ worker \in Workers \cup {None}
    /\ loop \in [Workers -> LoopPoints]
    /\ timers \subseteq Timers /\ due \subseteq timers /\ firing \in Timers \cup {None}
    /\ rem \in [Timers -> 0..MaxDue]
    /\ periodic \subseteq Handles /\ cancelled \subseteq Handles
    /\ owner \in [Timers -> OwnerPoints] /\ old \in [Timers -> Workers \cup {None}]
    /\ delay \in [Delays -> DelayPoints] /\ posted \in [Timers -> 0..MaxPosted]
    /\ closed \in BOOLEAN /\ main \in MainPoints /\ terminated \in BOOLEAN

\* A thread is in its loop; and, the one of m_worker is at one of some points.
Ended == {"none", "over"}
Serves(w) == loop[w] \notin Ended
AtWork(points) == worker # None /\ loop[worker] \in points

\* m_idle is false while the thread in m_worker is in its loop, and no other is.  After
\* an abort it stays false.
ThreadInv ==
    /\ \A w \in Workers : Serves(w) => w = worker /\ ~idle
    /\ worker # None => loop[worker] # "none"
    /\ ~idle /\ ~abort => worker # None /\ Serves(worker)

\* A thread its maker has to join is over, and nobody else's.
OldInv ==
    \A t \in Timers : old[t] # None =>
        /\ old[t] # worker /\ loop[old[t]] = "over"
        /\ \A u \in Timers : u # t => old[u] # old[t]

\* What there is to serve has a thread.
HeldInv ==
    /\ timers \cup Of("add", requests) # {} => worker # None /\ Serves(worker)
    /\ abort => Of("add", requests) = {}

\* The thread's own variables are in use only while it is at them.
WorkInv ==
    /\ batch # <<>> => AtWork({"apply"})
    /\ due # {} => AtWork({"process", "fire"})
    /\ \A w \in Workers : loop[w] = "fire" => firing \in timers \ due
    /\ \A w \in Workers : loop[w] = "leaving" => abort

\* How far the end of the runtime is.
EndInv ==
    /\ abort <=> main \notin {"up", "abort"}
    /\ main \in {"notify", "join"} => worker # None
    /\ main \in {"queue_down", "down"} => worker = None
    /\ closed <=> main = "down"
    /\ ~terminated

\* A delay object is in one place until its coroutine is resumed.
DelayAt(d) ==
    /\ owner[d] = "unmade" => delay[d] = "unmade"
    /\ d \in timers \cup Of("add", requests) \cup Of("add", batch) \/ posted[d] # 0 => delay[d] = "waiting"
    /\ d \in timers => d \notin Of("add", requests) \cup Of("add", batch) /\ posted[d] = 0
    /\ d \in Of("add", requests) => d \notin Of("add", batch) /\ posted[d] = 0
    /\ d \in Of("add", batch) => posted[d] = 0
    /\ posted[d] \in {0, 1}

DelayInv == \A d \in Delays : DelayAt(d)

\* The inductive invariant.
IInv == TypeOK /\ ThreadInv /\ OldInv /\ HeldInv /\ WorkInv /\ EndInv /\ DelayInv

-----------------------------------------------------------------------------

\* The lists the queue makes.
LEMMA RequestsAre ==
    /\ <<>> \in Requests
    /\ \A s \in Requests, k \in {"add", "remove"}, t \in Timers : Append(s, <<k, t>>) \in Requests
BY DEF Requests

\* What the requests of a kind ask for: nothing in an empty list, ...
LEMMA OfEmpty == \A kind : Of(kind, <<>>) = {}
BY DEF Of

\* ... when one is appended,
LEMMA OfAppend ==
    ASSUME NEW s \in Requests, NEW k \in {"add", "remove"}, NEW t \in Timers, NEW kind
    PROVE  Of(kind, Append(s, <<k, t>>)) = Of(kind, s) \cup IF k = kind THEN {t} ELSE {}
<1> DEFINE a == Append(s, <<k, t>>)
<1>1. /\ DOMAIN s = 1..Len(s) /\ Len(s) \in Nat /\ DOMAIN a = 1..(Len(s) + 1)
      /\ \A i \in 1..Len(s) : a[i] = s[i]
      /\ a[Len(s) + 1] = <<k, t>>
  BY DEF Requests
<1> HIDE DEF a
<1>2. ASSUME NEW x \in Timers PROVE x \in Of(kind, a) <=> x \in Of(kind, s) \/ (k = kind /\ x = t)
  <2>1. x \in Of(kind, a) <=> \E i \in 1..(Len(s) + 1) : a[i] = <<kind, x>>
    BY <1>1 DEF Of
  <2>2. x \in Of(kind, s) <=> \E i \in 1..Len(s) : s[i] = <<kind, x>>
    BY <1>1 DEF Of
  <2>3. (\E i \in 1..(Len(s) + 1) : a[i] = <<kind, x>>)
          <=> (\E i \in 1..Len(s) : a[i] = <<kind, x>>) \/ a[Len(s) + 1] = <<kind, x>>
    BY <1>1
  <2>4. <<k, t>> = <<kind, x>> <=> k = kind /\ x = t
    OBVIOUS
  <2> QED BY <1>1, <2>1, <2>2, <2>3, <2>4
<1>3. Of(kind, a) \subseteq Timers /\ Of(kind, s) \subseteq Timers
  BY DEF Of
<1> QED BY <1>2, <1>3 DEF a

\* ... in particular of those to add and to remove,
LEMMA AddsAre ==
    ASSUME NEW s \in Requests, NEW t \in Timers
    PROVE  /\ Of("add", Append(s, <<"add", t>>)) = Of("add", s) \cup {t}
           /\ Of("add", Append(s, <<"remove", t>>)) = Of("add", s)
           /\ Of("remove", Append(s, <<"add", t>>)) = Of("remove", s)
           /\ Of("remove", Append(s, <<"remove", t>>)) = Of("remove", s) \cup {t}
<1>1. "add" # "remove" /\ "add" \in {"add", "remove"} /\ "remove" \in {"add", "remove"}
  OBVIOUS
<1>2. /\ Of("add", Append(s, <<"add", t>>)) = Of("add", s) \cup {t}
      /\ Of("add", Append(s, <<"remove", t>>)) = Of("add", s)
  BY <1>1, OfAppend
<1>3. /\ Of("remove", Append(s, <<"add", t>>)) = Of("remove", s)
      /\ Of("remove", Append(s, <<"remove", t>>)) = Of("remove", s) \cup {t}
  BY <1>1, OfAppend
<1> QED BY <1>2, <1>3

\* ... and when two lists are joined.
LEMMA OfConcat ==
    ASSUME NEW s \in Requests, NEW r \in Requests, NEW kind
    PROVE  Of(kind, s \o r) = Of(kind, s) \cup Of(kind, r)
<1> DEFINE c == s \o r
<1>1. /\ DOMAIN s = 1..Len(s) /\ DOMAIN r = 1..Len(r) /\ Len(s) \in Nat /\ Len(r) \in Nat
      /\ DOMAIN c = 1..(Len(s) + Len(r))
      /\ \A i \in 1..Len(s) : c[i] = s[i]
      /\ \A i \in 1..Len(r) : c[Len(s) + i] = r[i]
  BY DEF Requests
<1>2. \A i \in 1..(Len(s) + Len(r)) : i \in 1..Len(s) \/ \E j \in 1..Len(r) : i = Len(s) + j
  <2> SUFFICES ASSUME NEW i \in 1..(Len(s) + Len(r)), i \notin 1..Len(s)
               PROVE  \E j \in 1..Len(r) : i = Len(s) + j
    OBVIOUS
  <2> WITNESS i - Len(s) \in 1..Len(r)
  <2> QED BY <1>1
<1> HIDE DEF c
<1>3. ASSUME NEW x \in Timers PROVE x \in Of(kind, c) <=> x \in Of(kind, s) \/ x \in Of(kind, r)
  <2>1. x \in Of(kind, c) <=> \E i \in 1..(Len(s) + Len(r)) : c[i] = <<kind, x>>
    BY <1>1 DEF Of
  <2>2. x \in Of(kind, s) <=> \E i \in 1..Len(s) : s[i] = <<kind, x>>
    BY <1>1 DEF Of
  <2>3. x \in Of(kind, r) <=> \E i \in 1..Len(r) : r[i] = <<kind, x>>
    BY <1>1 DEF Of
  <2>4. ASSUME NEW i \in 1..Len(s) PROVE i \in 1..(Len(s) + Len(r)) /\ c[i] = s[i]
    BY <1>1
  <2>5. ASSUME NEW i \in 1..Len(r)
        PROVE  Len(s) + i \in 1..(Len(s) + Len(r)) /\ c[Len(s) + i] = r[i]
    BY <1>1
  <2>6. ASSUME NEW i \in 1..(Len(s) + Len(r))
        PROVE  (\E j \in 1..Len(s) : c[i] = s[j]) \/ (\E j \in 1..Len(r) : c[i] = r[j])
    BY <1>1, <1>2
  <2>7. ASSUME x \in Of(kind, s) PROVE x \in Of(kind, c)
    BY <2>1, <2>2, <2>4, <2>7
  <2>8. ASSUME x \in Of(kind, r) PROVE x \in Of(kind, c)
    BY <2>1, <2>3, <2>5, <2>8
  <2>9. ASSUME x \in Of(kind, c) PROVE x \in Of(kind, s) \/ x \in Of(kind, r)
    BY <2>1, <2>2, <2>3, <2>6, <2>9
  <2> QED BY <2>7, <2>8, <2>9
<1>4. /\ Of(kind, c) \subseteq Timers /\ Of(kind, s) \subseteq Timers
      /\ Of(kind, r) \subseteq Timers
  BY DEF Of
<1> QED BY <1>3, <1>4 DEF c

\* Every step keeps the types: what is fired is a timer of the queue.
LEMMA TypeNext == TypeOK /\ ThreadInv /\ WorkInv /\ [Next]_vars => TypeOK'
<1> SUFFICES ASSUME TypeOK, ThreadInv, WorkInv, [Next]_vars PROVE TypeOK'
  OBVIOUS
<1> USE KindsAssumption, BoundsAssumption DEF Timers
<1>loop. loop \in [Workers -> LoopPoints]
  BY DEF TypeOK
<1>req. requests \in Requests /\ batch \in Requests
  BY DEF TypeOK
<1>tim. timers \subseteq Timers /\ due \subseteq timers
  BY DEF TypeOK
<1>rem. rem \in [Timers -> 0..MaxDue]
  BY DEF TypeOK
<1>per. periodic \subseteq Handles
  BY DEF TypeOK
<1>own. owner \in [Timers -> OwnerPoints]
  BY DEF TypeOK
<1>del. delay \in [Delays -> DelayPoints]
  BY DEF TypeOK
<1>pos. posted \in [Timers -> 0..MaxPosted]
  BY DEF TypeOK
<1>wor. worker \in Workers \cup {None} /\ idle \in BOOLEAN
  BY DEF TypeOK
<1>old. old \in [Timers -> Workers \cup {None}]
  BY DEF TypeOK
<1>1. CASE UNCHANGED vars
  BY <1>1
     DEF vars, queue, thread, users, executors, TypeOK, LoopPoints, OwnerPoints, DelayPoints,
        MainPoints
<1>2. ASSUME NEW w \in Workers, Wait(w) PROVE TypeOK'
  <2>1. loop' \in [Workers -> LoopPoints]
    BY <1>2, <1>loop DEF Wait, LoopIs, Take, LoopPoints
  <2>2. requests' \in Requests /\ batch' \in Requests
    BY <1>2, <1>req, RequestsAre DEF Wait, Take
  <2> QED
    BY <1>2, <2>1, <2>2 DEF Wait, users, executors, TypeOK
<1>3. ASSUME NEW w \in Workers, TimePasses(w) PROVE TypeOK'
  BY <1>3
     DEF TimePasses, LoopIs, queue, users, executors, TypeOK, LoopPoints, OwnerPoints,
        DelayPoints, MainPoints
<1>4. ASSUME NEW w \in Workers, Late(w) PROVE TypeOK'
  <2>1. loop' \in [Workers -> LoopPoints]
    BY <1>4, <1>loop DEF Late, LoopIs, Take, LoopPoints
  <2>2. requests' \in Requests /\ batch' \in Requests
    BY <1>4, <1>req, RequestsAre DEF Late, Take
  <2>3. idle' \in BOOLEAN
    BY <1>4, <1>wor DEF Late
  <2> QED
    BY <1>4, <2>1, <2>2, <2>3 DEF Late, users, executors, TypeOK
<1>5. ASSUME NEW w \in Workers, Leave(w) PROVE TypeOK'
  <2>1. loop' \in [Workers -> LoopPoints]
    BY <1>5, <1>loop DEF Leave, LoopIs, LoopPoints
  <2>2. delay' \in [Delays -> DelayPoints]
    BY <1>5, <1>del DEF Leave, Interrupt, DelayPoints
  <2>3. due = {}
    BY <1>5 DEF Leave, WorkInv, ThreadInv, AtWork, Serves, Ended
  <2> QED
    BY <1>5, <2>1, <2>2, <2>3 DEF Leave, queue, users, executors, TypeOK
<1>6. ASSUME NEW w \in Workers, Apply(w) PROVE TypeOK'
  <2>1. loop' \in [Workers -> LoopPoints]
    BY <1>6, <1>loop DEF Apply, LoopIs, LoopPoints
  <2>2. timers' \subseteq Timers /\ due' \subseteq timers'
    BY <1>6, <1>tim DEF Apply, Of
  <2>3. batch' \in Requests
    BY <1>6, RequestsAre DEF Apply
  <2> QED
    BY <1>6, <2>1, <2>2, <2>3 DEF Apply, queue, users, executors, TypeOK
<1>7. ASSUME NEW w \in Workers, Examine(w) PROVE TypeOK'
  BY <1>7
     DEF Examine, LoopIs, queue, users, executors, TypeOK, LoopPoints, OwnerPoints, DelayPoints,
        MainPoints
<1>8. ASSUME NEW w \in Workers, Fire(w) PROVE TypeOK'
  <2>1. firing \in Timers /\ firing \in timers \ due
    BY <1>8, <1>tim DEF Fire, WorkInv
  <2>2. loop' \in [Workers -> LoopPoints]
    BY <1>8, <1>loop DEF Fire, LoopIs, LoopPoints
  <2>3. rem' \in [Timers -> 0..MaxDue]
    BY <1>8, <1>rem, <2>1 DEF Fire
  <2>4. posted' \in [Timers -> 0..MaxPosted]
    BY <1>8, <1>pos, <2>1 DEF Fire, executors
  <2>5. timers' \subseteq Timers /\ due \subseteq timers'
    BY <1>8, <2>1, <1>tim DEF Fire
  <2> QED
    BY <1>8, <2>1, <2>2, <2>3, <2>4, <2>5 DEF Fire, queue, users, TypeOK
<1>9. ASSUME NEW w \in Workers, EndProcess(w) PROVE TypeOK'
  BY <1>9
     DEF EndProcess, LoopIs, queue, users, executors, TypeOK, LoopPoints, OwnerPoints,
        DelayPoints, MainPoints
<1>10. ASSUME NEW t \in Timers, Make(t) PROVE TypeOK'
  <2>1. loop' \in [Workers -> LoopPoints]
    BY <1>10, <1>loop DEF Make, LoopIs, EnsureWorker, LoopPoints
  <2>2. owner' \in [Timers -> OwnerPoints]
    BY <1>10, <1>own DEF Make, OwnerIs, OwnerPoints
  <2>3. delay' \in [Delays -> DelayPoints]
    BY <1>10, <1>del DEF Make, DelayPoints
  <2>4. requests' \in Requests
    BY <1>10, <1>req, RequestsAre DEF Make
  <2>5. rem' \in [Timers -> 0..MaxDue]
    BY <1>10, <1>rem DEF Make
  <2>6. periodic' \subseteq Handles
    BY <1>10, <1>per DEF Make
  <2>7. worker' \in Workers \cup {None} /\ idle' \in BOOLEAN
    BY <1>10, <1>wor DEF Make, EnsureWorker
  <2>8. old' \in [Timers -> Workers \cup {None}]
    BY <1>10, <1>old, <1>wor DEF Make, EnsureWorker
  <2> QED
    BY <1>10, <2>1, <2>2, <2>3, <2>4, <2>5, <2>6, <2>7, <2>8 DEF Make, executors, TypeOK
<1>11. ASSUME NEW t \in Timers, MakeTooLate(t) PROVE TypeOK'
  BY <1>11
     DEF MakeTooLate, OwnerIs, Interrupt, queue, thread, executors, TypeOK, LoopPoints,
        OwnerPoints, DelayPoints, MainPoints
<1>12. ASSUME NEW t \in Timers, Notify(t) PROVE TypeOK'
  BY <1>12
     DEF Notify, OwnerIs, NotifyAll, queue, executors, Wake, TypeOK, LoopPoints, OwnerPoints,
        DelayPoints, MainPoints
<1>13. ASSUME NEW t \in Timers, Join(t) PROVE TypeOK'
  BY <1>13
     DEF Join, LoopIs, OwnerIs, queue, executors, TypeOK, LoopPoints, OwnerPoints, DelayPoints,
        MainPoints
<1>14. ASSUME NEW t \in Timers, Cancel(t) PROVE TypeOK'
  BY <1>14
     DEF Cancel, OwnerIs, queue, thread, executors, TypeOK, LoopPoints, OwnerPoints, DelayPoints,
        MainPoints
<1>15. ASSUME NEW t \in Timers, Remove(t) PROVE TypeOK'
  <2>1. requests' \in Requests
    BY <1>15, <1>req, RequestsAre DEF Remove
  <2>2. owner' \in [Timers -> OwnerPoints]
    BY <1>15, <1>own DEF Remove, OwnerIs, OwnerPoints
  <2> QED
    BY <1>15, <2>1, <2>2 DEF Remove, thread, executors, TypeOK
<1>16. ASSUME NEW t \in Timers, Execute(t) PROVE TypeOK'
  BY <1>16
     DEF Execute, queue, thread, users, TypeOK, LoopPoints, OwnerPoints, DelayPoints, MainPoints
<1>17. ASSUME NEW t \in Timers, Break(t) PROVE TypeOK'
  BY <1>17
     DEF Break, Interrupt, queue, thread, users, TypeOK, LoopPoints, OwnerPoints, DelayPoints,
        MainPoints
<1>18. ASSUME NEW d \in Delays, EndCoroutine(d) PROVE TypeOK'
  BY <1>18
     DEF EndCoroutine, queue, thread, users, executors, TypeOK, LoopPoints, OwnerPoints,
        DelayPoints, MainPoints
<1>19. CASE BeginShutDown
  BY <1>19
     DEF BeginShutDown, queue, thread, users, executors, TypeOK, LoopPoints, OwnerPoints,
        DelayPoints, MainPoints
<1>20. CASE ShutDown
  <2>1. delay' \in [Delays -> DelayPoints]
    BY <1>20, <1>del DEF ShutDown, Interrupt, DelayPoints
  <2>2. requests' \in Requests
    BY <1>20, <1>req, RequestsAre DEF ShutDown
  <2>3. main' \in MainPoints /\ abort' \in BOOLEAN
    BY <1>20 DEF ShutDown, MainPoints
  <2> QED
    BY <1>20, <2>1, <2>2, <2>3 DEF ShutDown, thread, users, executors, TypeOK
<1>21. CASE NotifyWorker
  BY <1>21
     DEF NotifyWorker, NotifyAll, queue, users, executors, Wake, TypeOK, LoopPoints, OwnerPoints,
        DelayPoints, MainPoints
<1>22. CASE JoinWorker
  BY <1>22
     DEF JoinWorker, LoopIs, users, executors, TypeOK, LoopPoints, OwnerPoints, DelayPoints,
        MainPoints
<1>23. CASE ShutDownExecutors
  BY <1>23
     DEF ShutDownExecutors, queue, thread, users, TypeOK, LoopPoints, OwnerPoints, DelayPoints,
        MainPoints
<1>24. CASE Tick
  BY <1>24
     DEF Tick, queue, thread, users, executors, TypeOK, LoopPoints, OwnerPoints, DelayPoints,
        MainPoints
<1> QED
  BY <1>1, <1>2, <1>3, <1>4, <1>5, <1>6, <1>7, <1>8, <1>9, <1>10, <1>11, <1>12, <1>13, <1>14,
     <1>15, <1>16, <1>17, <1>18, <1>19, <1>20, <1>21, <1>22, <1>23, <1>24
     DEF Next, WorkerStep, OwnerStep, ExecutorStep, MainStep, Over

\* A thread is started only by a maker that finds m_idle up, and m_idle goes up only
\* with the last step of a thread; who joins a thread is alone in doing so.
LEMMA ThreadNext ==
    TypeOK /\ ThreadInv /\ OldInv /\ WorkInv /\ EndInv /\ [Next]_vars => ThreadInv' /\ OldInv'
<1> SUFFICES ASSUME TypeOK, ThreadInv, OldInv, WorkInv, EndInv, [Next]_vars
             PROVE  ThreadInv' /\ OldInv'
  OBVIOUS
<1> USE KindsAssumption, BoundsAssumption DEF Timers
<1>loop. loop \in [Workers -> LoopPoints]
  BY DEF TypeOK
<1>wor. worker \in Workers \cup {None} /\ idle \in BOOLEAN
  BY DEF TypeOK
<1>old. old \in [Timers -> Workers \cup {None}]
  BY DEF TypeOK
<1>1. CASE UNCHANGED vars
  BY <1>1, <1>loop, <1>wor, <1>old
     DEF vars, queue, thread, users, executors, ThreadInv, OldInv, Serves, Ended
<1>2. ASSUME NEW w \in Workers, Wait(w) PROVE ThreadInv' /\ OldInv'
  BY <1>2, <1>loop, <1>wor, <1>old
     DEF Wait, LoopIs, Take, Called, users, executors, ThreadInv, OldInv, Serves, Ended
<1>3. ASSUME NEW w \in Workers, TimePasses(w) PROVE ThreadInv' /\ OldInv'
  BY <1>3, <1>loop, <1>wor, <1>old
     DEF TimePasses, LoopIs, queue, users, executors, ThreadInv, OldInv, Serves, Ended
<1>4. ASSUME NEW w \in Workers, Late(w) PROVE ThreadInv' /\ OldInv'
  BY <1>4, <1>loop, <1>wor, <1>old
     DEF Late, LoopIs, Take, Called, users, executors, ThreadInv, OldInv, Serves, Ended
<1>5. ASSUME NEW w \in Workers, Leave(w) PROVE ThreadInv' /\ OldInv'
  BY <1>5, <1>loop, <1>wor, <1>old
     DEF Leave, LoopIs, Interrupt, queue, users, executors, ThreadInv, OldInv, Serves, Ended,
        WorkInv
<1>6. ASSUME NEW w \in Workers, Apply(w) PROVE ThreadInv' /\ OldInv'
  BY <1>6, <1>loop, <1>wor, <1>old
     DEF Apply, LoopIs, queue, users, executors, ThreadInv, OldInv, Serves, Ended
<1>7. ASSUME NEW w \in Workers, Examine(w) PROVE ThreadInv' /\ OldInv'
  BY <1>7, <1>loop, <1>wor, <1>old
     DEF Examine, LoopIs, queue, users, executors, ThreadInv, OldInv, Serves, Ended
<1>8. ASSUME NEW w \in Workers, Fire(w) PROVE ThreadInv' /\ OldInv'
  BY <1>8, <1>loop, <1>wor, <1>old
     DEF Fire, LoopIs, queue, users, ThreadInv, OldInv, Serves, Ended, EndInv
<1>9. ASSUME NEW w \in Workers, EndProcess(w) PROVE ThreadInv' /\ OldInv'
  BY <1>9, <1>loop, <1>wor, <1>old
     DEF EndProcess, LoopIs, queue, users, executors, ThreadInv, OldInv, Serves, Ended
<1>10. ASSUME NEW t \in Timers, Make(t) PROVE ThreadInv' /\ OldInv'
  BY <1>10, <1>loop, <1>wor, <1>old
     DEF Make, OwnerIs, EnsureWorker, executors, LoopIs, ThreadInv, OldInv, Serves, Ended
<1>11. ASSUME NEW t \in Timers, MakeTooLate(t) PROVE ThreadInv' /\ OldInv'
  BY <1>11, <1>loop, <1>wor, <1>old
     DEF MakeTooLate, OwnerIs, Interrupt, queue, thread, executors, ThreadInv, OldInv, Serves,
        Ended
<1>12. ASSUME NEW t \in Timers, Notify(t) PROVE ThreadInv' /\ OldInv'
  BY <1>12, <1>loop, <1>wor, <1>old
     DEF Notify, OwnerIs, NotifyAll, queue, executors, Wake, ThreadInv, OldInv, Serves, Ended
<1>13. ASSUME NEW t \in Timers, Join(t) PROVE ThreadInv' /\ OldInv'
  BY <1>13, <1>loop, <1>wor, <1>old
     DEF Join, LoopIs, OwnerIs, queue, executors, ThreadInv, OldInv, Serves, Ended
<1>14. ASSUME NEW t \in Timers, Cancel(t) PROVE ThreadInv' /\ OldInv'
  BY <1>14, <1>loop, <1>wor, <1>old
     DEF Cancel, OwnerIs, queue, thread, executors, ThreadInv, OldInv, Serves, Ended
<1>15. ASSUME NEW t \in Timers, Remove(t) PROVE ThreadInv' /\ OldInv'
  BY <1>15, <1>loop, <1>wor, <1>old
     DEF Remove, OwnerIs, thread, executors, ThreadInv, OldInv, Serves, Ended
<1>16. ASSUME NEW t \in Timers, Execute(t) PROVE ThreadInv' /\ OldInv'
  BY <1>16, <1>loop, <1>wor, <1>old
     DEF Execute, queue, thread, users, ThreadInv, OldInv, Serves, Ended
<1>17. ASSUME NEW t \in Timers, Break(t) PROVE ThreadInv' /\ OldInv'
  BY <1>17, <1>loop, <1>wor, <1>old
     DEF Break, Interrupt, queue, thread, users, ThreadInv, OldInv, Serves, Ended
<1>18. ASSUME NEW d \in Delays, EndCoroutine(d) PROVE ThreadInv' /\ OldInv'
  BY <1>18, <1>loop, <1>wor, <1>old
     DEF EndCoroutine, queue, thread, users, executors, ThreadInv, OldInv, Serves, Ended
<1>19. CASE BeginShutDown
  BY <1>19, <1>loop, <1>wor, <1>old
     DEF BeginShutDown, queue, thread, users, executors, ThreadInv, OldInv, Serves, Ended
<1>20. CASE ShutDown
  BY <1>20, <1>loop, <1>wor, <1>old
     DEF ShutDown, Interrupt, thread, users, executors, ThreadInv, OldInv, Serves, Ended
<1>21. CASE NotifyWorker
  BY <1>21, <1>loop, <1>wor, <1>old
     DEF NotifyWorker, NotifyAll, queue, users, executors, Wake, ThreadInv, OldInv, Serves,
        Ended
<1>22. CASE JoinWorker
  BY <1>22, <1>loop, <1>wor, <1>old
     DEF JoinWorker, LoopIs, users, executors, ThreadInv, OldInv, Serves, Ended, EndInv
<1>23. CASE ShutDownExecutors
  BY <1>23, <1>loop, <1>wor, <1>old
     DEF ShutDownExecutors, queue, thread, users, ThreadInv, OldInv, Serves, Ended
<1>24. CASE Tick
  BY <1>24, <1>loop, <1>wor, <1>old
     DEF Tick, queue, thread, users, executors, ThreadInv, OldInv, Serves, Ended
<1> QED
  BY <1>1, <1>2, <1>3, <1>4, <1>5, <1>6, <1>7, <1>8, <1>9, <1>10, <1>11, <1>12, <1>13, <1>14,
     <1>15, <1>16, <1>17, <1>18, <1>19, <1>20, <1>21, <1>22, <1>23, <1>24
     DEF Next, WorkerStep, OwnerStep, ExecutorStep, MainStep, Over

\* A request comes with a thread, and a thread ends only without timers and requests
\* or, on an abort, after the requests were dropped.
LEMMA HeldNext ==
    TypeOK /\ ThreadInv /\ OldInv /\ HeldInv /\ WorkInv /\ [Next]_vars => HeldInv'
<1> SUFFICES ASSUME TypeOK, ThreadInv, OldInv, HeldInv, WorkInv, [Next]_vars PROVE HeldInv'
  OBVIOUS
<1> USE KindsAssumption, BoundsAssumption DEF Timers
<1>loop. loop \in [Workers -> LoopPoints]
  BY DEF TypeOK
<1>wor. worker \in Workers \cup {None} /\ idle \in BOOLEAN
  BY DEF TypeOK
<1>old. old \in [Timers -> Workers \cup {None}]
  BY DEF TypeOK
<1>req. requests \in Requests /\ batch \in Requests
  BY DEF TypeOK
<1>1. CASE UNCHANGED vars
  BY <1>1, <1>loop, <1>wor, <1>old DEF vars, queue, thread, users, executors, HeldInv, Serves, Ended
<1>2. ASSUME NEW w \in Workers, Wait(w) PROVE HeldInv'
  BY <1>2, <1>loop, <1>wor, <1>old, OfEmpty
     DEF Wait, LoopIs, Take, Called, users, executors, HeldInv, Serves, Ended, ThreadInv
<1>3. ASSUME NEW w \in Workers, TimePasses(w) PROVE HeldInv'
  BY <1>3, <1>loop, <1>wor, <1>old
     DEF TimePasses, LoopIs, queue, users, executors, HeldInv, Serves, Ended
<1>4. ASSUME NEW w \in Workers, Late(w) PROVE HeldInv'
  <2>1. CASE timers = {} /\ ~Called
    BY <1>4, <2>1, OfEmpty DEF Late, LoopIs, users, executors, Called, HeldInv
  <2>2. CASE timers # {} \/ Called
    <3>1. w = worker /\ worker' = worker /\ worker # None /\ timers' = timers /\ abort' = abort
      BY <1>4, KindsAssumption DEF Late, ThreadInv, Serves, Ended
    <3>2. Serves(worker)'
      BY <1>4, <2>2, <3>1, <1>loop DEF Late, LoopIs, Take, Serves, Ended
    <3>3. abort => requests' = requests
      BY <1>4, <2>2 DEF Late, Take, Called
    <3> QED BY <3>1, <3>2, <3>3 DEF HeldInv
  <2> QED BY <2>1, <2>2
<1>5. ASSUME NEW w \in Workers, Leave(w) PROVE HeldInv'
  BY <1>5, <1>loop, <1>wor, <1>old, OfEmpty
     DEF Leave, LoopIs, Interrupt, queue, users, executors, HeldInv, Serves, Ended, WorkInv
<1>6. ASSUME NEW w \in Workers, Apply(w) PROVE HeldInv'
  BY <1>6, <1>loop, <1>wor, <1>old
     DEF Apply, LoopIs, queue, users, executors, HeldInv, Serves, Ended, ThreadInv
<1>7. ASSUME NEW w \in Workers, Examine(w) PROVE HeldInv'
  BY <1>7, <1>loop, <1>wor, <1>old
     DEF Examine, LoopIs, queue, users, executors, HeldInv, Serves, Ended
<1>8. ASSUME NEW w \in Workers, Fire(w) PROVE HeldInv'
  BY <1>8, <1>loop, <1>wor, <1>old DEF Fire, LoopIs, queue, users, HeldInv, Serves, Ended
<1>9. ASSUME NEW w \in Workers, EndProcess(w) PROVE HeldInv'
  BY <1>9, <1>loop, <1>wor, <1>old
     DEF EndProcess, LoopIs, queue, users, executors, HeldInv, Serves, Ended
<1>10. ASSUME NEW t \in Timers, Make(t) PROVE HeldInv'
  <2>1. /\ Of("add", requests') = Of("add", requests) \cup {t}
        /\ batch' = batch /\ timers' = timers
    BY <1>10, <1>req, AddsAre DEF Make
  <2>2. worker' # None /\ Serves(worker)' /\ ~abort'
    BY <1>10, <1>loop, <1>wor, KindsAssumption
       DEF Make, EnsureWorker, LoopIs, OwnerIs, ThreadInv, Serves, Ended
  <2> QED BY <2>2 DEF HeldInv
<1>11. ASSUME NEW t \in Timers, MakeTooLate(t) PROVE HeldInv'
  BY <1>11, <1>loop, <1>wor, <1>old
     DEF MakeTooLate, OwnerIs, Interrupt, queue, thread, executors, HeldInv, Serves, Ended
<1>12. ASSUME NEW t \in Timers, Notify(t) PROVE HeldInv'
  BY <1>12, <1>loop, <1>wor, <1>old
     DEF Notify, OwnerIs, NotifyAll, queue, executors, Wake, HeldInv, Serves, Ended
<1>13. ASSUME NEW t \in Timers, Join(t) PROVE HeldInv'
  BY <1>13, <1>loop, <1>wor, <1>old
     DEF Join, LoopIs, OwnerIs, queue, executors, HeldInv, Serves, Ended
<1>14. ASSUME NEW t \in Timers, Cancel(t) PROVE HeldInv'
  BY <1>14, <1>loop, <1>wor, <1>old
     DEF Cancel, OwnerIs, queue, thread, executors, HeldInv, Serves, Ended
<1>15. ASSUME NEW t \in Timers, Remove(t) PROVE HeldInv'
  <2>1. Of("add", requests') = Of("add", requests)
    BY <1>15, <1>req, AddsAre DEF Remove
  <2> QED BY <1>15, <2>1 DEF Remove, thread, HeldInv, Serves
<1>16. ASSUME NEW t \in Timers, Execute(t) PROVE HeldInv'
  BY <1>16, <1>loop, <1>wor, <1>old DEF Execute, queue, thread, users, HeldInv, Serves, Ended
<1>17. ASSUME NEW t \in Timers, Break(t) PROVE HeldInv'
  BY <1>17, <1>loop, <1>wor, <1>old
     DEF Break, Interrupt, queue, thread, users, HeldInv, Serves, Ended
<1>18. ASSUME NEW d \in Delays, EndCoroutine(d) PROVE HeldInv'
  BY <1>18, <1>loop, <1>wor, <1>old
     DEF EndCoroutine, queue, thread, users, executors, HeldInv, Serves, Ended
<1>19. CASE BeginShutDown
  BY <1>19, <1>loop, <1>wor, <1>old
     DEF BeginShutDown, queue, thread, users, executors, HeldInv, Serves, Ended
<1>20. CASE ShutDown
  <2>1. UNCHANGED <<worker, loop, timers>> /\ Of("add", requests') = {}
    BY <1>20, OfEmpty DEF ShutDown, thread, HeldInv
  <2> QED BY <2>1 DEF HeldInv, Serves
<1>21. CASE NotifyWorker
  BY <1>21, <1>loop, <1>wor, <1>old
     DEF NotifyWorker, NotifyAll, queue, users, executors, Wake, HeldInv, Serves, Ended
<1>22. CASE JoinWorker
  BY <1>22, <1>loop, <1>wor, <1>old DEF JoinWorker, LoopIs, users, executors, HeldInv, Serves, Ended
<1>23. CASE ShutDownExecutors
  BY <1>23, <1>loop, <1>wor, <1>old
     DEF ShutDownExecutors, queue, thread, users, HeldInv, Serves, Ended
<1>24. CASE Tick
  BY <1>24, <1>loop, <1>wor, <1>old
     DEF Tick, queue, thread, users, executors, HeldInv, Serves, Ended
<1> QED
  BY <1>1, <1>2, <1>3, <1>4, <1>5, <1>6, <1>7, <1>8, <1>9, <1>10, <1>11, <1>12, <1>13, <1>14,
     <1>15, <1>16, <1>17, <1>18, <1>19, <1>20, <1>21, <1>22, <1>23, <1>24
     DEF Next, WorkerStep, OwnerStep, ExecutorStep, MainStep, Over

\* What a thread has taken it has dealt with when it comes to wait again.
LEMMA WorkNext == TypeOK /\ ThreadInv /\ WorkInv /\ EndInv /\ [Next]_vars => WorkInv'
<1> SUFFICES ASSUME TypeOK, ThreadInv, WorkInv, EndInv, [Next]_vars PROVE WorkInv'
  OBVIOUS
<1> USE KindsAssumption, BoundsAssumption DEF Timers
<1>loop. loop \in [Workers -> LoopPoints]
  BY DEF TypeOK
<1>wor. worker \in Workers \cup {None} /\ idle \in BOOLEAN
  BY DEF TypeOK
<1>tim. timers \subseteq Timers /\ due \subseteq timers
  BY DEF TypeOK
<1>1. CASE UNCHANGED vars
  BY <1>1, <1>loop, <1>wor, <1>tim
     DEF vars, queue, thread, users, executors, WorkInv, AtWork, ThreadInv, Serves, Ended
<1>2. ASSUME NEW w \in Workers, Wait(w) PROVE WorkInv'
  BY <1>2, <1>loop, <1>wor, <1>tim
     DEF Wait, LoopIs, Take, Called, users, executors, WorkInv, AtWork, ThreadInv, Serves, Ended
<1>3. ASSUME NEW w \in Workers, TimePasses(w) PROVE WorkInv'
  BY <1>3, <1>loop, <1>wor, <1>tim
     DEF TimePasses, LoopIs, queue, users, executors, WorkInv, AtWork, ThreadInv, Serves, Ended
<1>4. ASSUME NEW w \in Workers, Late(w) PROVE WorkInv'
  BY <1>4, <1>loop, <1>wor, <1>tim
     DEF Late, LoopIs, Take, Called, users, executors, WorkInv, AtWork, ThreadInv, Serves, Ended
<1>5. ASSUME NEW w \in Workers, Leave(w) PROVE WorkInv'
  BY <1>5, <1>loop, <1>wor, <1>tim
     DEF Leave, LoopIs, Interrupt, queue, users, executors, WorkInv, AtWork, ThreadInv, Serves,
        Ended
<1>6. ASSUME NEW w \in Workers, Apply(w) PROVE WorkInv'
  BY <1>6, <1>loop, <1>wor, <1>tim
     DEF Apply, LoopIs, queue, users, executors, WorkInv, AtWork, ThreadInv, Serves, Ended
<1>7. ASSUME NEW w \in Workers, Examine(w) PROVE WorkInv'
  BY <1>7, <1>loop, <1>wor, <1>tim
     DEF Examine, LoopIs, queue, users, executors, WorkInv, AtWork, ThreadInv, Serves, Ended
<1>8. ASSUME NEW w \in Workers, Fire(w) PROVE WorkInv'
  <2>1. /\ loop[w] = "fire" /\ w = worker /\ worker' = worker /\ batch = <<>> /\ batch' = <<>>
        /\ due' = due /\ abort' = abort
    BY <1>8, KindsAssumption DEF Fire, queue, WorkInv, AtWork, ThreadInv, Serves, Ended
  <2>2. loop' = [loop EXCEPT ![w] = "process"]
    BY <1>8 DEF Fire, LoopIs, EndInv, ThreadInv, Serves, Ended
  <2> QED BY <2>1, <2>2, <1>loop, KindsAssumption DEF WorkInv, AtWork, ThreadInv, Serves, Ended
<1>9. ASSUME NEW w \in Workers, EndProcess(w) PROVE WorkInv'
  BY <1>9, <1>loop, <1>wor, <1>tim
     DEF EndProcess, LoopIs, queue, users, executors, WorkInv, AtWork, ThreadInv, Serves, Ended
<1>10. ASSUME NEW t \in Timers, Make(t) PROVE WorkInv'
  BY <1>10, <1>loop, <1>wor, <1>tim
     DEF Make, OwnerIs, EnsureWorker, executors, LoopIs, WorkInv, AtWork, ThreadInv, Serves,
        Ended
<1>11. ASSUME NEW t \in Timers, MakeTooLate(t) PROVE WorkInv'
  BY <1>11, <1>loop, <1>wor, <1>tim
     DEF MakeTooLate, OwnerIs, Interrupt, queue, thread, executors, WorkInv, AtWork, ThreadInv,
        Serves, Ended
<1>12. ASSUME NEW t \in Timers, Notify(t) PROVE WorkInv'
  BY <1>12, <1>loop, <1>wor, <1>tim
     DEF Notify, OwnerIs, NotifyAll, queue, executors, Wake, WorkInv, AtWork, ThreadInv, Serves,
        Ended
<1>13. ASSUME NEW t \in Timers, Join(t) PROVE WorkInv'
  BY <1>13, <1>loop, <1>wor, <1>tim
     DEF Join, LoopIs, OwnerIs, queue, executors, WorkInv, AtWork, ThreadInv, Serves, Ended
<1>14. ASSUME NEW t \in Timers, Cancel(t) PROVE WorkInv'
  BY <1>14, <1>loop, <1>wor, <1>tim
     DEF Cancel, OwnerIs, queue, thread, executors, WorkInv, AtWork, ThreadInv, Serves, Ended
<1>15. ASSUME NEW t \in Timers, Remove(t) PROVE WorkInv'
  BY <1>15, <1>loop, <1>wor, <1>tim
     DEF Remove, OwnerIs, thread, executors, WorkInv, AtWork, ThreadInv, Serves, Ended
<1>16. ASSUME NEW t \in Timers, Execute(t) PROVE WorkInv'
  BY <1>16, <1>loop, <1>wor, <1>tim
     DEF Execute, queue, thread, users, WorkInv, AtWork, ThreadInv, Serves, Ended
<1>17. ASSUME NEW t \in Timers, Break(t) PROVE WorkInv'
  BY <1>17, <1>loop, <1>wor, <1>tim
     DEF Break, Interrupt, queue, thread, users, WorkInv, AtWork, ThreadInv, Serves, Ended
<1>18. ASSUME NEW d \in Delays, EndCoroutine(d) PROVE WorkInv'
  BY <1>18, <1>loop, <1>wor, <1>tim
     DEF EndCoroutine, queue, thread, users, executors, WorkInv, AtWork, ThreadInv, Serves,
        Ended
<1>19. CASE BeginShutDown
  BY <1>19, <1>loop, <1>wor, <1>tim
     DEF BeginShutDown, queue, thread, users, executors, WorkInv, AtWork, ThreadInv, Serves,
        Ended
<1>20. CASE ShutDown
  BY <1>20, <1>loop, <1>wor, <1>tim
     DEF ShutDown, Interrupt, thread, users, executors, WorkInv, AtWork, ThreadInv, Serves,
        Ended
<1>21. CASE NotifyWorker
  BY <1>21, <1>loop, <1>wor, <1>tim
     DEF NotifyWorker, NotifyAll, queue, users, executors, Wake, WorkInv, AtWork, ThreadInv,
        Serves, Ended
<1>22. CASE JoinWorker
  BY <1>22, <1>loop, <1>wor, <1>tim
     DEF JoinWorker, LoopIs, users, executors, WorkInv, AtWork, ThreadInv, Serves, Ended
<1>23. CASE ShutDownExecutors
  BY <1>23, <1>loop, <1>wor, <1>tim
     DEF ShutDownExecutors, queue, thread, users, WorkInv, AtWork, ThreadInv, Serves, Ended
<1>24. CASE Tick
  BY <1>24, <1>loop, <1>wor, <1>tim
     DEF Tick, queue, thread, users, executors, WorkInv, AtWork, ThreadInv, Serves, Ended
<1> QED
  BY <1>1, <1>2, <1>3, <1>4, <1>5, <1>6, <1>7, <1>8, <1>9, <1>10, <1>11, <1>12, <1>13, <1>14,
     <1>15, <1>16, <1>17, <1>18, <1>19, <1>20, <1>21, <1>22, <1>23, <1>24
     DEF Next, WorkerStep, OwnerStep, ExecutorStep, MainStep, Over

\* ~runtime shuts the queue down before the executors, and joins its thread first.
LEMMA EndNext == TypeOK /\ ThreadInv /\ WorkInv /\ EndInv /\ [Next]_vars => EndInv'
<1> SUFFICES ASSUME TypeOK, ThreadInv, WorkInv, EndInv, [Next]_vars PROVE EndInv'
  OBVIOUS
<1> USE KindsAssumption, BoundsAssumption DEF Timers
<1>wor. worker \in Workers \cup {None} /\ idle \in BOOLEAN
  BY DEF TypeOK
<1>1. CASE UNCHANGED vars
  BY <1>1, <1>wor DEF vars, queue, thread, users, executors, EndInv
<1>2. ASSUME NEW w \in Workers, Wait(w) PROVE EndInv'
  BY <1>2, <1>wor DEF Wait, LoopIs, Take, Called, users, executors, EndInv
<1>3. ASSUME NEW w \in Workers, TimePasses(w) PROVE EndInv'
  BY <1>3, <1>wor DEF TimePasses, LoopIs, queue, users, executors, EndInv
<1>4. ASSUME NEW w \in Workers, Late(w) PROVE EndInv'
  BY <1>4, <1>wor DEF Late, LoopIs, Take, Called, users, executors, EndInv
<1>5. ASSUME NEW w \in Workers, Leave(w) PROVE EndInv'
  BY <1>5, <1>wor DEF Leave, LoopIs, Interrupt, queue, users, executors, EndInv
<1>6. ASSUME NEW w \in Workers, Apply(w) PROVE EndInv'
  BY <1>6, <1>wor DEF Apply, LoopIs, queue, users, executors, EndInv
<1>7. ASSUME NEW w \in Workers, Examine(w) PROVE EndInv'
  BY <1>7, <1>wor DEF Examine, LoopIs, queue, users, executors, EndInv
<1>8. ASSUME NEW w \in Workers, Fire(w) PROVE EndInv'
  BY <1>8, <1>wor DEF Fire, LoopIs, queue, users, EndInv, ThreadInv, Serves, Ended
<1>9. ASSUME NEW w \in Workers, EndProcess(w) PROVE EndInv'
  BY <1>9, <1>wor DEF EndProcess, LoopIs, queue, users, executors, EndInv
<1>10. ASSUME NEW t \in Timers, Make(t) PROVE EndInv'
  BY <1>10, <1>wor DEF Make, OwnerIs, EnsureWorker, executors, LoopIs, EndInv
<1>11. ASSUME NEW t \in Timers, MakeTooLate(t) PROVE EndInv'
  BY <1>11, <1>wor DEF MakeTooLate, OwnerIs, Interrupt, queue, thread, executors, EndInv
<1>12. ASSUME NEW t \in Timers, Notify(t) PROVE EndInv'
  BY <1>12, <1>wor DEF Notify, OwnerIs, NotifyAll, queue, executors, Wake, EndInv
<1>13. ASSUME NEW t \in Timers, Join(t) PROVE EndInv'
  BY <1>13, <1>wor DEF Join, LoopIs, OwnerIs, queue, executors, EndInv
<1>14. ASSUME NEW t \in Timers, Cancel(t) PROVE EndInv'
  BY <1>14, <1>wor DEF Cancel, OwnerIs, queue, thread, executors, EndInv
<1>15. ASSUME NEW t \in Timers, Remove(t) PROVE EndInv'
  BY <1>15, <1>wor DEF Remove, OwnerIs, thread, executors, EndInv
<1>16. ASSUME NEW t \in Timers, Execute(t) PROVE EndInv'
  BY <1>16, <1>wor DEF Execute, queue, thread, users, EndInv
<1>17. ASSUME NEW t \in Timers, Break(t) PROVE EndInv'
  BY <1>17, <1>wor DEF Break, Interrupt, queue, thread, users, EndInv
<1>18. ASSUME NEW d \in Delays, EndCoroutine(d) PROVE EndInv'
  BY <1>18, <1>wor DEF EndCoroutine, queue, thread, users, executors, EndInv
<1>19. CASE BeginShutDown
  BY <1>19, <1>wor DEF BeginShutDown, queue, thread, users, executors, EndInv
<1>20. CASE ShutDown
  BY <1>20, <1>wor DEF ShutDown, Interrupt, thread, users, executors, EndInv
<1>21. CASE NotifyWorker
  BY <1>21, <1>wor DEF NotifyWorker, NotifyAll, queue, users, executors, Wake, EndInv
<1>22. CASE JoinWorker
  BY <1>22, <1>wor DEF JoinWorker, LoopIs, users, executors, EndInv
<1>23. CASE ShutDownExecutors
  BY <1>23, <1>wor DEF ShutDownExecutors, queue, thread, users, EndInv
<1>24. CASE Tick
  BY <1>24, <1>wor DEF Tick, queue, thread, users, executors, EndInv
<1> QED
  BY <1>1, <1>2, <1>3, <1>4, <1>5, <1>6, <1>7, <1>8, <1>9, <1>10, <1>11, <1>12, <1>13, <1>14,
     <1>15, <1>16, <1>17, <1>18, <1>19, <1>20, <1>21, <1>22, <1>23, <1>24
     DEF Next, WorkerStep, OwnerStep, ExecutorStep, MainStep, Over

\* A delay object goes from the requests to the thread, to its timers and to the
\* executor, and is posted once.
LEMMA DelayNext ==
    TypeOK /\ ThreadInv /\ WorkInv /\ EndInv /\ DelayInv /\ [Next]_vars => DelayInv'
<1> SUFFICES ASSUME TypeOK, ThreadInv, WorkInv, EndInv, DelayInv, [Next]_vars PROVE DelayInv'
  OBVIOUS
<1> SUFFICES ASSUME NEW x \in Delays PROVE DelayAt(x)'
  BY DEF DelayInv
<1> USE KindsAssumption, BoundsAssumption DEF Timers
<1>tim. timers \subseteq Timers /\ due \subseteq timers
  BY DEF TypeOK
<1>own. owner \in [Timers -> OwnerPoints]
  BY DEF TypeOK
<1>del. delay \in [Delays -> DelayPoints]
  BY DEF TypeOK
<1>pos. posted \in [Timers -> 0..MaxPosted]
  BY DEF TypeOK
<1>req. requests \in Requests /\ batch \in Requests
  BY DEF TypeOK
<1>per. periodic \subseteq Handles
  BY DEF TypeOK
<1>dly. DelayAt(x)
  BY DEF DelayInv
<1>1. CASE UNCHANGED vars
  BY <1>1, <1>tim, <1>own, <1>del, <1>pos, <1>dly DEF vars, queue, thread, users, executors, DelayAt
<1>2. ASSUME NEW w \in Workers, Wait(w) PROVE DelayAt(x)'
  <2>1. batch = <<>> /\ w = worker
    BY <1>2, KindsAssumption DEF Wait, WorkInv, AtWork, ThreadInv, Serves, Ended
  <2>2. \/ requests' = requests /\ batch' = batch
        \/ requests' = <<>> /\ batch' = requests
    BY <1>2 DEF Wait, Take
  <2>3. UNCHANGED <<timers, owner, delay, posted>>
    BY <1>2 DEF Wait, users, executors
  <2>4. \/ UNCHANGED <<Of("add", requests), Of("add", batch)>>
        \/ Of("add", requests') = {} /\ Of("add", batch') = Of("add", requests)
    BY <2>2, OfEmpty
  <2> QED BY <2>1, <2>3, <2>4, OfEmpty, <1>dly DEF DelayAt
<1>3. ASSUME NEW w \in Workers, TimePasses(w) PROVE DelayAt(x)'
  BY <1>3, <1>tim, <1>own, <1>del, <1>pos, <1>dly
     DEF TimePasses, LoopIs, queue, users, executors, DelayAt
<1>4. ASSUME NEW w \in Workers, Late(w) PROVE DelayAt(x)'
  <2>1. batch = <<>> /\ w = worker
    BY <1>4, KindsAssumption DEF Late, WorkInv, AtWork, ThreadInv, Serves, Ended
  <2>2. \/ requests' = requests /\ batch' = batch
        \/ requests' = <<>> /\ batch' = requests
    BY <1>4 DEF Late, Take
  <2>3. UNCHANGED <<timers, owner, delay, posted>>
    BY <1>4 DEF Late, users, executors
  <2>4. \/ UNCHANGED <<Of("add", requests), Of("add", batch)>>
        \/ Of("add", requests') = {} /\ Of("add", batch') = Of("add", requests)
    BY <2>2, OfEmpty
  <2> QED BY <2>1, <2>3, <2>4, OfEmpty, <1>dly DEF DelayAt
<1>5. ASSUME NEW w \in Workers, Leave(w) PROVE DelayAt(x)'
  BY <1>5, <1>tim, <1>own, <1>del, <1>pos, <1>dly
     DEF Leave, LoopIs, Interrupt, queue, users, executors, DelayAt
<1>6. ASSUME NEW w \in Workers, Apply(w) PROVE DelayAt(x)'
  <2>1. /\ timers' \subseteq timers \cup Of("add", batch) /\ Of("add", batch') = {}
        /\ UNCHANGED <<requests, owner, delay, posted>>
    BY <1>6, OfEmpty DEF Apply, queue, users, executors
  <2>2. Of("add", requests') = Of("add", requests)
    BY <2>1
  <2> QED BY <2>1, <2>2, <1>dly DEF DelayAt
<1>7. ASSUME NEW w \in Workers, Examine(w) PROVE DelayAt(x)'
  BY <1>7, <1>tim, <1>own, <1>del, <1>pos, <1>dly
     DEF Examine, LoopIs, queue, users, executors, DelayAt
<1>8. ASSUME NEW w \in Workers, Fire(w) PROVE DelayAt(x)'
  <2>1. firing \in timers /\ firing \in Timers /\ UNCHANGED <<requests, batch, owner, delay>>
    BY <1>8, <1>tim DEF Fire, WorkInv, queue, users
  <2>2. Of("add", requests') = Of("add", requests) /\ Of("add", batch') = Of("add", batch)
    BY <2>1
  <2>3. \/ timers' = timers /\ posted' = posted
        \/ /\ timers' = IF firing \in periodic THEN timers ELSE timers \ {firing}
           /\ posted' = [posted EXCEPT ![firing] = posted[firing] + 1]
    BY <1>8 DEF Fire, executors
  <2>4. x \notin periodic
    BY <1>per, KindsAssumption
  <2>5. CASE x = firing
    BY <2>1, <2>2, <2>3, <2>4, <2>5, <1>pos, <1>dly DEF DelayAt
  <2>6. CASE x # firing
    BY <2>1, <2>2, <2>3, <2>6, <1>pos, <1>dly DEF DelayAt
  <2> QED BY <2>5, <2>6
<1>9. ASSUME NEW w \in Workers, EndProcess(w) PROVE DelayAt(x)'
  BY <1>9, <1>tim, <1>own, <1>del, <1>pos, <1>dly
     DEF EndProcess, LoopIs, queue, users, executors, DelayAt
<1>10. ASSUME NEW t \in Timers, Make(t) PROVE DelayAt(x)'
  <2>1. /\ Of("add", requests') = Of("add", requests) \cup {t}
        /\ Of("add", batch') = Of("add", batch) /\ timers' = timers /\ posted' = posted
    BY <1>10, <1>req, AddsAre DEF Make, executors
  <2>2. /\ owner[t] = "unmade" /\ owner' = [owner EXCEPT ![t] = "notify"]
        /\ delay'[x] = IF x = t THEN "waiting" ELSE delay[x]
    BY <1>10 DEF Make, OwnerIs
  <2> QED BY <2>1, <2>2, <1>own, <1>del, <1>pos, <1>dly DEF DelayAt
<1>11. ASSUME NEW t \in Timers, MakeTooLate(t) PROVE DelayAt(x)'
  BY <1>11, <1>tim, <1>own, <1>del, <1>pos, <1>dly
     DEF MakeTooLate, OwnerIs, Interrupt, queue, thread, executors, DelayAt
<1>12. ASSUME NEW t \in Timers, Notify(t) PROVE DelayAt(x)'
  BY <1>12, <1>tim, <1>own, <1>del, <1>pos, <1>dly
     DEF Notify, OwnerIs, NotifyAll, queue, executors, Wake, DelayAt
<1>13. ASSUME NEW t \in Timers, Join(t) PROVE DelayAt(x)'
  BY <1>13, <1>tim, <1>own, <1>del, <1>pos, <1>dly
     DEF Join, LoopIs, OwnerIs, queue, executors, DelayAt
<1>14. ASSUME NEW t \in Timers, Cancel(t) PROVE DelayAt(x)'
  BY <1>14, <1>tim, <1>own, <1>del, <1>pos, <1>dly
     DEF Cancel, OwnerIs, queue, thread, executors, DelayAt
<1>15. ASSUME NEW t \in Timers, Remove(t) PROVE DelayAt(x)'
  <2>1. /\ Of("add", requests') = Of("add", requests)
        /\ UNCHANGED <<batch, timers, posted, delay>>
    BY <1>15, <1>req, AddsAre DEF Remove, thread, executors
  <2>2. owner'[x] = "unmade" => owner[x] = "unmade"
    BY <1>15, <1>own DEF Remove, OwnerIs
  <2> QED BY <2>1, <2>2, <1>dly DEF DelayAt
<1>16. ASSUME NEW t \in Timers, Execute(t) PROVE DelayAt(x)'
  BY <1>16, <1>tim, <1>own, <1>del, <1>pos, <1>dly DEF Execute, queue, thread, users, DelayAt
<1>17. ASSUME NEW t \in Timers, Break(t) PROVE DelayAt(x)'
  BY <1>17, <1>tim, <1>own, <1>del, <1>pos, <1>dly
     DEF Break, Interrupt, queue, thread, users, DelayAt
<1>18. ASSUME NEW d \in Delays, EndCoroutine(d) PROVE DelayAt(x)'
  BY <1>18, <1>tim, <1>own, <1>del, <1>pos, <1>dly
     DEF EndCoroutine, queue, thread, users, executors, DelayAt
<1>19. CASE BeginShutDown
  BY <1>19, <1>tim, <1>own, <1>del, <1>pos, <1>dly
     DEF BeginShutDown, queue, thread, users, executors, DelayAt
<1>20. CASE ShutDown
  <2>1. UNCHANGED <<batch, timers, posted, owner>>
    BY <1>20 DEF ShutDown, thread, users, executors
  <2>2. \/ requests' = requests /\ delay' = delay
        \/ /\ Of("add", requests') = {}
           /\ delay'[x] = IF x \in Of("add", requests) THEN "interrupted" ELSE delay[x]
    BY <1>20, OfEmpty DEF ShutDown, Interrupt
  <2>3. x \in Of("add", requests) => owner[x] # "unmade"
    BY <1>dly DEF DelayAt
  <2> QED BY <2>1, <2>2, <2>3, <1>dly DEF DelayAt
<1>21. CASE NotifyWorker
  BY <1>21, <1>tim, <1>own, <1>del, <1>pos, <1>dly
     DEF NotifyWorker, NotifyAll, queue, users, executors, Wake, DelayAt
<1>22. CASE JoinWorker
  BY <1>22, <1>tim, <1>own, <1>del, <1>pos, <1>dly DEF JoinWorker, LoopIs, users, executors, DelayAt
<1>23. CASE ShutDownExecutors
  BY <1>23, <1>tim, <1>own, <1>del, <1>pos, <1>dly
     DEF ShutDownExecutors, queue, thread, users, DelayAt
<1>24. CASE Tick
  BY <1>24, <1>tim, <1>own, <1>del, <1>pos, <1>dly
     DEF Tick, queue, thread, users, executors, DelayAt
<1> QED
  BY <1>1, <1>2, <1>3, <1>4, <1>5, <1>6, <1>7, <1>8, <1>9, <1>10, <1>11, <1>12, <1>13, <1>14,
     <1>15, <1>16, <1>17, <1>18, <1>19, <1>20, <1>21, <1>22, <1>23, <1>24
     DEF Next, WorkerStep, OwnerStep, ExecutorStep, MainStep, Over

\* The steps of the executor, in terms of the delay objects.
LEMMA DelaySteps ==
    ASSUME delay \in [Delays -> DelayPoints], delay' \in [Delays -> DelayPoints],
           \/ /\ main # "up" <=> main' # "up"
              /\ \/ delay' = delay
                 \/ \E t \in Delays : delay[t] = "unmade" /\ delay' = [delay EXCEPT ![t] = "waiting"]
                 \/ \E t \in Delays : delay[t] = "waiting" /\ delay' = [delay EXCEPT ![t] = "running"]
                 \/ \E t \in Delays : delay[t] = "running" /\ delay' = [delay EXCEPT ![t] = "ended"]
                 \/ \E ts \in SUBSET Delays :
                        /\ main # "up" /\ \A t \in ts : delay[t] \in {"unmade", "waiting"}
                        /\ delay' = [t \in Delays |-> IF t \in ts THEN "interrupted" ELSE delay[t]]
           \/ delay' = delay /\ main = "up" /\ main' # "up"
    PROVE  [E!Next]_(E!vars)
<1> DEFINE same == main # "up" <=> main' # "up"
<1>1. CASE same /\ delay' = delay
  BY <1>1 DEF E!vars, In
<1>2. CASE delay' = delay /\ main = "up" /\ main' # "up"
  BY <1>2 DEF E!Next, E!Close, In
<1>3. ASSUME same, NEW t \in Delays, delay[t] = "unmade", delay' = [delay EXCEPT ![t] = "waiting"]
      PROVE  E!Next
  <2>1. E!Submit(t)
    BY <1>3 DEF E!Submit, E!Fresh, In
  <2> QED BY <2>1 DEF E!Next
<1>4. ASSUME same, NEW t \in Delays, delay[t] = "waiting", delay' = [delay EXCEPT ![t] = "running"]
      PROVE  E!Next
  <2>1. E!Begin(t)
    BY <1>4 DEF E!Begin, In
  <2> QED BY <2>1 DEF E!Next
<1>5. ASSUME same, NEW t \in Delays, delay[t] = "running", delay' = [delay EXCEPT ![t] = "ended"]
      PROVE  E!Next
  <2>1. E!End(t)
    BY <1>5 DEF E!End, In
  <2> QED BY <2>1 DEF E!Next
<1>6. ASSUME same, NEW ts \in SUBSET Delays, main # "up",
             \A t \in ts : delay[t] \in {"unmade", "waiting"},
             delay' = [t \in Delays |-> IF t \in ts THEN "interrupted" ELSE delay[t]]
      PROVE  E!Next
  <2>1. E!Break(ts)
    BY <1>6 DEF E!Break, E!Fresh, In
  <2> QED BY <2>1 DEF E!Next
<1> QED BY <1>1, <1>2, <1>3, <1>4, <1>5, <1>6

\* What each step of the queue is to the executor.
LEMMA DelaysNext ==
    TypeOK /\ ThreadInv /\ WorkInv /\ EndInv /\ DelayInv /\ [Next]_vars => [E!Next]_(E!vars)
<1> SUFFICES ASSUME TypeOK, ThreadInv, WorkInv, EndInv, DelayInv, [Next]_vars
             PROVE  [E!Next]_(E!vars)
  OBVIOUS
<1> USE KindsAssumption, BoundsAssumption DEF Timers
<1>del. delay \in [Delays -> DelayPoints]
  BY DEF TypeOK
<1>dp. delay' \in [Delays -> DelayPoints]
  BY TypeNext DEF TypeOK
<1>pos. posted \in [Timers -> 0..MaxPosted]
  BY DEF TypeOK
<1>dly. \A x \in Delays : DelayAt(x)
  BY DEF DelayInv
<1>1. CASE UNCHANGED vars
  BY <1>1, <1>del, <1>dp, DelaySteps DEF vars, queue, thread, users, executors
<1>2. ASSUME NEW w \in Workers, Wait(w) PROVE [E!Next]_(E!vars)
  BY <1>2, <1>del, <1>dp, DelaySteps DEF Wait, LoopIs, Take, Called, users, executors
<1>3. ASSUME NEW w \in Workers, TimePasses(w) PROVE [E!Next]_(E!vars)
  BY <1>3, <1>del, <1>dp, DelaySteps DEF TimePasses, LoopIs, queue, users, executors
<1>4. ASSUME NEW w \in Workers, Late(w) PROVE [E!Next]_(E!vars)
  BY <1>4, <1>del, <1>dp, DelaySteps DEF Late, LoopIs, Take, Called, users, executors
<1>5. ASSUME NEW w \in Workers, Leave(w) PROVE [E!Next]_(E!vars)
  <2> DEFINE ts == (timers) \cap Delays
  <2>1. main # "up" /\ main' # "up"
    BY <1>5 DEF Leave, EndInv, WorkInv
  <2>2. ASSUME NEW x \in ts PROVE delay[x] \in {"unmade", "waiting"}
    BY <1>5, <1>dly DEF Leave, DelayAt
  <2>3. delay' = [x \in Delays |-> IF x \in ts THEN "interrupted" ELSE delay[x]]
    BY <1>5 DEF Leave, Interrupt
  <2>4. ts \in SUBSET Delays
    OBVIOUS
  <2> HIDE DEF ts
  <2> QED BY <2>1, <2>2, <2>3, <2>4, <1>del, <1>dp, DelaySteps
<1>6. ASSUME NEW w \in Workers, Apply(w) PROVE [E!Next]_(E!vars)
  BY <1>6, <1>del, <1>dp, DelaySteps DEF Apply, LoopIs, queue, users, executors
<1>7. ASSUME NEW w \in Workers, Examine(w) PROVE [E!Next]_(E!vars)
  BY <1>7, <1>del, <1>dp, DelaySteps DEF Examine, LoopIs, queue, users, executors
<1>8. ASSUME NEW w \in Workers, Fire(w) PROVE [E!Next]_(E!vars)
  BY <1>8, <1>del, <1>dp, DelaySteps DEF Fire, LoopIs, queue, users
<1>9. ASSUME NEW w \in Workers, EndProcess(w) PROVE [E!Next]_(E!vars)
  BY <1>9, <1>del, <1>dp, DelaySteps DEF EndProcess, LoopIs, queue, users, executors
<1>10. ASSUME NEW t \in Timers, Make(t) PROVE [E!Next]_(E!vars)
  <2>1. CASE t \in Delays
    <3>1. delay[t] = "unmade" /\ delay' = [delay EXCEPT ![t] = "waiting"] /\ main' = main
      BY <1>10, <2>1, <1>del, <1>dly, <1>pos DEF Make, DelayAt, Timers
    <3> QED BY <2>1, <3>1, <1>del, <1>dp, DelaySteps
  <2>2. CASE t \notin Delays
    <3>1. delay' = delay /\ main' = main
      BY <1>10, <2>2, <1>del DEF Make
    <3> QED BY <3>1, <1>del, <1>dp, DelaySteps
  <2> QED BY <2>1, <2>2
<1>11. ASSUME NEW t \in Timers, MakeTooLate(t) PROVE [E!Next]_(E!vars)
  <2> DEFINE ts == ({t}) \cap Delays
  <2>1. main # "up" /\ main' # "up"
    BY <1>11 DEF MakeTooLate, EndInv, WorkInv
  <2>2. ASSUME NEW x \in ts PROVE delay[x] \in {"unmade", "waiting"}
    BY <1>11, <1>dly DEF MakeTooLate, DelayAt
  <2>3. delay' = [x \in Delays |-> IF x \in ts THEN "interrupted" ELSE delay[x]]
    BY <1>11 DEF MakeTooLate, Interrupt
  <2>4. ts \in SUBSET Delays
    OBVIOUS
  <2> HIDE DEF ts
  <2> QED BY <2>1, <2>2, <2>3, <2>4, <1>del, <1>dp, DelaySteps
<1>12. ASSUME NEW t \in Timers, Notify(t) PROVE [E!Next]_(E!vars)
  BY <1>12, <1>del, <1>dp, DelaySteps DEF Notify, OwnerIs, NotifyAll, queue, executors, Wake
<1>13. ASSUME NEW t \in Timers, Join(t) PROVE [E!Next]_(E!vars)
  BY <1>13, <1>del, <1>dp, DelaySteps DEF Join, LoopIs, OwnerIs, queue, executors
<1>14. ASSUME NEW t \in Timers, Cancel(t) PROVE [E!Next]_(E!vars)
  BY <1>14, <1>del, <1>dp, DelaySteps DEF Cancel, OwnerIs, queue, thread, executors
<1>15. ASSUME NEW t \in Timers, Remove(t) PROVE [E!Next]_(E!vars)
  BY <1>15, <1>del, <1>dp, DelaySteps DEF Remove, OwnerIs, thread, executors
<1>16. ASSUME NEW t \in Timers, Execute(t) PROVE [E!Next]_(E!vars)
  <2>1. CASE t \in Delays
    <3>1. delay[t] = "waiting" /\ delay' = [delay EXCEPT ![t] = "running"] /\ main' = main
      <4>1. posted[t] # 0
        BY <1>16, <2>1, <1>pos DEF Execute
      <4>2. DelayAt(t)
        BY <2>1, <1>dly
      <4>3. delay' = [delay EXCEPT ![t] = "running"] /\ main' = main
        BY <1>16, <2>1, <1>del DEF Execute
      <4> QED BY <4>1, <4>2, <4>3 DEF DelayAt
    <3> QED BY <2>1, <3>1, <1>del, <1>dp, DelaySteps
  <2>2. CASE t \notin Delays
    <3>1. delay' = delay /\ main' = main
      BY <1>16, <2>2, <1>del DEF Execute
    <3> QED BY <3>1, <1>del, <1>dp, DelaySteps
  <2> QED BY <2>1, <2>2
<1>17. ASSUME NEW t \in Timers, Break(t) PROVE [E!Next]_(E!vars)
  <2> DEFINE ts == ({t}) \cap Delays
  <2>1. main # "up" /\ main' # "up"
    BY <1>17 DEF Break, EndInv, WorkInv
  <2>2. ASSUME NEW x \in ts PROVE delay[x] \in {"unmade", "waiting"}
    BY <1>17, <1>dly DEF Break, DelayAt
  <2>3. delay' = [x \in Delays |-> IF x \in ts THEN "interrupted" ELSE delay[x]]
    BY <1>17 DEF Break, Interrupt
  <2>4. ts \in SUBSET Delays
    OBVIOUS
  <2> HIDE DEF ts
  <2> QED BY <2>1, <2>2, <2>3, <2>4, <1>del, <1>dp, DelaySteps
<1>18. ASSUME NEW d \in Delays, EndCoroutine(d) PROVE [E!Next]_(E!vars)
  <2>1. delay[d] = "running" /\ delay' = [delay EXCEPT ![d] = "ended"] /\ main' = main
    BY <1>18 DEF EndCoroutine
  <2> QED BY <2>1, <1>del, <1>dp, DelaySteps
<1>19. CASE BeginShutDown
  BY <1>19, <1>del, <1>dp, DelaySteps DEF BeginShutDown, queue, thread, users, executors
<1>20. CASE ShutDown
  <2>1. CASE delay' = delay
    <3>1. main # "up" /\ main' # "up"
      BY <1>20 DEF ShutDown
    <3> QED BY <2>1, <3>1, <1>del, <1>dp, DelaySteps
  <2>2. CASE Interrupt(Of("add", requests))
    <3> DEFINE ts == (Of("add", requests)) \cap Delays
    <3>1. main # "up" /\ main' # "up"
      BY <1>20 DEF ShutDown, EndInv, WorkInv
    <3>2. ASSUME NEW x \in ts PROVE delay[x] \in {"unmade", "waiting"}
      BY <1>20, <1>dly DEF ShutDown, DelayAt
    <3>3. delay' = [x \in Delays |-> IF x \in ts THEN "interrupted" ELSE delay[x]]
      BY <2>2 DEF Interrupt
    <3>4. ts \in SUBSET Delays
      OBVIOUS
    <3> HIDE DEF ts
    <3> QED BY <3>1, <3>2, <3>3, <3>4, <1>del, <1>dp, DelaySteps
  <2> QED BY <1>20, <2>1, <2>2 DEF ShutDown
<1>21. CASE NotifyWorker
  BY <1>21, <1>del, <1>dp, DelaySteps DEF NotifyWorker, NotifyAll, queue, users, executors, Wake
<1>22. CASE JoinWorker
  BY <1>22, <1>del, <1>dp, DelaySteps DEF JoinWorker, LoopIs, users, executors
<1>23. CASE ShutDownExecutors
  BY <1>23, <1>del, <1>dp, DelaySteps DEF ShutDownExecutors, queue, thread, users
<1>24. CASE Tick
  BY <1>24, <1>del, <1>dp, DelaySteps DEF Tick, queue, thread, users, executors
<1> QED
  BY <1>1, <1>2, <1>3, <1>4, <1>5, <1>6, <1>7, <1>8, <1>9, <1>10, <1>11, <1>12, <1>13, <1>14,
     <1>15, <1>16, <1>17, <1>18, <1>19, <1>20, <1>21, <1>22, <1>23, <1>24
     DEF Next, WorkerStep, OwnerStep, ExecutorStep, MainStep, Over

-----------------------------------------------------------------------------
\* IInv holds of a queue that has just been made,
LEMMA InitIInv == Init => IInv
<1> SUFFICES ASSUME Init PROVE IInv
  OBVIOUS
<1> USE KindsAssumption, BoundsAssumption DEF Init, Timers
<1>1. TypeOK
  <2>1. rem \in [Timers -> 0..MaxDue] /\ posted \in [Timers -> 0..MaxPosted]
    OBVIOUS
  <2>2. requests \in Requests /\ batch \in Requests
    BY RequestsAre
  <2>3. loop \in [Workers -> LoopPoints] /\ delay \in [Delays -> DelayPoints]
    BY DEF LoopPoints, DelayPoints
  <2>4. owner \in [Timers -> OwnerPoints] /\ old \in [Timers -> Workers \cup {None}]
    BY DEF OwnerPoints
  <2> QED BY <2>1, <2>2, <2>3, <2>4 DEF TypeOK, MainPoints
<1>2. ThreadInv /\ OldInv /\ EndInv
  BY DEF ThreadInv, OldInv, EndInv, Serves, Ended
<1>3. HeldInv /\ WorkInv
  BY OfEmpty DEF HeldInv, WorkInv
<1>4. DelayInv
  BY OfEmpty DEF DelayInv, DelayAt
<1> QED BY <1>1, <1>2, <1>3, <1>4 DEF IInv

\* and every step preserves it.
LEMMA NextIInv == IInv /\ [Next]_vars => IInv'
BY TypeNext, ThreadNext, HeldNext, WorkNext, EndNext, DelayNext DEF IInv

\* IInv holds in every state of the queue.
THEOREM Invariance == Spec => []IInv
BY InitIInv, NextIInv, PTL DEF Spec

\* The variables of the queue, its timers and their makers keep their types.
THEOREM TypeCorrect == Spec => []TypeOK
<1>1. IInv => TypeOK
  BY DEF IInv
<1> QED BY <1>1, Invariance, PTL

\* One thread serves the queue as long as there is something to serve, however timers
\* are made and removed while a thread ends, and none dies of an executor that is
\* shut down.
THEOREM QueueIsServed == Spec => []ServedByOne
<1>1. ASSUME IInv PROVE ServedByOne
  <2>1. InLoop \subseteq {worker} /\ \A w \in InLoop : ~idle
    BY <1>1 DEF IInv, ThreadInv, InLoop, Serves, Ended
  <2>2. Cardinality(InLoop) <= 1
    <3>1. InLoop = {} \/ InLoop = {worker}
      BY <2>1
    <3> QED BY <3>1, FS_EmptySet, FS_Singleton
  <2>3. timers \cup Of("add", requests \o batch) # {} => worker \in InLoop
    <3>1. Of("add", requests \o batch) = Of("add", requests) \cup Of("add", batch)
      BY <1>1, OfConcat DEF IInv, TypeOK
    <3>2. timers \cup Of("add", requests) # {} => worker \in InLoop
      BY <1>1 DEF IInv, TypeOK, HeldInv, InLoop, Serves, Ended
    <3>3. Of("add", batch) # {} => worker \in InLoop
      BY <1>1, OfEmpty DEF IInv, TypeOK, WorkInv, AtWork, InLoop
    <3> QED BY <3>1, <3>2, <3>3
  <2> QED BY <1>1, <2>1, <2>2, <2>3 DEF ServedByOne, IInv, EndInv
<1> QED BY <1>1, Invariance, PTL

\* Awaiting a delay object is a task of an executor: the coroutine is resumed at most
\* once, and interrupted only if the queue was shut down before it was resumed.
THEOREM DelaysImplementExecutor == Spec => DelaysAreTasks
<1>1. Init => E!Init
  BY DEF Init, E!Init, In
<1>2. IInv /\ [Next]_vars => [E!Next]_(E!vars)
  BY DelaysNext DEF IInv
<1> QED BY <1>1, <1>2, Invariance, PTL DEF Spec, DelaysAreTasks, E!Spec

-----------------------------------------------------------------------------
(* Nobody who awaits a delay object is forgotten.                          *)

\* Whoever left something for the sleeping thread is about to wake it.
Notifies(t) == owner[t] \in {"notify", "notify_removal"}
SleepInv ==
    \A w \in Workers :
        loop[w] = "asleep" /\ Called => main = "notify" \/ \E t \in Timers : Notifies(t)

\* Only timers that are no delay objects are removed; a delay object that is awaited
\* is with the queue, its thread or its executor.
RemovalInv ==
    /\ \A t \in Timers : owner[t] = "remove" => t \in Handles
    /\ Of("remove", requests) \cup Of("remove", batch) \subseteq Handles

HasPlace(d) == d \in timers \cup Of("add", requests) \cup Of("add", batch) \/ posted[d] # 0
PlaceInv == \A d \in Delays : delay[d] = "waiting" => HasPlace(d)

\* The lock is held from the test to the sleep, so that no notification comes in between.
LEMMA SleepNext == IInv /\ SleepInv /\ [Next]_vars => SleepInv'
<1> SUFFICES ASSUME IInv, SleepInv, [Next]_vars PROVE SleepInv'
  OBVIOUS
<1> USE KindsAssumption, BoundsAssumption DEF Timers
<1>t. /\ loop \in [Workers -> LoopPoints] /\ owner \in [Timers -> OwnerPoints]
      /\ delay \in [Delays -> DelayPoints] /\ posted \in [Timers -> 0..MaxPosted]
      /\ requests \in Requests /\ batch \in Requests
  BY DEF IInv, TypeOK
<1>1. CASE UNCHANGED vars
  BY <1>1, <1>t DEF vars, queue, thread, users, executors, SleepInv, Notifies, Called
<1>2. ASSUME NEW w \in Workers, Wait(w) PROVE SleepInv'
  BY <1>2, <1>t DEF Wait, Take, Called, LoopIs, queue, thread, users, executors, SleepInv, Notifies, Called
<1>3. ASSUME NEW w \in Workers, TimePasses(w) PROVE SleepInv'
  BY <1>3, <1>t DEF TimePasses, LoopIs, queue, thread, users, executors, SleepInv, Notifies, Called
<1>4. ASSUME NEW w \in Workers, Late(w) PROVE SleepInv'
  BY <1>4, <1>t DEF Late, Take, Called, LoopIs, queue, thread, users, executors, SleepInv, Notifies, Called
<1>5. ASSUME NEW w \in Workers, Leave(w) PROVE SleepInv'
  BY <1>5, <1>t DEF Leave, Interrupt, LoopIs, queue, thread, users, executors, SleepInv, Notifies, Called
<1>6. ASSUME NEW w \in Workers, Apply(w) PROVE SleepInv'
  BY <1>6, <1>t DEF Apply, LoopIs, queue, thread, users, executors, SleepInv, Notifies, Called
<1>7. ASSUME NEW w \in Workers, Examine(w) PROVE SleepInv'
  BY <1>7, <1>t DEF Examine, LoopIs, queue, thread, users, executors, SleepInv, Notifies, Called
<1>8. ASSUME NEW w \in Workers, Fire(w) PROVE SleepInv'
  BY <1>8, <1>t DEF Fire, LoopIs, queue, thread, users, executors, SleepInv, Notifies, Called
<1>9. ASSUME NEW w \in Workers, EndProcess(w) PROVE SleepInv'
  BY <1>9, <1>t DEF EndProcess, LoopIs, queue, thread, users, executors, SleepInv, Notifies, Called
<1>10. ASSUME NEW t \in Timers, Make(t) PROVE SleepInv'
  BY <1>10, <1>t DEF Make, EnsureWorker, OwnerIs, LoopIs, queue, thread, users, executors, SleepInv, Notifies, Called
<1>11. ASSUME NEW t \in Timers, MakeTooLate(t) PROVE SleepInv'
  BY <1>11, <1>t DEF MakeTooLate, OwnerIs, Interrupt, LoopIs, queue, thread, users, executors, SleepInv, Notifies, Called
<1>12. ASSUME NEW t \in Timers, Notify(t) PROVE SleepInv'
  BY <1>12, <1>t DEF Notify, OwnerIs, NotifyAll, Wake, LoopIs, queue, thread, users, executors, SleepInv, Notifies, Called
<1>13. ASSUME NEW t \in Timers, Join(t) PROVE SleepInv'
  BY <1>13, <1>t DEF Join, OwnerIs, LoopIs, queue, thread, users, executors, SleepInv, Notifies, Called
<1>14. ASSUME NEW t \in Timers, Cancel(t) PROVE SleepInv'
  BY <1>14, <1>t DEF Cancel, OwnerIs, LoopIs, queue, thread, users, executors, SleepInv, Notifies, Called
<1>15. ASSUME NEW t \in Timers, Remove(t) PROVE SleepInv'
  BY <1>15, <1>t DEF Remove, OwnerIs, LoopIs, queue, thread, users, executors, SleepInv, Notifies, Called
<1>16. ASSUME NEW t \in Timers, Execute(t) PROVE SleepInv'
  BY <1>16, <1>t DEF Execute, LoopIs, queue, thread, users, executors, SleepInv, Notifies, Called
<1>17. ASSUME NEW t \in Timers, Break(t) PROVE SleepInv'
  BY <1>17, <1>t DEF Break, Interrupt, LoopIs, queue, thread, users, executors, SleepInv, Notifies, Called
<1>18. ASSUME NEW d \in Delays, EndCoroutine(d) PROVE SleepInv'
  BY <1>18, <1>t DEF EndCoroutine, LoopIs, queue, thread, users, executors, SleepInv, Notifies, Called
<1>19. CASE BeginShutDown
  BY <1>19, <1>t DEF BeginShutDown, LoopIs, queue, thread, users, executors, SleepInv, Notifies, Called
<1>20. CASE ShutDown
  <2>1. worker = None \/ main' = "notify"
    BY <1>20 DEF ShutDown
  <2>2. ASSUME worker = None, NEW w \in Workers PROVE loop[w] # "asleep"
    BY <2>2 DEF IInv, ThreadInv, Serves, Ended
  <2>3. loop' = loop
    BY <1>20 DEF ShutDown, thread
  <2> QED BY <2>1, <2>2, <2>3 DEF SleepInv
<1>21. CASE NotifyWorker
  BY <1>21, <1>t DEF NotifyWorker, NotifyAll, Wake, LoopIs, queue, thread, users, executors, SleepInv, Notifies, Called
<1>22. CASE JoinWorker
  BY <1>22, <1>t DEF JoinWorker, LoopIs, queue, thread, users, executors, SleepInv, Notifies, Called
<1>23. CASE ShutDownExecutors
  BY <1>23, <1>t DEF ShutDownExecutors, LoopIs, queue, thread, users, executors, SleepInv, Notifies, Called
<1>24. CASE Tick
  BY <1>24, <1>t DEF Tick, LoopIs, queue, thread, users, executors, SleepInv, Notifies, Called
<1> QED
  BY <1>1, <1>2, <1>3, <1>4, <1>5, <1>6, <1>7, <1>8, <1>9, <1>10, <1>11, <1>12, <1>13, <1>14, <1>15, <1>16, <1>17, <1>18, <1>19, <1>20, <1>21, <1>22, <1>23, <1>24
     DEF Next, WorkerStep, OwnerStep, ExecutorStep, MainStep, Over

\* A delay object has no cancel.
LEMMA RemovalNext == IInv /\ RemovalInv /\ [Next]_vars => RemovalInv'
<1> SUFFICES ASSUME IInv, RemovalInv, [Next]_vars PROVE RemovalInv'
  OBVIOUS
<1> USE KindsAssumption, BoundsAssumption DEF Timers
<1>t. /\ loop \in [Workers -> LoopPoints] /\ owner \in [Timers -> OwnerPoints]
      /\ delay \in [Delays -> DelayPoints] /\ posted \in [Timers -> 0..MaxPosted]
      /\ requests \in Requests /\ batch \in Requests
  BY DEF IInv, TypeOK
<1>1. CASE UNCHANGED vars
  BY <1>1, <1>t, OfEmpty DEF vars, queue, thread, users, executors, RemovalInv, Take
<1>2. ASSUME NEW w \in Workers, Wait(w) PROVE RemovalInv'
  BY <1>2, <1>t, OfEmpty DEF Wait, Take, Called, LoopIs, queue, thread, users, executors, RemovalInv, Take
<1>3. ASSUME NEW w \in Workers, TimePasses(w) PROVE RemovalInv'
  BY <1>3, <1>t, OfEmpty DEF TimePasses, LoopIs, queue, thread, users, executors, RemovalInv, Take
<1>4. ASSUME NEW w \in Workers, Late(w) PROVE RemovalInv'
  BY <1>4, <1>t, OfEmpty DEF Late, Take, Called, LoopIs, queue, thread, users, executors, RemovalInv, Take
<1>5. ASSUME NEW w \in Workers, Leave(w) PROVE RemovalInv'
  BY <1>5, <1>t, OfEmpty DEF Leave, Interrupt, LoopIs, queue, thread, users, executors, RemovalInv, Take
<1>6. ASSUME NEW w \in Workers, Apply(w) PROVE RemovalInv'
  BY <1>6, <1>t, OfEmpty DEF Apply, LoopIs, queue, thread, users, executors, RemovalInv, Take
<1>7. ASSUME NEW w \in Workers, Examine(w) PROVE RemovalInv'
  BY <1>7, <1>t, OfEmpty DEF Examine, LoopIs, queue, thread, users, executors, RemovalInv, Take
<1>8. ASSUME NEW w \in Workers, Fire(w) PROVE RemovalInv'
  BY <1>8, <1>t, OfEmpty DEF Fire, LoopIs, queue, thread, users, executors, RemovalInv, Take
<1>9. ASSUME NEW w \in Workers, EndProcess(w) PROVE RemovalInv'
  BY <1>9, <1>t, OfEmpty DEF EndProcess, LoopIs, queue, thread, users, executors, RemovalInv, Take
<1>10. ASSUME NEW t \in Timers, Make(t) PROVE RemovalInv'
  <2>1. Of("remove", requests') = Of("remove", requests) /\ batch' = batch
    BY <1>10, <1>t, AddsAre DEF Make
  <2>2. owner' = [owner EXCEPT ![t] = "notify"]
    BY <1>10 DEF Make, OwnerIs
  <2> QED BY <1>t, <2>1, <2>2 DEF RemovalInv
<1>11. ASSUME NEW t \in Timers, MakeTooLate(t) PROVE RemovalInv'
  BY <1>11, <1>t, OfEmpty DEF MakeTooLate, OwnerIs, Interrupt, LoopIs, queue, thread, users, executors, RemovalInv, Take
<1>12. ASSUME NEW t \in Timers, Notify(t) PROVE RemovalInv'
  BY <1>12, <1>t, OfEmpty DEF Notify, OwnerIs, NotifyAll, Wake, LoopIs, queue, thread, users, executors, RemovalInv, Take
<1>13. ASSUME NEW t \in Timers, Join(t) PROVE RemovalInv'
  BY <1>13, <1>t, OfEmpty DEF Join, OwnerIs, LoopIs, queue, thread, users, executors, RemovalInv, Take
<1>14. ASSUME NEW t \in Timers, Cancel(t) PROVE RemovalInv'
  BY <1>14, <1>t, OfEmpty DEF Cancel, OwnerIs, LoopIs, queue, thread, users, executors, RemovalInv, Take
<1>15. ASSUME NEW t \in Timers, Remove(t) PROVE RemovalInv'
  <2>1. Of("remove", requests') = Of("remove", requests) \cup {t} /\ batch' = batch
    BY <1>15, <1>t, AddsAre DEF Remove, thread
  <2>2. t \in Handles /\ owner' = [owner EXCEPT ![t] = "notify_removal"]
    BY <1>15 DEF Remove, OwnerIs, RemovalInv
  <2> QED BY <1>t, <2>1, <2>2 DEF RemovalInv
<1>16. ASSUME NEW t \in Timers, Execute(t) PROVE RemovalInv'
  BY <1>16, <1>t, OfEmpty DEF Execute, LoopIs, queue, thread, users, executors, RemovalInv, Take
<1>17. ASSUME NEW t \in Timers, Break(t) PROVE RemovalInv'
  BY <1>17, <1>t, OfEmpty DEF Break, Interrupt, LoopIs, queue, thread, users, executors, RemovalInv, Take
<1>18. ASSUME NEW d \in Delays, EndCoroutine(d) PROVE RemovalInv'
  BY <1>18, <1>t, OfEmpty DEF EndCoroutine, LoopIs, queue, thread, users, executors, RemovalInv, Take
<1>19. CASE BeginShutDown
  BY <1>19, <1>t, OfEmpty DEF BeginShutDown, LoopIs, queue, thread, users, executors, RemovalInv, Take
<1>20. CASE ShutDown
  BY <1>20, <1>t, OfEmpty DEF ShutDown, Interrupt, LoopIs, queue, thread, users, executors, RemovalInv, Take
<1>21. CASE NotifyWorker
  BY <1>21, <1>t, OfEmpty DEF NotifyWorker, NotifyAll, Wake, LoopIs, queue, thread, users, executors, RemovalInv, Take
<1>22. CASE JoinWorker
  BY <1>22, <1>t, OfEmpty DEF JoinWorker, LoopIs, queue, thread, users, executors, RemovalInv, Take
<1>23. CASE ShutDownExecutors
  BY <1>23, <1>t, OfEmpty DEF ShutDownExecutors, LoopIs, queue, thread, users, executors, RemovalInv, Take
<1>24. CASE Tick
  BY <1>24, <1>t, OfEmpty DEF Tick, LoopIs, queue, thread, users, executors, RemovalInv, Take
<1> QED
  BY <1>1, <1>2, <1>3, <1>4, <1>5, <1>6, <1>7, <1>8, <1>9, <1>10, <1>11, <1>12, <1>13, <1>14, <1>15, <1>16, <1>17, <1>18, <1>19, <1>20, <1>21, <1>22, <1>23, <1>24
     DEF Next, WorkerStep, OwnerStep, ExecutorStep, MainStep, Over

\* On its way a delay object is dropped by no step that does not resume it.
LEMMA PlaceNext == IInv /\ RemovalInv /\ PlaceInv /\ [Next]_vars => PlaceInv'
<1> SUFFICES ASSUME IInv, RemovalInv, PlaceInv, [Next]_vars PROVE PlaceInv'
  OBVIOUS
<1> USE KindsAssumption, BoundsAssumption DEF Timers
<1>t. /\ loop \in [Workers -> LoopPoints] /\ owner \in [Timers -> OwnerPoints]
      /\ delay \in [Delays -> DelayPoints] /\ posted \in [Timers -> 0..MaxPosted]
      /\ requests \in Requests /\ batch \in Requests
  BY DEF IInv, TypeOK
<1>1. CASE UNCHANGED vars
  BY <1>1, <1>t, OfEmpty DEF vars, queue, thread, users, executors, PlaceInv, HasPlace
<1>2. ASSUME NEW w \in Workers, Wait(w) PROVE PlaceInv'
  <2>1. batch = <<>>
    BY <1>2 DEF Wait, IInv, WorkInv, AtWork, ThreadInv, Serves, Ended
  <2>2. \/ requests' = requests /\ batch' = batch
        \/ requests' = <<>> /\ batch' = requests
    BY <1>2 DEF Wait, Take
  <2>3. UNCHANGED <<timers, delay, posted>>
    BY <1>2 DEF Wait, executors
  <2>4. Of("add", requests) \cup Of("add", batch) \subseteq Of("add", requests') \cup Of("add", batch')
    BY <2>1, <2>2, OfEmpty
  <2> QED BY <2>3, <2>4 DEF PlaceInv, HasPlace
<1>3. ASSUME NEW w \in Workers, TimePasses(w) PROVE PlaceInv'
  BY <1>3, <1>t, OfEmpty DEF TimePasses, LoopIs, queue, thread, users, executors, PlaceInv, HasPlace
<1>4. ASSUME NEW w \in Workers, Late(w) PROVE PlaceInv'
  <2>1. batch = <<>>
    BY <1>4 DEF Late, IInv, WorkInv, AtWork, ThreadInv, Serves, Ended
  <2>2. \/ requests' = requests /\ batch' = batch
        \/ requests' = <<>> /\ batch' = requests
    BY <1>4 DEF Late, Take
  <2>3. UNCHANGED <<timers, delay, posted>>
    BY <1>4 DEF Late, executors
  <2>4. Of("add", requests) \cup Of("add", batch) \subseteq Of("add", requests') \cup Of("add", batch')
    BY <2>1, <2>2, OfEmpty
  <2> QED BY <2>3, <2>4 DEF PlaceInv, HasPlace
<1>5. ASSUME NEW w \in Workers, Leave(w) PROVE PlaceInv'
  BY <1>5, <1>t, OfEmpty DEF Leave, Interrupt, LoopIs, queue, thread, users, executors, PlaceInv, HasPlace
<1>6. ASSUME NEW w \in Workers, Apply(w) PROVE PlaceInv'
  <2>1. timers' = (timers \cup Of("add", batch)) \ Of("remove", batch) /\ UNCHANGED <<requests, delay, posted>>
    BY <1>6 DEF Apply, queue, executors
  <2>2. \A d \in Delays : d \notin Of("remove", batch)
    BY DEF RemovalInv
  <2> QED BY <2>1, <2>2 DEF PlaceInv, HasPlace
<1>7. ASSUME NEW w \in Workers, Examine(w) PROVE PlaceInv'
  <2>1. \A d \in Delays : d \in timers => d \in timers'
    BY <1>7 DEF Examine, IInv, TypeOK
  <2>2. UNCHANGED <<requests, batch, delay, posted>>
    BY <1>7 DEF Examine, queue, executors
  <2> QED BY <2>1, <2>2 DEF PlaceInv, HasPlace
<1>8. ASSUME NEW w \in Workers, Fire(w) PROVE PlaceInv'
  BY <1>8, <1>t, OfEmpty DEF Fire, LoopIs, queue, thread, users, executors, PlaceInv, HasPlace
<1>9. ASSUME NEW w \in Workers, EndProcess(w) PROVE PlaceInv'
  BY <1>9, <1>t, OfEmpty DEF EndProcess, LoopIs, queue, thread, users, executors, PlaceInv, HasPlace
<1>10. ASSUME NEW t \in Timers, Make(t) PROVE PlaceInv'
  <2>1. Of("add", requests') = Of("add", requests) \cup {t}
    BY <1>10, <1>t, AddsAre DEF Make
  <2>2. /\ UNCHANGED <<batch, timers, posted>>
        /\ \A d \in Delays : d # t => delay'[d] = delay[d]
    BY <1>10 DEF Make, executors
  <2> QED BY <2>1, <2>2 DEF PlaceInv, HasPlace
<1>11. ASSUME NEW t \in Timers, MakeTooLate(t) PROVE PlaceInv'
  BY <1>11, <1>t, OfEmpty DEF MakeTooLate, OwnerIs, Interrupt, LoopIs, queue, thread, users, executors, PlaceInv, HasPlace
<1>12. ASSUME NEW t \in Timers, Notify(t) PROVE PlaceInv'
  BY <1>12, <1>t, OfEmpty DEF Notify, OwnerIs, NotifyAll, Wake, LoopIs, queue, thread, users, executors, PlaceInv, HasPlace
<1>13. ASSUME NEW t \in Timers, Join(t) PROVE PlaceInv'
  BY <1>13, <1>t, OfEmpty DEF Join, OwnerIs, LoopIs, queue, thread, users, executors, PlaceInv, HasPlace
<1>14. ASSUME NEW t \in Timers, Cancel(t) PROVE PlaceInv'
  BY <1>14, <1>t, OfEmpty DEF Cancel, OwnerIs, LoopIs, queue, thread, users, executors, PlaceInv, HasPlace
<1>15. ASSUME NEW t \in Timers, Remove(t) PROVE PlaceInv'
  <2>1. Of("add", requests') = Of("add", requests)
    BY <1>15, <1>t, AddsAre DEF Remove
  <2>2. UNCHANGED <<batch, timers, delay, posted>>
    BY <1>15 DEF Remove, thread, executors
  <2> QED BY <2>1, <2>2 DEF PlaceInv, HasPlace
<1>16. ASSUME NEW t \in Timers, Execute(t) PROVE PlaceInv'
  BY <1>16, <1>t, OfEmpty DEF Execute, LoopIs, queue, thread, users, executors, PlaceInv, HasPlace
<1>17. ASSUME NEW t \in Timers, Break(t) PROVE PlaceInv'
  BY <1>17, <1>t, OfEmpty DEF Break, Interrupt, LoopIs, queue, thread, users, executors, PlaceInv, HasPlace
<1>18. ASSUME NEW d \in Delays, EndCoroutine(d) PROVE PlaceInv'
  BY <1>18, <1>t, OfEmpty DEF EndCoroutine, LoopIs, queue, thread, users, executors, PlaceInv, HasPlace
<1>19. CASE BeginShutDown
  BY <1>19, <1>t, OfEmpty DEF BeginShutDown, LoopIs, queue, thread, users, executors, PlaceInv, HasPlace
<1>20. CASE ShutDown
  BY <1>20, <1>t, OfEmpty DEF ShutDown, Interrupt, LoopIs, queue, thread, users, executors, PlaceInv, HasPlace
<1>21. CASE NotifyWorker
  BY <1>21, <1>t, OfEmpty DEF NotifyWorker, NotifyAll, Wake, LoopIs, queue, thread, users, executors, PlaceInv, HasPlace
<1>22. CASE JoinWorker
  BY <1>22, <1>t, OfEmpty DEF JoinWorker, LoopIs, queue, thread, users, executors, PlaceInv, HasPlace
<1>23. CASE ShutDownExecutors
  BY <1>23, <1>t, OfEmpty DEF ShutDownExecutors, LoopIs, queue, thread, users, executors, PlaceInv, HasPlace
<1>24. CASE Tick
  BY <1>24, <1>t, OfEmpty DEF Tick, LoopIs, queue, thread, users, executors, PlaceInv, HasPlace
<1> QED
  BY <1>1, <1>2, <1>3, <1>4, <1>5, <1>6, <1>7, <1>8, <1>9, <1>10, <1>11, <1>12, <1>13, <1>14, <1>15, <1>16, <1>17, <1>18, <1>19, <1>20, <1>21, <1>22, <1>23, <1>24
     DEF Next, WorkerStep, OwnerStep, ExecutorStep, MainStep, Over

\* However the makers, the thread and the executor come at the same time, a coroutine that
\* awaits a delay object is somebody's to resume: its timer is requested, in the queue, with
\* its thread or posted (await_suspend, work_loop and shutdown in timer_queue.cpp), and what is
\* requested of a thread that sleeps is followed by a notification.  With ServedByOne this is
\* what TimersEnd needs in every state.
THEOREM NoDelayIsForgotten == Spec => [](PlaceInv /\ SleepInv)
<1>1. Init => SleepInv /\ RemovalInv /\ PlaceInv
  BY OfEmpty, KindsAssumption DEF Init, SleepInv, RemovalInv, PlaceInv, Called, Timers
<1>2. IInv /\ SleepInv /\ RemovalInv /\ PlaceInv /\ [Next]_vars => SleepInv' /\ RemovalInv' /\ PlaceInv'
  BY SleepNext, RemovalNext, PlaceNext
<1> QED BY <1>1, <1>2, Invariance, PTL DEF Spec

=============================================================================
