--------------------------- MODULE AsyncLockProofs ---------------------------
(***************************************************************************)
(* Theorems about the lock and the condition variable, for any coroutines, *)
(* any choice of inline executors and any number of uses.                  *)
(***************************************************************************)
EXTENDS AsyncConditionVariable, SequenceTheorems, FiniteSetTheorems, TLAPS

\* The points of a coroutine, and those at which it is on no stack.
Points ==
    {"idle", "lock", "try_lock", "queued", "resume_on", "posted", "broken", "enter", "inside",
     "resuming", "await", "await_unlock", "await_push", "waiting", "awaited", "cv_resume_on",
     "cv_posted", "notify_one", "notify_all", "ending", "done"}
Off == {"queued", "waiting", "posted", "cv_posted", "done"}
Held == {"resume_on", "posted", "broken", "enter", "inside", "await", "await_unlock", "awaited"}
In == {"inside", "await", "await_unlock", "awaited"}

\* What the lock is wanted for, how it is asked for, and where its holder goes on.
Uses == {"hold", "push", "pop"}
Wants == {"lock", "try_lock"}
Ends == {"idle", "ending"}

\* The steps that change little but where a coroutine is.
MayGo(c, q) ==
    \/ pc[c] = "resume_on" /\ (q = "enter" \/ (q = "broken" /\ closed))
    \/ pc[c] = "cv_resume_on" /\ (q = "lock" \/ (q = "ending" /\ closed))
    \/ pc[c] = "try_lock" /\ q = "idle"
    \/ pc[c] = "inside" /\ use[c] = "pop" /\ (q = "awaited" \/ (q = "await" /\ ~ready))
MayPark(c, q) ==
    \/ pc[c] = "resume_on" /\ q = "posted"
    \/ pc[c] = "cv_resume_on" /\ q = "cv_posted"
    \/ pc[c] \in {"ending", "idle"} /\ q = "done"
MayStart(c, q) ==
    \/ pc[c] = "posted" /\ (q = "enter" \/ (q = "broken" /\ closed))
    \/ pc[c] = "cv_posted" /\ (q = "lock" \/ (q = "ending" /\ closed))
MayTake(c, q) ==
    \/ pc[c] = "lock" /\ q \in {"resume_on", "enter"}
    \/ pc[c] = "try_lock" /\ q = "enter"
MayEnd(c) == pc[c] = "broken" \/ (pc[c] = "inside" /\ use[c] = "hold")

TypeOK ==
    /\ locked \in BOOLEAN /\ count \in Int /\ awaiters \in Seq(Coroutines) /\ closed \in BOOLEAN
    /\ stacks \subseteq Seq(Coroutines) \ {<<>>}
    /\ pc \in [Coroutines -> Points]
    /\ use \in [Coroutines -> {"hold", "push", "pop"}]
    /\ waited \subseteq Coroutines
    /\ resumes \in [Coroutines -> Seq(Coroutines)]
    /\ then \in [Coroutines -> {"idle", "ending", "await_push", "notify_one", "notify_all"}]
    /\ mutex \in Coroutines \cup {Nobody} /\ cvAwaiters \in Seq(Coroutines)
    /\ ready \in BOOLEAN

\* A coroutine that runs or is below one is once on one stack.
StackInv ==
    /\ \A s \in stacks : IsInjective(s)
    /\ \A s, t \in stacks, c \in Coroutines : Contains(s, c) /\ Contains(t, c) => s = t
    /\ \A c \in Coroutines : (\E s \in stacks : Contains(s, c)) <=> pc[c] \notin Off

\* One that waits is once in one list, of the lock or the condition variable or of the one
\* that is to resume it; nobody else is in a list.
ListInv ==
    /\ IsInjective(awaiters) /\ IsInjective(cvAwaiters)
    /\ \A c \in Coroutines :
           /\ IsInjective(resumes[c])
           /\ resumes[c] # <<>> => pc[c] = "resuming"
           /\ Contains(awaiters, c) => pc[c] = "queued"
           /\ Contains(cvAwaiters, c) => pc[c] = "waiting"
           /\ pc[c] = "queued" => Contains(awaiters, c) \/ \E d \in Coroutines : Contains(resumes[d], c)
           /\ pc[c] = "waiting" => Contains(cvAwaiters, c) \/ \E d \in Coroutines : Contains(resumes[d], c)
           /\ \A d \in Coroutines : Contains(resumes[d], c) =>
                  /\ pc[c] \in {"queued", "waiting"}
                  /\ ~Contains(awaiters, c) /\ ~Contains(cvAwaiters, c)
                  /\ \A e \in Coroutines : Contains(resumes[e], c) => e = d

\* OneHolder, one coroutine at a time.
HolderInv ==
    /\ \A c, d \in Coroutines : pc[c] \in Held /\ pc[d] \in Held => c = d
    /\ locked <=> \E c \in Coroutines : pc[c] \in Held
    /\ count = IF \E c \in Coroutines : pc[c] \in In THEN 1 ELSE 0

\* The condition variable's mutex is with the one that is about to wait.
MutexInv ==
    \A c \in Coroutines : mutex = c <=> pc[c] = "await_unlock" \/ AwaitsFrom(c)

\* Who waits for the condition is a consumer, and found nothing.
UseInv ==
    \A c \in Coroutines :
        /\ \/ pc[c] \in {"await", "await_unlock", "waiting", "awaited", "cv_resume_on", "cv_posted"}
           \/ AwaitsFrom(c)
           => use[c] = "pop"
        /\ pc[c] \in {"await", "await_unlock"} => ~ready

\* Who will look for what was produced, or make somebody look.
Notifies == {"notify_one", "notify_all"}
Seeking == {"lock", "queued", "resume_on", "posted", "enter", "inside", "awaited", "cv_resume_on", "cv_posted"}
Seeks(c) ==
    \/ pc[c] \in Notifies \/ (pc[c] = "resuming" /\ then[c] \in Notifies)
    \/ use[c] = "pop" /\ pc[c] \in Seeking
    \/ pc[c] = "waiting" /\ \E d \in Coroutines : Contains(resumes[d], c)
FoundInv ==
    ready /\ ~closed /\ (cvAwaiters # <<>> \/ mutex # Nobody) => \E c \in Coroutines : Seeks(c)

IInv == TypeOK /\ StackInv /\ ListInv /\ HolderInv /\ MutexInv /\ UseInv /\ FoundInv
-----------------------------------------------------------------------------
(* Sequences of coroutines: who is in one, and whether anybody is in it twice. *)

\* The empty list, and a list of one.
LEMMA SeqEmpty ==
    /\ <<>> \in Seq(Coroutines) /\ IsInjective(<<>>)
    /\ \A c \in Coroutines : ~Contains(<<>>, c)
BY DEF IsInjective, Contains

LEMMA SeqOne ==
    ASSUME NEW c \in Coroutines
    PROVE  /\ <<c>> \in Seq(Coroutines) /\ <<c>> # <<>> /\ IsInjective(<<c>>) /\ Last(<<c>>) = c
           /\ \A d \in Coroutines : Contains(<<c>>, d) <=> d = c
BY DEF IsInjective, Contains, Last

\* One more at the end.
LEMMA SeqAppend ==
    ASSUME NEW s \in Seq(Coroutines), NEW c \in Coroutines
    PROVE  /\ Append(s, c) \in Seq(Coroutines) /\ Append(s, c) # <<>> /\ Last(Append(s, c)) = c
           /\ IsInjective(s) /\ ~Contains(s, c) => IsInjective(Append(s, c))
           /\ \A d \in Coroutines : Contains(Append(s, c), d) <=> Contains(s, d) \/ d = c
<1> DEFINE t == Append(s, c)
<1>1. /\ t \in Seq(Coroutines) /\ t # <<>> /\ Len(t) = Len(s) + 1 /\ Len(s) \in Nat
      /\ \A i \in 1 .. Len(s) : t[i] = s[i]
      /\ t[Len(s) + 1] = c /\ DOMAIN t = 1 .. Len(t) /\ DOMAIN s = 1 .. Len(s)
  BY AppendProperties, LenProperties
<1> HIDE DEF t
<1>2. Last(t) = c
  BY <1>1 DEF Last
<1>3. ASSUME IsInjective(s), ~Contains(s, c) PROVE IsInjective(t)
  <2>1. \A i, j \in 1 .. Len(s) : s[i] = s[j] => i = j
    BY <1>1, <1>3 DEF IsInjective
  <2>2. \A i \in 1 .. Len(s) : s[i] # c
    BY <1>3 DEF Contains
  <2>3. SUFFICES ASSUME NEW i \in 1 .. Len(s) + 1, NEW j \in 1 .. Len(s) + 1, t[i] = t[j] PROVE i = j
    BY <1>1 DEF IsInjective
  <2>4. (i \in 1 .. Len(s) \/ i = Len(s) + 1) /\ (j \in 1 .. Len(s) \/ j = Len(s) + 1)
    BY <1>1
  <2> QED BY <1>1, <2>1, <2>2, <2>3, <2>4
<1>4. ASSUME NEW d \in Coroutines PROVE Contains(t, d) <=> Contains(s, d) \/ d = c
  <2>1. \A i \in 1 .. Len(s) + 1 : i \in 1 .. Len(s) \/ i = Len(s) + 1
    BY <1>1
  <2>2. 1 .. Len(s) \subseteq 1 .. Len(s) + 1 /\ Len(s) + 1 \in 1 .. Len(s) + 1
    BY <1>1
  <2> QED BY <1>1, <2>1, <2>2 DEF Contains
<1> QED BY <1>1, <1>2, <1>3, <1>4 DEF t

\* The first one, and those after it.
LEMMA SeqTail ==
    ASSUME NEW s \in Seq(Coroutines), s # <<>>
    PROVE  /\ Head(s) \in Coroutines /\ Contains(s, Head(s)) /\ Tail(s) \in Seq(Coroutines)
           /\ IsInjective(s) =>
                  /\ IsInjective(Tail(s))
                  /\ \A d \in Coroutines : Contains(Tail(s), d) <=> Contains(s, d) /\ d # Head(s)
<1> DEFINE t == Tail(s)
<1>1. /\ t \in Seq(Coroutines) /\ Len(t) = Len(s) - 1 /\ Len(s) \in Nat \ {0} /\ Len(t) \in Nat
      /\ \A i \in 1 .. Len(t) : t[i] = s[i + 1]
      /\ DOMAIN t = 1 .. Len(t) /\ DOMAIN s = 1 .. Len(s)
      /\ Head(s) = s[1] /\ Head(s) \in Coroutines
  BY HeadTailProperties, LenProperties, EmptySeq
<1> HIDE DEF t
<1>2. Contains(s, Head(s))
  BY <1>1 DEF Contains
<1>3. ASSUME IsInjective(s)
      PROVE  IsInjective(t) /\ \A d \in Coroutines : Contains(t, d) <=> Contains(s, d) /\ d # Head(s)
  <2>1. \A i, j \in 1 .. Len(s) : s[i] = s[j] => i = j
    BY <1>1, <1>3 DEF IsInjective
  <2>2. \A i \in 1 .. Len(t) : i + 1 \in 1 .. Len(s) /\ i + 1 # 1
    BY <1>1
  <2>3. \A i \in 1 .. Len(s) : i = 1 \/ (i - 1 \in 1 .. Len(t) /\ (i - 1) + 1 = i)
    BY <1>1
  <2>4. IsInjective(t)
    BY <1>1, <2>1, <2>2 DEF IsInjective
  <2>5. ASSUME NEW d \in Coroutines, Contains(t, d) PROVE Contains(s, d) /\ d # Head(s)
    <3>1. PICK i \in 1 .. Len(t) : t[i] = d
      BY <2>5 DEF Contains
    <3>2. s[i + 1] = d /\ i + 1 \in 1 .. Len(s) /\ i + 1 # 1 /\ 1 \in 1 .. Len(s)
      BY <1>1, <2>2, <3>1
    <3> QED BY <1>1, <2>1, <3>2 DEF Contains
  <2>6. ASSUME NEW d \in Coroutines, Contains(s, d), d # Head(s) PROVE Contains(t, d)
    <3>1. PICK i \in 1 .. Len(s) : s[i] = d
      BY <2>6 DEF Contains
    <3>2. i - 1 \in 1 .. Len(t) /\ t[i - 1] = s[(i - 1) + 1] /\ (i - 1) + 1 = i
      BY <1>1, <2>3, <2>6, <3>1
    <3> QED BY <3>1, <3>2 DEF Contains
  <2> QED BY <2>4, <2>5, <2>6
<1> QED BY <1>1, <1>2, <1>3 DEF t

\* The last one, and those before it.
LEMMA SeqFront ==
    ASSUME NEW s \in Seq(Coroutines), s # <<>>
    PROVE  /\ Last(s) \in Coroutines /\ Contains(s, Last(s)) /\ Front(s) \in Seq(Coroutines)
           /\ IsInjective(s) =>
                  /\ IsInjective(Front(s))
                  /\ \A d \in Coroutines : Contains(Front(s), d) <=> Contains(s, d) /\ d # Last(s)
<1> DEFINE t == Front(s)
           n == Len(s)
<1>1. n \in Nat \ {0} /\ DOMAIN s = 1 .. n /\ \A i \in 1 .. n : s[i] \in Coroutines
  BY LenProperties, EmptySeq, ElementOfSeq
<1>2. t \in Seq(Coroutines) /\ Len(t) = n - 1 /\ \A i \in 1 .. n - 1 : t[i] = s[i]
  <2>1. \A i \in 1 .. n - 1 : s[i] \in Coroutines
    BY <1>1
  <2>2. /\ SubSeq(s, 1, n - 1) \in Seq(Coroutines)
        /\ Len(SubSeq(s, 1, n - 1)) = IF 1 <= n - 1 THEN n - 1 - 1 + 1 ELSE 0
        /\ \A i \in 1 .. n - 1 - 1 + 1 : SubSeq(s, 1, n - 1)[i] = s[1 + i - 1]
    BY <1>1, <2>1, SubSeqProperties
  <2> QED BY <1>1, <2>2 DEF Front
<1>3. Last(s) = s[n]
  BY DEF Last
<1> HIDE DEF t, n
<1>4. DOMAIN t = 1 .. n - 1
  BY <1>2, LenProperties
<1>5. Last(s) \in Coroutines /\ Contains(s, Last(s))
  BY <1>1, <1>3 DEF Contains, n
<1>6. ASSUME IsInjective(s)
      PROVE  IsInjective(t) /\ \A d \in Coroutines : Contains(t, d) <=> Contains(s, d) /\ d # Last(s)
  <2>1. \A i, j \in 1 .. n : s[i] = s[j] => i = j
    BY <1>1, <1>6 DEF IsInjective
  <2>2. \A i \in 1 .. n - 1 : i \in 1 .. n /\ i # n
    BY <1>1
  <2>3. \A i \in 1 .. n : i = n \/ i \in 1 .. n - 1
    BY <1>1
  <2>4. IsInjective(t)
    BY <1>2, <1>4, <2>1, <2>2 DEF IsInjective
  <2>5. ASSUME NEW d \in Coroutines, Contains(t, d) PROVE Contains(s, d) /\ d # Last(s)
    <3>1. PICK i \in 1 .. n - 1 : t[i] = d
      BY <1>2, <2>5 DEF Contains
    <3>2. s[i] = d /\ i \in 1 .. n /\ i # n /\ n \in 1 .. n
      BY <1>1, <1>2, <2>2, <3>1
    <3> QED BY <1>3, <2>1, <3>2 DEF Contains, n
  <2>6. ASSUME NEW d \in Coroutines, Contains(s, d), d # Last(s) PROVE Contains(t, d)
    <3>1. PICK i \in 1 .. n : s[i] = d
      BY <2>6 DEF Contains, n
    <3>2. i \in 1 .. n - 1 /\ t[i] = d
      BY <1>2, <1>3, <2>3, <2>6, <3>1
    <3> QED BY <1>2, <3>2 DEF Contains
  <2> QED BY <2>4, <2>5, <2>6
<1> QED BY <1>2, <1>5, <1>6 DEF t

-----------------------------------------------------------------------------
(* What a step may do with the stacks.                                     *)

\* Who runs is on top of one stack, and not at a point of those that are off.
LEMMA RunsOnStack ==
    ASSUME TypeOK, StackInv, NEW c \in Coroutines, Runs(c)
    PROVE  /\ pc[c] \notin Off
           /\ StackOf(c) \in stacks /\ Last(StackOf(c)) = c
           /\ StackOf(c) \in Seq(Coroutines) /\ StackOf(c) # <<>> /\ IsInjective(StackOf(c))
           /\ \A d \in Coroutines : Contains(Front(StackOf(c)), d) <=> Contains(StackOf(c), d) /\ d # c
           /\ Front(StackOf(c)) \in Seq(Coroutines) /\ IsInjective(Front(StackOf(c)))
           /\ Contains(StackOf(c), c)
<1>1. StackOf(c) \in stacks /\ Last(StackOf(c)) = c
  BY DEF Runs, StackOf
<1> DEFINE s == StackOf(c)
<1> HIDE DEF s
<1>2. s \in stacks /\ Last(s) = c
  BY <1>1 DEF s
<1>3. s \in Seq(Coroutines) /\ s # <<>> /\ IsInjective(s)
  BY <1>2 DEF TypeOK, StackInv
<1>4. /\ Contains(s, c) /\ Front(s) \in Seq(Coroutines) /\ IsInjective(Front(s))
      /\ \A d \in Coroutines : Contains(Front(s), d) <=> Contains(s, d) /\ d # c
  BY <1>2, <1>3, SeqFront
<1>5. pc[c] \notin Off
  BY <1>2, <1>4 DEF StackInv
<1> QED BY <1>2, <1>3, <1>4, <1>5 DEF s

\* Nobody gets on or off a stack.
LEMMA StackStays ==
    ASSUME TypeOK, StackInv, UNCHANGED stacks,
           \A c \in Coroutines : pc'[c] \in Off <=> pc[c] \in Off
    PROVE  StackInv' /\ stacks' \subseteq Seq(Coroutines) \ {<<>>}
BY DEF StackInv, TypeOK

\* The one on top gets off.
LEMMA StackSuspends ==
    ASSUME TypeOK, StackInv, NEW c \in Coroutines, NEW q \in Off, Runs(c), Suspend(c),
           pc' = [pc EXCEPT ![c] = q]
    PROVE  StackInv' /\ stacks' \subseteq Seq(Coroutines) \ {<<>>}
<1> DEFINE s == StackOf(c)
           f == Front(s)
<1>1. /\ s \in stacks /\ Contains(s, c) /\ f \in Seq(Coroutines) /\ IsInjective(f)
      /\ \A d \in Coroutines : Contains(f, d) <=> Contains(s, d) /\ d # c
  BY RunsOnStack
<1>2. stacks' = (stacks \ {s}) \cup ({f} \ {<<>>})
  BY DEF Suspend
<1> HIDE DEF s, f
<1>3. /\ stacks \subseteq Seq(Coroutines) \ {<<>>}
      /\ \A t \in stacks : IsInjective(t)
      /\ \A t, u \in stacks, d \in Coroutines : Contains(t, d) /\ Contains(u, d) => t = u
      /\ \A d \in Coroutines : (\E t \in stacks : Contains(t, d)) <=> pc[d] \notin Off
  BY DEF TypeOK, StackInv
<1>4. \A d \in Coroutines : pc'[d] = IF d = c THEN q ELSE pc[d]
  BY DEF TypeOK
<1>5. stacks' \subseteq Seq(Coroutines) \ {<<>>} /\ \A t \in stacks' : IsInjective(t)
  BY <1>1, <1>2, <1>3
<1>6. ASSUME NEW t \in stacks', NEW u \in stacks', NEW d \in Coroutines, Contains(t, d), Contains(u, d)
      PROVE  t = u
  BY <1>1, <1>2, <1>3, <1>6
<1>7. ASSUME NEW d \in Coroutines PROVE (\E t \in stacks' : Contains(t, d)) <=> pc'[d] \notin Off
  <2>1. CASE d = c
    <3>1. ASSUME NEW t \in stacks', Contains(t, c) PROVE FALSE
      BY <1>1, <1>2, <1>3, <3>1
    <3> QED BY <1>4, <2>1, <3>1
  <2>2. CASE d # c
    <3>1. ASSUME NEW t \in stacks', Contains(t, d) PROVE \E u \in stacks : Contains(u, d)
      BY <1>1, <1>2, <2>2, <3>1
    <3>2. ASSUME NEW u \in stacks, Contains(u, d) PROVE \E t \in stacks' : Contains(t, d)
      <4>1. CASE u = s
        <5>1. Contains(f, d)
          BY <1>1, <2>2, <3>2, <4>1
        <5>2. f # <<>>
          BY <5>1, SeqEmpty
        <5> QED BY <1>2, <5>1, <5>2
      <4>2. CASE u # s
        BY <1>2, <3>2, <4>2
      <4> QED BY <4>1, <4>2
    <3> QED BY <1>3, <1>4, <2>2, <3>1, <3>2
  <2> QED BY <2>1, <2>2
<1> QED BY <1>5, <1>6, <1>7 DEF StackInv

\* An executor puts one on a stack of its own.
LEMMA StackSchedules ==
    ASSUME TypeOK, StackInv, NEW c \in Coroutines, NEW q, q \notin Off, pc[c] \in Off, Schedule(c),
           pc' = [pc EXCEPT ![c] = q]
    PROVE  StackInv' /\ stacks' \subseteq Seq(Coroutines) \ {<<>>}
<1> DEFINE s == <<c>>
<1>1. /\ s \in Seq(Coroutines) /\ s # <<>> /\ IsInjective(s)
      /\ \A d \in Coroutines : Contains(s, d) <=> d = c
  BY SeqOne
<1>2. stacks' = stacks \cup {s}
  BY DEF Schedule
<1> HIDE DEF s
<1>3. /\ stacks \subseteq Seq(Coroutines) \ {<<>>}
      /\ \A t \in stacks : IsInjective(t)
      /\ \A t, u \in stacks, d \in Coroutines : Contains(t, d) /\ Contains(u, d) => t = u
      /\ \A d \in Coroutines : (\E t \in stacks : Contains(t, d)) <=> pc[d] \notin Off
  BY DEF TypeOK, StackInv
<1>4. \A d \in Coroutines : pc'[d] = IF d = c THEN q ELSE pc[d]
  BY DEF TypeOK
<1>5. stacks' \subseteq Seq(Coroutines) \ {<<>>} /\ \A t \in stacks' : IsInjective(t)
  BY <1>1, <1>2, <1>3
<1>6. ASSUME NEW t \in stacks', NEW u \in stacks', NEW d \in Coroutines, Contains(t, d), Contains(u, d)
      PROVE  t = u
  BY <1>1, <1>2, <1>3, <1>6
<1>7. ASSUME NEW d \in Coroutines PROVE (\E t \in stacks' : Contains(t, d)) <=> pc'[d] \notin Off
  BY <1>1, <1>2, <1>3, <1>4
<1> QED BY <1>5, <1>6, <1>7 DEF StackInv

\* The one on top resumes another one on top of itself.
LEMMA StackResumes ==
    ASSUME TypeOK, StackInv, NEW c \in Coroutines, NEW d \in Coroutines, NEW q, q \notin Off,
           Runs(c), pc[d] \in Off, Resume(c, d), pc' = [pc EXCEPT ![d] = q]
    PROVE  StackInv' /\ stacks' \subseteq Seq(Coroutines) \ {<<>>}
<1> DEFINE s == StackOf(c)
           g == Append(s, d)
<1>1. s \in stacks /\ s \in Seq(Coroutines) /\ IsInjective(s)
  BY RunsOnStack
<1>2. stacks' = (stacks \ {s}) \cup {g}
  BY DEF Resume
<1>3. /\ stacks \subseteq Seq(Coroutines) \ {<<>>}
      /\ \A t \in stacks : IsInjective(t)
      /\ \A t, u \in stacks, e \in Coroutines : Contains(t, e) /\ Contains(u, e) => t = u
      /\ \A e \in Coroutines : (\E t \in stacks : Contains(t, e)) <=> pc[e] \notin Off
  BY DEF TypeOK, StackInv
<1>4. \A e \in Coroutines : pc'[e] = IF e = d THEN q ELSE pc[e]
  BY DEF TypeOK
<1> HIDE DEF s
<1>5. \A t \in stacks : ~Contains(t, d)
  BY <1>3
<1>6. /\ g \in Seq(Coroutines) /\ g # <<>> /\ IsInjective(g)
      /\ \A e \in Coroutines : Contains(g, e) <=> Contains(s, e) \/ e = d
  BY <1>1, <1>5, SeqAppend
<1> HIDE DEF g
<1>7. stacks' \subseteq Seq(Coroutines) \ {<<>>} /\ \A t \in stacks' : IsInjective(t)
  BY <1>2, <1>3, <1>6
<1>8. ASSUME NEW t \in stacks', NEW u \in stacks', NEW e \in Coroutines, Contains(t, e), Contains(u, e)
      PROVE  t = u
  BY <1>1, <1>2, <1>3, <1>5, <1>6, <1>8
<1>9. ASSUME NEW e \in Coroutines PROVE (\E t \in stacks' : Contains(t, e)) <=> pc'[e] \notin Off
  <2>1. ASSUME NEW t \in stacks', Contains(t, e) PROVE e = d \/ \E u \in stacks : Contains(u, e)
    BY <1>1, <1>2, <1>6, <2>1
  <2>2. ASSUME NEW u \in stacks, Contains(u, e) PROVE \E t \in stacks' : Contains(t, e)
    BY <1>2, <1>6, <2>2
  <2>3. \E t \in stacks' : Contains(t, d)
    BY <1>2, <1>6
  <2> QED BY <1>3, <1>4, <2>1, <2>2, <2>3
<1> QED BY <1>7, <1>8, <1>9 DEF StackInv
-----------------------------------------------------------------------------
(* What a step may do with the lists of those that wait.                   *)

\* s is taken apart into f and r.
Splits(s, f, r) ==
    /\ f \in Seq(Coroutines) /\ r \in Seq(Coroutines) /\ IsInjective(f) /\ IsInjective(r)
    /\ \A d \in Coroutines :
           /\ Contains(s, d) <=> Contains(f, d) \/ Contains(r, d)
           /\ ~(Contains(f, d) /\ Contains(r, d))

\* The first of a list and the rest, and all of it and nothing.
LEMMA ListSplits ==
    ASSUME NEW s \in Seq(Coroutines), IsInjective(s)
    PROVE  Splits(s, First(s), Rest(s)) /\ Splits(s, s, <<>>)
<1>1. Splits(s, s, <<>>)
  BY SeqEmpty DEF Splits
<1>2. CASE s = <<>>
  BY <1>2, SeqEmpty DEF Splits, First, Rest
<1>3. CASE s # <<>>
  <2>1. First(s) = <<Head(s)>> /\ Rest(s) = Tail(s)
    BY <1>3 DEF First, Rest
  <2>2. /\ Head(s) \in Coroutines /\ Contains(s, Head(s)) /\ Tail(s) \in Seq(Coroutines) /\ IsInjective(Tail(s))
        /\ \A d \in Coroutines : Contains(Tail(s), d) <=> Contains(s, d) /\ d # Head(s)
    BY <1>3, SeqTail
  <2>3. /\ <<Head(s)>> \in Seq(Coroutines) /\ IsInjective(<<Head(s)>>)
        /\ \A d \in Coroutines : Contains(<<Head(s)>>, d) <=> d = Head(s)
    BY <2>2, SeqOne
  <2> QED BY <1>1, <2>1, <2>2, <2>3 DEF Splits
<1> QED BY <1>1, <1>2, <1>3

\* Nobody begins to wait or is released.
LEMMA ListStays ==
    ASSUME TypeOK, ListInv, NEW c \in Coroutines, NEW q, q \notin {"queued", "waiting"},
           pc[c] \notin {"queued", "waiting"}, resumes[c] = <<>> \/ q = "resuming",
           pc' = [pc EXCEPT ![c] = q], UNCHANGED <<awaiters, cvAwaiters, resumes>>
    PROVE  ListInv'
<1>1. \A d \in Coroutines : pc'[d] = IF d = c THEN q ELSE pc[d]
  BY DEF TypeOK
<1> QED BY <1>1 DEF ListInv

\* One joins the list of the lock, or that of the condition variable.
LEMMA ListJoins ==
    ASSUME TypeOK, ListInv, NEW c \in Coroutines, NEW q, UNCHANGED resumes, resumes[c] = <<>>,
           pc[c] \notin {"queued", "waiting"}, pc' = [pc EXCEPT ![c] = q],
           \/ q = "queued" /\ awaiters' = Append(awaiters, c) /\ UNCHANGED cvAwaiters
           \/ q = "waiting" /\ cvAwaiters' = Append(cvAwaiters, c) /\ UNCHANGED awaiters
    PROVE  ListInv' /\ awaiters' \in Seq(Coroutines) /\ cvAwaiters' \in Seq(Coroutines)
<1>1. \A d \in Coroutines : pc'[d] = IF d = c THEN q ELSE pc[d]
  BY DEF TypeOK
<1>2. /\ awaiters \in Seq(Coroutines) /\ cvAwaiters \in Seq(Coroutines)
      /\ IsInjective(awaiters) /\ IsInjective(cvAwaiters)
      /\ ~Contains(awaiters, c) /\ ~Contains(cvAwaiters, c) /\ \A d \in Coroutines : ~Contains(resumes[d], c)
  BY DEF TypeOK, ListInv
<1>3. CASE q = "queued" /\ awaiters' = Append(awaiters, c) /\ UNCHANGED cvAwaiters
  <2>1. /\ awaiters' \in Seq(Coroutines) /\ IsInjective(awaiters')
        /\ \A d \in Coroutines : Contains(awaiters', d) <=> Contains(awaiters, d) \/ d = c
    BY <1>2, <1>3, SeqAppend
  <2> QED BY <1>1, <1>2, <1>3, <2>1 DEF ListInv
<1>4. CASE q = "waiting" /\ cvAwaiters' = Append(cvAwaiters, c) /\ UNCHANGED awaiters
  <2>1. /\ cvAwaiters' \in Seq(Coroutines) /\ IsInjective(cvAwaiters')
        /\ \A d \in Coroutines : Contains(cvAwaiters', d) <=> Contains(cvAwaiters, d) \/ d = c
    BY <1>2, <1>4, SeqAppend
  <2> QED BY <1>1, <1>2, <1>4, <2>1 DEF ListInv
<1> QED BY <1>3, <1>4

\* Some of a list are handed to c, which is to resume them.
LEMMA ListHands ==
    ASSUME TypeOK, ListInv, NEW c \in Coroutines, NEW f, resumes[c] = <<>>,
           pc[c] \notin {"queued", "waiting"}, pc' = [pc EXCEPT ![c] = "resuming"],
           resumes' = [resumes EXCEPT ![c] = f],
           \/ Splits(awaiters, f, awaiters') /\ UNCHANGED cvAwaiters
           \/ Splits(cvAwaiters, f, cvAwaiters') /\ UNCHANGED awaiters
    PROVE  /\ ListInv' /\ awaiters' \in Seq(Coroutines) /\ cvAwaiters' \in Seq(Coroutines)
           /\ resumes' \in [Coroutines -> Seq(Coroutines)]
<1>1. \A d \in Coroutines : pc'[d] = IF d = c THEN "resuming" ELSE pc[d]
  BY DEF TypeOK
<1>2. \A d \in Coroutines : resumes'[d] = IF d = c THEN f ELSE resumes[d]
  BY DEF TypeOK
<1>3. \A d \in Coroutines : ~Contains(resumes[c], d)
  BY SeqEmpty
<1>4. awaiters' \in Seq(Coroutines) /\ cvAwaiters' \in Seq(Coroutines) /\ f \in Seq(Coroutines)
      /\ IsInjective(f) /\ IsInjective(awaiters') /\ IsInjective(cvAwaiters')
  BY DEF TypeOK, Splits, ListInv
<1>5. resumes' \in [Coroutines -> Seq(Coroutines)]
  BY <1>4 DEF TypeOK
<1>6. CASE Splits(awaiters, f, awaiters') /\ UNCHANGED cvAwaiters
  <2>1. \A d \in Coroutines :
           /\ Contains(awaiters, d) <=> Contains(f, d) \/ Contains(awaiters', d)
           /\ ~(Contains(f, d) /\ Contains(awaiters', d))
    BY <1>6 DEF Splits
  <2> QED BY <1>1, <1>2, <1>3, <1>4, <1>5, <1>6, <2>1, SMTT(30) DEF ListInv
<1>7. CASE Splits(cvAwaiters, f, cvAwaiters') /\ UNCHANGED awaiters
  <2>1. \A d \in Coroutines :
           /\ Contains(cvAwaiters, d) <=> Contains(f, d) \/ Contains(cvAwaiters', d)
           /\ ~(Contains(f, d) /\ Contains(cvAwaiters', d))
    BY <1>7 DEF Splits
  <2> QED BY <1>1, <1>2, <1>3, <1>4, <1>5, <1>7, <2>1, SMTT(30) DEF ListInv
<1> QED BY <1>6, <1>7

\* c resumes the first of those it has taken.
LEMMA ListResumes ==
    ASSUME TypeOK, ListInv, NEW c \in Coroutines, resumes[c] # <<>>,
           NEW q, q \notin {"queued", "waiting"},
           pc' = [pc EXCEPT ![Head(resumes[c])] = q], UNCHANGED <<awaiters, cvAwaiters>>,
           resumes' = [resumes EXCEPT ![c] = Tail(@)]
    PROVE  /\ ListInv' /\ resumes' \in [Coroutines -> Seq(Coroutines)]
           /\ Head(resumes[c]) \in Coroutines /\ pc[Head(resumes[c])] \in {"queued", "waiting"}
           /\ Contains(resumes[c], Head(resumes[c]))
<1> DEFINE d == Head(resumes[c])
           t == Tail(resumes[c])
<1>1. /\ d \in Coroutines /\ Contains(resumes[c], d) /\ t \in Seq(Coroutines) /\ IsInjective(t)
      /\ \A e \in Coroutines : Contains(t, e) <=> Contains(resumes[c], e) /\ e # d
  <2>1. resumes[c] \in Seq(Coroutines) /\ IsInjective(resumes[c])
    BY DEF TypeOK, ListInv
  <2> QED BY <2>1, SeqTail
<1>2. /\ resumes' = [resumes EXCEPT ![c] = t]
      /\ \A e \in Coroutines : resumes'[e] = IF e = c THEN t ELSE resumes[e]
  BY DEF TypeOK
<1>3. resumes' \in [Coroutines -> Seq(Coroutines)]
  BY <1>1, <1>2 DEF TypeOK
<1> HIDE DEF d, t
<1>4. \A e \in Coroutines : pc'[e] = IF e = d THEN q ELSE pc[e]
  BY <1>1 DEF TypeOK, d
<1>5. pc[d] \in {"queued", "waiting"} /\ ~Contains(awaiters, d) /\ ~Contains(cvAwaiters, d) /\ d # c
      /\ resumes[d] = <<>> /\ pc[c] = "resuming"
      /\ \A e \in Coroutines : Contains(resumes[e], d) => e = c
  BY <1>1 DEF ListInv
<1>6. ListInv'
  BY <1>1, <1>2, <1>4, <1>5 DEF ListInv
<1> QED BY <1>1, <1>3, <1>5, <1>6 DEF d
-----------------------------------------------------------------------------
(* What a step may do with the lock.                                       *)

\* Nobody gets it, gets past lock_impl or gives it up.
LEMMA HolderStays ==
    ASSUME TypeOK, HolderInv, NEW c \in Coroutines, NEW q, pc' = [pc EXCEPT ![c] = q],
           q \in Held <=> pc[c] \in Held, q \in In <=> pc[c] \in In, UNCHANGED <<locked, count>>
    PROVE  HolderInv'
<1>1. \A d \in Coroutines : pc'[d] = IF d = c THEN q ELSE pc[d]
  BY DEF TypeOK
<1>2. \A d \in Coroutines : (pc'[d] \in Held <=> pc[d] \in Held) /\ (pc'[d] \in In <=> pc[d] \in In)
  BY <1>1
<1> QED BY <1>2 DEF HolderInv

\* It was free.
LEMMA HolderTakes ==
    ASSUME TypeOK, HolderInv, NEW c \in Coroutines, NEW q, pc' = [pc EXCEPT ![c] = q],
           ~locked, locked' = TRUE, q \in Held, q \notin In, UNCHANGED count
    PROVE  HolderInv'
<1>1. \A d \in Coroutines : pc'[d] = IF d = c THEN q ELSE pc[d]
  BY DEF TypeOK
<1>2. \A d \in Coroutines : pc[d] \notin Held /\ pc[d] \notin In
  BY DEF HolderInv, Held, In
<1>3. /\ \A d \in Coroutines : pc'[d] \in Held <=> d = c
      /\ \A d \in Coroutines : pc'[d] \notin In
  BY <1>1, <1>2
<1> QED BY <1>2, <1>3 DEF HolderInv

\* The holder is counted.
LEMMA HolderEnters ==
    ASSUME TypeOK, HolderInv, NEW c \in Coroutines, NEW q, pc' = [pc EXCEPT ![c] = q],
           pc[c] \in Held, pc[c] \notin In, q \in In, count' = count + 1, UNCHANGED locked
    PROVE  HolderInv'
<1>1. \A d \in Coroutines : pc'[d] = IF d = c THEN q ELSE pc[d]
  BY DEF TypeOK
<1>2. In \subseteq Held
  BY DEF In, Held
<1>3. \A d \in Coroutines : (pc'[d] \in Held <=> d = c) /\ (pc[d] \in Held <=> d = c) /\ pc[d] \notin In
  BY <1>1, <1>2 DEF HolderInv
<1>4. count = 0 /\ locked /\ pc'[c] \in In
  BY <1>1, <1>3 DEF HolderInv
<1> QED BY <1>3, <1>4 DEF HolderInv

\* The holder gives it up.
LEMMA HolderLeaves ==
    ASSUME TypeOK, HolderInv, NEW c \in Coroutines, NEW q, pc' = [pc EXCEPT ![c] = q],
           pc[c] \in Held, q \notin Held, locked' = FALSE,
           count' = IF pc[c] \in In THEN count - 1 ELSE count
    PROVE  HolderInv'
<1>1. \A d \in Coroutines : pc'[d] = IF d = c THEN q ELSE pc[d]
  BY DEF TypeOK
<1>2. In \subseteq Held
  BY DEF In, Held
<1>3. \A d \in Coroutines : pc'[d] \notin Held /\ pc'[d] \notin In /\ (pc[d] \in In => d = c)
  BY <1>1, <1>2 DEF HolderInv
<1>4. count' = 0
  BY <1>3 DEF HolderInv
<1> QED BY <1>3, <1>4 DEF HolderInv
-----------------------------------------------------------------------------
(* What a step of one coroutine may do with the condition variable.        *)

\* The others stay where they are, and with what they have.
OthersStay(c) ==
    \A d \in Coroutines : d # c =>
        pc'[d] = pc[d] /\ then'[d] = then[d] /\ use'[d] = use[d] /\ resumes'[d] = resumes[d]

LEMMA MutexStays ==
    ASSUME MutexInv, NEW c \in Coroutines, OthersStay(c), UNCHANGED mutex,
           (pc[c] = "await_unlock" \/ AwaitsFrom(c)) <=> (pc[c] = "await_unlock" \/ AwaitsFrom(c))'
    PROVE  MutexInv'
BY DEF MutexInv, OthersStay, AwaitsFrom

LEMMA UseStays ==
    ASSUME UseInv, NEW c \in Coroutines, OthersStay(c),
           (\/ pc[c] \in {"await", "await_unlock", "waiting", "awaited", "cv_resume_on", "cv_posted"}
            \/ AwaitsFrom(c))' => use'[c] = "pop",
           pc'[c] \in {"await", "await_unlock"} => ~ready',
           \/ ready' => ready
           \/ \A d \in Coroutines : pc[d] \in {"await", "await_unlock"} => d = c
    PROVE  UseInv'
BY DEF UseInv, OthersStay, AwaitsFrom

\* Who looks for what was produced goes on looking.
LEMMA FoundStays ==
    ASSUME FoundInv, NEW c \in Coroutines, OthersStay(c), resumes[c] = <<>> \/ UNCHANGED resumes,
           ready' /\ ~closed' /\ (cvAwaiters' # <<>> \/ mutex' # Nobody) =>
               \/ Seeks(c)'
               \/ ready /\ ~closed /\ (cvAwaiters # <<>> \/ mutex # Nobody) /\ ~Seeks(c)
    PROVE  FoundInv'
<1>1. SUFFICES ASSUME ready', ~closed', (cvAwaiters # <<>> \/ mutex # Nobody)' PROVE \E d \in Coroutines : Seeks(d)'
  BY DEF FoundInv
<1>2. CASE Seeks(c)'
  BY <1>2
<1>3. CASE ready /\ ~closed /\ (cvAwaiters # <<>> \/ mutex # Nobody) /\ ~Seeks(c)
  <2>1. PICK d \in Coroutines : Seeks(d)
    BY <1>3 DEF FoundInv
  <2>2. d # c
    BY <1>3, <2>1
  <2>3. pc'[d] = pc[d] /\ then'[d] = then[d] /\ use'[d] = use[d]
    BY <2>2 DEF OthersStay
  <2>4. ASSUME NEW e \in Coroutines, Contains(resumes[e], d) PROVE Contains(resumes'[e], d)
    BY <2>4, SeqEmpty DEF OthersStay
  <2> QED BY <2>1, <2>3, <2>4 DEF Seeks
<1> QED BY <1>1, <1>2, <1>3
-----------------------------------------------------------------------------
(* Every step keeps the invariant.                                         *)

\* First the steps by what they do, then the actions by the steps they are.
LEMMA NextIInv == IInv /\ [Next]_vars => IInv'
<1> SUFFICES ASSUME TypeOK, StackInv, ListInv, HolderInv, MutexInv, UseInv, FoundInv, [Next]_vars
             PROVE  IInv'
  BY DEF IInv
<1>t. /\ locked \in BOOLEAN /\ count \in Int /\ awaiters \in Seq(Coroutines) /\ closed \in BOOLEAN
      /\ pc \in [Coroutines -> Points] /\ use \in [Coroutines -> {"hold", "push", "pop"}]
      /\ waited \subseteq Coroutines /\ resumes \in [Coroutines -> Seq(Coroutines)]
      /\ then \in [Coroutines -> {"idle", "ending", "await_push", "notify_one", "notify_all"}]
      /\ mutex \in Coroutines \cup {Nobody} /\ cvAwaiters \in Seq(Coroutines)
      /\ ready \in BOOLEAN
  BY DEF TypeOK
\* A coroutine goes on in place.
<1>1. ASSUME NEW c \in Coroutines, NEW q,
            MayGo(c, q),
            pc' = [pc EXCEPT ![c] = q],
            UNCHANGED <<locked, count, awaiters, waited, closed, stacks, use, resumes, then, mutex, cvAwaiters, ready>>
      PROVE  IInv'
  <2>1. \A d \in Coroutines : pc'[d] = IF d = c THEN q ELSE pc[d]
    BY <1>1, <1>t
  <2>2. OthersStay(c)
    BY <1>1 DEF OthersStay
  <2>3. q \in Points /\ pc[c] \in Points /\ (pc[c] # "resuming" => resumes[c] = <<>>)
    BY <1>1 DEF Points, ListInv, MayGo
  <2>4. StackInv' /\ stacks' \subseteq Seq(Coroutines) \ {<<>>}
    <3>1. q \notin Off /\ pc[c] \notin Off
      BY <1>1 DEF Off, Notifies, MayGo
    <3> QED BY <1>1, <3>1, StackStays
  <2>5. /\ ListInv' /\ awaiters' \in Seq(Coroutines) /\ cvAwaiters' \in Seq(Coroutines)
        /\ resumes' \in [Coroutines -> Seq(Coroutines)]
    <3>1. ListInv'
      <4>1. q \notin {"queued", "waiting"} /\ pc[c] \notin {"queued", "waiting"} /\ resumes[c] = <<>>
        BY <1>1, <2>3 DEF MayGo
      <4> QED BY <1>1, <4>1, ListStays
    <3> QED BY <1>1, <1>t, <3>1
  <2>6. TypeOK'
    <3>1. pc' \in [Coroutines -> Points]
      BY <1>1, <1>t, <2>3
    <3>2. locked' \in BOOLEAN /\ count' \in Int /\ closed' \in BOOLEAN /\ ready' \in BOOLEAN /\ waited' \subseteq Coroutines
      BY <1>1, <1>t
    <3>3. /\ use' \in [Coroutines -> {"hold", "push", "pop"}] /\ mutex' \in Coroutines \cup {Nobody}
          /\ then' \in [Coroutines -> {"idle", "ending", "await_push", "notify_one", "notify_all"}]
      BY <1>1, <1>t
    <3> QED BY <2>4, <2>5, <3>1, <3>2, <3>3 DEF TypeOK
  <2>7. HolderInv'
    <3>1. (q \in Held <=> pc[c] \in Held) /\ (q \in In <=> pc[c] \in In)
      BY <1>1 DEF Held, In, Notifies, MayGo
    <3> QED BY <1>1, <3>1, HolderStays
  <2>8. MutexInv'
    <3>1. (pc[c] = "await_unlock" \/ AwaitsFrom(c)) <=> (pc[c] = "await_unlock" \/ AwaitsFrom(c))'
      BY <1>1 DEF AwaitsFrom, Notifies, MayGo
    <3> QED BY <1>1, <2>2, <3>1, MutexStays
  <2>9. UseInv'
    <3>1. (\/ pc[c] \in {"await", "await_unlock", "waiting", "awaited", "cv_resume_on", "cv_posted"}
           \/ AwaitsFrom(c))' => use'[c] = "pop"
      BY <1>1 DEF UseInv, AwaitsFrom, Notifies, MayGo
    <3>2. pc'[c] \in {"await", "await_unlock"} => ~ready'
      BY <1>1 DEF UseInv, MayGo
    <3>3. ready' => ready
      BY <1>1
    <3> QED BY <2>2, <3>1, <3>2, <3>3, UseStays
  <2>10. FoundInv'
    <3>1. ready' /\ ~closed' /\ (cvAwaiters' # <<>> \/ mutex' # Nobody) =>
               \/ Seeks(c)'
               \/ ready /\ ~closed /\ (cvAwaiters # <<>> \/ mutex # Nobody) /\ ~Seeks(c)
      <4>1. Seeks(c) /\ ready' /\ ~closed' => Seeks(c)'
        BY <1>1 DEF Seeks, Seeking, Notifies, MayGo
      <4> QED BY <1>1, <4>1
    <3>2. resumes[c] = <<>> \/ UNCHANGED resumes
      BY <1>1
    <3> QED BY <2>2, <3>1, <3>2, FoundStays
  <2> QED BY <2>4, <2>5, <2>6, <2>7, <2>8, <2>9, <2>10 DEF IInv
\* It leaves its stack, to an executor or for good.
<1>2. ASSUME NEW c \in Coroutines, NEW q,
            MayPark(c, q),
            pc' = [pc EXCEPT ![c] = q],
            Runs(c) /\ Suspend(c),
            UNCHANGED <<locked, count, awaiters, waited, closed, use, resumes, then, mutex, cvAwaiters, ready>>
      PROVE  IInv'
  <2>1. \A d \in Coroutines : pc'[d] = IF d = c THEN q ELSE pc[d]
    BY <1>2, <1>t
  <2>2. OthersStay(c)
    BY <1>2 DEF OthersStay
  <2>3. q \in Points /\ pc[c] \in Points /\ (pc[c] # "resuming" => resumes[c] = <<>>)
    BY <1>2 DEF Points, ListInv, MayPark
  <2>4. StackInv' /\ stacks' \subseteq Seq(Coroutines) \ {<<>>}
    <3>1. q \in Off
      BY <1>2 DEF Off, MayPark
    <3> QED BY <1>2, <3>1, StackSuspends
  <2>5. /\ ListInv' /\ awaiters' \in Seq(Coroutines) /\ cvAwaiters' \in Seq(Coroutines)
        /\ resumes' \in [Coroutines -> Seq(Coroutines)]
    <3>1. ListInv'
      <4>1. q \notin {"queued", "waiting"} /\ pc[c] \notin {"queued", "waiting"} /\ resumes[c] = <<>>
        BY <1>2, <2>3 DEF MayPark
      <4> QED BY <1>2, <4>1, ListStays
    <3> QED BY <1>2, <1>t, <3>1
  <2>6. TypeOK'
    <3>1. pc' \in [Coroutines -> Points]
      BY <1>2, <1>t, <2>3
    <3>2. locked' \in BOOLEAN /\ count' \in Int /\ closed' \in BOOLEAN /\ ready' \in BOOLEAN /\ waited' \subseteq Coroutines
      BY <1>2, <1>t
    <3>3. /\ use' \in [Coroutines -> {"hold", "push", "pop"}] /\ mutex' \in Coroutines \cup {Nobody}
          /\ then' \in [Coroutines -> {"idle", "ending", "await_push", "notify_one", "notify_all"}]
      BY <1>2, <1>t
    <3> QED BY <2>4, <2>5, <3>1, <3>2, <3>3 DEF TypeOK
  <2>7. HolderInv'
    <3>1. (q \in Held <=> pc[c] \in Held) /\ (q \in In <=> pc[c] \in In)
      BY <1>2 DEF Held, In, Notifies, MayPark
    <3> QED BY <1>2, <3>1, HolderStays
  <2>8. MutexInv'
    <3>1. (pc[c] = "await_unlock" \/ AwaitsFrom(c)) <=> (pc[c] = "await_unlock" \/ AwaitsFrom(c))'
      BY <1>2 DEF AwaitsFrom, Notifies, MayPark
    <3> QED BY <1>2, <2>2, <3>1, MutexStays
  <2>9. UseInv'
    <3>1. (\/ pc[c] \in {"await", "await_unlock", "waiting", "awaited", "cv_resume_on", "cv_posted"}
           \/ AwaitsFrom(c))' => use'[c] = "pop"
      BY <1>2 DEF UseInv, AwaitsFrom, Notifies, MayPark
    <3>2. pc'[c] \in {"await", "await_unlock"} => ~ready'
      BY <1>2 DEF UseInv, MayPark
    <3>3. ready' => ready
      BY <1>2
    <3> QED BY <2>2, <3>1, <3>2, <3>3, UseStays
  <2>10. FoundInv'
    <3>1. ready' /\ ~closed' /\ (cvAwaiters' # <<>> \/ mutex' # Nobody) =>
               \/ Seeks(c)'
               \/ ready /\ ~closed /\ (cvAwaiters # <<>> \/ mutex # Nobody) /\ ~Seeks(c)
      <4>1. Seeks(c) /\ ready' /\ ~closed' => Seeks(c)'
        BY <1>2 DEF Seeks, Seeking, Notifies, MayPark
      <4> QED BY <1>2, <4>1
    <3>2. resumes[c] = <<>> \/ UNCHANGED resumes
      BY <1>2
    <3> QED BY <2>2, <3>1, <3>2, FoundStays
  <2> QED BY <2>4, <2>5, <2>6, <2>7, <2>8, <2>9, <2>10 DEF IInv
\* An executor runs it, or breaks it.
<1>3. ASSUME NEW c \in Coroutines, NEW q,
            MayStart(c, q),
            pc' = [pc EXCEPT ![c] = q],
            Schedule(c),
            UNCHANGED <<locked, count, awaiters, waited, closed, use, resumes, then, mutex, cvAwaiters, ready>>
      PROVE  IInv'
  <2>1. \A d \in Coroutines : pc'[d] = IF d = c THEN q ELSE pc[d]
    BY <1>3, <1>t
  <2>2. OthersStay(c)
    BY <1>3 DEF OthersStay
  <2>3. q \in Points /\ pc[c] \in Points /\ (pc[c] # "resuming" => resumes[c] = <<>>)
    BY <1>3 DEF Points, ListInv, MayStart
  <2>4. StackInv' /\ stacks' \subseteq Seq(Coroutines) \ {<<>>}
    <3>1. q \notin Off /\ pc[c] \in Off
      BY <1>3 DEF Off, MayStart
    <3> QED BY <1>3, <3>1, StackSchedules
  <2>5. /\ ListInv' /\ awaiters' \in Seq(Coroutines) /\ cvAwaiters' \in Seq(Coroutines)
        /\ resumes' \in [Coroutines -> Seq(Coroutines)]
    <3>1. ListInv'
      <4>1. q \notin {"queued", "waiting"} /\ pc[c] \notin {"queued", "waiting"} /\ resumes[c] = <<>>
        BY <1>3, <2>3 DEF MayStart
      <4> QED BY <1>3, <4>1, ListStays
    <3> QED BY <1>3, <1>t, <3>1
  <2>6. TypeOK'
    <3>1. pc' \in [Coroutines -> Points]
      BY <1>3, <1>t, <2>3
    <3>2. locked' \in BOOLEAN /\ count' \in Int /\ closed' \in BOOLEAN /\ ready' \in BOOLEAN /\ waited' \subseteq Coroutines
      BY <1>3, <1>t
    <3>3. /\ use' \in [Coroutines -> {"hold", "push", "pop"}] /\ mutex' \in Coroutines \cup {Nobody}
          /\ then' \in [Coroutines -> {"idle", "ending", "await_push", "notify_one", "notify_all"}]
      BY <1>3, <1>t
    <3> QED BY <2>4, <2>5, <3>1, <3>2, <3>3 DEF TypeOK
  <2>7. HolderInv'
    <3>1. (q \in Held <=> pc[c] \in Held) /\ (q \in In <=> pc[c] \in In)
      BY <1>3 DEF Held, In, Notifies, MayStart
    <3> QED BY <1>3, <3>1, HolderStays
  <2>8. MutexInv'
    <3>1. (pc[c] = "await_unlock" \/ AwaitsFrom(c)) <=> (pc[c] = "await_unlock" \/ AwaitsFrom(c))'
      BY <1>3 DEF AwaitsFrom, Notifies, MayStart
    <3> QED BY <1>3, <2>2, <3>1, MutexStays
  <2>9. UseInv'
    <3>1. (\/ pc[c] \in {"await", "await_unlock", "waiting", "awaited", "cv_resume_on", "cv_posted"}
           \/ AwaitsFrom(c))' => use'[c] = "pop"
      BY <1>3 DEF UseInv, AwaitsFrom, Notifies, MayStart
    <3>2. pc'[c] \in {"await", "await_unlock"} => ~ready'
      BY <1>3 DEF UseInv, MayStart
    <3>3. ready' => ready
      BY <1>3
    <3> QED BY <2>2, <3>1, <3>2, <3>3, UseStays
  <2>10. FoundInv'
    <3>1. ready' /\ ~closed' /\ (cvAwaiters' # <<>> \/ mutex' # Nobody) =>
               \/ Seeks(c)'
               \/ ready /\ ~closed /\ (cvAwaiters # <<>> \/ mutex # Nobody) /\ ~Seeks(c)
      <4>1. Seeks(c) /\ ready' /\ ~closed' => Seeks(c)'
        BY <1>3 DEF Seeks, Seeking, Notifies, MayStart
      <4> QED BY <1>3, <4>1
    <3>2. resumes[c] = <<>> \/ UNCHANGED resumes
      BY <1>3
    <3> QED BY <2>2, <3>1, <3>2, FoundStays
  <2> QED BY <2>4, <2>5, <2>6, <2>7, <2>8, <2>9, <2>10 DEF IInv
\* It takes the lock.
<1>4. ASSUME NEW c \in Coroutines, NEW q,
            MayTake(c, q),
            ~locked,
            pc' = [pc EXCEPT ![c] = q],
            locked' = TRUE,
            UNCHANGED <<count, awaiters, waited, closed, stacks, use, resumes, then, mutex, cvAwaiters, ready>>
      PROVE  IInv'
  <2>1. \A d \in Coroutines : pc'[d] = IF d = c THEN q ELSE pc[d]
    BY <1>4, <1>t
  <2>2. OthersStay(c)
    BY <1>4 DEF OthersStay
  <2>3. q \in Points /\ pc[c] \in Points /\ (pc[c] # "resuming" => resumes[c] = <<>>)
    BY <1>4 DEF Points, ListInv, MayTake
  <2>4. StackInv' /\ stacks' \subseteq Seq(Coroutines) \ {<<>>}
    <3>1. q \notin Off /\ pc[c] \notin Off
      BY <1>4 DEF Off, Notifies, MayTake
    <3> QED BY <1>4, <3>1, StackStays
  <2>5. /\ ListInv' /\ awaiters' \in Seq(Coroutines) /\ cvAwaiters' \in Seq(Coroutines)
        /\ resumes' \in [Coroutines -> Seq(Coroutines)]
    <3>1. ListInv'
      <4>1. q \notin {"queued", "waiting"} /\ pc[c] \notin {"queued", "waiting"} /\ resumes[c] = <<>>
        BY <1>4, <2>3 DEF MayTake
      <4> QED BY <1>4, <4>1, ListStays
    <3> QED BY <1>4, <1>t, <3>1
  <2>6. TypeOK'
    <3>1. pc' \in [Coroutines -> Points]
      BY <1>4, <1>t, <2>3
    <3>2. locked' \in BOOLEAN /\ count' \in Int /\ closed' \in BOOLEAN /\ ready' \in BOOLEAN /\ waited' \subseteq Coroutines
      BY <1>4, <1>t
    <3>3. /\ use' \in [Coroutines -> {"hold", "push", "pop"}] /\ mutex' \in Coroutines \cup {Nobody}
          /\ then' \in [Coroutines -> {"idle", "ending", "await_push", "notify_one", "notify_all"}]
      BY <1>4, <1>t
    <3> QED BY <2>4, <2>5, <3>1, <3>2, <3>3 DEF TypeOK
  <2>7. HolderInv'
    <3>1. q \in Held /\ q \notin In
      BY <1>4 DEF Held, In, MayTake
    <3> QED BY <1>4, <3>1, HolderTakes
  <2>8. MutexInv'
    <3>1. (pc[c] = "await_unlock" \/ AwaitsFrom(c)) <=> (pc[c] = "await_unlock" \/ AwaitsFrom(c))'
      BY <1>4 DEF AwaitsFrom, Notifies, MayTake
    <3> QED BY <1>4, <2>2, <3>1, MutexStays
  <2>9. UseInv'
    <3>1. (\/ pc[c] \in {"await", "await_unlock", "waiting", "awaited", "cv_resume_on", "cv_posted"}
           \/ AwaitsFrom(c))' => use'[c] = "pop"
      BY <1>4 DEF UseInv, AwaitsFrom, Notifies, MayTake
    <3>2. pc'[c] \in {"await", "await_unlock"} => ~ready'
      BY <1>4 DEF UseInv, MayTake
    <3>3. ready' => ready
      BY <1>4
    <3> QED BY <2>2, <3>1, <3>2, <3>3, UseStays
  <2>10. FoundInv'
    <3>1. ready' /\ ~closed' /\ (cvAwaiters' # <<>> \/ mutex' # Nobody) =>
               \/ Seeks(c)'
               \/ ready /\ ~closed /\ (cvAwaiters # <<>> \/ mutex # Nobody) /\ ~Seeks(c)
      <4>1. Seeks(c) /\ ready' /\ ~closed' => Seeks(c)'
        BY <1>4 DEF Seeks, Seeking, Notifies, MayTake
      <4> QED BY <1>4, <4>1
    <3>2. resumes[c] = <<>> \/ UNCHANGED resumes
      BY <1>4
    <3> QED BY <2>2, <3>1, <3>2, FoundStays
  <2> QED BY <2>4, <2>5, <2>6, <2>7, <2>8, <2>9, <2>10 DEF IInv
\* It joins the list of the lock.
<1>5. ASSUME NEW c \in Coroutines,
            pc[c] = "lock",
            pc' = [pc EXCEPT ![c] = "queued"],
            Runs(c) /\ Suspend(c),
            awaiters' = Append(awaiters, c),
            waited' = waited \cup {c},
            UNCHANGED <<locked, count, closed, use, resumes, then, mutex, cvAwaiters, ready>>
      PROVE  IInv'
  <2>1. \A d \in Coroutines : pc'[d] = IF d = c THEN "queued" ELSE pc[d]
    BY <1>5, <1>t
  <2>2. OthersStay(c)
    BY <1>5 DEF OthersStay
  <2>3. "queued" \in Points /\ pc[c] \in Points /\ (pc[c] # "resuming" => resumes[c] = <<>>)
    BY <1>5 DEF Points, ListInv
  <2>4. StackInv' /\ stacks' \subseteq Seq(Coroutines) \ {<<>>}
    <3>1. "queued" \in Off
      BY <1>5 DEF Off
    <3> QED BY <1>5, <3>1, StackSuspends
  <2>5. /\ ListInv' /\ awaiters' \in Seq(Coroutines) /\ cvAwaiters' \in Seq(Coroutines)
        /\ resumes' \in [Coroutines -> Seq(Coroutines)]
    <3>1. ListInv' /\ awaiters' \in Seq(Coroutines) /\ cvAwaiters' \in Seq(Coroutines)
      BY <1>5, <2>3, ListJoins
    <3> QED BY <1>5, <1>t, <3>1
  <2>6. TypeOK'
    <3>1. pc' \in [Coroutines -> Points]
      BY <1>5, <1>t, <2>3
    <3>2. locked' \in BOOLEAN /\ count' \in Int /\ closed' \in BOOLEAN /\ ready' \in BOOLEAN /\ waited' \subseteq Coroutines
      BY <1>5, <1>t
    <3>3. /\ use' \in [Coroutines -> {"hold", "push", "pop"}] /\ mutex' \in Coroutines \cup {Nobody}
          /\ then' \in [Coroutines -> {"idle", "ending", "await_push", "notify_one", "notify_all"}]
      BY <1>5, <1>t
    <3> QED BY <2>4, <2>5, <3>1, <3>2, <3>3 DEF TypeOK
  <2>7. HolderInv'
    <3>1. ("queued" \in Held <=> pc[c] \in Held) /\ ("queued" \in In <=> pc[c] \in In)
      BY <1>5 DEF Held, In, Notifies
    <3> QED BY <1>5, <3>1, HolderStays
  <2>8. MutexInv'
    <3>1. (pc[c] = "await_unlock" \/ AwaitsFrom(c)) <=> (pc[c] = "await_unlock" \/ AwaitsFrom(c))'
      BY <1>5 DEF AwaitsFrom, Notifies
    <3> QED BY <1>5, <2>2, <3>1, MutexStays
  <2>9. UseInv'
    <3>1. (\/ pc[c] \in {"await", "await_unlock", "waiting", "awaited", "cv_resume_on", "cv_posted"}
           \/ AwaitsFrom(c))' => use'[c] = "pop"
      BY <1>5 DEF UseInv, AwaitsFrom, Notifies
    <3>2. pc'[c] \in {"await", "await_unlock"} => ~ready'
      BY <1>5 DEF UseInv
    <3>3. ready' => ready
      BY <1>5
    <3> QED BY <2>2, <3>1, <3>2, <3>3, UseStays
  <2>10. FoundInv'
    <3>1. ready' /\ ~closed' /\ (cvAwaiters' # <<>> \/ mutex' # Nobody) =>
               \/ Seeks(c)'
               \/ ready /\ ~closed /\ (cvAwaiters # <<>> \/ mutex # Nobody) /\ ~Seeks(c)
      <4>1. Seeks(c) /\ ready' /\ ~closed' => Seeks(c)'
        BY <1>5 DEF Seeks, Seeking, Notifies
      <4> QED BY <1>5, <4>1
    <3>2. resumes[c] = <<>> \/ UNCHANGED resumes
      BY <1>5
    <3> QED BY <2>2, <3>1, <3>2, FoundStays
  <2> QED BY <2>4, <2>5, <2>6, <2>7, <2>8, <2>9, <2>10 DEF IInv
\* It enters.
<1>6. ASSUME NEW c \in Coroutines,
            pc[c] = "enter",
            pc' = [pc EXCEPT ![c] = "inside"],
            count' = count + 1,
            waited' = waited \ {c},
            UNCHANGED <<locked, awaiters, closed, stacks, use, resumes, then, mutex, cvAwaiters, ready>>
      PROVE  IInv'
  <2>1. \A d \in Coroutines : pc'[d] = IF d = c THEN "inside" ELSE pc[d]
    BY <1>6, <1>t
  <2>2. OthersStay(c)
    BY <1>6 DEF OthersStay
  <2>3. "inside" \in Points /\ pc[c] \in Points /\ (pc[c] # "resuming" => resumes[c] = <<>>)
    BY <1>6 DEF Points, ListInv
  <2>4. StackInv' /\ stacks' \subseteq Seq(Coroutines) \ {<<>>}
    <3>1. "inside" \notin Off /\ pc[c] \notin Off
      BY <1>6 DEF Off, Notifies
    <3> QED BY <1>6, <3>1, StackStays
  <2>5. /\ ListInv' /\ awaiters' \in Seq(Coroutines) /\ cvAwaiters' \in Seq(Coroutines)
        /\ resumes' \in [Coroutines -> Seq(Coroutines)]
    <3>1. ListInv'
      <4>1. "inside" \notin {"queued", "waiting"} /\ pc[c] \notin {"queued", "waiting"} /\ resumes[c] = <<>>
        BY <1>6, <2>3
      <4> QED BY <1>6, <4>1, ListStays
    <3> QED BY <1>6, <1>t, <3>1
  <2>6. TypeOK'
    <3>1. pc' \in [Coroutines -> Points]
      BY <1>6, <1>t, <2>3
    <3>2. locked' \in BOOLEAN /\ count' \in Int /\ closed' \in BOOLEAN /\ ready' \in BOOLEAN /\ waited' \subseteq Coroutines
      BY <1>6, <1>t
    <3>3. /\ use' \in [Coroutines -> {"hold", "push", "pop"}] /\ mutex' \in Coroutines \cup {Nobody}
          /\ then' \in [Coroutines -> {"idle", "ending", "await_push", "notify_one", "notify_all"}]
      BY <1>6, <1>t
    <3> QED BY <2>4, <2>5, <3>1, <3>2, <3>3 DEF TypeOK
  <2>7. HolderInv'
    <3>1. pc[c] \in Held /\ pc[c] \notin In /\ "inside" \in In
      BY <1>6 DEF Held, In
    <3> QED BY <1>6, <3>1, HolderEnters
  <2>8. MutexInv'
    <3>1. (pc[c] = "await_unlock" \/ AwaitsFrom(c)) <=> (pc[c] = "await_unlock" \/ AwaitsFrom(c))'
      BY <1>6 DEF AwaitsFrom, Notifies
    <3> QED BY <1>6, <2>2, <3>1, MutexStays
  <2>9. UseInv'
    <3>1. (\/ pc[c] \in {"await", "await_unlock", "waiting", "awaited", "cv_resume_on", "cv_posted"}
           \/ AwaitsFrom(c))' => use'[c] = "pop"
      BY <1>6 DEF UseInv, AwaitsFrom, Notifies
    <3>2. pc'[c] \in {"await", "await_unlock"} => ~ready'
      BY <1>6 DEF UseInv
    <3>3. ready' => ready
      BY <1>6
    <3> QED BY <2>2, <3>1, <3>2, <3>3, UseStays
  <2>10. FoundInv'
    <3>1. ready' /\ ~closed' /\ (cvAwaiters' # <<>> \/ mutex' # Nobody) =>
               \/ Seeks(c)'
               \/ ready /\ ~closed /\ (cvAwaiters # <<>> \/ mutex # Nobody) /\ ~Seeks(c)
      <4>1. Seeks(c) /\ ready' /\ ~closed' => Seeks(c)'
        BY <1>6 DEF Seeks, Seeking, Notifies
      <4> QED BY <1>6, <4>1
    <3>2. resumes[c] = <<>> \/ UNCHANGED resumes
      BY <1>6
    <3> QED BY <2>2, <3>1, <3>2, FoundStays
  <2> QED BY <2>4, <2>5, <2>6, <2>7, <2>8, <2>9, <2>10 DEF IInv
\* It has resumed all it had to resume.
<1>7. ASSUME NEW c \in Coroutines,
            pc[c] = "resuming",
            resumes[c] = <<>>,
            pc' = [pc EXCEPT ![c] = then[c]],
            then' = [then EXCEPT ![c] = "idle"],
            UNCHANGED <<locked, count, awaiters, waited, closed, stacks, use, resumes, mutex, cvAwaiters, ready>>
      PROVE  IInv'
  <2>1. \A d \in Coroutines : pc'[d] = IF d = c THEN then[c] ELSE pc[d]
    BY <1>7, <1>t
  <2>2. OthersStay(c)
    BY <1>7 DEF OthersStay
  <2>3. then[c] \in Points /\ pc[c] \in Points /\ (pc[c] # "resuming" => resumes[c] = <<>>)
    BY <1>7, <1>t DEF Points, ListInv
  <2>4. StackInv' /\ stacks' \subseteq Seq(Coroutines) \ {<<>>}
    <3>1. then[c] \notin Off /\ pc[c] \notin Off
      BY <1>7, <1>t DEF Off, Notifies
    <3> QED BY <1>7, <3>1, StackStays
  <2>5. /\ ListInv' /\ awaiters' \in Seq(Coroutines) /\ cvAwaiters' \in Seq(Coroutines)
        /\ resumes' \in [Coroutines -> Seq(Coroutines)]
    <3>1. ListInv'
      <4>1. then[c] \notin {"queued", "waiting"} /\ pc[c] \notin {"queued", "waiting"} /\ resumes[c] = <<>>
        BY <1>7, <1>t
      <4> QED BY <1>7, <4>1, ListStays
    <3> QED BY <1>7, <1>t, <3>1
  <2>6. TypeOK'
    <3>1. pc' \in [Coroutines -> Points]
      BY <1>7, <1>t, <2>3
    <3>2. locked' \in BOOLEAN /\ count' \in Int /\ closed' \in BOOLEAN /\ ready' \in BOOLEAN /\ waited' \subseteq Coroutines
      BY <1>7, <1>t
    <3>3. /\ use' \in [Coroutines -> {"hold", "push", "pop"}] /\ mutex' \in Coroutines \cup {Nobody}
          /\ then' \in [Coroutines -> {"idle", "ending", "await_push", "notify_one", "notify_all"}]
      BY <1>7, <1>t
    <3> QED BY <2>4, <2>5, <3>1, <3>2, <3>3 DEF TypeOK
  <2>7. HolderInv'
    <3>1. (then[c] \in Held <=> pc[c] \in Held) /\ (then[c] \in In <=> pc[c] \in In)
      BY <1>7, <1>t DEF Held, In, Notifies
    <3> QED BY <1>7, <3>1, HolderStays
  <2>8. MutexInv'
    <3>1. (pc[c] = "await_unlock" \/ AwaitsFrom(c)) <=> (pc[c] = "await_unlock" \/ AwaitsFrom(c))'
      BY <1>7, <1>t DEF AwaitsFrom, Notifies
    <3> QED BY <1>7, <2>2, <3>1, MutexStays
  <2>9. UseInv'
    <3>1. (\/ pc[c] \in {"await", "await_unlock", "waiting", "awaited", "cv_resume_on", "cv_posted"}
           \/ AwaitsFrom(c))' => use'[c] = "pop"
      BY <1>7, <1>t DEF UseInv, AwaitsFrom, Notifies
    <3>2. pc'[c] \in {"await", "await_unlock"} => ~ready'
      BY <1>7, <1>t DEF UseInv
    <3>3. ready' => ready
      BY <1>7
    <3> QED BY <2>2, <3>1, <3>2, <3>3, UseStays
  <2>10. FoundInv'
    <3>1. ready' /\ ~closed' /\ (cvAwaiters' # <<>> \/ mutex' # Nobody) =>
               \/ Seeks(c)'
               \/ ready /\ ~closed /\ (cvAwaiters # <<>> \/ mutex # Nobody) /\ ~Seeks(c)
      <4>1. Seeks(c) /\ ready' /\ ~closed' => Seeks(c)'
        BY <1>7, <2>1 DEF Seeks, Seeking, Notifies
      <4> QED BY <1>7, <4>1
    <3>2. resumes[c] = <<>> \/ UNCHANGED resumes
      BY <1>7
    <3> QED BY <2>2, <3>1, <3>2, FoundStays
  <2> QED BY <2>4, <2>5, <2>6, <2>7, <2>8, <2>9, <2>10 DEF IInv
\* It gives the lock up and has done.
<1>8. ASSUME NEW c \in Coroutines, NEW p,
            MayEnd(c),
            p \in Ends,
            waited' \subseteq Coroutines,
            pc' = [pc EXCEPT ![c] = "resuming"],
            locked' = FALSE,
            count' = IF pc[c] \in In THEN count - 1 ELSE count,
            then' = [then EXCEPT ![c] = p],
            resumes' = [resumes EXCEPT ![c] = First(awaiters)],
            awaiters' = Rest(awaiters),
            UNCHANGED <<closed, stacks, use, mutex, cvAwaiters, ready>>
      PROVE  IInv'
  <2>1. \A d \in Coroutines : pc'[d] = IF d = c THEN "resuming" ELSE pc[d]
    BY <1>8, <1>t
  <2>2. OthersStay(c)
    BY <1>8 DEF OthersStay
  <2>3. "resuming" \in Points /\ pc[c] \in Points /\ (pc[c] # "resuming" => resumes[c] = <<>>)
    BY <1>8, <1>t DEF Points, ListInv
  <2>4. StackInv' /\ stacks' \subseteq Seq(Coroutines) \ {<<>>}
    <3>1. "resuming" \notin Off /\ pc[c] \notin Off
      BY <1>8 DEF Off, MayEnd
    <3> QED BY <1>8, <3>1, StackStays
  <2>5. /\ ListInv' /\ awaiters' \in Seq(Coroutines) /\ cvAwaiters' \in Seq(Coroutines)
        /\ resumes' \in [Coroutines -> Seq(Coroutines)]
    <3>1. Splits(awaiters, First(awaiters), Rest(awaiters))
      BY <1>t, ListSplits DEF ListInv
    <3>2. pc[c] \notin {"queued", "waiting"} /\ resumes[c] = <<>> /\ pc' = [pc EXCEPT ![c] = "resuming"]
      BY <1>8, <2>3 DEF MayEnd
    <3> QED BY <1>8, <3>1, <3>2, ListHands
  <2>6. TypeOK'
    <3>1. pc' \in [Coroutines -> Points]
      BY <1>8, <1>t, <2>3
    <3>2. locked' \in BOOLEAN /\ count' \in Int /\ closed' \in BOOLEAN /\ ready' \in BOOLEAN /\ waited' \subseteq Coroutines
      <4>1. count' = count \/ count' = count - 1
        BY <1>8
      <4>2. count' \in Int
        BY <1>t, <4>1
      <4> QED BY <1>8, <1>t, <4>2
    <3>3. /\ use' \in [Coroutines -> {"hold", "push", "pop"}] /\ mutex' \in Coroutines \cup {Nobody}
          /\ then' \in [Coroutines -> {"idle", "ending", "await_push", "notify_one", "notify_all"}]
      BY <1>8, <1>t DEF Ends
    <3> QED BY <2>4, <2>5, <3>1, <3>2, <3>3 DEF TypeOK
  <2>7. HolderInv'
    <3>1. pc[c] \in Held /\ "resuming" \notin Held
      BY <1>8 DEF Held, MayEnd
    <3> QED BY <1>8, <3>1, HolderLeaves
  <2>8. MutexInv'
    <3>1. (pc[c] = "await_unlock" \/ AwaitsFrom(c)) <=> (pc[c] = "await_unlock" \/ AwaitsFrom(c))'
      BY <1>8, <1>t DEF AwaitsFrom, Notifies, Ends, MayEnd
    <3> QED BY <1>8, <2>2, <3>1, MutexStays
  <2>9. UseInv'
    <3>1. (\/ pc[c] \in {"await", "await_unlock", "waiting", "awaited", "cv_resume_on", "cv_posted"}
           \/ AwaitsFrom(c))' => use'[c] = "pop"
      BY <1>8, <1>t DEF UseInv, AwaitsFrom, Ends
    <3>2. pc'[c] \in {"await", "await_unlock"} => ~ready'
      BY <1>8 DEF UseInv
    <3>3. ready' => ready
      BY <1>8
    <3> QED BY <2>2, <3>1, <3>2, <3>3, UseStays
  <2>10. FoundInv'
    <3>1. ready' /\ ~closed' /\ (cvAwaiters' # <<>> \/ mutex' # Nobody) =>
               \/ Seeks(c)'
               \/ ready /\ ~closed /\ (cvAwaiters # <<>> \/ mutex # Nobody) /\ ~Seeks(c)
      <4>1. Seeks(c) /\ ready' /\ ~closed' => Seeks(c)'
        BY <1>8 DEF Seeks, Seeking, Notifies, MayEnd
      <4> QED BY <1>8, <4>1
    <3>2. resumes[c] = <<>> \/ UNCHANGED resumes
      BY <1>8, <2>3 DEF MayEnd
    <3> QED BY <2>2, <3>1, <3>2, FoundStays
  <2> QED BY <2>4, <2>5, <2>6, <2>7, <2>8, <2>9, <2>10 DEF IInv
\* It gives the lock up to notify.
<1>9. ASSUME NEW c \in Coroutines, NEW p,
            pc[c] = "inside",
            use[c] = "push",
            p \in Notifies,
            pc' = [pc EXCEPT ![c] = "resuming"],
            locked' = FALSE,
            count' = IF pc[c] \in In THEN count - 1 ELSE count,
            then' = [then EXCEPT ![c] = p],
            resumes' = [resumes EXCEPT ![c] = First(awaiters)],
            awaiters' = Rest(awaiters),
            ready' = TRUE,
            UNCHANGED <<waited, closed, stacks, use, mutex, cvAwaiters>>
      PROVE  IInv'
  <2>1. \A d \in Coroutines : pc'[d] = IF d = c THEN "resuming" ELSE pc[d]
    BY <1>9, <1>t
  <2>2. OthersStay(c)
    BY <1>9 DEF OthersStay
  <2>3. "resuming" \in Points /\ pc[c] \in Points /\ (pc[c] # "resuming" => resumes[c] = <<>>)
    BY <1>9 DEF Points, ListInv
  <2>4. StackInv' /\ stacks' \subseteq Seq(Coroutines) \ {<<>>}
    <3>1. "resuming" \notin Off /\ pc[c] \notin Off
      BY <1>9 DEF Off
    <3> QED BY <1>9, <3>1, StackStays
  <2>5. /\ ListInv' /\ awaiters' \in Seq(Coroutines) /\ cvAwaiters' \in Seq(Coroutines)
        /\ resumes' \in [Coroutines -> Seq(Coroutines)]
    <3>1. Splits(awaiters, First(awaiters), Rest(awaiters))
      BY <1>t, ListSplits DEF ListInv
    <3>2. pc[c] \notin {"queued", "waiting"} /\ resumes[c] = <<>> /\ pc' = [pc EXCEPT ![c] = "resuming"]
      BY <1>9, <2>3
    <3> QED BY <1>9, <3>1, <3>2, ListHands
  <2>6. TypeOK'
    <3>1. pc' \in [Coroutines -> Points]
      BY <1>9, <1>t, <2>3
    <3>2. locked' \in BOOLEAN /\ count' \in Int /\ closed' \in BOOLEAN /\ ready' \in BOOLEAN /\ waited' \subseteq Coroutines
      <4>1. count' = count \/ count' = count - 1
        BY <1>9
      <4>2. count' \in Int
        BY <1>t, <4>1
      <4> QED BY <1>9, <1>t, <4>2
    <3>3. /\ use' \in [Coroutines -> {"hold", "push", "pop"}] /\ mutex' \in Coroutines \cup {Nobody}
          /\ then' \in [Coroutines -> {"idle", "ending", "await_push", "notify_one", "notify_all"}]
      BY <1>9, <1>t DEF Notifies
    <3> QED BY <2>4, <2>5, <3>1, <3>2, <3>3 DEF TypeOK
  <2>7. HolderInv'
    <3>1. pc[c] \in Held /\ "resuming" \notin Held
      BY <1>9 DEF Held
    <3> QED BY <1>9, <3>1, HolderLeaves
  <2>8. MutexInv'
    <3>1. (pc[c] = "await_unlock" \/ AwaitsFrom(c)) <=> (pc[c] = "await_unlock" \/ AwaitsFrom(c))'
      BY <1>9, <1>t DEF AwaitsFrom, Notifies
    <3> QED BY <1>9, <2>2, <3>1, MutexStays
  <2>9. UseInv'
    <3>1. (\/ pc[c] \in {"await", "await_unlock", "waiting", "awaited", "cv_resume_on", "cv_posted"}
           \/ AwaitsFrom(c))' => use'[c] = "pop"
      BY <1>9, <1>t DEF UseInv, AwaitsFrom, Notifies
    <3>2. pc'[c] \in {"await", "await_unlock"} => ~ready'
      BY <1>9 DEF UseInv
    <3>3. \A d \in Coroutines : pc[d] \in {"await", "await_unlock"} => d = c
      BY <1>9 DEF HolderInv, Held
    <3> QED BY <2>2, <3>1, <3>2, <3>3, UseStays
  <2>10. FoundInv'
    <3>1. ready' /\ ~closed' /\ (cvAwaiters' # <<>> \/ mutex' # Nobody) =>
               \/ Seeks(c)'
               \/ ready /\ ~closed /\ (cvAwaiters # <<>> \/ mutex # Nobody) /\ ~Seeks(c)
      BY <1>9, <1>t DEF Seeks
    <3>2. resumes[c] = <<>> \/ UNCHANGED resumes
      BY <1>9, <2>3
    <3> QED BY <2>2, <3>1, <3>2, FoundStays
  <2> QED BY <2>4, <2>5, <2>6, <2>7, <2>8, <2>9, <2>10 DEF IInv
\* It gives the lock up with what it awaited.
<1>10. ASSUME NEW c \in Coroutines,
            pc[c] = "awaited",
            pc' = [pc EXCEPT ![c] = "resuming"],
            locked' = FALSE,
            count' = IF pc[c] \in In THEN count - 1 ELSE count,
            then' = [then EXCEPT ![c] = "idle"],
            resumes' = [resumes EXCEPT ![c] = First(awaiters)],
            awaiters' = Rest(awaiters),
            ready' = FALSE,
            UNCHANGED <<waited, closed, stacks, use, mutex, cvAwaiters>>
      PROVE  IInv'
  <2>1. \A d \in Coroutines : pc'[d] = IF d = c THEN "resuming" ELSE pc[d]
    BY <1>10, <1>t
  <2>2. OthersStay(c)
    BY <1>10 DEF OthersStay
  <2>3. "resuming" \in Points /\ pc[c] \in Points /\ (pc[c] # "resuming" => resumes[c] = <<>>)
    BY <1>10 DEF Points, ListInv
  <2>4. StackInv' /\ stacks' \subseteq Seq(Coroutines) \ {<<>>}
    <3>1. "resuming" \notin Off /\ pc[c] \notin Off
      BY <1>10 DEF Off, Notifies
    <3> QED BY <1>10, <3>1, StackStays
  <2>5. /\ ListInv' /\ awaiters' \in Seq(Coroutines) /\ cvAwaiters' \in Seq(Coroutines)
        /\ resumes' \in [Coroutines -> Seq(Coroutines)]
    <3>1. Splits(awaiters, First(awaiters), Rest(awaiters))
      BY <1>t, ListSplits DEF ListInv
    <3>2. pc[c] \notin {"queued", "waiting"} /\ resumes[c] = <<>> /\ pc' = [pc EXCEPT ![c] = "resuming"]
      BY <1>10, <2>3
    <3> QED BY <1>10, <3>1, <3>2, ListHands
  <2>6. TypeOK'
    <3>1. pc' \in [Coroutines -> Points]
      BY <1>10, <1>t, <2>3
    <3>2. locked' \in BOOLEAN /\ count' \in Int /\ closed' \in BOOLEAN /\ ready' \in BOOLEAN /\ waited' \subseteq Coroutines
      <4>1. count' = count \/ count' = count - 1
        BY <1>10
      <4>2. count' \in Int
        BY <1>t, <4>1
      <4> QED BY <1>10, <1>t, <4>2
    <3>3. /\ use' \in [Coroutines -> {"hold", "push", "pop"}] /\ mutex' \in Coroutines \cup {Nobody}
          /\ then' \in [Coroutines -> {"idle", "ending", "await_push", "notify_one", "notify_all"}]
      BY <1>10, <1>t
    <3> QED BY <2>4, <2>5, <3>1, <3>2, <3>3 DEF TypeOK
  <2>7. HolderInv'
    <3>1. pc[c] \in Held /\ "resuming" \notin Held
      BY <1>10 DEF Held
    <3> QED BY <1>10, <3>1, HolderLeaves
  <2>8. MutexInv'
    <3>1. (pc[c] = "await_unlock" \/ AwaitsFrom(c)) <=> (pc[c] = "await_unlock" \/ AwaitsFrom(c))'
      BY <1>10, <1>t DEF AwaitsFrom, Notifies
    <3> QED BY <1>10, <2>2, <3>1, MutexStays
  <2>9. UseInv'
    <3>1. (\/ pc[c] \in {"await", "await_unlock", "waiting", "awaited", "cv_resume_on", "cv_posted"}
           \/ AwaitsFrom(c))' => use'[c] = "pop"
      BY <1>10 DEF UseInv, AwaitsFrom, Notifies
    <3>2. pc'[c] \in {"await", "await_unlock"} => ~ready'
      BY <1>10 DEF UseInv
    <3>3. ready' => ready
      BY <1>10
    <3> QED BY <2>2, <3>1, <3>2, <3>3, UseStays
  <2>10. FoundInv'
    <3>1. ready' /\ ~closed' /\ (cvAwaiters' # <<>> \/ mutex' # Nobody) =>
               \/ Seeks(c)'
               \/ ready /\ ~closed /\ (cvAwaiters # <<>> \/ mutex # Nobody) /\ ~Seeks(c)
      BY <1>10
    <3>2. resumes[c] = <<>> \/ UNCHANGED resumes
      BY <1>10, <2>3
    <3> QED BY <2>2, <3>1, <3>2, FoundStays
  <2> QED BY <2>4, <2>5, <2>6, <2>7, <2>8, <2>9, <2>10 DEF IInv
\* It gives the lock up to await the condition.
<1>11. ASSUME NEW c \in Coroutines,
            pc[c] = "await_unlock",
            pc' = [pc EXCEPT ![c] = "resuming"],
            locked' = FALSE,
            count' = IF pc[c] \in In THEN count - 1 ELSE count,
            then' = [then EXCEPT ![c] = "await_push"],
            resumes' = [resumes EXCEPT ![c] = First(awaiters)],
            awaiters' = Rest(awaiters),
            UNCHANGED <<waited, closed, stacks, use, mutex, cvAwaiters, ready>>
      PROVE  IInv'
  <2>1. \A d \in Coroutines : pc'[d] = IF d = c THEN "resuming" ELSE pc[d]
    BY <1>11, <1>t
  <2>2. OthersStay(c)
    BY <1>11 DEF OthersStay
  <2>3. "resuming" \in Points /\ pc[c] \in Points /\ (pc[c] # "resuming" => resumes[c] = <<>>)
    BY <1>11 DEF Points, ListInv
  <2>4. StackInv' /\ stacks' \subseteq Seq(Coroutines) \ {<<>>}
    <3>1. "resuming" \notin Off /\ pc[c] \notin Off
      BY <1>11 DEF Off, Notifies
    <3> QED BY <1>11, <3>1, StackStays
  <2>5. /\ ListInv' /\ awaiters' \in Seq(Coroutines) /\ cvAwaiters' \in Seq(Coroutines)
        /\ resumes' \in [Coroutines -> Seq(Coroutines)]
    <3>1. Splits(awaiters, First(awaiters), Rest(awaiters))
      BY <1>t, ListSplits DEF ListInv
    <3>2. pc[c] \notin {"queued", "waiting"} /\ resumes[c] = <<>> /\ pc' = [pc EXCEPT ![c] = "resuming"]
      BY <1>11, <2>3
    <3> QED BY <1>11, <3>1, <3>2, ListHands
  <2>6. TypeOK'
    <3>1. pc' \in [Coroutines -> Points]
      BY <1>11, <1>t, <2>3
    <3>2. locked' \in BOOLEAN /\ count' \in Int /\ closed' \in BOOLEAN /\ ready' \in BOOLEAN /\ waited' \subseteq Coroutines
      <4>1. count' = count \/ count' = count - 1
        BY <1>11
      <4>2. count' \in Int
        BY <1>t, <4>1
      <4> QED BY <1>11, <1>t, <4>2
    <3>3. /\ use' \in [Coroutines -> {"hold", "push", "pop"}] /\ mutex' \in Coroutines \cup {Nobody}
          /\ then' \in [Coroutines -> {"idle", "ending", "await_push", "notify_one", "notify_all"}]
      BY <1>11, <1>t
    <3> QED BY <2>4, <2>5, <3>1, <3>2, <3>3 DEF TypeOK
  <2>7. HolderInv'
    <3>1. pc[c] \in Held /\ "resuming" \notin Held
      BY <1>11 DEF Held
    <3> QED BY <1>11, <3>1, HolderLeaves
  <2>8. MutexInv'
    <3>1. (pc[c] = "await_unlock" \/ AwaitsFrom(c)) <=> (pc[c] = "await_unlock" \/ AwaitsFrom(c))'
      BY <1>11, <1>t DEF AwaitsFrom, Notifies
    <3> QED BY <1>11, <2>2, <3>1, MutexStays
  <2>9. UseInv'
    <3>1. (\/ pc[c] \in {"await", "await_unlock", "waiting", "awaited", "cv_resume_on", "cv_posted"}
           \/ AwaitsFrom(c))' => use'[c] = "pop"
      BY <1>11 DEF UseInv, AwaitsFrom, Notifies
    <3>2. pc'[c] \in {"await", "await_unlock"} => ~ready'
      BY <1>11 DEF UseInv
    <3>3. ready' => ready
      BY <1>11
    <3> QED BY <2>2, <3>1, <3>2, <3>3, UseStays
  <2>10. FoundInv'
    <3>1. ready' /\ ~closed' /\ (cvAwaiters' # <<>> \/ mutex' # Nobody) =>
               \/ Seeks(c)'
               \/ ready /\ ~closed /\ (cvAwaiters # <<>> \/ mutex # Nobody) /\ ~Seeks(c)
      BY <1>11 DEF UseInv
    <3>2. resumes[c] = <<>> \/ UNCHANGED resumes
      BY <1>11, <2>3
    <3> QED BY <2>2, <3>1, <3>2, FoundStays
  <2> QED BY <2>4, <2>5, <2>6, <2>7, <2>8, <2>9, <2>10 DEF IInv
\* It takes the mutex of the condition variable.
<1>12. ASSUME NEW c \in Coroutines,
            pc[c] = "await",
            mutex = Nobody,
            pc' = [pc EXCEPT ![c] = "await_unlock"],
            mutex' = c,
            UNCHANGED <<locked, count, awaiters, waited, closed, stacks, use, resumes, then, cvAwaiters, ready>>
      PROVE  IInv'
  <2>1. \A d \in Coroutines : pc'[d] = IF d = c THEN "await_unlock" ELSE pc[d]
    BY <1>12, <1>t
  <2>2. OthersStay(c)
    BY <1>12 DEF OthersStay
  <2>3. "await_unlock" \in Points /\ pc[c] \in Points /\ (pc[c] # "resuming" => resumes[c] = <<>>)
    BY <1>12 DEF Points, ListInv
  <2>4. StackInv' /\ stacks' \subseteq Seq(Coroutines) \ {<<>>}
    <3>1. "await_unlock" \notin Off /\ pc[c] \notin Off
      BY <1>12 DEF Off, Notifies
    <3> QED BY <1>12, <3>1, StackStays
  <2>5. /\ ListInv' /\ awaiters' \in Seq(Coroutines) /\ cvAwaiters' \in Seq(Coroutines)
        /\ resumes' \in [Coroutines -> Seq(Coroutines)]
    <3>1. ListInv'
      <4>1. "await_unlock" \notin {"queued", "waiting"} /\ pc[c] \notin {"queued", "waiting"} /\ resumes[c] = <<>>
        BY <1>12, <2>3
      <4> QED BY <1>12, <4>1, ListStays
    <3> QED BY <1>12, <1>t, <3>1
  <2>6. TypeOK'
    <3>1. pc' \in [Coroutines -> Points]
      BY <1>12, <1>t, <2>3
    <3>2. locked' \in BOOLEAN /\ count' \in Int /\ closed' \in BOOLEAN /\ ready' \in BOOLEAN /\ waited' \subseteq Coroutines
      BY <1>12, <1>t
    <3>3. /\ use' \in [Coroutines -> {"hold", "push", "pop"}] /\ mutex' \in Coroutines \cup {Nobody}
          /\ then' \in [Coroutines -> {"idle", "ending", "await_push", "notify_one", "notify_all"}]
      BY <1>12, <1>t
    <3> QED BY <2>4, <2>5, <3>1, <3>2, <3>3 DEF TypeOK
  <2>7. HolderInv'
    <3>1. ("await_unlock" \in Held <=> pc[c] \in Held) /\ ("await_unlock" \in In <=> pc[c] \in In)
      BY <1>12 DEF Held, In, Notifies
    <3> QED BY <1>12, <3>1, HolderStays
  <2>8. MutexInv'
    BY <1>12, <2>1, <2>2, CoroutinesAssumption DEF MutexInv, OthersStay, AwaitsFrom
  <2>9. UseInv'
    <3>1. (\/ pc[c] \in {"await", "await_unlock", "waiting", "awaited", "cv_resume_on", "cv_posted"}
           \/ AwaitsFrom(c))' => use'[c] = "pop"
      BY <1>12 DEF UseInv, AwaitsFrom, Notifies
    <3>2. pc'[c] \in {"await", "await_unlock"} => ~ready'
      BY <1>12 DEF UseInv
    <3>3. ready' => ready
      BY <1>12
    <3> QED BY <2>2, <3>1, <3>2, <3>3, UseStays
  <2>10. FoundInv'
    <3>1. ready' /\ ~closed' /\ (cvAwaiters' # <<>> \/ mutex' # Nobody) =>
               \/ Seeks(c)'
               \/ ready /\ ~closed /\ (cvAwaiters # <<>> \/ mutex # Nobody) /\ ~Seeks(c)
      BY <1>12 DEF UseInv
    <3>2. resumes[c] = <<>> \/ UNCHANGED resumes
      BY <1>12
    <3> QED BY <2>2, <3>1, <3>2, FoundStays
  <2> QED BY <2>4, <2>5, <2>6, <2>7, <2>8, <2>9, <2>10 DEF IInv
\* It joins the list of the condition variable.
<1>13. ASSUME NEW c \in Coroutines,
            pc[c] = "await_push",
            pc' = [pc EXCEPT ![c] = "waiting"],
            Runs(c) /\ Suspend(c),
            cvAwaiters' = Append(cvAwaiters, c),
            mutex' = Nobody,
            UNCHANGED <<locked, count, awaiters, waited, closed, use, resumes, then, ready>>
      PROVE  IInv'
  <2>1. \A d \in Coroutines : pc'[d] = IF d = c THEN "waiting" ELSE pc[d]
    BY <1>13, <1>t
  <2>2. OthersStay(c)
    BY <1>13 DEF OthersStay
  <2>3. "waiting" \in Points /\ pc[c] \in Points /\ (pc[c] # "resuming" => resumes[c] = <<>>)
    BY <1>13 DEF Points, ListInv
  <2>4. StackInv' /\ stacks' \subseteq Seq(Coroutines) \ {<<>>}
    <3>1. "waiting" \in Off
      BY <1>13 DEF Off
    <3> QED BY <1>13, <3>1, StackSuspends
  <2>5. /\ ListInv' /\ awaiters' \in Seq(Coroutines) /\ cvAwaiters' \in Seq(Coroutines)
        /\ resumes' \in [Coroutines -> Seq(Coroutines)]
    <3>1. ListInv' /\ awaiters' \in Seq(Coroutines) /\ cvAwaiters' \in Seq(Coroutines)
      BY <1>13, <2>3, ListJoins
    <3> QED BY <1>13, <1>t, <3>1
  <2>6. TypeOK'
    <3>1. pc' \in [Coroutines -> Points]
      BY <1>13, <1>t, <2>3
    <3>2. locked' \in BOOLEAN /\ count' \in Int /\ closed' \in BOOLEAN /\ ready' \in BOOLEAN /\ waited' \subseteq Coroutines
      BY <1>13, <1>t
    <3>3. /\ use' \in [Coroutines -> {"hold", "push", "pop"}] /\ mutex' \in Coroutines \cup {Nobody}
          /\ then' \in [Coroutines -> {"idle", "ending", "await_push", "notify_one", "notify_all"}]
      BY <1>13, <1>t
    <3> QED BY <2>4, <2>5, <3>1, <3>2, <3>3 DEF TypeOK
  <2>7. HolderInv'
    <3>1. ("waiting" \in Held <=> pc[c] \in Held) /\ ("waiting" \in In <=> pc[c] \in In)
      BY <1>13 DEF Held, In, Notifies
    <3> QED BY <1>13, <3>1, HolderStays
  <2>8. MutexInv'
    <3>1. mutex = c
      BY <1>13 DEF MutexInv, AwaitsFrom
    <3> QED BY <1>13, <2>1, <2>2, <3>1, CoroutinesAssumption DEF MutexInv, OthersStay, AwaitsFrom
  <2>9. UseInv'
    <3>1. (\/ pc[c] \in {"await", "await_unlock", "waiting", "awaited", "cv_resume_on", "cv_posted"}
           \/ AwaitsFrom(c))' => use'[c] = "pop"
      BY <1>13 DEF UseInv, AwaitsFrom, Notifies
    <3>2. pc'[c] \in {"await", "await_unlock"} => ~ready'
      BY <1>13 DEF UseInv
    <3>3. ready' => ready
      BY <1>13
    <3> QED BY <2>2, <3>1, <3>2, <3>3, UseStays
  <2>10. FoundInv'
    <3>1. ready' /\ ~closed' /\ (cvAwaiters' # <<>> \/ mutex' # Nobody) =>
               \/ Seeks(c)'
               \/ ready /\ ~closed /\ (cvAwaiters # <<>> \/ mutex # Nobody) /\ ~Seeks(c)
      <4>1. mutex = c
        BY <1>13 DEF MutexInv, AwaitsFrom
      <4>2. ~Seeks(c)
        BY <1>13 DEF Seeks, Seeking, Notifies
      <4> QED BY <1>13, <4>1, <4>2, CoroutinesAssumption
    <3>2. resumes[c] = <<>> \/ UNCHANGED resumes
      BY <1>13
    <3> QED BY <2>2, <3>1, <3>2, FoundStays
  <2> QED BY <2>4, <2>5, <2>6, <2>7, <2>8, <2>9, <2>10 DEF IInv
\* It begins to use the lock.
<1>14. ASSUME NEW c \in Coroutines, NEW q, NEW p,
            q \in Wants,
            pc[c] = "idle",
            p \in Uses,
            pc' = [pc EXCEPT ![c] = q],
            use' = [use EXCEPT ![c] = p],
            UNCHANGED <<locked, count, awaiters, waited, closed, stacks, resumes, then, mutex, cvAwaiters, ready>>
      PROVE  IInv'
  <2>1. \A d \in Coroutines : pc'[d] = IF d = c THEN q ELSE pc[d]
    BY <1>14, <1>t
  <2>2. OthersStay(c)
    BY <1>14 DEF OthersStay
  <2>3. q \in Points /\ pc[c] \in Points /\ (pc[c] # "resuming" => resumes[c] = <<>>)
    BY <1>14 DEF Points, ListInv, Wants
  <2>4. StackInv' /\ stacks' \subseteq Seq(Coroutines) \ {<<>>}
    <3>1. q \notin Off /\ pc[c] \notin Off
      BY <1>14 DEF Off, Wants
    <3> QED BY <1>14, <3>1, StackStays
  <2>5. /\ ListInv' /\ awaiters' \in Seq(Coroutines) /\ cvAwaiters' \in Seq(Coroutines)
        /\ resumes' \in [Coroutines -> Seq(Coroutines)]
    <3>1. ListInv'
      <4>1. q \notin {"queued", "waiting"} /\ pc[c] \notin {"queued", "waiting"} /\ resumes[c] = <<>>
        BY <1>14, <2>3 DEF Wants
      <4> QED BY <1>14, <4>1, ListStays
    <3> QED BY <1>14, <1>t, <3>1
  <2>6. TypeOK'
    <3>1. pc' \in [Coroutines -> Points]
      BY <1>14, <1>t, <2>3
    <3>2. locked' \in BOOLEAN /\ count' \in Int /\ closed' \in BOOLEAN /\ ready' \in BOOLEAN /\ waited' \subseteq Coroutines
      BY <1>14, <1>t
    <3>3. /\ use' \in [Coroutines -> {"hold", "push", "pop"}] /\ mutex' \in Coroutines \cup {Nobody}
          /\ then' \in [Coroutines -> {"idle", "ending", "await_push", "notify_one", "notify_all"}]
      BY <1>14, <1>t DEF Uses
    <3> QED BY <2>4, <2>5, <3>1, <3>2, <3>3 DEF TypeOK
  <2>7. HolderInv'
    <3>1. (q \in Held <=> pc[c] \in Held) /\ (q \in In <=> pc[c] \in In)
      BY <1>14 DEF Held, In, Wants
    <3> QED BY <1>14, <3>1, HolderStays
  <2>8. MutexInv'
    <3>1. (pc[c] = "await_unlock" \/ AwaitsFrom(c)) <=> (pc[c] = "await_unlock" \/ AwaitsFrom(c))'
      BY <1>14 DEF AwaitsFrom, Wants
    <3> QED BY <1>14, <2>2, <3>1, MutexStays
  <2>9. UseInv'
    <3>1. (\/ pc[c] \in {"await", "await_unlock", "waiting", "awaited", "cv_resume_on", "cv_posted"}
           \/ AwaitsFrom(c))' => use'[c] = "pop"
      BY <1>14 DEF UseInv, AwaitsFrom, Wants
    <3>2. pc'[c] \in {"await", "await_unlock"} => ~ready'
      BY <1>14 DEF UseInv, Wants
    <3>3. ready' => ready
      BY <1>14
    <3> QED BY <2>2, <3>1, <3>2, <3>3, UseStays
  <2>10. FoundInv'
    <3>1. ready' /\ ~closed' /\ (cvAwaiters' # <<>> \/ mutex' # Nobody) =>
               \/ Seeks(c)'
               \/ ready /\ ~closed /\ (cvAwaiters # <<>> \/ mutex # Nobody) /\ ~Seeks(c)
      <4>1. Seeks(c) /\ ready' /\ ~closed' => Seeks(c)'
        BY <1>14 DEF Seeks, Seeking, Notifies
      <4> QED BY <1>14, <4>1
    <3>2. resumes[c] = <<>> \/ UNCHANGED resumes
      BY <1>14
    <3> QED BY <2>2, <3>1, <3>2, FoundStays
  <2> QED BY <2>4, <2>5, <2>6, <2>7, <2>8, <2>9, <2>10 DEF IInv
\* It takes those it notifies off the list.
<1>15. ASSUME NEW c \in Coroutines, NEW p,
            pc[c] \in Notifies,
            mutex = Nobody,
            Splits(cvAwaiters, p, cvAwaiters'),
            cvAwaiters' # <<>> => \E d \in Coroutines : Contains(p, d),
            pc' = [pc EXCEPT ![c] = "resuming"],
            then' = [then EXCEPT ![c] = "idle"],
            resumes' = [resumes EXCEPT ![c] = p],
            UNCHANGED <<locked, count, awaiters, waited, closed, stacks, use, mutex, ready>>
      PROVE  IInv'
  <2>1. \A d \in Coroutines : pc'[d] = IF d = c THEN "resuming" ELSE pc[d]
    BY <1>15, <1>t
  <2>2. OthersStay(c)
    BY <1>15 DEF OthersStay
  <2>3. "resuming" \in Points /\ pc[c] \in Points /\ (pc[c] # "resuming" => resumes[c] = <<>>)
    BY <1>15, <1>t DEF Points, ListInv
  <2>4. StackInv' /\ stacks' \subseteq Seq(Coroutines) \ {<<>>}
    <3>1. "resuming" \notin Off /\ pc[c] \notin Off
      BY <1>15 DEF Off, Notifies
    <3> QED BY <1>15, <3>1, StackStays
  <2>5. /\ ListInv' /\ awaiters' \in Seq(Coroutines) /\ cvAwaiters' \in Seq(Coroutines)
        /\ resumes' \in [Coroutines -> Seq(Coroutines)]
    <3>2. pc[c] \notin {"queued", "waiting"} /\ resumes[c] = <<>> /\ pc' = [pc EXCEPT ![c] = "resuming"]
      BY <1>15, <2>3 DEF Notifies
    <3> QED BY <1>15, <3>2, ListHands
  <2>6. TypeOK'
    <3>1. pc' \in [Coroutines -> Points]
      BY <1>15, <1>t, <2>3
    <3>2. locked' \in BOOLEAN /\ count' \in Int /\ closed' \in BOOLEAN /\ ready' \in BOOLEAN /\ waited' \subseteq Coroutines
      BY <1>15, <1>t
    <3>3. /\ use' \in [Coroutines -> {"hold", "push", "pop"}] /\ mutex' \in Coroutines \cup {Nobody}
          /\ then' \in [Coroutines -> {"idle", "ending", "await_push", "notify_one", "notify_all"}]
      BY <1>15, <1>t
    <3> QED BY <2>4, <2>5, <3>1, <3>2, <3>3 DEF TypeOK
  <2>7. HolderInv'
    <3>1. ("resuming" \in Held <=> pc[c] \in Held) /\ ("resuming" \in In <=> pc[c] \in In)
      BY <1>15 DEF Held, In, Notifies
    <3> QED BY <1>15, <3>1, HolderStays
  <2>8. MutexInv'
    <3>1. (pc[c] = "await_unlock" \/ AwaitsFrom(c)) <=> (pc[c] = "await_unlock" \/ AwaitsFrom(c))'
      BY <1>15, <1>t DEF AwaitsFrom, Notifies
    <3> QED BY <1>15, <2>2, <3>1, MutexStays
  <2>9. UseInv'
    <3>1. (\/ pc[c] \in {"await", "await_unlock", "waiting", "awaited", "cv_resume_on", "cv_posted"}
           \/ AwaitsFrom(c))' => use'[c] = "pop"
      BY <1>15, <1>t DEF UseInv, AwaitsFrom
    <3>2. pc'[c] \in {"await", "await_unlock"} => ~ready'
      BY <1>15 DEF UseInv
    <3>3. ready' => ready
      BY <1>15
    <3> QED BY <2>2, <3>1, <3>2, <3>3, UseStays
  <2>10. FoundInv'
    <3>1. SUFFICES ASSUME cvAwaiters' # <<>> PROVE \E d \in Coroutines : Seeks(d)'
      BY <1>15 DEF FoundInv
    <3>2. PICK d \in Coroutines : Contains(p, d)
      BY <1>15, <3>1
    <3>3. pc[d] = "waiting" /\ d # c
      BY <1>15, <3>2 DEF Splits, ListInv, Notifies
    <3>4. Contains(resumes'[c], d) /\ pc'[d] = "waiting"
      BY <1>15, <1>t, <3>2, <3>3
    <3> QED BY <3>4 DEF Seeks
  <2> QED BY <2>4, <2>5, <2>6, <2>7, <2>8, <2>9, <2>10 DEF IInv
\* It resumes the next of those it took off a list.
<1>16. ASSUME NEW c \in Coroutines, ResumeNext(c), UNCHANGED cvVars PROVE IInv'
  <2> DEFINE d == Head(resumes[c])
             q == IF pc[d] = "queued" THEN "lock" ELSE "cv_resume_on"
  <2>1. /\ pc[c] = "resuming" /\ Runs(c) /\ resumes[c] # <<>> /\ Resume(c, d)
        /\ pc' = [pc EXCEPT ![d] = q] /\ resumes' = [resumes EXCEPT ![c] = Tail(@)]
        /\ UNCHANGED <<locked, count, awaiters, waited, closed, use, then, mutex, cvAwaiters, ready>>
    BY <1>16 DEF ResumeNext, At, Goto, lockVars, cvVars
  <2>2. q \notin {"queued", "waiting"}
    OBVIOUS
  <2>3. /\ ListInv' /\ resumes' \in [Coroutines -> Seq(Coroutines)] /\ d \in Coroutines
        /\ pc[d] \in {"queued", "waiting"} /\ Contains(resumes[c], d)
    BY <2>1, <2>2, ListResumes
  <2>4. q \in {"lock", "cv_resume_on"} /\ (q = "lock" <=> pc[d] = "queued") /\ (q = "cv_resume_on" <=> pc[d] = "waiting")
    BY <2>3
  <2> HIDE DEF d, q
  <2>5. \A e \in Coroutines : pc'[e] = IF e = d THEN q ELSE pc[e]
    BY <1>t, <2>1
  <2>6. StackInv' /\ stacks' \subseteq Seq(Coroutines) \ {<<>>}
    <3>1. q \notin Off /\ pc[d] \in Off
      BY <2>4 DEF Off
    <3> QED BY <2>1, <2>3, <3>1, StackResumes
  <2>7. TypeOK'
    <3>1. pc' \in [Coroutines -> Points]
      BY <1>t, <2>1, <2>4 DEF Points
    <3> QED BY <2>1, <2>6, <3>1 DEF TypeOK
  <2>8. HolderInv'
    <3>1. (q \in Held <=> pc[d] \in Held) /\ (q \in In <=> pc[d] \in In)
      BY <2>4 DEF Held, In
    <3> QED BY <2>1, <2>3, <3>1, HolderStays
  <2>9. MutexInv'
    BY <2>1, <2>4, <2>5 DEF MutexInv, AwaitsFrom
  <2>10. UseInv'
    BY <2>1, <2>4, <2>5 DEF UseInv, AwaitsFrom
  <2>11. FoundInv'
    <3>1. ASSUME NEW e \in Coroutines, Seeks(e) PROVE Seeks(e)'
      <4>1. CASE e = d
        BY <2>1, <2>4, <2>5, <3>1, <4>1 DEF Seeks, Seeking, Notifies, UseInv
      <4>2. CASE e # d
        <5>1. ASSUME NEW g \in Coroutines, Contains(resumes[g], e) PROVE Contains(resumes'[g], e)
          <6>1. CASE g = c
            <7>1. resumes[c] \in Seq(Coroutines) /\ IsInjective(resumes[c]) /\ resumes'[c] = Tail(resumes[c])
              BY <1>t, <2>1 DEF ListInv
            <7>2. Contains(Tail(resumes[c]), e) <=> Contains(resumes[c], e) /\ e # d
              BY <2>1, <7>1, SeqTail DEF d
            <7> QED BY <4>2, <5>1, <6>1, <7>1, <7>2
          <6>2. CASE g # c
            BY <2>1, <5>1, <6>2
          <6> QED BY <6>1, <6>2
        <5>2. pc'[e] = pc[e] /\ then'[e] = then[e] /\ use'[e] = use[e]
          BY <2>1, <2>5, <4>2
        <5> QED BY <3>1, <5>1, <5>2 DEF Seeks
      <4> QED BY <4>1, <4>2
    <3> QED BY <2>1, <3>1 DEF FoundInv
  <2> QED BY <2>3, <2>6, <2>7, <2>8, <2>9, <2>10, <2>11 DEF IInv
\* The executors are shut down, or nothing happens.
<1>17. ASSUME Close \/ UNCHANGED vars PROVE IInv'
  <2>1. /\ closed' \in BOOLEAN /\ (closed => closed')
        /\ UNCHANGED <<locked, count, awaiters, waited, stacks, pc, use, resumes, then, mutex, cvAwaiters, ready>>
    BY <1>17, <1>t DEF Close, lockVars, lvars, cvVars, vars
  <2>2. TypeOK'
    BY <2>1 DEF TypeOK
  <2>3. StackInv' /\ ListInv'
    BY <2>1 DEF StackInv, ListInv
  <2>4. HolderInv' /\ MutexInv' /\ UseInv'
    BY <2>1 DEF HolderInv, MutexInv, UseInv, AwaitsFrom
  <2>5. FoundInv'
    BY <2>1 DEF FoundInv, Seeks
  <2> QED BY <2>2, <2>3, <2>4, <2>5 DEF IInv
\* The actions.
<1>18. ASSUME NEW c \in Coroutines, Lock(c), UNCHANGED cvVars PROVE IInv'
  BY <1>18, <1>4, <1>5 DEF Lock, At, Goto, MayTake, cvVars
<1>19. ASSUME NEW c \in Coroutines, ResumeOn(c), UNCHANGED cvVars PROVE IInv'
  BY <1>19, <1>1, <1>2 DEF ResumeOn, HandOver, At, Goto, MayGo, MayPark, lockVars, cvVars
<1>20. ASSUME NEW c \in Coroutines, RunPosted(c) \/ BreakPosted(c), UNCHANGED cvVars PROVE IInv'
  BY <1>20, <1>3 DEF RunPosted, BreakPosted, Goto, MayStart, lockVars, cvVars
<1>21. ASSUME NEW c \in Coroutines, Enter(c), UNCHANGED cvVars PROVE IInv'
  BY <1>21, <1>6 DEF Enter, At, Goto, cvVars
<1>22. ASSUME NEW c \in Coroutines, TryLock(c), UNCHANGED cvVars PROVE IInv'
  BY <1>22, <1>1, <1>4 DEF TryLock, At, Goto, MayGo, MayTake, cvVars
<1>23. ASSUME NEW c \in Coroutines, AllResumed(c), UNCHANGED cvVars PROVE IInv'
  BY <1>23, <1>7 DEF AllResumed, At, Goto, lockVars, cvVars
<1>24. ASSUME NEW c \in Coroutines, GiveUp(c), UNCHANGED cvVars PROVE IInv'
  <2>1. PICK p : /\ MayEnd(c)
                 /\ p \in Ends
                 /\ waited' \subseteq Coroutines
                 /\ pc' = [pc EXCEPT ![c] = "resuming"]
                 /\ locked' = FALSE
                 /\ count' = IF pc[c] \in In THEN count - 1 ELSE count
                 /\ then' = [then EXCEPT ![c] = p]
                 /\ resumes' = [resumes EXCEPT ![c] = First(awaiters)]
                 /\ awaiters' = Rest(awaiters)
                 /\ UNCHANGED <<closed, stacks, use, mutex, cvAwaiters, ready>>
    BY <1>24, <1>t DEF GiveUp, At, Goto, ToResume, In, Ends, MayEnd, lockVars, lvars, cvVars
  <2> QED BY <2>1, <1>8
<1>25. ASSUME NEW c \in Coroutines, Hold(c) PROVE IInv'
  <2>1. PICK p : /\ MayEnd(c)
                 /\ p \in Ends
                 /\ waited' \subseteq Coroutines
                 /\ pc' = [pc EXCEPT ![c] = "resuming"]
                 /\ locked' = FALSE
                 /\ count' = IF pc[c] \in In THEN count - 1 ELSE count
                 /\ then' = [then EXCEPT ![c] = p]
                 /\ resumes' = [resumes EXCEPT ![c] = First(awaiters)]
                 /\ awaiters' = Rest(awaiters)
                 /\ UNCHANGED <<closed, stacks, use, mutex, cvAwaiters, ready>>
    BY <1>25, <1>t DEF Hold, Unlock, At, Goto, ToResume, In, Ends, MayEnd, lockVars, lvars, cvVars
  <2> QED BY <2>1, <1>8
<1>26. ASSUME NEW c \in Coroutines, Produce(c) PROVE IInv'
  <2>1. PICK p : /\ pc[c] = "inside"
                 /\ use[c] = "push"
                 /\ p \in Notifies
                 /\ pc' = [pc EXCEPT ![c] = "resuming"]
                 /\ locked' = FALSE
                 /\ count' = IF pc[c] \in In THEN count - 1 ELSE count
                 /\ then' = [then EXCEPT ![c] = p]
                 /\ resumes' = [resumes EXCEPT ![c] = First(awaiters)]
                 /\ awaiters' = Rest(awaiters)
                 /\ ready' = TRUE
                 /\ UNCHANGED <<waited, closed, stacks, use, mutex, cvAwaiters>>
    BY <1>26 DEF Produce, Unlock, At, Goto, ToResume, In, Notifies
  <2> QED BY <2>1, <1>9
<1>27. ASSUME NEW c \in Coroutines, Consume(c) PROVE IInv'
  <2>1. /\ pc[c] = "awaited"
        /\ pc' = [pc EXCEPT ![c] = "resuming"]
        /\ locked' = FALSE
        /\ count' = IF pc[c] \in In THEN count - 1 ELSE count
        /\ then' = [then EXCEPT ![c] = "idle"]
        /\ resumes' = [resumes EXCEPT ![c] = First(awaiters)]
        /\ awaiters' = Rest(awaiters)
        /\ ready' = FALSE
        /\ UNCHANGED <<waited, closed, stacks, use, mutex, cvAwaiters>>
    BY <1>27 DEF Consume, Unlock, At, Goto, ToResume, In
  <2> QED BY <2>1, <1>10
<1>28. ASSUME NEW c \in Coroutines, AwaitUnlock(c) PROVE IInv'
  <2>1. /\ pc[c] = "await_unlock"
        /\ pc' = [pc EXCEPT ![c] = "resuming"]
        /\ locked' = FALSE
        /\ count' = IF pc[c] \in In THEN count - 1 ELSE count
        /\ then' = [then EXCEPT ![c] = "await_push"]
        /\ resumes' = [resumes EXCEPT ![c] = First(awaiters)]
        /\ awaiters' = Rest(awaiters)
        /\ UNCHANGED <<waited, closed, stacks, use, mutex, cvAwaiters, ready>>
    BY <1>28 DEF AwaitUnlock, Unlock, At, Goto, ToResume, In, cvVars
  <2> QED BY <2>1, <1>11
<1>29. ASSUME NEW c \in Coroutines, AwaitLock(c) PROVE IInv'
  BY <1>29, <1>12 DEF AwaitLock, At, Goto, MutexIs, lockVars
<1>30. ASSUME NEW c \in Coroutines, AwaitPush(c) PROVE IInv'
  BY <1>30, <1>13 DEF AwaitPush, At, Goto, lockVars
<1>31. ASSUME NEW c \in Coroutines, CvResumeOn(c) PROVE IInv'
  BY <1>31, <1>1, <1>2 DEF CvResumeOn, HandOver, At, Goto, MayGo, MayPark, lockVars, cvVars
<1>32. ASSUME NEW c \in Coroutines, CvRunPosted(c) PROVE IInv'
  BY <1>32, <1>3 DEF CvRunPosted, Goto, MayStart, lockVars, cvVars
<1>33. ASSUME NEW c \in Coroutines, TestPredicate(c) PROVE IInv'
  BY <1>33, <1>1 DEF TestPredicate, At, Goto, MayGo, lockVars, cvVars
<1>34. ASSUME NEW c \in Coroutines, End(c) PROVE IInv'
  BY <1>34, <1>2 DEF End, At, Goto, MayPark, lockVars, cvVars
<1>35. ASSUME NEW c \in Coroutines, Begin(c) PROVE IInv'
  <2>1. PICK p, q : /\ q \in Wants
                    /\ pc[c] = "idle"
                    /\ p \in Uses
                    /\ pc' = [pc EXCEPT ![c] = q]
                    /\ use' = [use EXCEPT ![c] = p]
                    /\ UNCHANGED <<locked, count, awaiters, waited, closed, stacks, resumes, then, mutex, cvAwaiters, ready>>
    BY <1>35 DEF Begin, At, Goto, Wants, Uses, lockVars
  <2> QED BY <2>1, <1>14
<1>36. ASSUME NEW c \in Coroutines, NotifyOne(c) \/ NotifyAll(c) PROVE IInv'
  <2>1. IsInjective(cvAwaiters)
    BY DEF ListInv
  <2>2. Splits(cvAwaiters, First(cvAwaiters), Rest(cvAwaiters)) /\ Splits(cvAwaiters, cvAwaiters, <<>>)
    BY <1>t, <2>1, ListSplits
  <2>3. Rest(cvAwaiters) # <<>> => \E d \in Coroutines : Contains(First(cvAwaiters), d)
    <3>1. SUFFICES ASSUME Rest(cvAwaiters) # <<>> PROVE \E d \in Coroutines : Contains(First(cvAwaiters), d)
      OBVIOUS
    <3>2. cvAwaiters # <<>> /\ First(cvAwaiters) = <<Head(cvAwaiters)>>
      BY <3>1 DEF Rest, First
    <3>3. Head(cvAwaiters) \in Coroutines
      BY <1>t, <3>2, SeqTail
    <3> QED BY <3>2, <3>3, SeqOne
  <2>4. CASE NotifyOne(c)
    <3>1. /\ pc[c] \in Notifies
          /\ mutex = Nobody
          /\ Splits(cvAwaiters, First(cvAwaiters), cvAwaiters')
          /\ (cvAwaiters' # <<>> => \E d \in Coroutines : Contains(First(cvAwaiters), d))
          /\ pc' = [pc EXCEPT ![c] = "resuming"]
          /\ then' = [then EXCEPT ![c] = "idle"]
          /\ resumes' = [resumes EXCEPT ![c] = First(cvAwaiters)]
          /\ UNCHANGED <<locked, count, awaiters, waited, closed, stacks, use, mutex, ready>>
      BY <2>2, <2>3, <2>4 DEF NotifyOne, At, Goto, ToResume, Notifies, lockVars, lvars, cvVars
    <3> QED BY <3>1, <1>15
  <2>5. CASE NotifyAll(c)
    <3>1. /\ pc[c] \in Notifies
          /\ mutex = Nobody
          /\ Splits(cvAwaiters, cvAwaiters, cvAwaiters')
          /\ (cvAwaiters' # <<>> => \E d \in Coroutines : Contains(cvAwaiters, d))
          /\ pc' = [pc EXCEPT ![c] = "resuming"]
          /\ then' = [then EXCEPT ![c] = "idle"]
          /\ resumes' = [resumes EXCEPT ![c] = cvAwaiters]
          /\ UNCHANGED <<locked, count, awaiters, waited, closed, stacks, use, mutex, ready>>
      BY <2>2, <2>5 DEF NotifyAll, At, Goto, ToResume, Notifies, lockVars, lvars, cvVars
    <3> QED BY <3>1, <1>15
  <2> QED BY <1>36, <2>4, <2>5
<1> QED
  <2>1. ASSUME NEW c \in Coroutines, Step(c) \/ Begin(c) PROVE IInv'
    BY <2>1, <1>18, <1>19, <1>20, <1>21, <1>22, <1>23, <1>24, <1>25, <1>26, <1>27, <1>28, <1>29, <1>30, <1>31, <1>32, <1>33, <1>34, <1>35, <1>36, <1>16 DEF Step, LockStep, CvStep, Body
  <2>2. CASE Close \/ UNCHANGED vars
    BY <2>2, <1>17
  <2> QED BY <2>1, <2>2 DEF Next, Over
-----------------------------------------------------------------------------
(* The invariant holds in every state.                                     *)

\* Every coroutine begins on a stack of its own.
LEMMA InitIInv == Init => IInv
<1> SUFFICES ASSUME Init PROVE IInv
  OBVIOUS
<1>1. TypeOK
  <2>1. stacks \subseteq Seq(Coroutines) \ {<<>>}
    BY SeqOne DEF Init
  <2>2. /\ pc \in [Coroutines -> Points] /\ use \in [Coroutines -> {"hold", "push", "pop"}]
        /\ resumes \in [Coroutines -> Seq(Coroutines)]
        /\ then \in [Coroutines -> {"idle", "ending", "await_push", "notify_one", "notify_all"}]
    BY SeqEmpty DEF Init, Points
  <2>3. /\ locked \in BOOLEAN /\ count \in Int /\ awaiters \in Seq(Coroutines) /\ closed \in BOOLEAN
        /\ waited \subseteq Coroutines /\ mutex \in Coroutines \cup {Nobody}
        /\ cvAwaiters \in Seq(Coroutines) /\ ready \in BOOLEAN
    <3>1. /\ locked = FALSE /\ count = 0 /\ awaiters = <<>> /\ closed = FALSE /\ waited = {}
          /\ mutex = Nobody /\ cvAwaiters = <<>> /\ ready = FALSE
      BY DEF Init
    <3>2. awaiters \in Seq(Coroutines) /\ cvAwaiters \in Seq(Coroutines)
      BY <3>1, SeqEmpty
    <3>3. locked \in BOOLEAN /\ closed \in BOOLEAN /\ ready \in BOOLEAN
      BY <3>1
    <3>4. count \in Int
      BY <3>1
    <3> QED BY <3>1, <3>2, <3>3, <3>4
  <2> QED BY <2>1, <2>2, <2>3 DEF TypeOK
<1>2. StackInv
  <2>1. \A c \in Coroutines : pc[c] \notin Off
    BY DEF Init, Off
  <2>2. \A s \in stacks : \E d \in Coroutines : s = <<d>>
    BY DEF Init
  <2>3. \A c \in Coroutines : <<c>> \in stacks
    BY DEF Init
  <2>4. \A s \in stacks : \E d \in Coroutines :
            IsInjective(s) /\ s = <<d>> /\ \A c \in Coroutines : Contains(s, c) <=> c = d
    BY <2>2, SeqOne
  <2>5. \A c \in Coroutines : \E s \in stacks : Contains(s, c)
    BY <2>3, SeqOne
  <2>6. ASSUME NEW s \in stacks, NEW t \in stacks, NEW c \in Coroutines, Contains(s, c), Contains(t, c)
        PROVE  s = t
    BY <2>4, <2>6
  <2> QED BY <2>1, <2>4, <2>5, <2>6 DEF StackInv
<1>3. ListInv
  BY SeqEmpty DEF Init, ListInv
<1>4. HolderInv
  BY DEF Init, HolderInv, Held, In
<1>5. MutexInv /\ UseInv /\ FoundInv
  BY CoroutinesAssumption DEF Init, MutexInv, UseInv, FoundInv, AwaitsFrom
<1> QED BY <1>1, <1>2, <1>3, <1>4, <1>5 DEF IInv

\* IInv holds in every state of the lock and the condition variable.
THEOREM Invariance == Spec => []IInv
BY InitIInv, NextIInv, PTL DEF Spec

\* The types of the members of async_lock and async_condition_variable, and of
\* what the coroutines are at.
THEOREM TypeCorrect == Spec => []TypeOK
<1>1. IInv => TypeOK
  BY DEF IInv
<1> QED BY <1>1, Invariance, PTL

\* A set whose elements are all the same counts one or none.
LEMMA OneOrNone ==
    ASSUME NEW S, \A x, y \in S : x = y
    PROVE  /\ Cardinality(S) = IF S = {} THEN 0 ELSE 1
<1>1. CASE S = {}
  BY <1>1, FS_EmptySet
<1>2. CASE S # {}
  <2>1. PICK x \in S : TRUE
    BY <1>2
  <2>2. S = {x}
    BY <2>1
  <2> QED BY <1>2, <2>2, FS_Singleton
<1> QED BY <1>1, <1>2

\* One coroutine at a time has the lock, however woken waiters, those that come by and
\* executors that are shut down meet, and m_locked and the counter of the assertions
\* agree with it.
THEOREM LockHasOneHolder == Spec => []OneHolder
<1>1. ASSUME IInv PROVE OneHolder
  <2>1. Holders = {c \in Coroutines : pc[c] \in Held} /\ Counted = {c \in Coroutines : pc[c] \in In}
    BY DEF Holders, Counted, Held, In
  <2>2. (\A x, y \in Holders : x = y) /\ (locked <=> Holders # {})
    BY <1>1, <2>1 DEF IInv, HolderInv
  <2>3. (\A x, y \in Counted : x = y) /\ count = IF Counted = {} THEN 0 ELSE 1
    BY <1>1, <2>1 DEF IInv, HolderInv, Held, In
  <2>4. Cardinality(Holders) <= 1
    BY <2>2, OneOrNone
  <2>5. count = Cardinality(Counted)
    BY <2>3, OneOrNone
  <2> QED BY <2>2, <2>4, <2>5 DEF OneHolder
<1> QED BY <1>1, Invariance, PTL

\* How often a coroutine is in a list of which no two elements are the same.
LEMMA OnceInList ==
    ASSUME NEW s \in Seq(Coroutines), IsInjective(s), NEW c \in Coroutines
    PROVE  Cardinality({i \in DOMAIN s : s[i] = c}) = IF Contains(s, c) THEN 1 ELSE 0
<1> DEFINE S == {i \in DOMAIN s : s[i] = c}
<1>1. \A x, y \in S : x = y
  BY DEF IsInjective
<1>2. S = {} <=> ~Contains(s, c)
  BY DEF Contains
<1> HIDE DEF S
<1>3. Cardinality(S) = IF Contains(s, c) THEN 1 ELSE 0
  BY <1>1, <1>2, OneOrNone
<1> QED BY <1>3 DEF S

\* A coroutine is resumed once for each time it suspends: it is on one stack, in one
\* list, with one executor, or one other coroutine is to resume it.
THEOREM CoroutinesHaveOnePlace == Spec => []OnePlace
<1>1. ASSUME IInv PROVE OnePlace
  <2> SUFFICES ASSUME NEW c \in Coroutines PROVE Places(c) = IF pc[c] = "done" THEN 0 ELSE 1
    BY DEF OnePlace
  <2> DEFINE On == {s \in stacks : Contains(s, c)}
             By == {d \in Coroutines : Contains(resumes[d], c)}
  <2>1. TypeOK /\ StackInv /\ ListInv
    BY <1>1 DEF IInv
  <2>2. Cardinality(On) = IF pc[c] \notin Off THEN 1 ELSE 0
    <3>1. (\A x, y \in On : x = y) /\ (On = {} <=> pc[c] \in Off)
      BY <2>1 DEF StackInv
    <3> HIDE DEF On
    <3> QED BY <3>1, OneOrNone
  <2>3. Cardinality(By) = IF \E d \in Coroutines : Contains(resumes[d], c) THEN 1 ELSE 0
    <3>1. \A x, y \in By : x = y
      BY <2>1 DEF ListInv
    <3>2. By = {} <=> ~\E d \in Coroutines : Contains(resumes[d], c)
      OBVIOUS
    <3> HIDE DEF By
    <3> QED BY <3>1, <3>2, OneOrNone
  <2>4. Cardinality({i \in DOMAIN awaiters : awaiters[i] = c}) = IF Contains(awaiters, c) THEN 1 ELSE 0
    BY <2>1, OnceInList DEF TypeOK, ListInv
  <2>5. Cardinality({i \in DOMAIN cvAwaiters : cvAwaiters[i] = c}) = IF Contains(cvAwaiters, c) THEN 1 ELSE 0
    BY <2>1, OnceInList DEF TypeOK, ListInv
  <2>6. /\ Contains(awaiters, c) => pc[c] = "queued"
        /\ Contains(cvAwaiters, c) => pc[c] = "waiting"
        /\ pc[c] = "queued" => Contains(awaiters, c) \/ \E d \in Coroutines : Contains(resumes[d], c)
        /\ pc[c] = "waiting" => Contains(cvAwaiters, c) \/ \E d \in Coroutines : Contains(resumes[d], c)
        /\ (\E d \in Coroutines : Contains(resumes[d], c)) =>
               pc[c] \in {"queued", "waiting"} /\ ~Contains(awaiters, c) /\ ~Contains(cvAwaiters, c)
    BY <2>1 DEF ListInv
  <2>7. Places(c) = (IF pc[c] \notin Off THEN 1 ELSE 0)
                    + (IF Contains(awaiters, c) THEN 1 ELSE 0)
                    + (IF Contains(cvAwaiters, c) THEN 1 ELSE 0)
                    + (IF \E d \in Coroutines : Contains(resumes[d], c) THEN 1 ELSE 0)
                    + (IF pc[c] \in {"posted", "cv_posted"} THEN 1 ELSE 0)
    BY <2>2, <2>3, <2>4, <2>5 DEF Places
  <2> HIDE DEF On, By
  <2> QED BY <2>6, <2>7 DEF Off
<1> QED BY <1>1, Invariance, PTL

\* No notification is lost: what was produced while consumers wait is on its way to one
\* of them, unless the executors were shut down.
THEOREM NotificationsAreNotLost == Spec => []ProducedIsFound
<1>1. ASSUME IInv PROVE ProducedIsFound
  <2> SUFFICES ASSUME ready, cvAwaiters # <<>>, ~closed
               PROVE  \E c \in Coroutines :
                          \/ pc[c] \in {"notify_one", "notify_all"}
                          \/ then[c] \in {"notify_one", "notify_all"} /\ pc[c] = "resuming"
                          \/ use[c] = "pop" /\ pc[c] \notin {"waiting", "idle", "done", "ending"}
                          \/ \E d \in Coroutines : Contains(resumes[d], c)
    BY DEF ProducedIsFound
  <2>1. PICK c \in Coroutines : Seeks(c)
    BY <1>1 DEF IInv, FoundInv
  <2> QED BY <2>1 DEF Seeks, Seeking, Notifies
<1> QED BY <1>1, Invariance, PTL

-----------------------------------------------------------------------------
(* Nobody is left in the list while the lock is free.                      *)

\* Who is about to look at m_locked: one at the head of lock_impl's loop, or a waiter
\* that another coroutine has taken off the list and is to resume there.
Tries(c) == pc[c] = "lock" \/ (pc[c] = "queued" /\ \E d \in Coroutines : Contains(resumes[d], c))
Served == awaiters # <<>> => locked \/ \E c \in Coroutines : Tries(c)

\* Who tries goes on trying, and nobody joins the list.
LEMMA ServedStays ==
    ASSUME Served, awaiters' # <<>> => awaiters # <<>>, locked => locked',
           \A c \in Coroutines : pc[c] \in {"lock", "queued"} => pc'[c] = pc[c] \/ pc'[c] = "lock",
           \A c, d \in Coroutines : Contains(resumes[d], c) => Contains(resumes'[d], c) \/ pc'[c] \in {"lock", "cv_resume_on"}
    PROVE  Served'
<1> SUFFICES ASSUME awaiters' # <<>>, ~locked' PROVE \E c \in Coroutines : Tries(c)'
  BY DEF Served
<1>1. PICK c \in Coroutines : Tries(c)
  BY DEF Served
<1>2. Tries(c)'
  BY <1>1 DEF Tries
<1> QED BY <1>2

\* Who gives the lock up takes the first waiter off the list.
LEMMA ServedHands ==
    ASSUME TypeOK, ListInv, NEW c \in Coroutines, pc[c] # "queued", pc' = [pc EXCEPT ![c] = "resuming"],
           resumes' = [resumes EXCEPT ![c] = First(awaiters)], awaiters' = Rest(awaiters)
    PROVE  Served'
<1> SUFFICES ASSUME awaiters # <<>> PROVE \E d \in Coroutines : Tries(d)'
  BY DEF Served, Rest
<1> DEFINE d == Head(awaiters)
<1>1. d \in Coroutines /\ Contains(awaiters, d)
  BY SeqTail DEF TypeOK
<1> HIDE DEF d
<1>2. pc[d] = "queued" /\ d # c
  BY <1>1 DEF ListInv
<1>3. pc'[d] = "queued"
  BY <1>1, <1>2 DEF TypeOK
<1>4. resumes'[c] = <<d>>
  BY DEF TypeOK, First, d
<1>5. Contains(resumes'[c], d)
  BY <1>1, <1>4, SeqOne
<1> QED BY <1>1, <1>3, <1>5 DEF Tries

LEMMA NextServed == IInv /\ Served /\ [Next]_vars => Served'
<1> SUFFICES ASSUME TypeOK, StackInv, ListInv, Served, [Next]_vars PROVE Served'
  BY DEF IInv
<1>t. /\ pc \in [Coroutines -> Points] /\ resumes \in [Coroutines -> Seq(Coroutines)]
      /\ then \in [Coroutines -> {"idle", "ending", "await_push", "notify_one", "notify_all"}]
  BY DEF TypeOK
\* One that does not try goes on, and leaves the lock as it is or takes it.
<1>1. ASSUME NEW c \in Coroutines, NEW q, pc' = [pc EXCEPT ![c] = q], pc[c] \notin {"lock", "queued"},
             UNCHANGED <<awaiters, resumes>>, locked => locked'
      PROVE  Served'
  <2>1. \A d \in Coroutines : pc'[d] = IF d = c THEN q ELSE pc[d]
    BY <1>1, <1>t
  <2>2. \A d \in Coroutines : pc[d] \in {"lock", "queued"} => pc'[d] = pc[d]
    BY <1>1, <2>1
  <2> QED BY <1>1, <2>2, ServedStays
\* One that resumes others it took off the condition variable's list.
<1>2. ASSUME NEW c \in Coroutines, NotifyOne(c) \/ NotifyAll(c) PROVE Served'
  <2>1. /\ pc[c] \notin {"lock", "queued", "resuming"} /\ pc' = [pc EXCEPT ![c] = "resuming"]
        /\ UNCHANGED <<awaiters, locked>>
        /\ \A d \in Coroutines : d # c => resumes'[d] = resumes[d]
    BY <1>2, <1>t DEF NotifyOne, NotifyAll, ToResume, At, Goto, lockVars
  <2>2. \A d \in Coroutines : ~Contains(resumes[c], d)
    BY <2>1, SeqEmpty DEF ListInv
  <2>3. \A d \in Coroutines : pc[d] \in {"lock", "queued"} => pc'[d] = pc[d]
    BY <1>t, <2>1
  <2>4. \A d, e \in Coroutines : Contains(resumes[e], d) => Contains(resumes'[e], d)
    BY <2>1, <2>2
  <2> QED BY <2>1, <2>3, <2>4, ServedStays
\* The waiter comes to the head of the loop.
<1>3. ASSUME NEW c \in Coroutines, ResumeNext(c) PROVE Served'
  <2> DEFINE d == Head(resumes[c])
             q == IF pc[d] = "queued" THEN "lock" ELSE "cv_resume_on"
  <2>1. /\ resumes[c] # <<>> /\ pc' = [pc EXCEPT ![d] = q] /\ resumes' = [resumes EXCEPT ![c] = Tail(@)]
        /\ UNCHANGED <<awaiters, locked>>
    BY <1>3 DEF ResumeNext, Goto, lockVars
  <2>2. resumes[c] \in Seq(Coroutines) /\ IsInjective(resumes[c])
    BY <1>t DEF ListInv
  <2>3. /\ d \in Coroutines /\ Contains(resumes[c], d)
        /\ \A e \in Coroutines : Contains(Tail(resumes[c]), e) <=> Contains(resumes[c], e) /\ e # d
    BY <2>1, <2>2, SeqTail
  <2>4. pc[d] \in {"queued", "waiting"}
    BY <2>3 DEF ListInv
  <2> HIDE DEF d
  <2>5. \A e \in Coroutines : pc'[e] = IF e = d THEN q ELSE pc[e]
    BY <1>t, <2>1, <2>3
  <2>6. \A e \in Coroutines : pc[e] \in {"lock", "queued"} => pc'[e] = pc[e] \/ pc'[e] = "lock"
    BY <2>4, <2>5
  <2>7. \A e, f \in Coroutines : Contains(resumes[f], e) => Contains(resumes'[f], e) \/ pc'[e] \in {"lock", "cv_resume_on"}
    BY <1>t, <2>1, <2>3, <2>5
  <2> HIDE DEF q
  <2> QED BY <2>1, <2>6, <2>7, ServedStays
\* One that finds the lock taken joins the list; one that finds it free takes it.
<1>4. ASSUME NEW c \in Coroutines, Lock(c) PROVE Served'
  <2>1. locked'
    BY <1>4 DEF Lock
  <2> QED BY <2>1 DEF Served
<1>5. ASSUME NEW c \in Coroutines, LockStep(c), UNCHANGED cvVars PROVE Served'
  <2>1. CASE ResumeOn(c) \/ RunPosted(c) \/ BreakPosted(c) \/ Enter(c) \/ TryLock(c) \/ AllResumed(c)
    <3>1. PICK q : /\ pc' = [pc EXCEPT ![c] = q] /\ pc[c] \notin {"lock", "queued"}
                   /\ UNCHANGED <<awaiters, resumes>> /\ (locked => locked')
      <4>1. CASE ResumeOn(c)
        BY <4>1 DEF ResumeOn, HandOver, At, Goto, lockVars
      <4>2. CASE RunPosted(c) \/ BreakPosted(c)
        BY <4>2 DEF RunPosted, BreakPosted, Goto, lockVars
      <4>3. CASE Enter(c)
        BY <4>3 DEF Enter, At, Goto
      <4>4. CASE TryLock(c)
        BY <4>4 DEF TryLock, At, Goto
      <4>5. CASE AllResumed(c)
        BY <4>5 DEF AllResumed, At, Goto, lockVars
      <4> QED BY <2>1, <4>1, <4>2, <4>3, <4>4, <4>5
    <3> QED BY <1>1, <3>1
  <2>2. CASE GiveUp(c)
    BY <2>2, ServedHands DEF GiveUp, ToResume, At, Goto
  <2> QED BY <1>3, <1>4, <1>5, <2>1, <2>2 DEF LockStep
<1>6. ASSUME NEW c \in Coroutines, CvStep(c) PROVE Served'
  <2>1. CASE AwaitLock(c) \/ AwaitPush(c) \/ CvResumeOn(c) \/ CvRunPosted(c)
    <3>1. PICK q : /\ pc' = [pc EXCEPT ![c] = q] /\ pc[c] \notin {"lock", "queued"}
                   /\ UNCHANGED <<awaiters, resumes>> /\ (locked => locked')
      <4>1. CASE AwaitLock(c)
        BY <4>1 DEF AwaitLock, At, Goto, lockVars
      <4>4. CASE AwaitPush(c)
        BY <4>4 DEF AwaitPush, At, Goto, lockVars
      <4>2. CASE CvResumeOn(c)
        BY <4>2 DEF CvResumeOn, HandOver, At, Goto, lockVars
      <4>3. CASE CvRunPosted(c)
        BY <4>3 DEF CvRunPosted, Goto, lockVars
      <4> QED BY <2>1, <4>1, <4>2, <4>3, <4>4
    <3> QED BY <1>1, <3>1
  <2>2. CASE AwaitUnlock(c)
    BY <2>2, ServedHands DEF AwaitUnlock, Unlock, ToResume, At, Goto
  <2> QED BY <1>2, <1>6, <2>1, <2>2 DEF CvStep
<1>7. ASSUME NEW c \in Coroutines, Body(c) \/ Begin(c) PROVE Served'
  <2>1. CASE Hold(c) \/ Produce(c) \/ Consume(c)
    BY <2>1, ServedHands DEF Hold, Produce, Consume, Unlock, ToResume, At, Goto
  <2>2. CASE TestPredicate(c) \/ End(c) \/ Begin(c)
    <3>1. PICK q : /\ pc' = [pc EXCEPT ![c] = q] /\ pc[c] \notin {"lock", "queued"}
                   /\ UNCHANGED <<awaiters, resumes>> /\ (locked => locked')
      BY <2>2 DEF TestPredicate, End, Begin, At, Goto, lockVars
    <3> QED BY <1>1, <3>1
  <2> QED BY <1>7, <2>1, <2>2 DEF Body
<1>8. CASE Close \/ UNCHANGED vars
  BY <1>8 DEF Close, vars, lvars, lockVars, Served, Tries
<1> QED BY <1>5, <1>6, <1>7, <1>8 DEF Next, Step, Over

\* No waiter is stranded: as long as one is in the list of the lock, somebody has the lock or
\* is about to look at it, though a waiter that is resumed may find the lock taken again, and
\* its executor may throw it out (lock_impl and unlock, async_lock.cpp).  LockIsGranted needs
\* this in every state.
THEOREM NoWaiterIsStranded == Spec => []Served
<1>1. Init => Served
  BY DEF Init, Served
<1> QED BY <1>1, NextServed, Invariance, PTL DEF Spec

-----------------------------------------------------------------------------
(* The lock and the condition variable are a monitor.                      *)

Asks == {"lock", "queued"}
Entering == {c \in Coroutines : pc[c] \in Asks}
WaitList == cvAwaiters \o SetToSeq(Pusher)

\* What a step of c makes of those that ask for the lock, and of its holders.
LEMMA WhereTheyAre ==
    ASSUME TypeOK, NEW c \in Coroutines, NEW q, pc' = [pc EXCEPT ![c] = q]
    PROVE  /\ Entering' = IF q \in Asks THEN Entering \cup {c} ELSE Entering \ {c}
           /\ Holders' = IF q \in Held THEN Holders \cup {c} ELSE Holders \ {c}
<1>1. \A d \in Coroutines : pc'[d] = IF d = c THEN q ELSE pc[d]
  BY DEF TypeOK
<1>2. Holders = {d \in Coroutines : pc[d] \in Held} /\ Holders' = {d \in Coroutines : pc'[d] \in Held}
  BY DEF Holders, Held
<1>3. Holders' = IF q \in Held THEN Holders \cup {c} ELSE Holders \ {c}
  BY <1>1, <1>2
<1>4. Entering' = IF q \in Asks THEN Entering \cup {c} ELSE Entering \ {c}
  BY <1>1 DEF Entering
<1> QED BY <1>3, <1>4

\* SetToSeq, of as many as there may be between giving the lock up and joining the list.
LEMMA ToSeq ==
    ASSUME NEW c
    PROVE  SetToSeq({}) = <<>> /\ SetToSeq({c}) = <<c>>
<1>1. SetToSeq({}) = <<>>
  <2>1. Cardinality({}) = 0
    BY FS_EmptySet
  <2>2. SetToSeq({}) = CHOOSE f \in [1 .. 0 -> {}] : IsInjective(f)
    BY <2>1 DEF SetToSeq
  <2>3. <<>> \in [1 .. 0 -> {}] /\ IsInjective(<<>>)
    BY DEF IsInjective
  <2>4. \A f \in [1 .. 0 -> {}] : f = <<>>
    OBVIOUS
  <2> QED BY <2>2, <2>3, <2>4
<1>2. SetToSeq({c}) = <<c>>
  <2>1. Cardinality({c}) = 1
    BY FS_Singleton
  <2>2. SetToSeq({c}) = CHOOSE f \in [1 .. 1 -> {c}] : IsInjective(f)
    BY <2>1 DEF SetToSeq
  <2>3. <<c>> \in [1 .. 1 -> {c}] /\ IsInjective(<<c>>)
    BY DEF IsInjective
  <2>4. \A f \in [1 .. 1 -> {c}] : f = <<c>>
    OBVIOUS
  <2> QED BY <2>2, <2>3, <2>4
<1> QED BY <1>1, <1>2

\* The abstract list is that of the condition variable, and at its end who is about to join it.
LEMMA WaitListIs ==
    ASSUME NEW s \in Seq(Coroutines), NEW c \in Coroutines
    PROVE  s \o SetToSeq({}) = s /\ s \o SetToSeq({c}) = Append(s, c)
<1>1. s \o <<>> = s /\ s \o <<c>> = Append(s, c)
  OBVIOUS
<1> QED BY <1>1, ToSeq

\* Without the mutex nobody is about to join, with it nobody but its owner.
LEMMA PusherIs ==
    ASSUME TypeOK, MutexInv
    PROVE  /\ \A c \in Coroutines : AwaitsFrom(c) => Pusher = {c} /\ mutex = c
           /\ (\A c \in Coroutines : ~AwaitsFrom(c)) => Pusher = {} /\ WaitList = cvAwaiters
           /\ mutex = Nobody => \A c \in Coroutines : ~AwaitsFrom(c)
<1>1. \A c \in Coroutines : AwaitsFrom(c) => Pusher = {c} /\ mutex = c
  BY DEF MutexInv, Pusher
<1>2. (\A c \in Coroutines : ~AwaitsFrom(c)) => Pusher = {} /\ WaitList = cvAwaiters
  <2> SUFFICES ASSUME \A c \in Coroutines : ~AwaitsFrom(c) PROVE Pusher = {} /\ WaitList = cvAwaiters
    OBVIOUS
  <2>1. Pusher = {}
    BY DEF Pusher
  <2>2. cvAwaiters \o <<>> = cvAwaiters
    BY DEF TypeOK
  <2> QED BY <2>1, <2>2, ToSeq DEF WaitList
<1>3. mutex = Nobody => \A c \in Coroutines : ~AwaitsFrom(c)
  BY CoroutinesAssumption DEF MutexInv
<1> QED BY <1>1, <1>2, <1>3

\* Who waits, for the monitor.
LEMMA WaitsIs ==
    ASSUME TypeOK, MutexInv, ListInv, NEW c \in Coroutines, pc[c] # "waiting", ~AwaitsFrom(c)
    PROVE  ~\E i \in DOMAIN WaitList : WaitList[i] = c
<1>1. ~Contains(cvAwaiters, c) /\ cvAwaiters \in Seq(Coroutines)
  BY DEF ListInv, TypeOK
<1>2. WaitList = cvAwaiters \/ \E d \in Coroutines : d # c /\ WaitList = Append(cvAwaiters, d)
  BY <1>1, PusherIs, WaitListIs DEF WaitList
<1>3. ASSUME NEW d \in Coroutines, d # c, WaitList = Append(cvAwaiters, d)
      PROVE  ~\E i \in DOMAIN WaitList : WaitList[i] = c
  <2>1. Append(cvAwaiters, d) \in Seq(Coroutines) /\ ~Contains(Append(cvAwaiters, d), c)
    BY <1>1, <1>3, SeqAppend
  <2> QED BY <1>3, <2>1 DEF Contains
<1>4. CASE WaitList = cvAwaiters
  BY <1>1, <1>4 DEF Contains
<1> QED BY <1>2, <1>3, <1>4

\* Those that are about to join the list stay when no coroutine begins or ceases to be.
LEMMA PusherStays ==
    ASSUME NEW c \in Coroutines, OthersStay(c), AwaitsFrom(c)' <=> AwaitsFrom(c), UNCHANGED cvAwaiters
    PROVE  WaitList' = WaitList
<1>1. \A d \in Coroutines : AwaitsFrom(d)' <=> AwaitsFrom(d)
  BY DEF OthersStay, AwaitsFrom
<1>2. Pusher' = Pusher
  BY <1>1 DEF Pusher
<1> QED BY <1>2 DEF WaitList

\* The steps of the monitor, of what a step of c does to where it is.
LEMMA MonitorSteps ==
    ASSUME TypeOK, HolderInv, MutexInv, ListInv, NEW c \in Coroutines, NEW q, pc' = [pc EXCEPT ![c] = q]
    PROVE  /\ (q \in Asks <=> pc[c] \in Asks) /\ (q \in Held <=> pc[c] \in Held) /\ WaitList' = WaitList
                  => [M!Next]_(M!vars)
           /\ q = "lock" /\ pc[c] \notin Asks \cup Held \cup {"waiting"} /\ ~AwaitsFrom(c) /\ WaitList' = WaitList
                  => [M!Next]_(M!vars)
           /\ ~locked /\ q \in Held /\ pc[c] \in {"lock", "try_lock"} /\ WaitList' = WaitList
                  => [M!Next]_(M!vars)
           /\ pc[c] \in Held /\ q = "resuming" /\ WaitList' \in {WaitList, Append(WaitList, c)}
                  => [M!Next]_(M!vars)
<1>1. /\ Entering' = IF q \in Asks THEN Entering \cup {c} ELSE Entering \ {c}
      /\ Holders' = IF q \in Held THEN Holders \cup {c} ELSE Holders \ {c}
  BY WhereTheyAre
<1>2. /\ Holders \subseteq Coroutines /\ Entering \subseteq Coroutines
      /\ \A d \in Coroutines : (d \in Holders <=> pc[d] \in Held) /\ (d \in Entering <=> pc[d] \in Asks)
  BY DEF Holders, Entering, Held
<1>3. Entering = {d \in Coroutines : pc[d] \in {"lock", "queued"}}
  BY DEF Entering, Asks
<1>4. Asks \cap Held = {} /\ "try_lock" \notin Asks \cup Held /\ "resuming" \notin Asks \cup Held
      /\ "lock" \in Asks /\ "lock" \notin Held
  BY DEF Asks, Held
<1>5. ASSUME UNCHANGED <<Entering, Holders, WaitList>> PROVE [M!Next]_(M!vars)
  BY <1>5 DEF M!vars, Entering, Asks, WaitList
<1>6. ASSUME q \in Asks <=> pc[c] \in Asks, q \in Held <=> pc[c] \in Held, WaitList' = WaitList
      PROVE  [M!Next]_(M!vars)
  BY <1>1, <1>2, <1>5, <1>6
<1>7. ASSUME q = "lock", pc[c] \notin Asks \cup Held \cup {"waiting"}, ~AwaitsFrom(c), WaitList' = WaitList
      PROVE  [M!Next]_(M!vars)
  <2>1. c \notin Entering \cup Holders /\ Entering' = Entering \cup {c} /\ Holders' = Holders
    BY <1>1, <1>2, <1>4, <1>7
  <2>2. ~\E i \in DOMAIN WaitList : WaitList[i] = c
    BY <1>7, WaitsIs
  <2>3. M!Ask(c)
    BY <1>7, <2>1, <2>2 DEF M!Ask, M!Waits, Entering, Asks, WaitList
  <2> QED BY <2>3 DEF M!Next
<1>8. ASSUME ~locked, q \in Held, pc[c] \in {"lock", "try_lock"}, WaitList' = WaitList
      PROVE  [M!Next]_(M!vars)
  <2>1. Holders = {}
    BY <1>2, <1>8 DEF HolderInv
  <2>2. Holders' = {c} /\ Entering' = Entering \ {c}
    BY <1>1, <1>4, <1>8, <2>1
  <2>3. ~\E i \in DOMAIN WaitList : WaitList[i] = c
    BY <1>8, WaitsIs DEF AwaitsFrom
  <2>4. M!Enter(c)
    BY <1>8, <2>1, <2>2, <2>3 DEF M!Enter, M!Waits, Entering, Asks, WaitList
  <2> QED BY <2>4 DEF M!Next
<1>9. ASSUME pc[c] \in Held, q = "resuming", WaitList' \in {WaitList, Append(WaitList, c)}
      PROVE  [M!Next]_(M!vars)
  <2>1. c \in Holders /\ Holders' = {} /\ Entering' = Entering
    BY <1>1, <1>2, <1>4, <1>9 DEF HolderInv
  <2>2. M!Leave(c) \/ M!Wait(c)
    BY <1>9, <2>1 DEF M!Leave, M!Wait, Entering, Asks, WaitList
  <2> QED BY <2>2 DEF M!Next
<1> QED BY <1>6, <1>7, <1>8, <1>9

\* What the lock and the condition variable do is a step of the monitor, or none.
LEMMA NextMonitor == IInv /\ [Next]_vars => [M!Next]_(M!vars)
<1> SUFFICES ASSUME TypeOK, StackInv, ListInv, HolderInv, MutexInv, [Next]_vars
             PROVE  [M!Next]_(M!vars)
  BY DEF IInv
<1>t. /\ pc \in [Coroutines -> Points] /\ use \in [Coroutines -> {"hold", "push", "pop"}]
      /\ resumes \in [Coroutines -> Seq(Coroutines)] /\ cvAwaiters \in Seq(Coroutines)
      /\ then \in [Coroutines -> {"idle", "ending", "await_push", "notify_one", "notify_all"}]
  BY DEF TypeOK
\* One that goes somewhere else, and is or is not about to join the list all the same.
<1>1. ASSUME NEW c \in Coroutines, NEW q, pc' = [pc EXCEPT ![c] = q], UNCHANGED <<then, cvAwaiters>>,
             \A d \in Coroutines : d # c => use'[d] = use[d] /\ resumes'[d] = resumes[d],
             q \notin {"await_push", "resuming"}, pc[c] \notin {"await_push", "resuming"}
      PROVE  WaitList' = WaitList
  <2>1. \A d \in Coroutines : pc'[d] = IF d = c THEN q ELSE pc[d]
    BY <1>1, <1>t
  <2>2. OthersStay(c)
    BY <1>1, <2>1 DEF OthersStay
  <2>3. ~AwaitsFrom(c)' /\ ~AwaitsFrom(c)
    BY <1>1, <2>1 DEF AwaitsFrom
  <2> QED BY <1>1, <2>2, <2>3, PusherStays
\* One that begins to resume others, and is to go on elsewhere than to join the list.
<1>2. ASSUME NEW c \in Coroutines, NEW p, NEW f, pc' = [pc EXCEPT ![c] = "resuming"],
             then' = [then EXCEPT ![c] = p], resumes' = [resumes EXCEPT ![c] = f],
             UNCHANGED <<use, cvAwaiters>>, p # "await_push", pc[c] \notin {"await_push", "resuming"}
      PROVE  WaitList' = WaitList
  <2>1. \A d \in Coroutines : pc'[d] = IF d = c THEN "resuming" ELSE pc[d]
    BY <1>2, <1>t
  <2>2. /\ \A d \in Coroutines : then'[d] = IF d = c THEN p ELSE then[d]
        /\ \A d \in Coroutines : resumes'[d] = IF d = c THEN f ELSE resumes[d]
    BY <1>2, <1>t
  <2>3. OthersStay(c)
    BY <1>2, <2>1, <2>2 DEF OthersStay
  <2>4. ~AwaitsFrom(c)' /\ ~AwaitsFrom(c)
    BY <1>2, <2>1, <2>2 DEF AwaitsFrom
  <2> QED BY <1>2, <2>3, <2>4, PusherStays
\* One that stays outside, or one that stays inside.
<1>3. ASSUME NEW c \in Coroutines, NEW q, pc' = [pc EXCEPT ![c] = q], UNCHANGED <<then, cvAwaiters>>,
             \A d \in Coroutines : d # c => use'[d] = use[d] /\ resumes'[d] = resumes[d],
             \/ pc[c] \in {"cv_resume_on", "cv_posted", "ending", "idle", "try_lock"}
                /\ q \in {"ending", "cv_posted", "done", "try_lock", "idle"}
             \/ pc[c] \in Held \ {"await_unlock"} /\ q \in Held
             \/ pc[c] = "lock" /\ q = "queued"
      PROVE  [M!Next]_(M!vars)
  <2>1. WaitList' = WaitList
    BY <1>1, <1>3 DEF Held
  <2>2. (q \in Asks <=> pc[c] \in Asks) /\ (q \in Held <=> pc[c] \in Held)
    BY <1>3 DEF Asks, Held
  <2> QED BY <1>3, <2>1, <2>2, MonitorSteps
\* One that asks for the lock.
<1>4. ASSUME NEW c \in Coroutines, pc' = [pc EXCEPT ![c] = "lock"], UNCHANGED <<then, cvAwaiters>>,
             \A d \in Coroutines : d # c => use'[d] = use[d] /\ resumes'[d] = resumes[d],
             pc[c] \in {"idle", "cv_resume_on", "cv_posted"}
      PROVE  [M!Next]_(M!vars)
  <2>1. WaitList' = WaitList
    BY <1>1, <1>4
  <2>2. pc[c] \notin Asks \cup Held \cup {"waiting"} /\ ~AwaitsFrom(c)
    BY <1>4 DEF Asks, Held, AwaitsFrom
  <2> QED BY <1>4, <2>1, <2>2, MonitorSteps
\* One that takes it.
<1>5. ASSUME NEW c \in Coroutines, NEW q, pc' = [pc EXCEPT ![c] = q], UNCHANGED <<use, resumes, then, cvAwaiters>>,
             ~locked, pc[c] \in {"lock", "try_lock"}, q \in {"resume_on", "enter"}
      PROVE  [M!Next]_(M!vars)
  <2>1. WaitList' = WaitList
    BY <1>1, <1>5
  <2>2. q \in Held
    BY <1>5 DEF Held
  <2> QED BY <1>5, <2>1, <2>2, MonitorSteps
\* One that gives it up, for good or to wait for a notification.
<1>6. ASSUME NEW c \in Coroutines, NEW p, NEW f, pc' = [pc EXCEPT ![c] = "resuming"],
             then' = [then EXCEPT ![c] = p], resumes' = [resumes EXCEPT ![c] = f],
             UNCHANGED <<use, cvAwaiters>>, pc[c] \in Held, p # "await_push"
      PROVE  [M!Next]_(M!vars)
  <2>1. WaitList' = WaitList
    BY <1>2, <1>6 DEF Held
  <2> QED BY <1>6, <2>1, MonitorSteps
<1>7. ASSUME NEW c \in Coroutines, AwaitUnlock(c) PROVE [M!Next]_(M!vars)
  <2>1. /\ pc[c] = "await_unlock" /\ pc' = [pc EXCEPT ![c] = "resuming"]
        /\ then' = [then EXCEPT ![c] = "await_push"] /\ UNCHANGED cvAwaiters
    BY <1>7 DEF AwaitUnlock, Unlock, ToResume, At, Goto, cvVars
  <2>2. \A d \in Coroutines : AwaitsFrom(d)' <=> d = c
    <3>1. \A d \in Coroutines : ~AwaitsFrom(d)
      BY <2>1 DEF MutexInv, AwaitsFrom
    <3>2. \A d \in Coroutines : pc'[d] = (IF d = c THEN "resuming" ELSE pc[d])
                             /\ then'[d] = (IF d = c THEN "await_push" ELSE then[d])
      BY <1>t, <2>1
    <3> QED BY <3>1, <3>2 DEF AwaitsFrom
  <2>3. Pusher' = {c} /\ Pusher = {}
    <3>1. \A d \in Coroutines : ~AwaitsFrom(d)
      BY <2>1 DEF MutexInv, AwaitsFrom
    <3> QED BY <2>2, <3>1 DEF Pusher
  <2>4. WaitList' = Append(WaitList, c)
    BY <1>t, <2>1, <2>3, WaitListIs DEF WaitList
  <2>5. pc[c] \in Held
    BY <2>1 DEF Held
  <2> QED BY <2>1, <2>4, <2>5, MonitorSteps
\* The mutex is let go when the coroutine is in the list.
<1>8. ASSUME NEW c \in Coroutines, AwaitPush(c) PROVE [M!Next]_(M!vars)
  <2>1. /\ pc[c] = "await_push" /\ pc' = [pc EXCEPT ![c] = "waiting"]
        /\ cvAwaiters' = Append(cvAwaiters, c) /\ UNCHANGED then
    BY <1>8 DEF AwaitPush, At, Goto
  <2>2. Pusher = {c} /\ Pusher' = {}
    <3>1. AwaitsFrom(c) /\ \A d \in Coroutines : AwaitsFrom(d) => d = c
      BY <2>1, CoroutinesAssumption DEF MutexInv, AwaitsFrom
    <3>2. \A d \in Coroutines : pc'[d] = IF d = c THEN "waiting" ELSE pc[d]
      BY <1>t, <2>1
    <3>3. \A d \in Coroutines : ~AwaitsFrom(d)'
      BY <2>1, <3>1, <3>2 DEF AwaitsFrom
    <3> QED BY <3>1, <3>3 DEF Pusher
  <2>3. WaitList' = WaitList
    <3>1. Append(cvAwaiters, c) \in Seq(Coroutines)
      BY <1>t
    <3> QED BY <1>t, <2>1, <2>2, <3>1, WaitListIs DEF WaitList
  <2>4. ("waiting" \in Asks <=> pc[c] \in Asks) /\ ("waiting" \in Held <=> pc[c] \in Held)
    BY <2>1 DEF Asks, Held
  <2> QED BY <2>1, <2>3, <2>4, MonitorSteps
\* A notification, while nobody is about to join.
<1>9. ASSUME NEW c \in Coroutines, NotifyOne(c) \/ NotifyAll(c) PROVE [M!Next]_(M!vars)
  <2>1. /\ pc[c] \in {"notify_one", "notify_all"} /\ mutex = Nobody /\ pc' = [pc EXCEPT ![c] = "resuming"]
        /\ then' = [then EXCEPT ![c] = "idle"] /\ cvAwaiters' \in {Rest(cvAwaiters), <<>>}
    BY <1>9 DEF NotifyOne, NotifyAll, ToResume, At, Goto
  <2>2. WaitList = cvAwaiters /\ \A d \in Coroutines : ~AwaitsFrom(d)
    BY <2>1, PusherIs
  <2>3. Pusher' = {}
    <3>1. \A d \in Coroutines : pc'[d] = (IF d = c THEN "resuming" ELSE pc[d])
                             /\ then'[d] = (IF d = c THEN "idle" ELSE then[d])
      BY <1>t, <2>1
    <3>2. \A d \in Coroutines : ~AwaitsFrom(d)'
      BY <2>2, <3>1 DEF AwaitsFrom
    <3> QED BY <3>2 DEF Pusher
  <2>4. WaitList' = cvAwaiters'
    <3>1. \A d \in Coroutines : Rest(cvAwaiters) \o <<>> = Rest(cvAwaiters) /\ <<>> \o <<>> = <<>>
      BY <1>t DEF Rest
    <3>2. Rest(cvAwaiters) \in Seq(Coroutines) /\ <<>> \in Seq(Coroutines)
      BY <1>t DEF Rest
    <3>3. cvAwaiters' \in Seq(Coroutines)
      BY <2>1, <3>2
    <3> QED BY <2>3, <3>3, WaitListIs DEF WaitList
  <2>5. Entering' = Entering /\ Holders' = Holders
    <3>1. ("resuming" \in Asks <=> pc[c] \in Asks) /\ ("resuming" \in Held <=> pc[c] \in Held)
      BY <2>1 DEF Asks, Held
    <3>2. (c \in Entering <=> pc[c] \in Asks) /\ (c \in Holders <=> pc[c] \in Held)
      BY DEF Entering, Holders, Held
    <3>3. /\ Entering' = IF "resuming" \in Asks THEN Entering \cup {c} ELSE Entering \ {c}
          /\ Holders' = IF "resuming" \in Held THEN Holders \cup {c} ELSE Holders \ {c}
      BY <2>1, WhereTheyAre
    <3> QED BY <3>1, <3>2, <3>3
  <2>6. CASE cvAwaiters' = <<>>
    BY <2>4, <2>5, <2>6 DEF M!Next, M!NotifyAll, Entering, Asks, WaitList
  <2>7. CASE cvAwaiters' # <<>>
    <3>1. WaitList # <<>> /\ WaitList' = Tail(WaitList)
      BY <2>1, <2>2, <2>4, <2>7 DEF Rest
    <3> QED BY <2>5, <3>1 DEF M!Next, M!NotifyOne, Entering, Asks, WaitList
  <2> QED BY <2>6, <2>7
\* The lock's loop over those to resume.
<1>10. ASSUME NEW c \in Coroutines, ResumeNext(c), UNCHANGED cvVars PROVE [M!Next]_(M!vars)
  <2> DEFINE d == Head(resumes[c])
             q == IF pc[d] = "queued" THEN "lock" ELSE "cv_resume_on"
  <2>1. /\ resumes[c] # <<>> /\ pc' = [pc EXCEPT ![d] = q] /\ resumes' = [resumes EXCEPT ![c] = Tail(@)]
        /\ UNCHANGED <<awaiters, use, then, cvAwaiters>>
    BY <1>10 DEF ResumeNext, Goto, lockVars, cvVars
  <2>2. q \notin {"queued", "waiting"}
    OBVIOUS
  <2>3. d \in Coroutines /\ pc[d] \in {"queued", "waiting"}
    BY <2>1, <2>2, ListResumes
  <2>4. (q \in Asks <=> pc[d] \in Asks) /\ (q \in Held <=> pc[d] \in Held) /\ q \notin {"await_push", "resuming"}
    BY <2>3 DEF Asks, Held
  <2> HIDE DEF d, q
  <2>5. WaitList' = WaitList
    <3>1. \A e \in Coroutines : pc'[e] = IF e = d THEN q ELSE pc[e]
      BY <1>t, <2>1, <2>3
    <3>2. \A e \in Coroutines : AwaitsFrom(e)' <=> AwaitsFrom(e)
      BY <2>1, <2>3, <2>4, <3>1 DEF AwaitsFrom
    <3>3. Pusher' = Pusher
      BY <3>2 DEF Pusher
    <3> QED BY <2>1, <3>3 DEF WaitList
  <2> QED BY <2>1, <2>3, <2>4, <2>5, MonitorSteps
<1>11. ASSUME NEW c \in Coroutines, AllResumed(c), UNCHANGED cvVars PROVE [M!Next]_(M!vars)
  <2>1. /\ pc[c] = "resuming" /\ pc' = [pc EXCEPT ![c] = then[c]] /\ then' = [then EXCEPT ![c] = "idle"]
        /\ UNCHANGED <<use, resumes, cvAwaiters>>
    BY <1>11 DEF AllResumed, At, Goto, cvVars
  <2>2. WaitList' = WaitList
    <3>1. \A e \in Coroutines : pc'[e] = (IF e = c THEN then[c] ELSE pc[e])
                             /\ then'[e] = (IF e = c THEN "idle" ELSE then[e])
      BY <1>t, <2>1
    <3>2. OthersStay(c)
      BY <2>1, <3>1 DEF OthersStay
    <3>3. AwaitsFrom(c)' <=> AwaitsFrom(c)
      BY <1>t, <2>1, <3>1 DEF AwaitsFrom
    <3> QED BY <2>1, <3>2, <3>3, PusherStays
  <2>3. (then[c] \in Asks <=> pc[c] \in Asks) /\ (then[c] \in Held <=> pc[c] \in Held)
    BY <1>t, <2>1 DEF Asks, Held
  <2> QED BY <2>1, <2>2, <2>3, MonitorSteps
<1>12. ASSUME NEW c \in Coroutines, LockStep(c), UNCHANGED cvVars PROVE [M!Next]_(M!vars)
  <2>1. CASE Lock(c) \/ TryLock(c)
    BY <1>12, <1>t, <1>3, <1>5, <2>1 DEF Lock, TryLock, At, Goto, lockVars, cvVars
  <2>2. CASE ResumeOn(c) \/ RunPosted(c) \/ BreakPosted(c) \/ Enter(c)
    BY <1>12, <1>t, <1>3, <2>2 DEF ResumeOn, HandOver, RunPosted, BreakPosted, Enter, At, Goto, Held, lockVars, cvVars
  <2>3. CASE GiveUp(c)
    BY <1>12, <1>6, <2>3 DEF GiveUp, ToResume, At, Goto, Held, cvVars
  <2> QED BY <1>10, <1>11, <1>12, <2>1, <2>2, <2>3 DEF LockStep
<1>13. ASSUME NEW c \in Coroutines, CvStep(c) PROVE [M!Next]_(M!vars)
  <2>1. CASE AwaitLock(c)
    BY <1>3, <2>1 DEF AwaitLock, MutexIs, At, Goto, Held
  <2>2. CASE CvResumeOn(c) \/ CvRunPosted(c)
    BY <1>3, <1>4, <2>2 DEF CvResumeOn, HandOver, CvRunPosted, At, Goto, cvVars
  <2> QED BY <1>7, <1>8, <1>9, <1>13, <2>1, <2>2 DEF CvStep
<1>14. ASSUME NEW c \in Coroutines, Body(c) \/ Begin(c) PROVE [M!Next]_(M!vars)
  <2>1. CASE Hold(c) \/ Produce(c) \/ Consume(c)
    <3>1. PICK p : /\ pc[c] \in {"inside", "awaited"} /\ pc' = [pc EXCEPT ![c] = "resuming"]
                   /\ p # "await_push" /\ then' = [then EXCEPT ![c] = p]
                   /\ resumes' = [resumes EXCEPT ![c] = First(awaiters)] /\ UNCHANGED <<use, cvAwaiters>>
      BY <2>1 DEF Hold, Produce, Consume, Unlock, ToResume, At, Goto, cvVars
    <3>2. pc[c] \in Held
      BY <3>1 DEF Held
    <3> QED BY <1>6, <3>1, <3>2
  <2>2. CASE TestPredicate(c) \/ End(c)
    BY <1>3, <2>2 DEF TestPredicate, End, At, Goto, Held, cvVars
  <2>3. CASE Begin(c)
    <3>1. /\ pc[c] = "idle" /\ (pc' = [pc EXCEPT ![c] = "lock"] \/ pc' = [pc EXCEPT ![c] = "try_lock"])
          /\ UNCHANGED <<resumes, then, cvAwaiters>>
          /\ \A d \in Coroutines : d # c => use'[d] = use[d]
      BY <1>t, <2>3 DEF Begin, At, Goto
    <3> QED BY <1>3, <1>4, <3>1
  <2> QED BY <1>14, <2>1, <2>2, <2>3 DEF Body
<1>15. CASE Close \/ UNCHANGED vars
  <2>1. UNCHANGED <<pc, then, cvAwaiters>>
    BY <1>15 DEF Close, vars, lvars, cvVars
  <2> QED BY <2>1 DEF M!vars, Holders, Pusher, AwaitsFrom
<1> QED BY <1>12, <1>13, <1>14, <1>15 DEF Next, Step, Over

\* Awaiting the condition leaves and begins to wait in one step, for whoever notifies,
\* though await_suspend takes several.
THEOREM LockIsAMonitor == Spec => ImplementsMonitor
<1>1. Init => M!Init
  <2> SUFFICES ASSUME Init PROVE M!Init
    OBVIOUS
  <2>1. /\ {c \in Coroutines : pc[c] \in {"lock", "queued"}} = {} /\ Holders = {} /\ Pusher = {}
    BY DEF Init, Holders, Pusher, AwaitsFrom
  <2>2. cvAwaiters \o SetToSeq(Pusher) = <<>>
    <3>1. cvAwaiters = <<>>
      BY DEF Init
    <3>2. <<>> \o <<>> = <<>>
      OBVIOUS
    <3> QED BY <2>1, <3>1, <3>2, ToSeq
  <2> QED BY <2>1, <2>2 DEF M!Init
<1>2. IInv /\ [Next]_vars => [M!Next]_(M!vars)
  BY NextMonitor
<1> QED BY <1>1, <1>2, Invariance, PTL DEF Spec, ImplementsMonitor, M!Spec

=============================================================================
