---------------------------- MODULE KernelProofs ----------------------------
(***************************************************************************)
(* Proofs about two parts of src/kernel that share nothing but this        *)
(* module: the names of threads and the log, for any number of threads and *)
(* of calls, and the container ftl::soa, for any number of types of any    *)
(* sizes, any number of elements and any width of uint64_t.                *)
(***************************************************************************)
EXTENDS Logging, Soa, WellFoundedInduction, TLAPS

-----------------------------------------------------------------------------
(* The names of threads and the log.                                       *)

\* A thread between its registration and its unregistration is in m_Names.
NameInv ==
    ~broken =>
        /\ \A t \in Threads : pc[t] \in {"on", "unregistering"} \cup
               {"find", "open", "lock", "insert", "seek", "write"} => t \in names
        /\ \A t \in InCall \ Readers : name[t] = t

\* What has returned is older than what is going on, and what was there when a
\* call began has returned.
DoneInv ==
    /\ \A t \in Threads : \A k \in 1 .. MaxCalls : <<t, k>> \in done =>
           k <= calls[t] /\ (t \in InCall => k < calls[t])
    /\ \A t \in Threads : earlier[t] \subseteq done
    /\ \A t \in InCall : calls[t] \in 1 .. MaxCalls

\* Two calls that are going on at the same time know of each other.
SharedInv ==
    \A t, u \in InCall : t # u => Line(t) \in shared /\ Line(u) \in shared

\* What came into the file after a call went to its end is from calls that the
\* call overlaps.
PosInv ==
    \A t \in Threads : pc[t] = "write" =>
        /\ pos[t] \in 1 .. Len(file) + 1
        /\ \A i \in pos[t] .. Len(file) : file[i] \in shared /\ file[i] \notin earlier[t]

IInv == TypeOK /\ NameInv /\ DoneInv /\ SharedInv /\ PosInv /\ KeptUnlessShared

-----------------------------------------------------------------------------
\* Nothing is registered, written or going on.
LEMMA InitInv == Init => IInv
<1> SUFFICES ASSUME Init PROVE IInv
  OBVIOUS
<1> USE DEF Init
<1>1. TypeOK
  <2>1. file \in Seq(Lines)
    OBVIOUS
  <2>2. broken \in BOOLEAN /\ lock = None
    OBVIOUS
  <2>3. earlier \in [Threads -> SUBSET Lines] /\ calls \in [Threads -> 0 .. MaxCalls]
    BY MaxCallsAssumption
  <2> QED BY <2>1, <2>2, <2>3 DEF TypeOK, Points
<1>2. InCall = {}
  BY DEF InCall
<1>3. NameInv /\ DoneInv /\ SharedInv /\ PosInv /\ KeptUnlessShared
  BY <1>2 DEF NameInv, DoneInv, SharedInv, PosInv, KeptUnlessShared
<1> QED BY <1>1, <1>3 DEF IInv

-----------------------------------------------------------------------------
\* A line can be put at the end of the file, or over one of its lines.
LEMMA FileType ==
    ASSUME NEW f \in Seq(Lines), NEW l \in Lines, NEW i \in 1 .. Len(f)
    PROVE  [f EXCEPT ![i] = l] \in Seq(Lines)
  OBVIOUS

LEMMA TypeInv == IInv /\ [Next]_vars => TypeOK'
<1> SUFFICES ASSUME TypeOK, DoneInv, PosInv, [Next]_vars PROVE TypeOK'
  BY DEF IInv
<1> USE MaxCallsAssumption, NoneAssumption DEF TypeOK
<1>1. CASE UNCHANGED vars
  BY <1>1 DEF vars, table, output, history
<1>2. ASSUME NEW t \in Threads,
             RegisterThread(t) \/ Registered(t) \/ UnregisterThread(t) \/ Unregistered(t)
      PROVE  TypeOK'
  <2>1. CASE RegisterThread(t)
    BY <2>1 DEF RegisterThread, Step, Points, output, history
  <2>2. CASE Registered(t)
    BY <2>2 DEF Registered, Step, Points, output, history
  <2>3. CASE UnregisterThread(t)
    BY <2>3 DEF UnregisterThread, Step, Points, output, history
  <2>4. CASE Unregistered(t)
    BY <2>4 DEF Unregistered, Step, Points, output, history
  <2> QED BY <1>2, <2>1, <2>2, <2>3, <2>4
<1>3. ASSUME NEW t \in Threads, t \in InCall PROVE Line(t) \in Lines
  BY <1>3 DEF DoneInv, Line, Lines
<1>4. ASSUME NEW t \in Threads, Log(t)
      PROVE  TypeOK'
  <2>1. <<t, calls[t] + 1>> \in Lines
    BY <1>4 DEF Log, Began, Lines
  <2>2. {Line(u) : u \in InCall} \subseteq Lines
    BY <1>3 DEF InCall
  <2>3. shared' \subseteq Lines
    BY <1>4, <2>1, <2>2 DEF Log, Began
  <2>4. calls' \in [Threads -> 0 .. MaxCalls] /\ earlier' \in [Threads -> SUBSET Lines]
    BY <1>4 DEF Log, Began
  <2>5. pc' \in [Threads -> Points] /\ (lock # None => pc'[lock] = "insert")
    BY <1>4 DEF Log, Step, Points
  <2>6. broken' \in BOOLEAN
    BY <1>4 DEF Log
  <2> QED BY <1>4, <2>3, <2>4, <2>5, <2>6 DEF Log, Began, output
<1>5. ASSUME NEW t \in Threads, GetName(t) \/ Open(t) \/ Lock(t) \/ Insert(t) \/ SeekEnd(t)
      PROVE  TypeOK'
  <2> USE DEF Step, Points
  <2>1. CASE GetName(t)
    BY <2>1 DEF GetName, table, output, history
  <2>2. CASE Open(t)
    BY <2>2 DEF Open, table, output, history
  <2>3. CASE Lock(t)
    BY <2>3 DEF Lock, table, history
  <2>4. CASE Insert(t)
    BY <2>4 DEF Insert, table, history
  <2>5. CASE SeekEnd(t)
    BY <2>5 DEF SeekEnd, table, history
  <2> QED BY <1>5, <2>1, <2>2, <2>3, <2>4, <2>5
<1>6. ASSUME NEW t \in Threads, NotOpen(t)
      PROVE  TypeOK'
  BY <1>3, <1>6 DEF NotOpen, Returned, Step, Points, table, output, InCall
<1>7. ASSUME NEW t \in Threads, Write(t)
      PROVE  TypeOK'
  <2>1. t \in InCall
    BY <1>7 DEF Write, Step, InCall
  <2>2. pos[t] \in 1 .. Len(file) + 1
    BY <1>7 DEF Write, Step, PosInv
  <2>3. CASE pos[t] <= Len(file)
    <3>1. pos[t] \in 1 .. Len(file)
      BY <2>2, <2>3
    <3>2. file' = [file EXCEPT ![pos[t]] = Line(t)]
      BY <1>7, <2>3 DEF Write
    <3>3. file' \in Seq(Lines)
      BY <1>3, <2>1, <3>1, <3>2, FileType
    <3> QED BY <1>3, <1>7, <2>1, <3>3 DEF Write, Returned, Step, Points, table
  <2>4. CASE ~(pos[t] <= Len(file))
    <3>1. file' = Append(file, Line(t))
      BY <1>7, <2>4 DEF Write
    <3>2. file' \in Seq(Lines)
      BY <1>3, <2>1, <3>1
    <3> QED BY <1>3, <1>7, <2>1, <3>2 DEF Write, Returned, Step, Points, table
  <2> QED BY <2>3, <2>4
<1> QED BY <1>1, <1>2, <1>4, <1>5, <1>6, <1>7 DEF Next, LogStep

\* Nobody but the thread itself takes its name away, and nobody else answers
\* for it while there was no race.
LEMMA NameNext == IInv /\ TypeOK' /\ [Next]_vars => NameInv'
<1> SUFFICES ASSUME TypeOK, NameInv, TypeOK', [Next]_vars PROVE NameInv'
  BY DEF IInv
<1> USE DEF TypeOK, NameInv, InCall, Readers, Writers
<1>1. CASE UNCHANGED vars
  BY <1>1 DEF vars, table, output, history, Lines
<1>2. ASSUME NEW t \in Threads, RegisterThread(t) PROVE NameInv'
  BY <1>2 DEF RegisterThread, Step, table, output, history
<1>3. ASSUME NEW t \in Threads, Registered(t) PROVE NameInv'
  BY <1>3 DEF Registered, Step, table, output, history
<1>4. ASSUME NEW t \in Threads, UnregisterThread(t) PROVE NameInv'
  BY <1>4 DEF UnregisterThread, Step, table, output, history
<1>5. ASSUME NEW t \in Threads, Unregistered(t) PROVE NameInv'
  BY <1>5 DEF Unregistered, Step, table, output, history
<1>6. ASSUME NEW t \in Threads, Log(t) PROVE NameInv'
  BY <1>6 DEF Log, Began, Step, table, output, history
<1>7. ASSUME NEW t \in Threads, GetName(t) PROVE NameInv'
  BY <1>7 DEF GetName, Step, table, output, history
<1>8. ASSUME NEW t \in Threads, Open(t) PROVE NameInv'
  BY <1>8 DEF Open, Step, table, output, history
<1>9. ASSUME NEW t \in Threads, NotOpen(t) PROVE NameInv'
  BY <1>9 DEF NotOpen, Returned, Step, table, output, history
<1>10. ASSUME NEW t \in Threads, Lock(t) PROVE NameInv'
  BY <1>10 DEF Lock, Step, table, output, history
<1>11. ASSUME NEW t \in Threads, Insert(t) PROVE NameInv'
  BY <1>11 DEF Insert, Step, table, output, history
<1>12. ASSUME NEW t \in Threads, SeekEnd(t) PROVE NameInv'
  BY <1>12 DEF SeekEnd, Step, table, output, history
<1>13. ASSUME NEW t \in Threads, Write(t) PROVE NameInv'
  BY <1>13 DEF Write, Returned, Step, table, output, history
<1> QED BY <1>1, <1>2, <1>3, <1>4, <1>5, <1>6, <1>7, <1>8, <1>9, <1>10, <1>11, <1>12, <1>13 DEF Next, LogStep

\* A call is counted when it begins and done when it returns.
LEMMA DoneNext == IInv /\ TypeOK' /\ [Next]_vars => DoneInv'
<1> SUFFICES ASSUME TypeOK, DoneInv, TypeOK', [Next]_vars PROVE DoneInv'
  BY DEF IInv
<1> USE DEF TypeOK, DoneInv, InCall, Line, Lines
<1>1. CASE UNCHANGED vars
  BY <1>1 DEF vars, table, output, history, Lines
<1>2. ASSUME NEW t \in Threads, RegisterThread(t) PROVE DoneInv'
  BY <1>2 DEF RegisterThread, Step, table, output, history
<1>3. ASSUME NEW t \in Threads, Registered(t) PROVE DoneInv'
  BY <1>3 DEF Registered, Step, table, output, history
<1>4. ASSUME NEW t \in Threads, UnregisterThread(t) PROVE DoneInv'
  BY <1>4 DEF UnregisterThread, Step, table, output, history
<1>5. ASSUME NEW t \in Threads, Unregistered(t) PROVE DoneInv'
  BY <1>5 DEF Unregistered, Step, table, output, history
<1>6. ASSUME NEW t \in Threads, Log(t) PROVE DoneInv'
  BY <1>6 DEF Log, Began, Step, table, output, history
<1>7. ASSUME NEW t \in Threads, GetName(t) PROVE DoneInv'
  BY <1>7 DEF GetName, Step, table, output, history
<1>8. ASSUME NEW t \in Threads, Open(t) PROVE DoneInv'
  BY <1>8 DEF Open, Step, table, output, history
<1>9. ASSUME NEW t \in Threads, NotOpen(t) PROVE DoneInv'
  BY <1>9 DEF NotOpen, Returned, Step, table, output, history
<1>10. ASSUME NEW t \in Threads, Lock(t) PROVE DoneInv'
  BY <1>10 DEF Lock, Step, table, output, history
<1>11. ASSUME NEW t \in Threads, Insert(t) PROVE DoneInv'
  BY <1>11 DEF Insert, Step, table, output, history
<1>12. ASSUME NEW t \in Threads, SeekEnd(t) PROVE DoneInv'
  BY <1>12 DEF SeekEnd, Step, table, output, history
<1>13. ASSUME NEW t \in Threads, Write(t) PROVE DoneInv'
  BY <1>13 DEF Write, Returned, Step, table, output, history
<1> QED BY <1>1, <1>2, <1>3, <1>4, <1>5, <1>6, <1>7, <1>8, <1>9, <1>10, <1>11, <1>12, <1>13 DEF Next, LogStep

\* A call that begins meets every call that is going on.
LEMMA SharedNext == IInv /\ TypeOK' /\ [Next]_vars => SharedInv'
<1> SUFFICES ASSUME TypeOK, SharedInv, TypeOK', [Next]_vars PROVE SharedInv'
  BY DEF IInv
<1> USE DEF TypeOK, SharedInv, InCall, Line
<1>1. CASE UNCHANGED vars
  BY <1>1 DEF vars, table, output, history, Lines
<1>2. ASSUME NEW t \in Threads, RegisterThread(t) PROVE SharedInv'
  BY <1>2 DEF RegisterThread, Step, table, output, history
<1>3. ASSUME NEW t \in Threads, Registered(t) PROVE SharedInv'
  BY <1>3 DEF Registered, Step, table, output, history
<1>4. ASSUME NEW t \in Threads, UnregisterThread(t) PROVE SharedInv'
  BY <1>4 DEF UnregisterThread, Step, table, output, history
<1>5. ASSUME NEW t \in Threads, Unregistered(t) PROVE SharedInv'
  BY <1>5 DEF Unregistered, Step, table, output, history
<1>6. ASSUME NEW t \in Threads, Log(t) PROVE SharedInv'
  BY <1>6 DEF Log, Began, Step, table, output, history
<1>7. ASSUME NEW t \in Threads, GetName(t) PROVE SharedInv'
  BY <1>7 DEF GetName, Step, table, output, history
<1>8. ASSUME NEW t \in Threads, Open(t) PROVE SharedInv'
  BY <1>8 DEF Open, Step, table, output, history
<1>9. ASSUME NEW t \in Threads, NotOpen(t) PROVE SharedInv'
  BY <1>9 DEF NotOpen, Returned, Step, table, output, history
<1>10. ASSUME NEW t \in Threads, Lock(t) PROVE SharedInv'
  BY <1>10 DEF Lock, Step, table, output, history
<1>11. ASSUME NEW t \in Threads, Insert(t) PROVE SharedInv'
  BY <1>11 DEF Insert, Step, table, output, history
<1>12. ASSUME NEW t \in Threads, SeekEnd(t) PROVE SharedInv'
  BY <1>12 DEF SeekEnd, Step, table, output, history
<1>13. ASSUME NEW t \in Threads, Write(t) PROVE SharedInv'
  BY <1>13 DEF Write, Returned, Step, table, output, history
<1> QED BY <1>1, <1>2, <1>3, <1>4, <1>5, <1>6, <1>7, <1>8, <1>9, <1>10, <1>11, <1>12, <1>13 DEF Next, LogStep

\* What another call writes after this one went to the end is a line of a call
\* that this one overlaps, so it had not returned when this one began.
LEMMA PosNext == IInv /\ TypeOK' /\ [Next]_vars => PosInv'
<1> SUFFICES ASSUME TypeOK, DoneInv, SharedInv, PosInv, TypeOK', [Next]_vars PROVE PosInv'
  BY DEF IInv
<1> USE DEF TypeOK, PosInv
<1>1. CASE UNCHANGED vars
  BY <1>1 DEF vars, table, output, history
<1>2. ASSUME NEW t \in Threads, RegisterThread(t) PROVE PosInv'
  BY <1>2 DEF RegisterThread, Step, table, output, history
<1>3. ASSUME NEW t \in Threads, Registered(t) PROVE PosInv'
  BY <1>3 DEF Registered, Step, table, output, history
<1>4. ASSUME NEW t \in Threads, UnregisterThread(t) PROVE PosInv'
  BY <1>4 DEF UnregisterThread, Step, table, output, history
<1>5. ASSUME NEW t \in Threads, Unregistered(t) PROVE PosInv'
  BY <1>5 DEF Unregistered, Step, table, output, history
<1>6. ASSUME NEW t \in Threads, Log(t) PROVE PosInv'
  BY <1>6 DEF Log, Began, Step, table, output, history
<1>7. ASSUME NEW t \in Threads, GetName(t) PROVE PosInv'
  BY <1>7 DEF GetName, Step, table, output, history
<1>8. ASSUME NEW t \in Threads, Open(t) PROVE PosInv'
  BY <1>8 DEF Open, Step, table, output, history
<1>9. ASSUME NEW t \in Threads, NotOpen(t) PROVE PosInv'
  BY <1>9 DEF NotOpen, Returned, Step, table, output, history
<1>10. ASSUME NEW t \in Threads, Lock(t) PROVE PosInv'
  BY <1>10 DEF Lock, Step, table, output, history
<1>11. ASSUME NEW t \in Threads, Insert(t) PROVE PosInv'
  BY <1>11 DEF Insert, Step, table, output, history
<1>12. ASSUME NEW t \in Threads, SeekEnd(t) PROVE PosInv'
  BY <1>12 DEF SeekEnd, Step, table, output, history
<1>13. ASSUME NEW t \in Threads, Write(t) PROVE PosInv'
  <2>1. t \in InCall /\ pos[t] \in 1 .. Len(file) + 1
    BY <1>13 DEF Write, Step, InCall
  <2>2. UNCHANGED <<pos, shared, earlier>> /\ pc'[t] = "on"
    BY <1>13 DEF Write, Returned, Step
  <2> SUFFICES ASSUME NEW u \in Threads, pc'[u] = "write"
               PROVE  /\ pos[u] \in 1 .. Len(file') + 1
                      /\ \A i \in pos[u] .. Len(file') : file'[i] \in shared /\ file'[i] \notin earlier[u]
    BY <2>2
  <2>3. u # t /\ pc[u] = "write" /\ u \in InCall
    BY <1>13, <2>2 DEF Write, Step, InCall
  <2>4. Line(t) \in shared
    BY <2>1, <2>3 DEF SharedInv
  <2>5. Line(t) \notin earlier[u]
    <3>1. calls[t] \in 1 .. MaxCalls /\ ~(calls[t] < calls[t])
      BY <2>1 DEF DoneInv
    <3>2. <<t, calls[t]>> \notin done
      BY <2>1, <3>1 DEF DoneInv
    <3> QED BY <3>2 DEF DoneInv, Line
  <2>6. CASE pos[t] <= Len(file)
    <3>1. file' = [file EXCEPT ![pos[t]] = Line(t)]
      BY <1>13, <2>6 DEF Write
    <3> QED BY <2>1, <2>3, <2>4, <2>5, <3>1
  <2>7. CASE ~(pos[t] <= Len(file))
    <3>1. file' = Append(file, Line(t))
      BY <1>13, <2>7 DEF Write
    <3>2. Len(file') = Len(file) + 1 /\ \A i \in 1 .. Len(file') :
              file'[i] = IF i <= Len(file) THEN file[i] ELSE Line(t)
      BY <3>1, <2>1
    <3>3. ASSUME NEW i \in pos[u] .. Len(file')
          PROVE  file'[i] \in shared /\ file'[i] \notin earlier[u]
      <4>1. i \in 1 .. Len(file') /\ pos[u] \in 1 .. Len(file) + 1
        BY <2>3, <3>2
      <4>2. CASE i <= Len(file)
        <5>1. file[i] \in shared /\ file[i] \notin earlier[u]
          BY <2>3, <4>1, <4>2
        <5> QED BY <3>2, <4>1, <4>2, <5>1
      <4>3. CASE ~(i <= Len(file))
        BY <2>4, <2>5, <3>2, <4>1, <4>3
      <4> QED BY <4>2, <4>3
    <3>4. pos[u] \in 1 .. Len(file') + 1
      BY <2>3, <3>2
    <3> QED BY <3>3, <3>4
  <2> QED BY <2>6, <2>7
<1> QED BY <1>1, <1>2, <1>3, <1>4, <1>5, <1>6, <1>7, <1>8, <1>9, <1>10, <1>11, <1>12, <1>13 DEF Next, LogStep

\* The only line that is written over is one that was shared.
LEMMA KeptNext == IInv /\ TypeOK' /\ [Next]_vars => KeptUnlessShared'
<1> SUFFICES ASSUME TypeOK, PosInv, KeptUnlessShared, TypeOK', [Next]_vars PROVE KeptUnlessShared'
  BY DEF IInv
<1> USE DEF TypeOK, KeptUnlessShared, Contains
<1>1. CASE UNCHANGED vars
  BY <1>1 DEF vars, table, output, history
<1>2. ASSUME NEW t \in Threads, RegisterThread(t) PROVE KeptUnlessShared'
  BY <1>2 DEF RegisterThread, Step, table, output, history
<1>3. ASSUME NEW t \in Threads, Registered(t) PROVE KeptUnlessShared'
  BY <1>3 DEF Registered, Step, table, output, history
<1>4. ASSUME NEW t \in Threads, UnregisterThread(t) PROVE KeptUnlessShared'
  BY <1>4 DEF UnregisterThread, Step, table, output, history
<1>5. ASSUME NEW t \in Threads, Unregistered(t) PROVE KeptUnlessShared'
  BY <1>5 DEF Unregistered, Step, table, output, history
<1>6. ASSUME NEW t \in Threads, Log(t) PROVE KeptUnlessShared'
  BY <1>6 DEF Log, Began, Step, table, output, history
<1>7. ASSUME NEW t \in Threads, GetName(t) PROVE KeptUnlessShared'
  BY <1>7 DEF GetName, Step, table, output, history
<1>8. ASSUME NEW t \in Threads, Open(t) PROVE KeptUnlessShared'
  BY <1>8 DEF Open, Step, table, output, history
<1>9. ASSUME NEW t \in Threads, NotOpen(t) PROVE KeptUnlessShared'
  BY <1>9 DEF NotOpen, Returned, Step, table, output, history
<1>10. ASSUME NEW t \in Threads, Lock(t) PROVE KeptUnlessShared'
  BY <1>10 DEF Lock, Step, table, output, history
<1>11. ASSUME NEW t \in Threads, Insert(t) PROVE KeptUnlessShared'
  BY <1>11 DEF Insert, Step, table, output, history
<1>12. ASSUME NEW t \in Threads, SeekEnd(t) PROVE KeptUnlessShared'
  BY <1>12 DEF SeekEnd, Step, table, output, history
<1>13. ASSUME NEW t \in Threads, Write(t) PROVE KeptUnlessShared'
  <2>1. pos[t] \in 1 .. Len(file) + 1 /\ UNCHANGED <<dropped, shared>> /\ done' = done \cup {Line(t)}
    BY <1>13 DEF Write, Returned, Step, PosInv
  <2>2. CASE pos[t] <= Len(file)
    <3>1. file' = [file EXCEPT ![pos[t]] = Line(t)] /\ file[pos[t]] \in shared
      BY <1>13, <2>1, <2>2 DEF Write, Step, PosInv
    <3>2. Len(file') = Len(file) /\ \A i \in 1 .. Len(file) :
              file'[i] = IF i = pos[t] THEN Line(t) ELSE file[i]
      BY <3>1
    <3> SUFFICES ASSUME NEW l \in done', l \notin dropped, l \notin shared
                 PROVE  \E i \in 1 .. Len(file') : file'[i] = l
      BY <2>1
    <3>3. CASE l = Line(t)
      <4>1. pos[t] \in 1 .. Len(file') /\ file'[pos[t]] = l
        BY <2>1, <2>2, <3>2, <3>3
      <4> QED BY <4>1
    <3>4. CASE l # Line(t)
      <4>1. PICK i \in 1 .. Len(file) : file[i] = l
        BY <2>1, <3>4
      <4>2. i # pos[t]
        BY <3>1, <4>1
      <4> QED BY <3>2, <4>1, <4>2
    <3> QED BY <3>3, <3>4
  <2>3. CASE ~(pos[t] <= Len(file))
    <3>1. file' = Append(file, Line(t))
      BY <1>13, <2>3 DEF Write
    <3>2. Len(file') = Len(file) + 1 /\ \A i \in 1 .. Len(file') :
              file'[i] = IF i <= Len(file) THEN file[i] ELSE Line(t)
      BY <3>1
    <3> SUFFICES ASSUME NEW l \in done', l \notin dropped, l \notin shared
                 PROVE  \E i \in 1 .. Len(file') : file'[i] = l
      BY <2>1
    <3>3. CASE l = Line(t)
      <4>1. Len(file) \in Nat
        OBVIOUS
      <4> HIDE DEF TypeOK
      <4>2. Len(file) + 1 \in 1 .. Len(file')
        BY <3>2, <4>1
      <4>3. file'[Len(file) + 1] = l
        BY <3>2, <3>3, <4>1, <4>2
      <4> QED BY <4>2, <4>3
    <3>4. CASE l # Line(t)
      <4>1. PICK i \in 1 .. Len(file) : file[i] = l
        BY <2>1, <3>4
      <4>2. i \in 1 .. Len(file') /\ i <= Len(file)
        BY <3>2, <4>1
      <4>3. file'[i] = l
        BY <3>2, <4>1, <4>2
      <4> QED BY <4>2, <4>3
    <3> QED BY <3>3, <3>4
  <2> QED BY <2>2, <2>3
<1> QED BY <1>1, <1>2, <1>3, <1>4, <1>5, <1>6, <1>7, <1>8, <1>9, <1>10, <1>11, <1>12, <1>13 DEF Next, LogStep

-----------------------------------------------------------------------------
\* The invariant holds in every reachable state.
THEOREM Invariant == Spec => []IInv
<1>1. IInv /\ [Next]_vars => IInv'
  BY TypeInv, NameNext, DoneNext, SharedNext, PosNext, KeptNext DEF IInv
<1> QED BY InitInv, <1>1, PTL DEF Spec

\* The types, and the lock is held only over the insertion into the stream.
THEOREM TypeCorrect == Spec => []TypeOK
<1>1. IInv => TypeOK
  BY DEF IInv
<1> QED BY Invariant, <1>1, PTL

\* Without a race on the map every line carries the name of its thread, which
\* is in the map until the line is done with it.
THEOREM LinesCarryOwnName == Spec => []OwnName
<1>1. IInv => OwnName
  BY DEF IInv, NameInv, OwnName, InCall, TypeOK
<1> QED BY Invariant, <1>1, PTL

\* A call that meets no other and opens its stream puts its line in the file
\* for good.
THEOREM LoneLinesAreKept == Spec => []KeptUnlessShared
<1>1. IInv => KeptUnlessShared
  BY DEF IInv
<1> QED BY Invariant, <1>1, PTL

\* A call never writes over the line of a call that returned before it began.
THEOREM ReturnedLinesStay == Spec => ReturnedStay
<1> DEFINE A == \A i \in 1 .. Len(file) :
       i <= Len(file') /\ (file'[i] # file[i] =>
           \E t \in InCall : file'[i] = Line(t) /\ file[i] \notin earlier[t])
<1>1. IInv /\ [Next]_vars => [A]_vars
  <2> SUFFICES ASSUME IInv, Next PROVE A
    OBVIOUS
  <2> USE DEF IInv, TypeOK
  <2>1. CASE UNCHANGED file
    BY <2>1
  <2>2. ASSUME NEW t \in Threads, Write(t) PROVE A
    <3>1. t \in InCall /\ pos[t] \in 1 .. Len(file) + 1
      BY <2>2 DEF Write, Step, InCall, PosInv
    <3>2. CASE pos[t] <= Len(file)
      <4>1. file' = [file EXCEPT ![pos[t]] = Line(t)] /\ file[pos[t]] \notin earlier[t]
        BY <2>2, <3>1, <3>2 DEF Write, Step, PosInv
      <4> QED BY <3>1, <3>2, <4>1
    <3>3. CASE ~(pos[t] <= Len(file))
      <4>1. file' = Append(file, Line(t))
        BY <2>2, <3>3 DEF Write
      <4> QED BY <4>1
    <3> QED BY <3>2, <3>3
  <2> QED BY <2>1, <2>2 DEF Next, LogStep, RegisterThread, Registered, UnregisterThread, Unregistered,
             Log, GetName, Open, NotOpen, Lock, Insert, SeekEnd, output
<1> QED BY Invariant, <1>1, PTL DEF Spec, ReturnedStay

-----------------------------------------------------------------------------
(* ftl::soa.                                                               *)

\* The block of a container that is not empty is there, and as long as
\* calculate_allocated_bytes said.
BlockInv ==
    /\ sizeOf \in [Types -> Nat \ {0}] /\ num \in Nat
    /\ Allocated \subseteq Blocks /\ data \in Allocated \cup {Null}
    /\ num > 0 => data \in Allocated /\ bytes[data] = AllocatedBytes(num)

SoaInv == BlockInv /\ NoLeak

\* A set of natural numbers that is not empty has a least element.
LEMMA NatLeast ==
    ASSUME NEW T \in SUBSET Nat, T # {}
    PROVE  \E x \in T : \A y \in T : x <= y
<1> DEFINE R == OpToRel(<, Nat)
<1>1. IsWellFoundedOn(R, Nat)
  BY NatLessThanWellFounded
<1>2. PICK x \in T : \A y \in T : <<y, x>> \notin R
  <2> HIDE DEF R
  <2> QED BY <1>1, WFMin
<1>3. \A y \in T : ~(y < x)
  BY <1>2 DEF OpToRel
<1> QED BY <1>3

\* Induction up to N, with a set in the place of the formula.
LEMMA UpTo ==
    ASSUME NEW N \in Nat, NEW G, 0 \in G,
           \A i \in 1 .. N : i - 1 \in G => i \in G
    PROVE  \A i \in 0 .. N : i \in G
<1> SUFFICES ASSUME NEW b \in 0 .. N, b \notin G PROVE FALSE
  OBVIOUS
<1> DEFINE B == {i \in 0 .. N : i \notin G}
<1>1. B \in SUBSET Nat /\ b \in B
  OBVIOUS
<1>2. PICK x \in B : \A y \in B : x <= y
  <2> HIDE DEF B
  <2> QED BY <1>1, NatLeast
<1>3. x \in 1 .. N /\ x - 1 \notin B
  BY <1>2
<1> QED BY <1>2, <1>3

\* A step from one number to another can be repeated, beginning with zero.
LEMMA Iterate ==
    ASSUME NEW N \in Nat, NEW step \in [1 .. N -> [Nat -> Nat]]
    PROVE  \E g \in [0 .. N -> Nat] : g[0] = 0 /\ \A i \in 1 .. N : g[i] = step[i][g[i - 1]]
<1> DEFINE Fs(m) == {g \in [0 .. m -> Nat] : g[0] = 0 /\ \A i \in 1 .. m : g[i] = step[i][g[i - 1]]}
           G == {m \in 0 .. N : Fs(m) # {}}
<1>1. 0 \in G
  <2>1. [i \in 0 .. 0 |-> 0] \in Fs(0)
    OBVIOUS
  <2> QED BY <2>1
<1>2. ASSUME NEW i \in 1 .. N, i - 1 \in G PROVE i \in G
  <2>1. i \in Nat /\ i # 0 /\ i \in 0 .. N /\ i - 1 \in 0 .. i - 1 /\ 0 \in 0 .. i - 1
    OBVIOUS
  <2>2. PICK g \in [0 .. i - 1 -> Nat] :
            g[0] = 0 /\ \A j \in 1 .. i - 1 : g[j] = step[j][g[j - 1]]
    BY <1>2
  <2>3. step[i][g[i - 1]] \in Nat
    <3>1. g[i - 1] \in Nat /\ step[i] \in [Nat -> Nat]
      BY <2>1
    <3> QED BY <3>1
  <2> DEFINE h == [j \in 0 .. i |-> IF j = i THEN step[i][g[i - 1]] ELSE g[j]]
  <2>4. ASSUME NEW j \in 0 .. i - 1 PROVE h[j] = g[j] /\ g[j] \in Nat
    <3>1. j \in 0 .. i /\ j # i
      BY <2>1
    <3> QED BY <3>1
  <2>5. h[i] = step[i][g[i - 1]]
    BY <2>1
  <2>6. \A j \in 0 .. i : j = i \/ j \in 0 .. i - 1
    BY <2>1
  <2>7. h \in [0 .. i -> Nat]
    BY <2>3, <2>4, <2>6
  <2> HIDE DEF h
  <2>8. h[0] = 0
    BY <2>1, <2>2, <2>4
  <2>9. ASSUME NEW j \in 1 .. i PROVE h[j] = step[j][h[j - 1]]
    <3>1. j - 1 \in 0 .. i - 1
      BY <2>1
    <3>2. CASE j = i
      BY <3>1, <3>2, <2>4, <2>5
    <3>3. CASE j # i
      <4>1. j \in 1 .. i - 1 /\ j \in 0 .. i - 1
        BY <3>3, <2>1
      <4> QED BY <4>1, <3>1, <2>2, <2>4
    <3> QED BY <3>2, <3>3
  <2>10. h \in Fs(i)
    BY <2>7, <2>8, <2>9
  <2> QED BY <2>1, <2>10
<1>3. N \in G
  <2>1. \A i \in 1 .. N : i - 1 \in G => i \in G
    BY <1>2
  <2> HIDE DEF G
  <2>2. \A i \in 0 .. N : i \in G
    BY <1>1, <2>1, UpTo
  <2> QED BY <2>2
<1> QED BY <1>3

-----------------------------------------------------------------------------
\* What fits is not changed.
LEMMA WrapFits == ASSUME NEW x \in Nat, x < Modulus PROVE Wrap(x) = x
  BY ModulusAssumption DEF Wrap

LEMMA WrapType == ASSUME NEW x \in Nat PROVE Wrap(x) \in Nat
  BY ModulusAssumption DEF Wrap

\* The wrapping sums begin with nothing and go on type by type.
LEMMA BytesGoOn ==
    ASSUME sizeOf \in [Types -> Nat], NEW n \in Nat
    PROVE  /\ BytesOf(n) \in [0 .. NumTypes -> Nat]
           /\ BytesOf(n)[0] = 0
           /\ \A i \in Types : BytesOf(n)[i] = Wrap(BytesOf(n)[i - 1] + Wrap(sizeOf[i] * n))
<1> DEFINE next(i, x) == Wrap(x + Wrap(sizeOf[i] * n))
           step == [i \in 1 .. NumTypes |-> [x \in Nat |-> next(i, x)]]
           Is(h) == h = [i \in 0 .. NumTypes |-> IF i = 0 THEN 0 ELSE next(i, h[i - 1])]
           b == BytesOf(n)
<1>1. ASSUME NEW i \in 1 .. NumTypes, NEW x \in Nat PROVE next(i, x) \in Nat
  <2>1. sizeOf[i] * n \in Nat
    BY DEF Types
  <2>2. Wrap(sizeOf[i] * n) \in Nat
    BY <2>1, WrapType
  <2> QED BY <2>2, WrapType
<1>2. b = CHOOSE h : Is(h)
  BY DEF BytesOf
<1> HIDE DEF next, b
<1>0. NumTypes \in Nat /\ 0 \in Nat
  BY ModulusAssumption
<1>3. step \in [1 .. NumTypes -> [Nat -> Nat]]
  BY <1>1
<1>4. PICK g \in [0 .. NumTypes -> Nat] : g[0] = 0 /\ \A i \in 1 .. NumTypes : g[i] = step[i][g[i - 1]]
  <2> HIDE DEF step
  <2> QED BY <1>0, <1>3, Iterate
<1>5. ASSUME NEW i \in 1 .. NumTypes PROVE g[i] = next(i, g[i - 1])
  <2>1. i - 1 \in 0 .. NumTypes /\ g[i - 1] \in Nat
    BY <1>0
  <2> QED BY <1>4, <2>1
<1>6. Is(g)
  BY <1>4, <1>5
<1>7. b = [i \in 0 .. NumTypes |-> IF i = 0 THEN 0 ELSE next(i, b[i - 1])]
  BY <1>2, <1>6
<1>8. ASSUME NEW i \in 1 .. NumTypes PROVE b[i] = next(i, b[i - 1])
  <2>1. i \in 0 .. NumTypes /\ i # 0
    BY <1>0
  <2> QED BY <1>7, <2>1
<1>9. b[0] = 0
  BY <1>7, <1>0
<1>10. \A i \in 0 .. NumTypes : b[i] \in Nat
  <2> DEFINE G == {i \in 0 .. NumTypes : b[i] \in Nat}
  <2>1. 0 \in G
    BY <1>9, <1>0
  <2>2. \A i \in 1 .. NumTypes : i - 1 \in G => i \in G
    BY <1>8, <1>1
  <2> HIDE DEF G
  <2>3. \A i \in 0 .. NumTypes : i \in G
    BY <2>1, <2>2, UpTo, <1>0
  <2> QED BY <2>3 DEF G
<1>11. b \in [0 .. NumTypes -> Nat]
  BY <1>7, <1>10
<1> QED BY <1>8, <1>9, <1>11 DEF b, next, Types

\* So do the sums that do not wrap.
LEMMA TotalsGoOn ==
    ASSUME sizeOf \in [Types -> Nat], num \in Nat
    PROVE  /\ Totals \in [0 .. NumTypes -> Nat]
           /\ Totals[0] = 0
           /\ \A i \in Types : Totals[i] = Totals[i - 1] + sizeOf[i] * num
<1> DEFINE next(i, x) == x + sizeOf[i] * num
           step == [i \in 1 .. NumTypes |-> [x \in Nat |-> next(i, x)]]
           Is(h) == h = [i \in 0 .. NumTypes |-> IF i = 0 THEN 0 ELSE next(i, h[i - 1])]
           b == Totals
<1>1. ASSUME NEW i \in 1 .. NumTypes, NEW x \in Nat PROVE next(i, x) \in Nat
  <2>1. sizeOf[i] * num \in Nat
    BY DEF Types
  <2> QED BY <2>1
<1>2. b = CHOOSE h : Is(h)
  BY DEF Totals
<1> HIDE DEF next, b
<1>0. NumTypes \in Nat /\ 0 \in Nat
  BY ModulusAssumption
<1>3. step \in [1 .. NumTypes -> [Nat -> Nat]]
  BY <1>1
<1>4. PICK g \in [0 .. NumTypes -> Nat] : g[0] = 0 /\ \A i \in 1 .. NumTypes : g[i] = step[i][g[i - 1]]
  <2> HIDE DEF step
  <2> QED BY <1>0, <1>3, Iterate
<1>5. ASSUME NEW i \in 1 .. NumTypes PROVE g[i] = next(i, g[i - 1])
  <2>1. i - 1 \in 0 .. NumTypes /\ g[i - 1] \in Nat
    BY <1>0
  <2> QED BY <1>4, <2>1
<1>6. Is(g)
  BY <1>4, <1>5
<1>7. b = [i \in 0 .. NumTypes |-> IF i = 0 THEN 0 ELSE next(i, b[i - 1])]
  BY <1>2, <1>6
<1>8. ASSUME NEW i \in 1 .. NumTypes PROVE b[i] = next(i, b[i - 1])
  <2>1. i \in 0 .. NumTypes /\ i # 0
    BY <1>0
  <2> QED BY <1>7, <2>1
<1>9. b[0] = 0
  BY <1>7, <1>0
<1>10. \A i \in 0 .. NumTypes : b[i] \in Nat
  <2> DEFINE G == {i \in 0 .. NumTypes : b[i] \in Nat}
  <2>1. 0 \in G
    BY <1>9, <1>0
  <2>2. \A i \in 1 .. NumTypes : i - 1 \in G => i \in G
    BY <1>8, <1>1
  <2> HIDE DEF G
  <2>3. \A i \in 0 .. NumTypes : i \in G
    BY <2>1, <2>2, UpTo, <1>0
  <2> QED BY <2>3 DEF G
<1>11. b \in [0 .. NumTypes -> Nat]
  BY <1>7, <1>10
<1> QED BY <1>8, <1>9, <1>11 DEF b, next, Types

\* A sum of the first types is not more than one of more of them.
LEMMA TotalsGrow ==
    ASSUME sizeOf \in [Types -> Nat], num \in Nat,
           NEW i \in 0 .. NumTypes, NEW j \in 0 .. NumTypes, i <= j
    PROVE  Totals[i] <= Totals[j]
<1> DEFINE G == {k \in 0 .. NumTypes : i <= k => Totals[i] <= Totals[k]}
<1>0. NumTypes \in Nat /\ i \in Nat /\ j \in Nat
  BY ModulusAssumption
<1>1. 0 \in G
  <2>1. 0 \in 0 .. NumTypes /\ (i <= 0 => i = 0) /\ Totals[0] = 0
    BY <1>0, TotalsGoOn
  <2> QED BY <2>1
<1>2. ASSUME NEW k \in 1 .. NumTypes, k - 1 \in G PROVE k \in G
  <2>1. Totals[i] \in Nat /\ Totals[k] \in Nat /\ Totals[k - 1] \in Nat /\ sizeOf[k] * num \in Nat
    <3>1. k \in 0 .. NumTypes /\ k - 1 \in 0 .. NumTypes /\ k \in Types
      BY <1>0 DEF Types
    <3>2. sizeOf[k] * num \in Nat
      BY <3>1
    <3> QED BY <3>1, <3>2, TotalsGoOn
  <2>2. Totals[k] = Totals[k - 1] + sizeOf[k] * num
    BY TotalsGoOn DEF Types
  <2>3. CASE i = k
    BY <2>1, <2>3, <1>0
  <2>4. CASE i # k
    BY <2>1, <2>2, <2>4, <1>2, <1>0
  <2> QED BY <2>3, <2>4
<1>3. \A k \in 0 .. NumTypes : k \in G
  <2>1. \A k \in 1 .. NumTypes : k - 1 \in G => k \in G
    BY <1>2
  <2> HIDE DEF G
  <2> QED BY <1>0, <1>1, <2>1, UpTo
<1> QED BY <1>3

\* If all that the types take fits, no sum wraps.
LEMMA NothingWraps ==
    ASSUME sizeOf \in [Types -> Nat], num \in Nat, TotalBytes < Modulus
    PROVE  \A i \in 0 .. NumTypes : BytesOf(num)[i] = Totals[i]
<1> DEFINE G == {i \in 0 .. NumTypes : BytesOf(num)[i] = Totals[i]}
<1>0. NumTypes \in Nat /\ Modulus \in Nat /\ NumTypes \in 0 .. NumTypes
  BY ModulusAssumption
<1>1. 0 \in G
  <2>1. BytesOf(num)[0] = 0 /\ Totals[0] = 0 /\ 0 \in 0 .. NumTypes
    BY <1>0, BytesGoOn, TotalsGoOn
  <2> QED BY <2>1
<1>2. ASSUME NEW i \in 1 .. NumTypes, i - 1 \in G PROVE i \in G
  <2>1. i \in Types /\ i \in 0 .. NumTypes /\ i - 1 \in 0 .. NumTypes /\ i <= NumTypes
    BY <1>0 DEF Types
  <2>2. Totals[i] \in Nat /\ Totals[i - 1] \in Nat /\ sizeOf[i] * num \in Nat
    <3>1. sizeOf[i] * num \in Nat
      BY <2>1
    <3> QED BY <2>1, <3>1, TotalsGoOn
  <2>3. Totals[i] < Modulus
    <3>1. Totals[i] <= TotalBytes /\ TotalBytes \in Nat
      BY <1>0, <2>1, TotalsGrow, TotalsGoOn DEF TotalBytes
    <3> QED BY <3>1, <1>0, <2>2
  <2>4. Totals[i] = Totals[i - 1] + sizeOf[i] * num
    BY <2>1, TotalsGoOn
  <2>5. Wrap(sizeOf[i] * num) = sizeOf[i] * num
    <3>1. sizeOf[i] * num < Modulus
      BY <1>0, <2>2, <2>3, <2>4
    <3> QED BY <3>1, <2>2, WrapFits
  <2>6. Wrap(Totals[i]) = Totals[i]
    BY <2>2, <2>3, WrapFits
  <2>7. BytesOf(num)[i] = Wrap(BytesOf(num)[i - 1] + Wrap(sizeOf[i] * num))
    BY <2>1, BytesGoOn
  <2>8. BytesOf(num)[i - 1] = Totals[i - 1]
    BY <1>2
  <2> QED BY <2>1, <2>4, <2>5, <2>6, <2>7, <2>8
<1>3. \A i \in 0 .. NumTypes : i \in G
  <2>1. \A i \in 1 .. NumTypes : i - 1 \in G => i \in G
    BY <1>2
  <2> HIDE DEF G
  <2> QED BY <1>0, <1>1, <2>1, UpTo
<1> QED BY <1>3

\* Where the array of a type begins and where the next one does.
LEMMA OffsetIs ==
    ASSUME sizeOf \in [Types -> Nat \ {0}], num \in Nat, TotalBytes < Modulus,
           NEW i \in Types, NEW e \in 0 .. num
    PROVE  /\ OffsetBytes(i, e, num) = Totals[i - 1] + sizeOf[i] * e
           /\ Totals[i - 1] + sizeOf[i] * e <= Totals[i]
           /\ e < num => Totals[i - 1] + sizeOf[i] * e < Totals[i]
<1>0. NumTypes \in Nat /\ Modulus \in Nat /\ NumTypes \in 0 .. NumTypes
  BY ModulusAssumption
<1>1. i \in 0 .. NumTypes /\ i - 1 \in 0 .. NumTypes /\ i <= NumTypes
  BY <1>0 DEF Types
<1>2. sizeOf[i] \in Nat /\ sizeOf[i] > 0 /\ e \in Nat /\ e <= num
  OBVIOUS
<1>3. sizeOf[i] * e \in Nat /\ sizeOf[i] * num \in Nat
  BY <1>2
<1>4. sizeOf[i] * e <= sizeOf[i] * num /\ (e < num => sizeOf[i] * e < sizeOf[i] * num)
  BY <1>2
<1>5. /\ Totals[i] \in Nat /\ Totals[i - 1] \in Nat /\ TotalBytes \in Nat
      /\ Totals[i] = Totals[i - 1] + sizeOf[i] * num
      /\ Totals[i] <= TotalBytes
  BY <1>0, <1>1, TotalsGoOn, TotalsGrow DEF TotalBytes
<1>6. Wrap(sizeOf[i] * e) = sizeOf[i] * e
  BY <1>0, <1>3, <1>4, <1>5, WrapFits
<1>7. Wrap(Totals[i - 1] + sizeOf[i] * e) = Totals[i - 1] + sizeOf[i] * e
  BY <1>0, <1>3, <1>4, <1>5, WrapFits
<1>8. BytesOf(num)[i - 1] = Totals[i - 1]
  BY <1>1, NothingWraps
<1> QED BY <1>3, <1>4, <1>5, <1>6, <1>7, <1>8 DEF OffsetBytes

\* If nothing wraps, a block as long as was computed has room for every array, and the
\* arrays do not overlap.
LEMMA LayoutFits ==
    ASSUME BlockInv, num > 0, TotalBytes < Modulus
    PROVE  ArraysFit
<1> SUFFICES ASSUME NEW i \in Types, NEW j \in Types
             PROVE  /\ EndByte(i) <= bytes[data]
                    /\ i < j => EndByte(i) <= FirstByte(j)
                    /\ \A e \in 0 .. num - 1 : OffsetBytes(i, e, num) \in FirstByte(i) .. EndByte(i) - 1
  BY DEF ArraysFit
<1>0. NumTypes \in Nat /\ NumTypes \in 0 .. NumTypes /\ sizeOf \in [Types -> Nat] /\ num \in Nat
  BY ModulusAssumption DEF BlockInv
<1>1. /\ i \in 0 .. NumTypes /\ i - 1 \in 0 .. NumTypes /\ i <= NumTypes
      /\ j \in 0 .. NumTypes /\ j - 1 \in 0 .. NumTypes /\ (i < j => i <= j - 1)
  BY <1>0 DEF Types
<1>2. \A k \in 0 .. NumTypes : Totals[k] \in Nat
  BY <1>0, TotalsGoOn
<1>3. \A k \in Types : FirstByte(k) = Totals[k - 1] /\ EndByte(k) = Totals[k]
  <2> SUFFICES ASSUME NEW k \in Types PROVE FirstByte(k) = Totals[k - 1] /\ EndByte(k) = Totals[k]
    OBVIOUS
  <2>1. OffsetBytes(k, 0, num) = Totals[k - 1] + sizeOf[k] * 0
    BY <1>0, OffsetIs DEF BlockInv
  <2>2. sizeOf[k] * 0 = 0 /\ Totals[k - 1] \in Nat
    BY <1>0, <1>2 DEF Types
  <2>3. Totals[k] = Totals[k - 1] + sizeOf[k] * num
    BY <1>0, TotalsGoOn
  <2> QED BY <2>1, <2>2, <2>3 DEF FirstByte, EndByte
<1>4. EndByte(i) <= bytes[data]
  <2>1. bytes[data] = Totals[NumTypes]
    BY <1>0, NothingWraps DEF BlockInv, AllocatedBytes
  <2>2. Totals[i] <= Totals[NumTypes]
    BY <1>0, <1>1, TotalsGrow
  <2> QED BY <1>3, <2>1, <2>2
<1>5. ASSUME i < j PROVE EndByte(i) <= FirstByte(j)
  <2>1. Totals[i] <= Totals[j - 1]
    BY <1>0, <1>1, <1>5, TotalsGrow
  <2> QED BY <1>3, <2>1
<1>6. ASSUME NEW e \in 0 .. num - 1
      PROVE  OffsetBytes(i, e, num) \in FirstByte(i) .. EndByte(i) - 1
  <2>1. e \in 0 .. num /\ e < num /\ e \in Nat
    BY <1>0
  <2>2. OffsetBytes(i, e, num) = Totals[i - 1] + sizeOf[i] * e /\ Totals[i - 1] + sizeOf[i] * e < Totals[i]
    BY <1>0, <2>1, OffsetIs DEF BlockInv
  <2>3. sizeOf[i] * e \in Nat /\ Totals[i - 1] \in Nat /\ Totals[i] \in Nat
    <3>1. sizeOf[i] \in Nat
      BY <1>0
    <3> QED BY <2>1, <3>1, <1>1, <1>2
  <2> QED BY <1>3, <2>2, <2>3
<1> QED BY <1>4, <1>5, <1>6

\* Arrays that lie one after the other in the block end no earlier than all the types before
\* them take, and the block is no longer than uint64_t can say: then nothing wrapped.
LEMMA FittingIsUnwrapped ==
    ASSUME BlockInv, num > 0, ArraysFit
    PROVE  TotalBytes < Modulus
<1>0. /\ NumTypes \in Nat \ {0} /\ NumTypes \in Types /\ Modulus \in Nat \ {0}
      /\ sizeOf \in [Types -> Nat] /\ num \in Nat
  BY ModulusAssumption DEF BlockInv, Types
<1>1. ASSUME NEW i \in Types
      PROVE  /\ Totals[i] \in Nat /\ Totals[i - 1] \in Nat /\ Totals[i] = Totals[i - 1] + sizeOf[i] * num
             /\ sizeOf[i] * num \in Nat
  <2>1. sizeOf[i] * num \in Nat
    BY <1>0
  <2>2. i \in 0 .. NumTypes /\ i - 1 \in 0 .. NumTypes
    BY <1>0 DEF Types
  <2> QED BY <1>0, <2>1, <2>2, TotalsGoOn
<1>2. ASSUME NEW i \in Types PROVE FirstByte(i) \in Nat
  <2>1. i - 1 \in 0 .. NumTypes /\ sizeOf[i] \in Nat
    BY <1>0 DEF Types
  <2>2. BytesOf(num)[i - 1] \in Nat
    BY <1>0, <2>1, BytesGoOn
  <2>3. Wrap(sizeOf[i] * 0) \in Nat
    BY <2>1, WrapType
  <2> QED BY <2>2, <2>3, WrapType DEF FirstByte, OffsetBytes
<1> DEFINE G == {i \in 0 .. NumTypes : i > 0 => Totals[i] <= EndByte(i)}
<1>3. 0 \in G
  BY <1>0
<1>4. ASSUME NEW i \in 1 .. NumTypes, i - 1 \in G PROVE i \in G
  <2>1. i \in Types /\ i \in 0 .. NumTypes
    BY <1>0 DEF Types
  <2>2. Totals[i - 1] <= FirstByte(i)
    <3>1. CASE i = 1
      <4>1. Totals[i - 1] = 0
        BY <1>0, <3>1, TotalsGoOn
      <4> QED BY <1>2, <2>1, <4>1
    <3>2. CASE i # 1
      <4>1. i - 1 \in Types /\ i - 1 < i /\ i - 1 > 0
        BY <1>0, <3>2 DEF Types
      <4>2. Totals[i - 1] <= EndByte(i - 1)
        BY <1>4, <4>1
      <4>3. EndByte(i - 1) <= FirstByte(i)
        BY <2>1, <4>1 DEF ArraysFit
      <4>4. EndByte(i - 1) \in Nat /\ FirstByte(i) \in Nat /\ Totals[i - 1] \in Nat
        BY <1>1, <1>2, <2>1, <4>1 DEF EndByte
      <4> HIDE DEF G
      <4> QED BY <4>2, <4>3, <4>4
    <3> QED BY <3>1, <3>2
  <2>3. Totals[i] <= EndByte(i)
    BY <1>1, <1>2, <2>1, <2>2 DEF EndByte
  <2> QED BY <2>1, <2>3
<1>5. \A i \in 0 .. NumTypes : i \in G
  <2>1. \A i \in 1 .. NumTypes : i - 1 \in G => i \in G
    BY <1>4
  <2> HIDE DEF G
  <2> QED BY <1>0, <1>3, <2>1, UpTo
<1>6. TotalBytes <= EndByte(NumTypes)
  <2>1. NumTypes \in G /\ NumTypes > 0
    BY <1>0, <1>5
  <2> QED BY <2>1 DEF TotalBytes
<1>7. EndByte(NumTypes) <= bytes[data]
  BY <1>0 DEF ArraysFit
<1>8. bytes[data] \in Nat /\ bytes[data] < Modulus
  <2>1. bytes[data] = BytesOf(num)[NumTypes]
    BY DEF BlockInv, AllocatedBytes
  <2>2. BytesOf(num)[NumTypes] = Wrap(BytesOf(num)[NumTypes - 1] + Wrap(sizeOf[NumTypes] * num))
    BY <1>0, BytesGoOn
  <2>3. BytesOf(num)[NumTypes - 1] \in Nat
    <3>1. NumTypes - 1 \in 0 .. NumTypes
      BY <1>0
    <3> QED BY <1>0, <3>1, BytesGoOn
  <2>4. Wrap(sizeOf[NumTypes] * num) \in Nat
    BY <1>0, <1>1, WrapType
  <2>5. \A x \in Nat : Wrap(x) \in Nat /\ Wrap(x) < Modulus
    BY <1>0 DEF Wrap
  <2> QED BY <2>1, <2>2, <2>3, <2>4, <2>5
<1>9. EndByte(NumTypes) \in Nat /\ TotalBytes \in Nat
  BY <1>0, <1>1, <1>2 DEF EndByte, TotalBytes
<1> QED BY <1>0, <1>6, <1>7, <1>8, <1>9

-----------------------------------------------------------------------------
\* A default-constructed container has no block.
LEMMA SoaInitInv == SoaInit => SoaInv
<1> SUFFICES ASSUME SoaInit PROVE SoaInv
  OBVIOUS
<1>1. sizeOf \in [Types -> Nat \ {0}]
  BY SizesAssumption DEF SoaInit
<1>2. Allocated = {} /\ data = Null /\ num = 0
  BY DEF SoaInit, Allocated
<1> QED BY <1>1, <1>2 DEF SoaInv, BlockInv, NoLeak

\* What destroy deletes is the only block that was not deleted; what resize
\* makes after it is as long as its elements need.
LEMMA SoaNextInv == SoaInv /\ [SoaNext]_soaVars => SoaInv'
<1> SUFFICES ASSUME SoaInv, [SoaNext]_soaVars PROVE SoaInv'
  OBVIOUS
<1> USE DEF SoaInv, Allocated
<1>0. BlockInv /\ NoLeak
  OBVIOUS
<1>1. ASSUME Delete, UNCHANGED <<bytes>> PROVE \A b \in Allocated' : b \in deleted'
  BY <1>0, <1>1, NullAssumption DEF Delete, BlockInv, NoLeak
<1>2. CASE Destroy
  <2>1. BlockInv'
    BY <1>0, <1>2 DEF Destroy, BlockInv, Types
  <2>2. NoLeak'
    BY <1>1, <1>2 DEF Destroy, NoLeak
  <2> QED BY <2>1, <2>2
<1>3. ASSUME NEW n \in Counts, Resize(n) PROVE SoaInv'
  <2>1. n \in Nat /\ Delete /\ sizeOf' = sizeOf /\ gone' = gone /\ ~gone
    BY <1>3, SizesAssumption DEF Resize, Usable
  <2>2. \A b \in Allocated : b \in deleted'
    BY <1>0, <2>1, NullAssumption DEF Delete, BlockInv, NoLeak
  <2>3. CASE NoNew
    <3>1. BlockInv'
      BY <1>0, <2>1, <2>3 DEF NoNew, BlockInv, Types
    <3>2. NoLeak'
      BY <2>2, <2>3 DEF NoNew, NoLeak
    <3> QED BY <3>1, <3>2
  <2>4. CASE ~NoNew
    <3>1. PICK b \in Blocks \ Allocated :
              /\ n > 0 /\ data' = b /\ num' = n
              /\ bytes' = [x \in Allocated \cup {b} |-> IF x = b THEN AllocatedBytes(n) ELSE bytes[x]]
      BY <1>3, <2>4 DEF Resize, New
    <3>2. Allocated' = Allocated \cup {b} /\ bytes'[b] = AllocatedBytes(n)
      BY <3>1
    <3>3. AllocatedBytes(n)' = AllocatedBytes(n)
      BY <2>1 DEF AllocatedBytes, BytesOf
    <3>4. BlockInv'
      BY <1>0, <2>1, <3>1, <3>2, <3>3 DEF BlockInv, Types
    <3>5. NoLeak'
      BY <2>1, <2>2, <3>1, <3>2 DEF NoLeak
    <3> QED BY <3>4, <3>5
  <2> QED BY <2>3, <2>4
<1>4. ASSUME NEW i \in Types, GetArray(i) PROVE SoaInv'
  BY <1>0, <1>4 DEF GetArray, BlockInv, NoLeak, AllocatedBytes, BytesOf, Types
<1>5. CASE Destructor
  <2>1. BlockInv'
    BY <1>0, <1>5 DEF Destructor, BlockInv, AllocatedBytes, BytesOf, Types
  <2>2. NoLeak'
    BY <1>1, <1>5 DEF Destructor, NoLeak
  <2> QED BY <2>1, <2>2
<1>6. CASE UNCHANGED soaVars
  BY <1>0, <1>6 DEF soaVars, BlockInv, NoLeak, AllocatedBytes, BytesOf, Types
<1> QED BY <1>2, <1>3, <1>4, <1>5, <1>6 DEF SoaNext

-----------------------------------------------------------------------------
\* No block that resize made is lost: it is deleted before the next one takes
\* its place, and with the object (soa.h:74-112).
THEOREM NoBlockIsLeaked == SoaSpec => []NoLeak
<1>1. SoaInv => NoLeak
  BY DEF SoaInv
<1> QED BY <1>1, SoaInitInv, SoaNextInv, PTL DEF SoaSpec

\* The places calculate_offset_bytes gives to the arrays lie in the block, one after the
\* other, exactly if the number of bytes is one that uint64_t can hold: a layout that wrapped
\* around never fits by chance (calculate_allocated_bytes and calculate_offset_bytes,
\* soa.h:138-154).
THEOREM LayoutFitsUnlessWrapped == SoaSpec => []FitUnlessWrapped
<1>1. SoaInv => FitUnlessWrapped
  BY LayoutFits, FittingIsUnwrapped DEF SoaInv, FitUnlessWrapped
<1> QED BY <1>1, SoaInitInv, SoaNextInv, PTL DEF SoaSpec
=============================================================================
