------------------------------ MODULE Logging ------------------------------
(***************************************************************************)
(* ThreadNameManager and LogEngine as the engine's threads use them: a     *)
(* thread registers its name when it begins and unregisters it when it     *)
(* ends, and in between it writes lines to the log.                        *)
(*                                                                         *)
(* m_Names has no lock: a registration that meets any other use of it is a *)
(* data race, after which the map may answer anything.  m_Lock is held     *)
(* while a line goes into the buffer of the call's own stream; the line is *)
(* written to the file when the stream is closed, after the lock.          *)
(***************************************************************************)
EXTENDS Naturals, Sequences, SequencesExt, FiniteSets

CONSTANTS
    Threads,    \* ids of threads
    MaxCalls,   \* bound: calls of Log a thread id makes
    None        \* nobody

ASSUME MaxCallsAssumption == MaxCalls \in Nat
ASSUME NoneAssumption == None \notin Threads

VARIABLES
    pc,        \* where a thread is
    names,     \* the ids in m_Names
    broken,    \* there was a data race on m_Names
    name,      \* the name a call found: a thread's, or None for "<Unknown>"
    lock,      \* who holds m_Lock
    pos,       \* where in the file a call will write
    file,      \* the lines of the file
    calls,     \* calls a thread has begun
    \* What the properties speak about:
    done,      \* lines whose call has returned
    earlier,   \* done when a thread's call began
    dropped,   \* lines whose stream did not open
    shared     \* lines whose call met another call

table == <<names, broken>>
output == <<lock, pos, file>>
history == <<done, earlier, dropped, shared>>
vars == <<pc, table, name, output, calls, history>>

Lines == Threads \X (1 .. MaxCalls)
Line(t) == <<t, calls[t]>>

Writers == {t \in Threads : pc[t] \in {"registering", "unregistering"}}
Readers == {t \in Threads : pc[t] = "find"}
InCall == {t \in Threads : pc[t] \in {"find", "open", "lock", "insert", "seek", "write"}}

Points == {"off", "registering", "on", "unregistering"}
          \cup {"find", "open", "lock", "insert", "seek", "write"}

TypeOK ==
    /\ pc \in [Threads -> Points]
    /\ names \subseteq Threads /\ broken \in BOOLEAN
    /\ name \in [Threads -> Threads \cup {None}]
    /\ lock \in Threads \cup {None} /\ (lock # None => pc[lock] = "insert")
    /\ pos \in [Threads -> Nat]
    /\ file \in Seq(Lines)
    /\ calls \in [Threads -> 0 .. MaxCalls]
    /\ done \subseteq Lines /\ dropped \subseteq Lines /\ shared \subseteq Lines
    /\ earlier \in [Threads -> SUBSET Lines]

Init ==
    /\ pc = [t \in Threads |-> "off"]
    /\ names = {} /\ broken = FALSE
    /\ name = [t \in Threads |-> None]
    /\ lock = None /\ pos = [t \in Threads |-> 0] /\ file = <<>>
    /\ calls = [t \in Threads |-> 0]
    /\ done = {} /\ dropped = {} /\ shared = {}
    /\ earlier = [t \in Threads |-> {}]

Step(t, p, q) == pc[t] = p /\ pc' = [pc EXCEPT ![t] = q]

-----------------------------------------------------------------------------
(* The names.                                                              *)

\* ThreadStartedCallback, as WinMain for its own thread: m_Names[id] = name.
RegisterThread(t) ==
    /\ Step(t, "off", "registering")
    /\ broken' = (broken \/ Writers \cup Readers # {})
    /\ UNCHANGED <<names, name, output, calls, history>>

ForgetName(t) ==
    /\ Step(t, "registering", "on")
    /\ UNCHANGED <<table, name, output, calls, history>>
Registered(t) ==
    /\ Step(t, "registering", "on")
    /\ names' = names \cup {t}
    /\ UNCHANGED <<broken, name, output, calls, history>>

\* ThreadEndedCallback: m_Names.erase(id).
UnregisterThread(t) ==
    /\ Step(t, "on", "unregistering")
    /\ broken' = (broken \/ Writers \cup Readers # {})
    /\ UNCHANGED <<names, name, output, calls, history>>

Unregistered(t) ==
    /\ Step(t, "unregistering", "off")
    /\ names' = names \ {t}
    /\ UNCHANGED <<broken, name, output, calls, history>>

-----------------------------------------------------------------------------
(* Log.                                                                    *)

Began(t) ==
    /\ calls[t] < MaxCalls /\ calls' = [calls EXCEPT ![t] = @ + 1]
    /\ earlier' = [earlier EXCEPT ![t] = done]
    /\ shared' = IF InCall = {} THEN shared
                 ELSE shared \cup {Line(u) : u \in InCall} \cup {<<t, calls[t] + 1>>}
    /\ UNCHANGED <<done, dropped>>

Returned(t) == done' = done \cup {Line(t)} /\ UNCHANGED <<earlier, shared>>

\* GetName: the search goes on while others come to the map.
Log(t) ==
    /\ Step(t, "on", "find") /\ Began(t)
    /\ broken' = (broken \/ Writers # {})
    /\ UNCHANGED <<names, name, output>>

\* The view that is returned points into the thread's own entry.
GetName(t) ==
    /\ Step(t, "find", "open")
    /\ \E n \in IF broken THEN Threads \cup {None} ELSE IF t \in names THEN {t} ELSE {None} :
           name' = [name EXCEPT ![t] = n]
    /\ UNCHANGED <<table, output, calls, history>>

\* ios::app keeps what the file has.
OpenTruncates(t) ==
    /\ Step(t, "open", "lock") /\ file' = <<>>
    /\ UNCHANGED <<table, name, lock, pos, calls, history>>
Open(t) ==
    /\ Step(t, "open", "lock")
    /\ UNCHANGED <<table, name, output, calls, history>>

\* is_open() is false: the line goes to the console only.
NotOpen(t) ==
    /\ Step(t, "open", "on") /\ Returned(t)
    /\ dropped' = dropped \cup {Line(t)}
    /\ UNCHANGED <<table, name, output, calls>>

Lock(t) ==
    /\ Step(t, "lock", "insert") /\ lock = None /\ lock' = t
    /\ UNCHANGED <<table, name, pos, file, calls, history>>

\* file_handle << str; the scope of the lock ends.
Insert(t) ==
    /\ Step(t, "insert", "seek") /\ lock' = None
    /\ UNCHANGED <<table, name, pos, file, calls, history>>

\* close() flushes: the C runtime goes to the end of the file, then writes.
SeekEnd(t) ==
    /\ Step(t, "seek", "write")
    /\ pos' = [pos EXCEPT ![t] = Len(file) + 1]
    /\ UNCHANGED <<table, name, lock, file, calls, history>>

CloseUnwritten(t) ==
    /\ Step(t, "write", "on") /\ Returned(t)
    /\ UNCHANGED <<table, name, output, calls, dropped>>
Write(t) ==
    /\ Step(t, "write", "on") /\ Returned(t)
    /\ file' = IF pos[t] <= Len(file) THEN [file EXCEPT ![pos[t]] = Line(t)]
               ELSE Append(file, Line(t))
    /\ UNCHANGED <<table, name, lock, pos, calls, dropped>>

-----------------------------------------------------------------------------
LogStep(t) ==
    \/ GetName(t) \/ Open(t) \/ NotOpen(t) \/ Lock(t)
    \/ Insert(t) \/ SeekEnd(t) \/ Write(t)

Next ==
    \E t \in Threads :
        \/ RegisterThread(t) \/ Registered(t) \/ UnregisterThread(t) \/ Unregistered(t)
        \/ Log(t) \/ LogStep(t)

Spec == Init /\ [][Next]_vars

-----------------------------------------------------------------------------
(* What must hold.                                                         *)

\* Unless threads raced for the map, every line carries the name of the thread
\* that wrote it, and the name's entry is there as long as the line needs it.
OwnName ==
    ~broken => \A t \in InCall \ Readers : name[t] = t /\ t \in names

\* A line is lost only if its stream did not open or its call met another: the
\* lock does not cover the writing, but calls one after the other lose nothing.
KeptUnlessShared ==
    \A l \in done : l \in dropped \/ l \in shared \/ Contains(file, l)

\* What a call writes over is never a line whose call had returned before it
\* began: only calls that overlap lose lines, and the order of calls that do
\* not is the order of their lines.
ReturnedStay ==
    [][\A i \in 1 .. Len(file) :
           i <= Len(file') /\ (file'[i] # file[i] =>
               \E t \in InCall : file'[i] = Line(t) /\ file[i] \notin earlier[t])]_vars
=============================================================================
