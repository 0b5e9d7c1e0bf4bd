---------------------------- MODULE StartupProofs ----------------------------
(***************************************************************************)
(* Proofs about start-up, for any number of adapters, frame buffers and    *)
(* render threads.                                                         *)
(*                                                                         *)
(* The heart is LinkInv: at the k-th link of RendererDX12::Initialize, and *)
(* for ever after it failed, m_Data holds the parts of the links before it *)
(* and the first few objects of its own, never all of them.  It is stated  *)
(* for all links at once, so that one lemma does for every loop that       *)
(* builds a row of objects and for the calls that build a single one.      *)
(***************************************************************************)
EXTENDS Startup, FiniteSetTheorems, TLAPS

\* The first n objects of a link, how many it has to build, and what is built before it.
Row(name, n) == {<<name, j>> : j \in 0 .. n - 1}
Size == <<1, 1, 1, 1, NumFrameBuffers, NumFrameBuffers, NumRenderThreads>>
Before(k) == UNION {Row(R!Link[j], Size[j]) : j \in 2 .. k - 1}

\* The steps of the links, and that Initialize is at one or gave up at it.
StepsOf == <<{"none", "factory", "enumerate", "hardware", "software"}, {"cmd_queue"},
             {"swapchain_factory", "swapchain"}, {"rtv_desc_heap"}, {"target"}, {"allocator"}, {"list"}>>
Stage(k) == step \in StepsOf[k] \/ (step = "error" /\ error = R!Link[k])

TypeOK ==
    /\ at \in Points
    /\ runtime \in {"none", "live", "dead"} /\ gRuntime \in BOOLEAN
    /\ window \in {"none", "open", "closed"} /\ quit \in BOOLEAN /\ manager \in BOOLEAN
    /\ failed \subseteq Asserts /\ passed \subseteq Asserts
    /\ R!TypeOK

\* m_Data at each link, and in the end.
LinkInv ==
    /\ \A k \in 1 .. 7 : Stage(k) =>
           /\ k = 1 <=> device = None
           /\ \E n \in Nat : n < Size[k] /\ built = Before(k) \cup Row(R!Link[k], n)
    /\ step = "ok" => device # None /\ built = Before(8)

\* The two lists share no adapter, and the second is only tried after the first.
ChoiceInv ==
    /\ hardware \cap software = {}
    /\ step = "software" => hardware \subseteq refused
    /\ HardwareFirst

\* What the main thread has behind it.
MainInv ==
    /\ at \in {"show", "manager", "renderer", "renderer_box", "loop"} /\ window = "none" =>
           "window" \in passed
    /\ at = "renderer_box" => step = "error"
    /\ at = "loop" => step \in {"ok", "error"} /\ (step = "error" => "renderer" \in passed)
    /\ at \notin {"runtime", "ended"} => runtime = "live"
    /\ at \notin {"runtime", "set_runtime", "ended"} => gRuntime
    /\ at \in {"renderer", "renderer_box", "loop"} => manager

IInv == TypeOK /\ LinkInv /\ ChoiceInv /\ MainInv
-----------------------------------------------------------------------------
(* The links and their objects.                                            *)

\* A row has as many objects as it says,
LEMMA RowCardinality ==
    ASSUME NEW name, NEW n \in Nat
    PROVE  Cardinality(Row(name, n)) = n
<1> DEFINE f == [j \in 0 .. n - 1 |-> <<name, j>>]
<1>1. IsFiniteSet(0 .. n - 1) /\ Cardinality(0 .. n - 1) = n
  <2>1. IsFiniteSet(0 .. n - 1) /\ Cardinality(0 .. n - 1) = IF 0 > n - 1 THEN 0 ELSE n - 1 - 0 + 1
    BY FS_Interval
  <2> QED BY <2>1
<1>2. f \in Bijection(0 .. n - 1, Row(name, n))
  <2>1. f \in [0 .. n - 1 -> Row(name, n)]
    BY DEF Row
  <2>2. \A x, y \in 0 .. n - 1 : f[x] = f[y] => x = y
    OBVIOUS
  <2>3. \A t \in Row(name, n) : \E x \in 0 .. n - 1 : f[x] = t
    BY DEF Row
  <2> HIDE DEF f
  <2> QED BY <2>1, <2>2, <2>3 DEF Bijection, Injection, Surjection, IsInjective
<1>3. ExistsBijection(0 .. n - 1, Row(name, n))
  BY <1>2 DEF ExistsBijection
<1> QED BY <1>1, <1>3, FS_Bijection

\* and grows by one at its end.
LEMMA RowGrows ==
    ASSUME NEW name, NEW n \in Nat
    PROVE  /\ Row(name, n + 1) = Row(name, n) \cup {<<name, n>>}
           /\ <<name, n>> \notin Row(name, n)
           /\ Row(name, 0) = {}
<1>1. 0 .. n = (0 .. n - 1) \cup {n} /\ 0 .. 0 - 1 = {}
  OBVIOUS
<1> QED BY <1>1 DEF Row

\* Its objects have its name.
LEMMA RowNames == \A name, n, o : o \in Row(name, n) => o[1] = name
BY DEF Row

\* The links have different names and something to build each.
LEMMA Links ==
    /\ \A j, k \in 1 .. 7 : R!Link[j] = R!Link[k] => j = k
    /\ \A k \in 1 .. 7 : Size[k] \in Nat \ {0}
BY NumAssumption DEF R!Link, Size

\* What the k-th link has to build is its row.
LEMMA PartIsRow ==
    /\ R!Targets = Row("target", NumFrameBuffers)
    /\ R!Allocators = Row("allocator", NumFrameBuffers)
    /\ R!CommandLists = Row("list", NumRenderThreads)
    /\ R!Objects = Before(8)
    /\ \A k \in 2 .. 7 : R!Part(k) = Row(R!Link[k], Size[k])
<1>1. /\ R!Targets = Row("target", NumFrameBuffers)
      /\ R!Allocators = Row("allocator", NumFrameBuffers)
      /\ R!CommandLists = Row("list", NumRenderThreads)
  BY DEF R!Targets, R!Allocators, R!CommandLists, R!Buffers, R!Lists, Row
<1>2. \A name : Row(name, 1) = {<<name, 0>>}
  <2>1. 0 .. 1 - 1 = {0}
    OBVIOUS
  <2> QED BY <2>1 DEF Row
<1>3. R!Objects = UNION {Row("cmd_queue", 1), Row("swapchain", 1), Row("rtv_desc_heap", 1),
                         Row("target", NumFrameBuffers), Row("allocator", NumFrameBuffers),
                         Row("list", NumRenderThreads)}
  BY <1>1, <1>2 DEF R!Objects, R!Single
<1>4. R!Objects = Before(8)
  <2>1. 2 .. 8 - 1 = {2, 3, 4, 5, 6, 7}
    OBVIOUS
  <2> QED BY <1>3, <2>1 DEF Before, R!Link, Size
<1>5. ASSUME NEW k \in 2 .. 7 PROVE R!Part(k) = Row(R!Link[k], Size[k])
  <2>1. Row(R!Link[k], Size[k]) \subseteq R!Objects
    BY <1>4 DEF Before
  <2>2. \A o \in Row(R!Link[k], Size[k]) : o[1] = R!Link[k]
    BY RowNames
  <2>3. ASSUME NEW o \in R!Objects, o[1] = R!Link[k] PROVE o \in Row(R!Link[k], Size[k])
    <3>1. PICK j \in 2 .. 7 : o \in Row(R!Link[j], Size[j])
      BY <1>4 DEF Before
    <3>2. o[1] = R!Link[j]
      BY <3>1, RowNames
    <3>3. j \in 1 .. 7 /\ k \in 1 .. 7
      OBVIOUS
    <3>4. j = k
      BY <2>3, <3>2, <3>3, Links
    <3> QED BY <3>1, <3>4
  <2> QED BY <2>1, <2>2, <2>3 DEF R!Part
<1> QED BY <1>1, <1>4, <1>5

\* What is built before a link: nothing before the first two, then a whole row more.
LEMMA BeforeGrows ==
    /\ Before(1) = {} /\ Before(2) = {}
    /\ \A k \in 2 .. 7 : Before(k + 1) = Before(k) \cup Row(R!Link[k], Size[k])
    /\ \A k \in 2 .. 7, n \in Nat : Before(k) \cap Row(R!Link[k], n) = {}
<1>1. Before(1) = {} /\ Before(2) = {}
  <2>1. 2 .. 1 - 1 = {} /\ 2 .. 2 - 1 = {}
    OBVIOUS
  <2> QED BY <2>1 DEF Before
<1>2. ASSUME NEW k \in 2 .. 7 PROVE Before(k + 1) = Before(k) \cup Row(R!Link[k], Size[k])
  <2>1. 2 .. k + 1 - 1 = (2 .. k - 1) \cup {k}
    OBVIOUS
  <2> QED BY <2>1 DEF Before
<1>3. ASSUME NEW k \in 2 .. 7, NEW n \in Nat, NEW o \in Before(k) PROVE o \notin Row(R!Link[k], n)
  <2>1. PICK j \in 2 .. k - 1 : o \in Row(R!Link[j], Size[j])
    BY DEF Before
  <2>2. j \in 1 .. 7 /\ k \in 1 .. 7 /\ j # k
    OBVIOUS
  <2>3. o[1] = R!Link[j]
    BY <2>1, RowNames
  <2> QED BY <2>2, <2>3, RowNames, Links
<1> QED BY <1>1, <1>2, <1>3

\* The next object of a link: it is not there yet, its number is the count of those that
\* are, and the last one makes the part whole.
LEMMA NextObject ==
    ASSUME NEW k \in 2 .. 7, NEW n \in Nat, built = Before(k) \cup Row(R!Link[k], n)
    PROVE  /\ Cardinality({o \in built : o[1] = R!Link[k]}) = n
           /\ <<R!Link[k], n>> \notin built
           /\ built \cup {<<R!Link[k], n>>} = Before(k) \cup Row(R!Link[k], n + 1)
           /\ n + 1 = Size[k] => built \cup {<<R!Link[k], n>>} = Before(k + 1)
<1>1. \A o \in Before(k) : o[1] # R!Link[k]
  <2>1. SUFFICES ASSUME NEW o \in Before(k), o[1] = R!Link[k] PROVE FALSE
    OBVIOUS
  <2>2. PICK j \in 2 .. k - 1 : o \in Row(R!Link[j], Size[j])
    BY DEF Before
  <2>3. j \in 1 .. 7 /\ k \in 1 .. 7 /\ j # k
    OBVIOUS
  <2>4. R!Link[j] = R!Link[k]
    BY <2>1, <2>2, RowNames
  <2> QED BY <2>3, <2>4, Links
<1>2. {o \in built : o[1] = R!Link[k]} = Row(R!Link[k], n)
  BY <1>1, RowNames
<1>3. Row(R!Link[k], n + 1) = Row(R!Link[k], n) \cup {<<R!Link[k], n>>}
  BY RowGrows
<1>4. <<R!Link[k], n>> \notin built
  <2>1. <<R!Link[k], n>> \notin Before(k)
    BY <1>1
  <2>2. <<R!Link[k], n>> \notin Row(R!Link[k], n)
    BY RowGrows
  <2> QED BY <2>1, <2>2
<1>5. Cardinality(Row(R!Link[k], n)) = n
  BY RowCardinality
<1>6. Before(k + 1) = Before(k) \cup Row(R!Link[k], Size[k])
  BY BeforeGrows
<1> QED BY <1>2, <1>3, <1>4, <1>5, <1>6

\* Everything built belongs to the renderer's objects.
LEMMA BuiltAreObjects ==
    ASSUME NEW k \in 1 .. 7, NEW n \in Nat, n < Size[k]
    PROVE  Before(k) \subseteq R!Objects /\ (k > 1 => Row(R!Link[k], n) \subseteq R!Objects)
<1>1. 2 .. k - 1 \subseteq 2 .. 8 - 1
  OBVIOUS
<1>2. Before(k) \subseteq Before(8)
  BY <1>1 DEF Before
<1>3. ASSUME k > 1 PROVE Row(R!Link[k], n) \subseteq Before(8)
  <2>1. Size[k] \in Nat /\ k \in 2 .. 8 - 1
    BY <1>3, Links
  <2>2. 0 .. n - 1 \subseteq 0 .. Size[k] - 1
    BY <2>1
  <2>3. Row(R!Link[k], n) \subseteq Row(R!Link[k], Size[k])
    BY <2>2 DEF Row
  <2> QED BY <2>1, <2>3 DEF Before
<1> QED BY <1>2, <1>3, PartIsRow

\* Initialize is at one link, or gave up at one.
LEMMA StageIsOne ==
    /\ \A i, j \in 1 .. 7 : Stage(i) /\ Stage(j) => i = j
    /\ \A j \in 1 .. 7 : Stage(j) => step # "ok"
<1>1. \A k \in 1 .. 7 : "error" \notin StepsOf[k] /\ "ok" \notin StepsOf[k]
  BY DEF StepsOf
<1>2. \A j, k \in 1 .. 7 : \A s \in StepsOf[j] : s \in StepsOf[k] => j = k
  BY DEF StepsOf
<1> QED BY <1>1, <1>2, Links DEF Stage
-----------------------------------------------------------------------------
(* The steps of the renderer.                                              *)

\* The invariant of the links from the link Initialize is at,
LEMMA LinkIs ==
    ASSUME NEW k \in 1 .. 7, Stage(k)', (k = 1 <=> device = None)',
           NEW n \in Nat, n < Size[k], built' = Before(k) \cup Row(R!Link[k], n)
    PROVE  LinkInv'
<1>1. (\A i, j \in 1 .. 7 : Stage(i) /\ Stage(j) => i = j)'
  BY StageIsOne, PTL
<1>2. (\A j \in 1 .. 7 : Stage(j) => step # "ok")'
  BY StageIsOne, PTL
<1>3. ASSUME NEW j \in 1 .. 7, Stage(j)' PROVE j = k
  BY <1>1, <1>3
<1>4. step' # "ok"
  BY <1>2
<1>5. ASSUME NEW j \in 1 .. 7, Stage(j)'
      PROVE  /\ j = 1 <=> device' = None
             /\ \E m \in Nat : m < Size[j] /\ built' = Before(j) \cup Row(R!Link[j], m)
  BY <1>3, <1>5
<1> HIDE DEF Stage
<1> QED BY <1>4, <1>5 DEF LinkInv

\* which goes on at the same link,
LEMMA LinkStays ==
    ASSUME LinkInv, NEW k \in 1 .. 7, Stage(k), Stage(k)', UNCHANGED <<device, built>>
    PROVE  LinkInv'
<1>1. (k = 1 <=> device = None)
      /\ \E n \in Nat : n < Size[k] /\ built = Before(k) \cup Row(R!Link[k], n)
  BY DEF LinkInv
<1>2. PICK n \in Nat : n < Size[k] /\ built = Before(k) \cup Row(R!Link[k], n)
  BY <1>1
<1> QED BY <1>1, <1>2, LinkIs

\* or has made its next object, and goes to the next link with the last one.
LEMMA LinkAdvances ==
    ASSUME LinkInv, NEW k \in 2 .. 7, Stage(k), UNCHANGED device,
           NEW n, n = Cardinality({o \in built : o[1] = R!Link[k]}),
           built' = built \cup {<<R!Link[k], n>>},
           IF n + 1 # Size[k] THEN Stage(k)' ELSE IF k = 7 THEN step' = "ok" ELSE Stage(k + 1)'
    PROVE  LinkInv' /\ built' \subseteq R!Objects
<1>1. (k = 1 <=> device = None)
      /\ \E m \in Nat : m < Size[k] /\ built = Before(k) \cup Row(R!Link[k], m)
  BY DEF LinkInv
<1>2. PICK m \in Nat : m < Size[k] /\ built = Before(k) \cup Row(R!Link[k], m)
  BY <1>1
<1>3. /\ n = m
      /\ built' = Before(k) \cup Row(R!Link[k], n + 1)
      /\ n + 1 = Size[k] => built' = Before(k + 1)
  <2>1. /\ Cardinality({o \in built : o[1] = R!Link[k]}) = m
        /\ built \cup {<<R!Link[k], m>>} = Before(k) \cup Row(R!Link[k], m + 1)
        /\ m + 1 = Size[k] => built \cup {<<R!Link[k], m>>} = Before(k + 1)
    BY <1>2, NextObject
  <2> QED BY <2>1
<1>4. Size[k] \in Nat \ {0} /\ device' # None /\ k \in 1 .. 7 /\ k # 1
  BY <1>1, Links
<1>5. CASE n + 1 # Size[k]
  <2>1. n + 1 \in Nat /\ n + 1 < Size[k] /\ Stage(k)'
    BY <1>2, <1>3, <1>4, <1>5
  <2>2. LinkInv'
    BY <1>3, <1>4, <2>1, LinkIs
  <2>3. built' \subseteq R!Objects
    <3>1. k > 1 /\ n + 1 \in Nat /\ n + 1 < Size[k]
      BY <1>4, <2>1
    <3>2. Before(k) \subseteq R!Objects /\ Row(R!Link[k], n + 1) \subseteq R!Objects
      BY <1>4, <3>1, BuiltAreObjects
    <3> QED BY <1>3, <3>2
  <2> QED BY <2>2, <2>3
<1>6. CASE n + 1 = Size[k] /\ k # 7
  <2>1. k + 1 \in 2 .. 7 /\ k + 1 \in 1 .. 7 /\ k + 1 # 1
    BY <1>6
  <2>2. Stage(k + 1)'
    BY <1>6
  <2>3. 0 \in Nat /\ 0 < Size[k + 1]
    BY <2>1, Links
  <2>4. Row(R!Link[k + 1], 0) = {}
    BY RowGrows
  <2>5. built' = Before(k + 1) \cup Row(R!Link[k + 1], 0)
    BY <1>3, <1>6, <2>4
  <2>6. LinkInv'
    BY <1>4, <2>1, <2>2, <2>3, <2>5, LinkIs
  <2>7. Before(k + 1) \subseteq R!Objects
    BY <2>1, <2>3, BuiltAreObjects
  <2> QED BY <1>3, <1>6, <2>6, <2>7
<1>7. CASE n + 1 = Size[k] /\ k = 7
  <2>1. step' = "ok" /\ built' = Before(8)
    BY <1>3, <1>7
  <2>2. (\A j \in 1 .. 7 : Stage(j) => step # "ok")'
    BY StageIsOne, PTL
  <2> QED BY <1>4, <2>1, <2>2, PartIsRow DEF LinkInv
<1> QED BY <1>5, <1>6, <1>7

\* A call that makes one object, and may be refused.
LEMMA CreateNext ==
    ASSUME LinkInv, NEW k \in 2 .. 4, NEW next, next \in StepsOf[k + 1],
           R!Link[k] \in StepsOf[k], R!Create(R!Link[k], next), UNCHANGED device
    PROVE  LinkInv' /\ built' \subseteq R!Objects \cup built
<1> DEFINE n == Cardinality({o \in built : o[1] = R!Link[k]})
<1>1. k \in 1 .. 7 /\ k \in 2 .. 7 /\ k # 7 /\ Size[k] = 1
  BY DEF Size
<1>2. Stage(k)
  BY DEF R!Create, R!At, Stage
<1>3. CASE built' = built \cup {<<R!Link[k], 0>>} /\ step' = next
  <2>1. \E m \in Nat : m < Size[k] /\ built = Before(k) \cup Row(R!Link[k], m)
    BY <1>1, <1>2 DEF LinkInv
  <2>2. built = Before(k) \cup Row(R!Link[k], 0) /\ 0 \in Nat
    BY <1>1, <2>1
  <2>3. n = 0
    BY <1>1, <2>2, NextObject
  <2>4. Stage(k + 1)'
    BY <1>3 DEF Stage
  <2> HIDE DEF n
  <2>5. n + 1 = Size[k] /\ built' = built \cup {<<R!Link[k], n>>}
    BY <1>1, <1>3, <2>3
  <2>6. LinkInv' /\ built' \subseteq R!Objects
    BY <1>1, <1>2, <2>4, <2>5, LinkAdvances DEF n
  <2> QED BY <2>6
<1>4. CASE step' = "error" /\ error' = R!Link[k] /\ UNCHANGED built
  <2>1. Stage(k)'
    BY <1>4 DEF Stage
  <2> QED BY <1>1, <1>2, <1>4, <2>1, LinkStays
<1> QED BY <1>3, <1>4 DEF R!Create, R!Goto, R!Fail

\* A turn of a loop over objects.
LEMMA NextOfNext ==
    ASSUME LinkInv, NEW k \in 5 .. 7, NEW all, all = Row(R!Link[k], Size[k]), NEW next,
           IF k = 7 THEN next = "ok" ELSE next \in StepsOf[k + 1],
           R!Link[k] \in StepsOf[k], R!NextOf(R!Link[k], all, next), UNCHANGED device
    PROVE  LinkInv' /\ built' \subseteq R!Objects \cup built
<1> DEFINE n == Cardinality({o \in built : o[1] = R!Link[k]})
<1>1. k \in 1 .. 7 /\ k \in 2 .. 7 /\ Size[k] \in Nat
  BY Links
<1>2. Stage(k)
  BY DEF R!NextOf, R!At, Stage
<1>3. Cardinality(all) = Size[k]
  BY <1>1, RowCardinality
<1>4. CASE /\ built' = built \cup {<<R!Link[k], n>>}
           /\ step' = IF n + 1 = Size[k] THEN next ELSE R!Link[k]
  <2>1. IF n + 1 # Size[k] THEN Stage(k)' ELSE IF k = 7 THEN step' = "ok" ELSE Stage(k + 1)'
    BY <1>4 DEF Stage
  <2>2. built' = built \cup {<<R!Link[k], n>>}
    BY <1>4
  <2> HIDE DEF n
  <2>6. LinkInv' /\ built' \subseteq R!Objects
    BY <1>1, <1>2, <2>1, <2>2, LinkAdvances DEF n
  <2> QED BY <2>6
<1>5. CASE step' = "error" /\ error' = R!Link[k] /\ UNCHANGED built
  <2>1. Stage(k)'
    BY <1>5 DEF Stage
  <2> QED BY <1>1, <1>2, <1>5, <2>1, LinkStays
<1>6. \/ built' = built \cup {<<R!Link[k], n>>} /\ step' = IF n + 1 = Cardinality(all) THEN next ELSE R!Link[k]
      \/ step' = "error" /\ error' = R!Link[k] /\ UNCHANGED built
  BY DEF R!NextOf, R!Goto, R!Fail, R!Cardinality, Cardinality
<1> HIDE DEF n
<1> QED BY <1>3, <1>4, <1>5, <1>6

\* The names of the links, and the sets a step and an error are from.
LEMMA LinkNames ==
    /\ R!Link[1] = "device" /\ R!Link[2] = "cmd_queue" /\ R!Link[3] = "swapchain"
    /\ R!Link[4] = "rtv_desc_heap" /\ R!Link[5] = "target" /\ R!Link[6] = "allocator"
    /\ R!Link[7] = "list"
    /\ \A k \in 1 .. 7 : StepsOf[k] \subseteq R!Steps
<1>1. /\ R!Link[1] = "device" /\ R!Link[2] = "cmd_queue" /\ R!Link[3] = "swapchain"
      /\ R!Link[4] = "rtv_desc_heap" /\ R!Link[5] = "target" /\ R!Link[6] = "allocator"
      /\ R!Link[7] = "list"
  BY DEF R!Link
<1>2. 2 .. 7 = {2, 3, 4, 5, 6, 7} /\ 1 .. 7 = {1, 2, 3, 4, 5, 6, 7}
  OBVIOUS
<1>3. {R!Link[i] : i \in 2 .. 7} = {"cmd_queue", "swapchain", "rtv_desc_heap", "target", "allocator", "list"}
  BY <1>1, <1>2
<1>4. R!Steps = {"none", "factory", "enumerate", "hardware", "software", "swapchain_factory", "cmd_queue",
                 "swapchain", "rtv_desc_heap", "target", "allocator", "list"} \cup {"ok", "error"}
  BY <1>3 DEF R!Steps
<1> QED BY <1>1, <1>4 DEF StepsOf

\* Every action of the renderer keeps the types, and what is known of the links and of
\* the choice of the adapter.
LEMMA RendererNext ==
    R!TypeOK /\ LinkInv /\ ChoiceInv /\ (R!Begin \/ R!Initialize)
        => R!TypeOK' /\ LinkInv' /\ ChoiceInv'
<1> SUFFICES ASSUME R!TypeOK, LinkInv, ChoiceInv, R!Begin \/ R!Initialize
             PROVE  R!TypeOK' /\ LinkInv' /\ ChoiceInv'
  OBVIOUS
<1>t. /\ step \in R!Steps /\ hardware \subseteq Adapters /\ software \subseteq Adapters
      /\ refused \subseteq Adapters /\ device \in Adapters \cup {None} /\ built \subseteq R!Objects
      /\ rtvIdx \in R!Buffers /\ error \in {"none"} \cup {R!Link[i] : i \in 1 .. 7}
  BY DEF R!TypeOK
<1>e. \A k \in 1 .. 7 : R!Link[k] \in {"none"} \cup {R!Link[i] : i \in 1 .. 7}
  OBVIOUS
<1>s. \A k \in 1 .. 7 : StepsOf[k] \subseteq R!Steps
  BY LinkNames
<1>o. {"ok", "error"} \subseteq R!Steps
  BY DEF R!Steps
<1>k. /\ StepsOf[1] = {"none", "factory", "enumerate", "hardware", "software"} /\ StepsOf[2] = {"cmd_queue"}
      /\ StepsOf[3] = {"swapchain_factory", "swapchain"} /\ StepsOf[4] = {"rtv_desc_heap"}
      /\ StepsOf[5] = {"target"} /\ StepsOf[6] = {"allocator"} /\ StepsOf[7] = {"list"}
  BY DEF StepsOf
\* Up to the device.
<1>1. ASSUME step \in StepsOf[1], UNCHANGED <<device, built>>, Stage(1)'
      PROVE  LinkInv'
  <2>1. Stage(1)
    BY <1>1 DEF Stage
  <2> QED BY <1>1, <2>1, LinkStays
<1>2. ASSUME step \in StepsOf[1] PROVE device = None /\ built = {}
  <2>1. Stage(1)
    BY <1>2 DEF Stage
  <2>2. 1 \in 1 .. 7 /\ Size[1] = 1
    BY DEF Size
  <2>3. device = None /\ \E n \in Nat : n < Size[1] /\ built = Before(1) \cup Row(R!Link[1], n)
    BY <2>1, <2>2 DEF LinkInv
  <2>4. built = Before(1) \cup Row(R!Link[1], 0)
    BY <2>2, <2>3
  <2> QED BY <2>3, <2>4, BeforeGrows, RowGrows
<1>3. CASE R!Begin
  <2>1. /\ step = "none" /\ step' = "factory" /\ UNCHANGED <<hardware, software, refused, device, built, rtvIdx, error>>
    BY <1>3 DEF R!Begin, R!At, R!Goto, R!choice, R!objects
  <2>2. Stage(1)'
    BY <2>1, <1>k DEF Stage
  <2>3. step' \in R!Steps
    BY <2>1, <1>k, <1>s
  <2>4. LinkInv'
    BY <1>1, <2>1, <2>2, <1>k
  <2>5. ChoiceInv'
    BY <2>1 DEF ChoiceInv, HardwareFirst, R!HardwareFirst
  <2> QED BY <1>t, <2>1, <2>3, <2>4, <2>5 DEF R!TypeOK
<1>4. CASE R!CreateDXGIFactory
  <2>1. /\ step = "factory" /\ UNCHANGED <<hardware, software, refused, device, built, rtvIdx>>
        /\ \/ step' = "enumerate" /\ UNCHANGED error
           \/ step' = "error" /\ error' = R!Link[1]
    BY <1>4, LinkNames DEF R!CreateDXGIFactory, R!At, R!Goto, R!Fail, R!choice, R!objects
  <2>2. Stage(1)'
    BY <2>1, <1>k DEF Stage
  <2>3. step' \in R!Steps
    BY <2>1, <1>k, <1>s, <1>o
  <2>4. LinkInv'
    BY <1>1, <2>1, <2>2, <1>k
  <2>5. ChoiceInv'
    BY <2>1 DEF ChoiceInv, HardwareFirst, R!HardwareFirst
  <2> QED BY <1>t, <1>e, <2>1, <2>3, <2>4, <2>5 DEF R!TypeOK
<1>5. CASE \E a \in Adapters : R!EnumAdapter(a)
  <2>1. PICK a \in Adapters : R!EnumAdapter(a)
    BY <1>5
  <2>2. /\ step = "enumerate" /\ a \notin hardware \cup software
        /\ \/ hardware' = hardware \cup {a} /\ UNCHANGED software
           \/ software' = software \cup {a} /\ UNCHANGED hardware
        /\ UNCHANGED <<step, refused, device, built, rtvIdx, error>>
    BY <2>1 DEF R!EnumAdapter, R!At, R!objects
  <2>3. Stage(1)'
    BY <2>2, <1>k DEF Stage
  <2>4. LinkInv' /\ device = None
    BY <1>1, <1>2, <2>2, <2>3, <1>k
  <2>5. ChoiceInv'
    BY <2>2, <2>4, <1>t, AdaptersAssumption DEF ChoiceInv, HardwareFirst, R!HardwareFirst
  <2> QED BY <1>t, <2>2, <2>4, <2>5 DEF R!TypeOK
<1>6. CASE R!EnumEnds \/ R!NoHardware \/ R!NoAdapter
  <2>1. /\ UNCHANGED <<hardware, software, refused, device, built, rtvIdx>>
        /\ \/ step = "enumerate" /\ step' = "hardware" /\ UNCHANGED error
           \/ step = "hardware" /\ step' = "software" /\ hardware \subseteq refused /\ UNCHANGED error
           \/ step = "software" /\ step' = "error" /\ error' = R!Link[1]
    BY <1>6, LinkNames DEF R!EnumEnds, R!NoHardware, R!NoAdapter, R!At, R!Goto, R!Fail, R!choice, R!objects
  <2>2. Stage(1)' /\ step \in StepsOf[1]
    BY <2>1, <1>k DEF Stage
  <2>3. step' \in R!Steps
    BY <2>1, <1>k, <1>s, <1>o
  <2>4. LinkInv'
    BY <1>1, <2>1, <2>2
  <2>5. ChoiceInv'
    BY <2>1 DEF ChoiceInv, HardwareFirst, R!HardwareFirst
  <2> QED BY <1>t, <1>e, <2>1, <2>3, <2>4, <2>5 DEF R!TypeOK
<1>7. CASE R!TryHardware \/ R!TrySoftware
  <2>1. PICK a \in Adapters :
            /\ \/ step = "hardware" /\ a \in hardware
               \/ step = "software" /\ a \in software
            /\ R!TryAdapter(a)
    BY <1>7, <1>t DEF R!TryHardware, R!TrySoftware, R!At
  <2>2. /\ UNCHANGED <<hardware, software, built, rtvIdx, error>>
        /\ \/ device' = a /\ step' = "cmd_queue" /\ UNCHANGED refused
           \/ refused' = refused \cup {a} /\ UNCHANGED <<step, device>>
    BY <2>1 DEF R!TryAdapter, R!Goto, R!objects
  <2>3. step \in StepsOf[1] /\ step' \in R!Steps /\ device = None /\ built = {}
    BY <2>1, <2>2, <1>2, <1>k, <1>s, <1>t
  <2>4. ASSUME device' = a, step' = "cmd_queue" PROVE LinkInv'
    <3>1. Stage(2)'
      BY <2>4, <1>k DEF Stage
    <3>2. device' # None
      BY <2>4, AdaptersAssumption
    <3>3. 0 \in Nat /\ 0 < Size[2] /\ 2 \in 1 .. 7
      BY DEF Size
    <3>4. built' = Before(2) \cup Row(R!Link[2], 0)
      BY <2>2, <2>3, BeforeGrows, RowGrows
    <3> QED BY <3>1, <3>2, <3>3, <3>4, LinkIs
  <2>5. ASSUME UNCHANGED <<step, device>> PROVE LinkInv'
    <3>1. Stage(1)'
      BY <2>3, <2>5 DEF Stage
    <3> QED BY <1>1, <2>2, <2>3, <2>5, <3>1
  <2>6. LinkInv'
    BY <2>2, <2>4, <2>5
  <2>7. ChoiceInv'
    BY <2>1, <2>2, <2>3, <1>t, AdaptersAssumption DEF ChoiceInv, HardwareFirst, R!HardwareFirst
  <2>8. refused' \subseteq Adapters /\ device' \in Adapters \cup {None}
    BY <1>t, <2>2
  <2>9. R!TypeOK'
    BY <1>t, <2>2, <2>3, <2>8 DEF R!TypeOK
  <2> QED BY <2>6, <2>7, <2>9
\* The links after it.
<1>8. ASSUME LinkInv', built' \subseteq R!Objects \cup built, step' \in R!Steps, step \notin StepsOf[1],
             step' \notin StepsOf[1], rtvIdx' \in R!Buffers,
             error' \in {"none"} \cup {R!Link[i] : i \in 1 .. 7},
             UNCHANGED <<hardware, software, refused, device>>
      PROVE  R!TypeOK' /\ LinkInv' /\ ChoiceInv'
  <2>1. ChoiceInv'
    BY <1>8, <1>k DEF ChoiceInv, HardwareFirst, R!HardwareFirst
  <2>2. built' \subseteq R!Objects
    BY <1>8, <1>t
  <2>3. R!TypeOK'
    BY <1>8, <1>t, <2>2 DEF R!TypeOK
  <2> QED BY <1>8, <2>1, <2>3
<1>9. CASE R!InitializeCommandQueue
  <2>1. R!Create(R!Link[2], "swapchain_factory") /\ UNCHANGED <<hardware, software, refused, device, rtvIdx>>
    BY <1>9, LinkNames DEF R!InitializeCommandQueue, R!choice
  <2>2. /\ step = "cmd_queue" /\ step' \in {"swapchain_factory", "error"}
        /\ error' \in {error, R!Link[2]}
    BY <2>1, LinkNames DEF R!Create, R!At, R!Goto, R!Fail
  <2>3. LinkInv' /\ built' \subseteq R!Objects \cup built
    <3>1. 2 \in 2 .. 4 /\ "swapchain_factory" \in StepsOf[2 + 1] /\ R!Link[2] \in StepsOf[2]
      BY LinkNames, <1>k
    <3> QED BY <2>1, <3>1, CreateNext
  <2>4. step' \in R!Steps /\ step \notin StepsOf[1] /\ step' \notin StepsOf[1]
    BY <2>2, <1>k, <1>s, <1>o
  <2> QED BY <1>8, <1>t, <1>e, <2>1, <2>2, <2>3, <2>4
<1>10. CASE R!SwapChainFactory
  <2>1. /\ step = "swapchain_factory" /\ UNCHANGED <<hardware, software, refused, device, built, rtvIdx>>
        /\ \/ step' = "swapchain" /\ UNCHANGED error
           \/ step' = "error" /\ error' = R!Link[3]
    BY <1>10, LinkNames DEF R!SwapChainFactory, R!At, R!Goto, R!Fail, R!choice, R!objects
  <2>2. Stage(3) /\ Stage(3)'
    BY <2>1, <1>k DEF Stage
  <2>3. LinkInv'
    BY <2>1, <2>2, LinkStays
  <2>4. step' \in R!Steps /\ step \notin StepsOf[1] /\ step' \notin StepsOf[1]
    BY <2>1, <1>k, <1>s, <1>o
  <2> QED BY <1>8, <1>t, <1>e, <2>1, <2>3, <2>4
<1>11. CASE R!InitializeSwapChain
  <2>1. /\ R!Create(R!Link[3], "rtv_desc_heap") /\ UNCHANGED <<hardware, software, refused, device>>
        /\ rtvIdx' \in R!Buffers
    BY <1>11, <1>t, LinkNames DEF R!InitializeSwapChain, R!choice
  <2>2. /\ step = "swapchain" /\ step' \in {"rtv_desc_heap", "error"}
        /\ error' \in {error, R!Link[3]}
    BY <2>1, LinkNames DEF R!Create, R!At, R!Goto, R!Fail
  <2>3. LinkInv' /\ built' \subseteq R!Objects \cup built
    <3>1. 3 \in 2 .. 4 /\ "rtv_desc_heap" \in StepsOf[3 + 1] /\ R!Link[3] \in StepsOf[3]
      BY LinkNames, <1>k
    <3> QED BY <2>1, <3>1, CreateNext
  <2>4. step' \in R!Steps /\ step \notin StepsOf[1] /\ step' \notin StepsOf[1]
    BY <2>2, <1>k, <1>s, <1>o
  <2> QED BY <1>8, <1>t, <1>e, <2>1, <2>2, <2>3, <2>4
<1>12. CASE R!InitializeRTVDescriptorHeap
  <2>1. R!Create(R!Link[4], "target") /\ UNCHANGED <<hardware, software, refused, device, rtvIdx>>
    BY <1>12, LinkNames DEF R!InitializeRTVDescriptorHeap, R!choice
  <2>2. /\ step = "rtv_desc_heap" /\ step' \in {"target", "error"}
        /\ error' \in {error, R!Link[4]}
    BY <2>1, LinkNames DEF R!Create, R!At, R!Goto, R!Fail
  <2>3. LinkInv' /\ built' \subseteq R!Objects \cup built
    <3>1. 4 \in 2 .. 4 /\ "target" \in StepsOf[4 + 1] /\ R!Link[4] \in StepsOf[4]
      BY LinkNames, <1>k
    <3> QED BY <2>1, <3>1, CreateNext
  <2>4. step' \in R!Steps /\ step \notin StepsOf[1] /\ step' \notin StepsOf[1]
    BY <2>2, <1>k, <1>s, <1>o
  <2> QED BY <1>8, <1>t, <1>e, <2>1, <2>2, <2>3, <2>4
<1>13. CASE R!InitializeRenderTargets
  <2>1. R!NextOf(R!Link[5], R!Targets, "allocator") /\ UNCHANGED <<hardware, software, refused, device, rtvIdx>>
    BY <1>13, LinkNames DEF R!InitializeRenderTargets, R!choice
  <2>2. /\ step = "target" /\ step' \in {"target", "allocator", "error"}
        /\ error' \in {error, R!Link[5]}
    BY <2>1, LinkNames DEF R!NextOf, R!At, R!Goto, R!Fail
  <2>3. LinkInv' /\ built' \subseteq R!Objects \cup built
    <3>1. 5 \in 5 .. 7 /\ R!Link[5] \in StepsOf[5] /\ "allocator" \in StepsOf[5 + 1] /\ 5 # 7
      BY LinkNames, <1>k
    <3>2. R!Targets = Row(R!Link[5], Size[5])
      BY LinkNames, PartIsRow DEF Size
    <3> QED BY <2>1, <3>1, <3>2, NextOfNext
  <2>4. step' \in R!Steps /\ step \notin StepsOf[1] /\ step' \notin StepsOf[1]
    BY <2>2, <1>k, <1>s, <1>o
  <2> QED BY <1>8, <1>t, <1>e, <2>1, <2>2, <2>3, <2>4
<1>14. CASE R!InitializeCommandAllocators
  <2>1. R!NextOf(R!Link[6], R!Allocators, "list") /\ UNCHANGED <<hardware, software, refused, device, rtvIdx>>
    BY <1>14, LinkNames DEF R!InitializeCommandAllocators, R!choice
  <2>2. /\ step = "allocator" /\ step' \in {"allocator", "list", "error"}
        /\ error' \in {error, R!Link[6]}
    BY <2>1, LinkNames DEF R!NextOf, R!At, R!Goto, R!Fail
  <2>3. LinkInv' /\ built' \subseteq R!Objects \cup built
    <3>1. 6 \in 5 .. 7 /\ R!Link[6] \in StepsOf[6] /\ "list" \in StepsOf[6 + 1] /\ 6 # 7
      BY LinkNames, <1>k
    <3>2. R!Allocators = Row(R!Link[6], Size[6])
      BY LinkNames, PartIsRow DEF Size
    <3> QED BY <2>1, <3>1, <3>2, NextOfNext
  <2>4. step' \in R!Steps /\ step \notin StepsOf[1] /\ step' \notin StepsOf[1]
    BY <2>2, <1>k, <1>s, <1>o
  <2> QED BY <1>8, <1>t, <1>e, <2>1, <2>2, <2>3, <2>4
<1>15. CASE R!InitializeCommandLists
  <2>1. R!NextOf(R!Link[7], R!CommandLists, "ok") /\ UNCHANGED <<hardware, software, refused, device, rtvIdx>>
    BY <1>15, LinkNames DEF R!InitializeCommandLists, R!choice
  <2>2. /\ step = "list" /\ step' \in {"list", "ok", "error"}
        /\ error' \in {error, R!Link[7]}
    BY <2>1, LinkNames DEF R!NextOf, R!At, R!Goto, R!Fail
  <2>3. LinkInv' /\ built' \subseteq R!Objects \cup built
    <3>1. 7 \in 5 .. 7 /\ R!Link[7] \in StepsOf[7] /\ "ok" = "ok"
      BY LinkNames, <1>k
    <3>2. R!CommandLists = Row(R!Link[7], Size[7])
      BY LinkNames, PartIsRow DEF Size
    <3> QED BY <2>1, <3>1, <3>2, NextOfNext
  <2>4. step' \in R!Steps /\ step \notin StepsOf[1] /\ step' \notin StepsOf[1]
    BY <2>2, <1>k, <1>s, <1>o
  <2> QED BY <1>8, <1>t, <1>e, <2>1, <2>2, <2>3, <2>4
<1> QED BY <1>3, <1>4, <1>5, <1>6, <1>7, <1>9, <1>10, <1>11, <1>12, <1>13, <1>14, <1>15
       DEF R!Initialize
-----------------------------------------------------------------------------
(* The steps of the main thread.                                           *)

\* An assertion, its box, and where the program goes on after it.
LEMMA Boxed ==
    /\ Asserts = {"class", "window", "renderer"}
    /\ Box["class"] = "class_box" /\ Box["window"] = "window_box" /\ Box["renderer"] = "renderer_box"
    /\ After["class"] = "window" /\ After["window"] = "show" /\ After["renderer"] = "loop"
    /\ Boxes = {"class_box", "window_box", "renderer_box"}
<1>1. /\ Asserts = {"class", "window", "renderer"}
      /\ Box["class"] = "class_box" /\ Box["window"] = "window_box" /\ Box["renderer"] = "renderer_box"
      /\ After["class"] = "window" /\ After["window"] = "show" /\ After["renderer"] = "loop"
  BY DEF Asserts, Box, After
<1> QED BY <1>1 DEF Boxes

\* Steps that leave the renderer alone.
LEMMA RendererSame ==
    R!TypeOK /\ LinkInv /\ ChoiceInv /\ UNCHANGED renderer => R!TypeOK' /\ LinkInv' /\ ChoiceInv'
<1> SUFFICES ASSUME R!TypeOK, LinkInv, ChoiceInv, UNCHANGED renderer
             PROVE  R!TypeOK' /\ LinkInv' /\ ChoiceInv'
  OBVIOUS
<1>1. UNCHANGED <<step, hardware, software, refused, device, built, rtvIdx, error>>
  BY DEF renderer
<1>2. R!TypeOK'
  BY <1>1 DEF R!TypeOK
<1>3. LinkInv'
  BY <1>1 DEF LinkInv, Stage
<1>4. ChoiceInv'
  BY <1>1 DEF ChoiceInv, HardwareFirst, R!HardwareFirst
<1> QED BY <1>2, <1>3, <1>4

\* Every step keeps the invariant.
LEMMA NextIInv == IInv /\ [Next]_vars => IInv'
<1> SUFFICES ASSUME TypeOK, LinkInv, ChoiceInv, MainInv, [Next]_vars PROVE IInv'
  BY DEF IInv
<1> DEFINE MainTypes ==
        /\ at \in Points
        /\ runtime \in {"none", "live", "dead"} /\ gRuntime \in BOOLEAN
        /\ window \in {"none", "open", "closed"} /\ quit \in BOOLEAN /\ manager \in BOOLEAN
        /\ failed \subseteq Asserts /\ passed \subseteq Asserts
<1>t. MainTypes /\ R!TypeOK
  BY DEF TypeOK
<1>p. Points = {"runtime", "set_runtime", "class", "window", "show", "manager", "renderer",
                "loop", "returned", "ended", "class_box", "window_box", "renderer_box"}
  BY Boxed DEF Points
<1>m. /\ at \in {"show", "manager", "renderer", "renderer_box", "loop"} /\ window = "none" => "window" \in passed
      /\ at = "renderer_box" => step = "error"
      /\ at = "loop" => step \in {"ok", "error"} /\ (step = "error" => "renderer" \in passed)
      /\ at \notin {"runtime", "ended"} => runtime = "live"
      /\ at \notin {"runtime", "set_runtime", "ended"} => gRuntime
      /\ at \in {"renderer", "renderer_box", "loop"} => manager
  BY DEF MainInv
<1>s. ASSUME MainTypes', MainInv', UNCHANGED renderer PROVE IInv'
  <2>1. R!TypeOK' /\ LinkInv' /\ ChoiceInv'
    BY <1>t, <1>s, RendererSame
  <2> QED BY <1>s, <2>1 DEF IInv, TypeOK
<1>r. ASSUME MainTypes', MainInv', R!Begin \/ R!Initialize PROVE IInv'
  <2>1. R!TypeOK' /\ LinkInv' /\ ChoiceInv'
    BY <1>t, <1>r, RendererNext
  <2> QED BY <1>r, <2>1 DEF IInv, TypeOK
<1>1. CASE MakeRuntime
  <2>1. UNCHANGED renderer /\ MainTypes'
    BY <1>1, <1>t, <1>p DEF MakeRuntime, From, user, asserts
  <2>2. MainInv'
    BY <1>1, <1>t, <1>p, <1>m DEF MakeRuntime, From, user, asserts, MainInv
  <2> QED BY <1>s, <2>1, <2>2
<1>2. CASE SetRuntime
  <2>1. UNCHANGED renderer /\ MainTypes'
    BY <1>2, <1>t, <1>p DEF SetRuntime, From, user, asserts
  <2>2. MainInv'
    BY <1>2, <1>t, <1>p, <1>m DEF SetRuntime, From, user, asserts, MainInv
  <2> QED BY <1>s, <2>1, <2>2
<1>3. CASE RegisterClass
  <2>1. /\ at = "class" /\ at' \in {"window", "class_box"} /\ failed' \in {failed, failed \cup {"class"}}
        /\ UNCHANGED <<runtime, gRuntime, window, quit, manager, passed, renderer>>
    BY <1>3, Boxed DEF RegisterClass, Assert, tasks, user, asserts
  <2>2. MainTypes'
    BY <2>1, <1>t, <1>p, Boxed
  <2>3. MainInv'
    BY <2>1, <1>m DEF MainInv
  <2> QED BY <1>s, <2>1, <2>2, <2>3
<1>4. CASE CreateWindow
  <2>1. /\ at = "window" /\ failed' \in {failed, failed \cup {"window"}}
        /\ \/ window' = "open" /\ at' = "show"
           \/ window' = "none" /\ at' = "window_box"
        /\ UNCHANGED <<runtime, gRuntime, quit, manager, passed, renderer>>
    BY <1>4, Boxed DEF CreateWindow, Assert, tasks, asserts
  <2>2. MainTypes'
    BY <2>1, <1>t, <1>p, Boxed
  <2>3. MainInv'
    BY <2>1, <1>m DEF MainInv
  <2> QED BY <1>s, <2>1, <2>2, <2>3
<1>5. CASE ShowWindow
  <2>1. UNCHANGED renderer /\ MainTypes'
    BY <1>5, <1>t, <1>p DEF ShowWindow, From, tasks, user, asserts
  <2>2. MainInv'
    BY <1>5, <1>m DEF ShowWindow, From, tasks, user, asserts, MainInv
  <2> QED BY <1>s, <2>1, <2>2
<1>6. CASE InitializeManager
  <2>1. /\ at = "manager" /\ at' = "renderer" /\ manager' = TRUE /\ R!Begin
        /\ UNCHANGED <<runtime, gRuntime, window, quit, failed, passed>>
    BY <1>6 DEF InitializeManager, From, tasks, user, asserts
  <2>2. MainTypes'
    BY <2>1, <1>t, <1>p
  <2>3. MainInv'
    BY <2>1, <1>m DEF MainInv
  <2> QED BY <1>r, <2>1, <2>2, <2>3
<1>7. CASE InitializeRenderer
  <2>1. /\ at = "renderer" /\ R!Initialize
        /\ UNCHANGED <<at, runtime, gRuntime, window, quit, manager, failed, passed>>
    BY <1>7 DEF InitializeRenderer, tasks, user, asserts
  <2>2. MainTypes'
    BY <2>1, <1>t
  <2>3. MainInv'
    BY <2>1, <1>m DEF MainInv
  <2> QED BY <1>r, <2>1, <2>2, <2>3
<1>8. CASE CheckRenderer
  <2>1. /\ at = "renderer" /\ step \in {"ok", "error"} /\ failed' \in {failed, failed \cup {"renderer"}}
        /\ \/ step = "ok" /\ at' = "loop"
           \/ step = "error" /\ at' = "renderer_box"
        /\ UNCHANGED <<runtime, gRuntime, window, quit, manager, passed, renderer>>
    BY <1>8, Boxed DEF CheckRenderer, Assert, R!Returned, tasks, user, asserts
  <2>2. MainTypes'
    BY <2>1, <1>t, <1>p, Boxed
  <2>3. MainInv'
    BY <2>1, <1>m DEF MainInv, renderer
  <2> QED BY <1>s, <2>1, <2>2, <2>3
<1>9. CASE Abort
  <2>1. at' = "ended" /\ UNCHANGED <<runtime, gRuntime, window, quit, manager, failed, passed, renderer>>
    BY <1>9 DEF Abort, tasks, user, asserts
  <2>2. MainTypes'
    BY <2>1, <1>t, <1>p
  <2>3. MainInv'
    BY <2>1 DEF MainInv
  <2> QED BY <1>s, <2>1, <2>2, <2>3
<1>10. CASE GoOn
  <2>1. /\ \/ at = "class_box" /\ at' = "window" /\ passed' = passed \cup {"class"}
           \/ at = "window_box" /\ at' = "show" /\ passed' = passed \cup {"window"}
           \/ at = "renderer_box" /\ at' = "loop" /\ passed' = passed \cup {"renderer"}
        /\ UNCHANGED <<runtime, gRuntime, window, quit, manager, failed, renderer>>
    BY <1>10, Boxed DEF GoOn, From, tasks, user
  <2>2. MainTypes'
    BY <2>1, <1>t, <1>p, Boxed
  <2>3. MainInv'
    BY <2>1, <1>m DEF MainInv, renderer
  <2> QED BY <1>s, <2>1, <2>2, <2>3
<1>11. CASE CloseWindow
  <2>1. /\ window' = "closed" /\ quit' = TRUE
        /\ UNCHANGED <<at, runtime, gRuntime, manager, failed, passed, renderer>>
    BY <1>11 DEF CloseWindow, tasks, asserts
  <2>2. MainTypes'
    BY <2>1, <1>t
  <2>3. MainInv'
    BY <2>1, <1>m DEF MainInv, renderer
  <2> QED BY <1>s, <2>1, <2>2, <2>3
<1>12. CASE LoopTurns
  <2>1. /\ quit' \in BOOLEAN /\ window' \in {window, "closed"}
        /\ UNCHANGED <<at, runtime, gRuntime, manager, failed, passed, renderer>>
    BY <1>12 DEF LoopTurns, tasks, asserts
  <2>2. MainTypes'
    BY <2>1, <1>t
  <2>3. MainInv'
    BY <2>1, <1>m DEF MainInv, renderer
  <2> QED BY <1>s, <2>1, <2>2, <2>3
<1>13. CASE LoopEnds
  <2>1. UNCHANGED renderer /\ MainTypes'
    BY <1>13, <1>t, <1>p DEF LoopEnds, From, tasks, user, asserts
  <2>2. MainInv'
    BY <1>13, <1>m DEF LoopEnds, From, tasks, user, asserts, MainInv
  <2> QED BY <1>s, <2>1, <2>2
<1>14. CASE Return
  <2>1. UNCHANGED renderer /\ MainTypes'
    BY <1>14, <1>t, <1>p DEF Return, From, user, asserts
  <2>2. MainInv'
    BY <1>14, <1>m DEF Return, From, user, asserts, MainInv
  <2> QED BY <1>s, <2>1, <2>2
<1>15. CASE UNCHANGED vars
  <2>1. UNCHANGED <<at, runtime, gRuntime, window, quit, manager, failed, passed, renderer>>
    BY <1>15 DEF vars, tasks, user, asserts
  <2>2. MainTypes'
    BY <2>1, <1>t
  <2>3. MainInv'
    BY <2>1, <1>m DEF MainInv, renderer
  <2> QED BY <1>s, <2>1, <2>2, <2>3
<1> QED BY <1>1, <1>2, <1>3, <1>4, <1>5, <1>6, <1>7, <1>8, <1>9, <1>10, <1>11, <1>12, <1>13, <1>14, <1>15
       DEF Next, Start, User

\* It holds at the beginning.
LEMMA InitIInv == Init => IInv
<1> SUFFICES ASSUME Init PROVE IInv
  OBVIOUS
<1>1. /\ step = "none" /\ hardware = {} /\ software = {} /\ refused = {} /\ device = None
      /\ built = {} /\ rtvIdx = 0 /\ error = "none"
  BY DEF Init, R!Init
<1>2. R!TypeOK
  <2>1. 0 \in R!Buffers
    BY NumAssumption DEF R!Buffers
  <2> QED BY <1>1, <2>1 DEF R!TypeOK, R!Steps
<1>3. LinkInv
  <2>1. Stage(1) /\ \A j \in 2 .. 7 : ~Stage(j)
    BY <1>1 DEF Stage, StepsOf
  <2>2. Size[1] = 1 /\ built = Before(1) \cup Row(R!Link[1], 0)
    BY <1>1, BeforeGrows, RowGrows DEF Size
  <2>3. \A k \in 1 .. 7 : Stage(k) => k = 1
    BY <2>1
  <2> QED BY <1>1, <2>2, <2>3 DEF LinkInv
<1>4. ChoiceInv
  BY <1>1 DEF ChoiceInv, HardwareFirst, R!HardwareFirst
<1>5. MainInv /\ TypeOK
  BY <1>2 DEF Init, MainInv, TypeOK, Points
<1> QED BY <1>3, <1>4, <1>5 DEF IInv
-----------------------------------------------------------------------------

\* IInv holds in every state of start-up.
THEOREM Invariance == Spec => []IInv
BY InitIInv, NextIInv, PTL DEF Spec

\* The variables of WinMain, of the assertions and of the renderer keep their types.
THEOREM TypeCorrect == Spec => []TypeOK
<1>1. IInv => TypeOK
  BY DEF IInv
<1> QED BY <1>1, Invariance, PTL

\* OnlyKnowingly: the loop of the game finds the runtime, the pointer to it and the
\* manager it dereferences; without a window, or with half a renderer, it runs only
\* after somebody went on from the box that said so.
THEOREM LoopRunsKnowingly == Spec => []OnlyKnowingly
<1>1. ASSUME IInv PROVE OnlyKnowingly
  <2>1. step = "ok" => built = R!Objects
    BY <1>1, PartIsRow DEF IInv, LinkInv
  <2> QED BY <1>1, <2>1 DEF IInv, MainInv, OnlyKnowingly
<1> QED BY <1>1, Invariance, PTL

\* ErrorNamesTheGap: the renderer is whole when Initialize succeeds; when it fails, its
\* error names the first link that did not build its part, and nothing after it is built.
THEOREM ErrorsNameTheGap == Spec => []ErrorNamesTheGap
<1>1. ASSUME IInv PROVE ErrorNamesTheGap
  <2>1. step = "ok" => built = R!Objects /\ device # None
    BY <1>1, PartIsRow DEF IInv, LinkInv
  <2>2. ASSUME NEW k \in 1 .. 7, step = "error", error = R!Link[k]
        PROVE  /\ ~R!Whole(k)
               /\ \A j \in 1 .. k - 1 : R!Whole(j)
               /\ \A j \in k + 1 .. 7 : R!Part(j) \cap built = {}
    <3>1. (k = 1 <=> device = None)
          /\ \E n \in Nat : n < Size[k] /\ built = Before(k) \cup Row(R!Link[k], n)
      BY <1>1, <2>2 DEF IInv, LinkInv, Stage
    <3>2. PICK n \in Nat : n < Size[k] /\ built = Before(k) \cup Row(R!Link[k], n)
      BY <3>1
    <3>3. CASE k = 1
      <4>1. built = {}
        <5>1. Size[1] = 1
          BY DEF Size
        <5>2. n = 0
          BY <3>2, <3>3, <5>1
        <5> QED BY <3>2, <3>3, <5>2, BeforeGrows, RowGrows
      <4>2. ~R!Whole(1)
        BY <3>1, <3>3 DEF R!Whole
      <4> QED BY <3>3, <4>1, <4>2
    <3>4. CASE k # 1
      <4>1. k \in 2 .. 7
        BY <3>4
      <4>2. ~R!Whole(k)
        <5>1. <<R!Link[k], n>> \notin built
          BY <3>2, <4>1, NextObject
        <5>2. <<R!Link[k], n>> \in Row(R!Link[k], Size[k])
          BY <3>2, Links DEF Row
        <5>3. R!Part(k) = Row(R!Link[k], Size[k])
          BY <4>1, PartIsRow
        <5> QED BY <4>1, <5>1, <5>2, <5>3 DEF R!Whole
      <4>3. ASSUME NEW j \in 1 .. k - 1 PROVE R!Whole(j)
        <5>1. CASE j = 1
          BY <3>1, <3>4, <5>1 DEF R!Whole
        <5>2. CASE j # 1
          <6>1. j \in 2 .. k - 1 /\ j \in 2 .. 7
            BY <5>2
          <6>2. R!Part(j) = Row(R!Link[j], Size[j])
            BY <6>1, PartIsRow
          <6>3. Row(R!Link[j], Size[j]) \subseteq Before(k)
            BY <6>1 DEF Before
          <6> QED BY <3>2, <5>2, <6>2, <6>3 DEF R!Whole
        <5> QED BY <5>1, <5>2
      <4>4. ASSUME NEW j \in k + 1 .. 7 PROVE R!Part(j) \cap built = {}
        <5>1. j \in 1 .. 7 /\ k \in 1 .. 7 /\ j # k
          OBVIOUS
        <5>2. SUFFICES ASSUME NEW o \in built, o[1] = R!Link[j] PROVE FALSE
          BY DEF R!Part
        <5>3. CASE o \in Row(R!Link[k], n)
          BY <5>1, <5>2, <5>3, RowNames, Links
        <5>4. CASE o \in Before(k)
          <6>1. PICK i \in 2 .. k - 1 : o \in Row(R!Link[i], Size[i])
            BY <5>4 DEF Before
          <6>2. R!Link[i] = R!Link[j] /\ i \in 1 .. 7 /\ i # j
            BY <5>2, <6>1, RowNames
          <6> QED BY <5>1, <6>2, Links
        <5> QED BY <3>2, <5>3, <5>4
      <4> QED BY <4>2, <4>3, <4>4
    <3> QED BY <3>3, <3>4
  <2> QED BY <2>1, <2>2 DEF ErrorNamesTheGap, R!ErrorNamesTheGap
<1> QED BY <1>1, Invariance, PTL

\* HardwareFirst: a software adapter is taken only after every hardware adapter refused.
THEOREM SoftwareIsLast == Spec => []HardwareFirst
<1>1. IInv => HardwareFirst
  BY DEF IInv, ChoiceInv
<1> QED BY <1>1, Invariance, PTL
=============================================================================
