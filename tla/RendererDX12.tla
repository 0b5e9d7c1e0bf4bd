---------------------------- MODULE RendererDX12 ----------------------------
(***************************************************************************)
(* RendererDX12::Initialize: the chain that builds the renderer's data,    *)
(* from the choice of an adapter to the command lists.  Each link asks the *)
(* graphics system for an object and may be refused; Initialize then       *)
(* returns the error and leaves m_Data with what was built so far.         *)
(*                                                                         *)
(* An action is one call into the graphics system, and what it answers is  *)
(* free.  The order in which it enumerates the adapters is left open.      *)
(***************************************************************************)
EXTENDS Naturals, FiniteSets

CONSTANTS
    Adapters,          \* adapters a machine may have
    NumFrameBuffers,   \* NUM_FRAME_BUFFERS
    NumRenderThreads,  \* NUM_RENDER_THREADS
    None               \* no adapter

VARIABLES
    step,        \* the link Initialize is at
    hardware,    \* hardware_adapters
    software,    \* software_adapters
    refused,     \* adapters D3D12CreateDevice failed for
    device,      \* the adapter of m_Data->device
    built,       \* the other objects m_Data holds
    rtvIdx,      \* current_rtv_idx
    error        \* the link whose message Initialize added to the error returned

choice == <<hardware, software, refused, device>>
objects == <<built, rtvIdx>>
vars == <<step, choice, objects, error>>

Buffers == 0 .. NumFrameBuffers - 1
Lists == 0 .. NumRenderThreads - 1

Targets == {<<"target", i>> : i \in Buffers}
Allocators == {<<"allocator", i>> : i \in Buffers}
CommandLists == {<<"list", i>> : i \in Lists}
Single == {<<"cmd_queue", 0>>, <<"swapchain", 0>>, <<"rtv_desc_heap", 0>>}
Objects == Single \cup Targets \cup Allocators \cup CommandLists

\* The links in the order Initialize calls them, with their messages.
Link == <<"device", "cmd_queue", "swapchain", "rtv_desc_heap", "target", "allocator", "list">>
Steps == {"none", "factory", "enumerate", "hardware", "software", "swapchain_factory", "ok", "error"}
         \cup {Link[i] : i \in 2 .. 7}

TypeOK ==
    /\ step \in Steps
    /\ hardware \subseteq Adapters /\ software \subseteq Adapters /\ refused \subseteq Adapters
    /\ device \in Adapters \cup {None}
    /\ built \subseteq Objects
    /\ rtvIdx \in Buffers
    /\ error \in {"none"} \cup {Link[i] : i \in 1 .. 7}

Init ==
    /\ step = "none"
    /\ hardware = {} /\ software = {} /\ refused = {} /\ device = None
    /\ built = {} /\ rtvIdx = 0
    /\ error = "none"

At(s) == step = s
Goto(s) == step' = s /\ UNCHANGED error

\* An HRESULT that FAILED: RETURN_ON_ERROR adds the name of the link.
Fail(link) == step' = "error" /\ error' = link

-----------------------------------------------------------------------------
(* InitializeDevice.                                                       *)

Begin ==
    /\ At("none") /\ Goto("factory")
    /\ UNCHANGED <<choice, objects>>

CreateDXGIFactory ==
    /\ At("factory")
    /\ Goto("enumerate") \/ Fail("device")
    /\ UNCHANGED <<choice, objects>>

EnumAdapter(a) ==
    /\ At("enumerate") /\ a \notin hardware \cup software
    /\ \/ hardware' = hardware \cup {a} /\ UNCHANGED software
       \/ software' = software \cup {a} /\ UNCHANGED hardware
    /\ UNCHANGED <<step, refused, device, objects, error>>

\* DXGI_ERROR_NOT_FOUND.
EnumEnds ==
    /\ At("enumerate") /\ Goto("hardware")
    /\ UNCHANGED <<choice, objects>>

\* try_adapter on the next one of a list.  On failure out_device is null.
TryAdapter(a) ==
    /\ a \notin refused
    /\ \/ device' = a /\ Goto("cmd_queue") /\ UNCHANGED refused
       \/ refused' = refused \cup {a} /\ UNCHANGED <<step, error, device>>
    /\ UNCHANGED <<hardware, software, objects>>

TryHardware == At("hardware") /\ \E a \in hardware : TryAdapter(a)

SoftwareAtOnce ==
    /\ At("hardware") /\ Goto("software")
    /\ UNCHANGED <<choice, objects>>
NoHardware ==
    /\ At("hardware") /\ Goto("software")
    /\ hardware \subseteq refused
    /\ UNCHANGED <<choice, objects>>

TrySoftware == At("software") /\ \E a \in software : TryAdapter(a)

NoAdapter ==
    /\ At("software") /\ Fail("device")
    /\ software \subseteq refused
    /\ UNCHANGED <<choice, objects>>

-----------------------------------------------------------------------------
(* The other links.                                                        *)

Create(name, next) ==
    /\ At(name)
    /\ \/ built' = built \cup {<<name, 0>>} /\ Goto(next)
       \/ Fail(name) /\ UNCHANGED built

QueueThenHeap ==
    /\ Create("cmd_queue", "rtv_desc_heap")
    /\ UNCHANGED <<choice, rtvIdx>>
InitializeCommandQueue ==
    /\ Create("cmd_queue", "swapchain_factory")
    /\ UNCHANGED <<choice, rtvIdx>>

SwapChainFactory ==
    /\ At("swapchain_factory")
    /\ Goto("swapchain") \/ Fail("swapchain")
    /\ UNCHANGED <<choice, objects>>

\* GetCurrentBackBufferIndex is a number of a buffer of the swap chain.
InitializeSwapChain ==
    /\ Create("swapchain", "rtv_desc_heap")
    /\ IF step' = "error" THEN UNCHANGED rtvIdx ELSE rtvIdx' \in Buffers
    /\ UNCHANGED choice

InitializeRTVDescriptorHeap ==
    /\ Create("rtv_desc_heap", "target")
    /\ UNCHANGED <<choice, rtvIdx>>

\* The loops stop at the first refusal; what came before stays.
NextOf(name, all, next) ==
    LET i == Cardinality({o \in built : o[1] = name})
    IN  /\ At(name)
        /\ \/ /\ built' = built \cup {<<name, i>>}
              /\ Goto(IF i + 1 = Cardinality(all) THEN next ELSE name)
           \/ Fail(name) /\ UNCHANGED built

\* GetBuffer may refuse; the view that is then created, in the descriptor of
\* the same number, cannot.
InitializeRenderTargets ==
    /\ NextOf("target", Targets, "allocator")
    /\ UNCHANGED <<choice, rtvIdx>>

InitializeCommandAllocators ==
    /\ NextOf("allocator", Allocators, "list")
    /\ UNCHANGED <<choice, rtvIdx>>

\* Every list is created with the first allocator, and closed.
InitializeCommandLists ==
    /\ NextOf("list", CommandLists, "ok")
    /\ UNCHANGED <<choice, rtvIdx>>

-----------------------------------------------------------------------------
Initialize ==
    \/ CreateDXGIFactory \/ (\E a \in Adapters : EnumAdapter(a)) \/ EnumEnds
    \/ TryHardware \/ NoHardware \/ TrySoftware \/ NoAdapter
    \/ InitializeCommandQueue \/ SwapChainFactory \/ InitializeSwapChain
    \/ InitializeRTVDescriptorHeap \/ InitializeRenderTargets
    \/ InitializeCommandAllocators \/ InitializeCommandLists

Returned == step \in {"ok", "error"}

Next == Begin \/ Initialize \/ (Returned /\ UNCHANGED vars)

Spec == Init /\ [][Next]_vars

-----------------------------------------------------------------------------
(* What must hold.                                                         *)

\* What the i-th link is to build.
Part(i) == {o \in Objects : o[1] = Link[i]}
Whole(i) == IF i = 1 THEN device # None ELSE Part(i) \subseteq built

\* A success has built everything; the error names the first link that did
\* not build its part, everything before it is there and nothing after it.
ErrorNamesTheGap ==
    /\ step = "ok" => built = Objects /\ device # None
    /\ \A i \in 1 .. 7 : step = "error" /\ error = Link[i] =>
           /\ ~Whole(i)
           /\ \A j \in 1 .. i - 1 : Whole(j)
           /\ \A j \in i + 1 .. 7 : Part(j) \cap built = {}

\* "Hardware GPU has priority": a software device is taken only when every
\* hardware adapter was found and refused.
HardwareFirst == device \in software => hardware \subseteq refused
=============================================================================
