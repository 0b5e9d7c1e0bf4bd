------------------------------ MODULE Startup ------------------------------
(***************************************************************************)
(* The way from WinMain to the frame loop and from its end to the end of   *)
(* the process: the runtime and the pointer to it, the window, the         *)
(* renderer (RendererDX12, in whole) and the assertions in between, with   *)
(* what the user may answer them.                                          *)
(*                                                                         *)
(* HandleAssert shows a message box, which has a message loop of its own:  *)
(* while the box of a failed renderer is open the user may also close the  *)
(* game's window.                                                          *)
(***************************************************************************)
EXTENDS Naturals, FiniteSets

CONSTANTS Adapters, NumFrameBuffers, NumRenderThreads, None

ASSUME AdaptersAssumption == IsFiniteSet(Adapters) /\ None \notin Adapters
ASSUME NumAssumption == NumFrameBuffers \in Nat \ {0} /\ NumRenderThreads \in Nat \ {0}

VARIABLES
    at,          \* where the main thread is
    runtime,     \* task_runtime: "none", "live" or "dead"
    gRuntime,    \* g_Runtime is set
    window,      \* hwnd: "none", "open" or "closed"
    quit,        \* WM_QUIT is in the main thread's message queue
    manager,     \* g_RenderManager.m_Renderer is set
    failed,      \* the assertions that failed
    passed,      \* the failed assertions after which the program went on
    step, hardware, software, refused, device, built, rtvIdx, error

R == INSTANCE RendererDX12

tasks == <<runtime, gRuntime>>
user == <<window, quit>>
renderer == <<step, hardware, software, refused, device, built, rtvIdx, error>>
asserts == <<failed, passed>>
vars == <<at, tasks, user, manager, asserts, renderer>>

Asserts == {"class", "window", "renderer"}
Box == [class |-> "class_box", window |-> "window_box", renderer |-> "renderer_box"]
Boxes == {Box[a] : a \in Asserts}
After == [class |-> "window", window |-> "show", renderer |-> "loop"]

Points == {"runtime", "set_runtime", "class", "window", "show", "manager", "renderer",
           "loop", "returned", "ended"} \cup Boxes

Init ==
    /\ at = "runtime" /\ runtime = "none" /\ gRuntime = FALSE
    /\ window = "none" /\ quit = FALSE /\ manager = FALSE
    /\ failed = {} /\ passed = {}
    /\ R!Init

From(p, q) == at = p /\ at' = q

\* FLAVO_ASSERT(ok, ...): the next line, or the box.
NeverAssert(a, ok) == at' = After[a] /\ UNCHANGED asserts
Assert(a, ok) ==
    IF ok
    THEN at' = After[a] /\ UNCHANGED asserts
    ELSE at' = Box[a] /\ failed' = failed \cup {a} /\ UNCHANGED passed

-----------------------------------------------------------------------------
(* WinMain up to the game.                                                 *)

MakeRuntime ==
    /\ From("runtime", "set_runtime") /\ runtime' = "live"
    /\ UNCHANGED <<gRuntime, user, manager, asserts, renderer>>

SetRuntime ==
    /\ From("set_runtime", "class") /\ gRuntime' = TRUE
    /\ UNCHANGED <<runtime, user, manager, asserts, renderer>>

-----------------------------------------------------------------------------
(* The constructor of FlavoGame.                                           *)

RegisterClass ==
    /\ at = "class" /\ \E ok \in BOOLEAN : Assert("class", ok)
    /\ UNCHANGED <<tasks, user, manager, renderer>>

\* No window without its class.
CreateWindow ==
    /\ at = "window"
    /\ \E w \in {"none", "open"} :
           /\ w = "open" => "class" \notin failed
           /\ window' = w /\ Assert("window", w = "open")
    /\ UNCHANGED <<tasks, quit, manager, renderer>>

\* ShowWindow and UpdateWindow on no window do nothing.
ShowWindow ==
    /\ From("show", "manager")
    /\ UNCHANGED <<tasks, user, manager, asserts, renderer>>

\* RenderManager::Initialize with the only supported type.
InitializeManager ==
    /\ From("manager", "renderer") /\ manager' = TRUE
    /\ R!Begin
    /\ UNCHANGED <<tasks, user, asserts>>

\* A swap chain is only created for a window.
InitializeRenderer ==
    /\ at = "renderer" /\ R!Initialize
    /\ window = "none" => <<"swapchain", 0>> \notin built'
    /\ UNCHANGED <<at, tasks, user, manager, asserts>>

CheckRenderer ==
    /\ at = "renderer" /\ R!Returned
    /\ Assert("renderer", step = "ok")
    /\ UNCHANGED <<tasks, user, manager, renderer>>

-----------------------------------------------------------------------------
(* HandleAssert.                                                           *)

\* Abort; or a breakpoint that no debugger catches.
Abort ==
    /\ at \in Boxes /\ at' = "ended"
    /\ UNCHANGED <<tasks, user, manager, asserts, renderer>>

\* Ignore; or a breakpoint that a debugger continues from.
GoOn ==
    /\ \E a \in Asserts : From(Box[a], After[a]) /\ passed' = passed \cup {a}
    /\ UNCHANGED <<tasks, user, manager, failed, renderer>>

\* WM_CLOSE, WM_DESTROY and PostQuitMessage in the message loop of the box.
CloseWindow ==
    /\ at \in Boxes /\ window = "open"
    /\ window' = "closed" /\ quit' = TRUE
    /\ UNCHANGED <<at, tasks, manager, asserts, renderer>>

-----------------------------------------------------------------------------
(* The loop and the end.                                                   *)

\* A frame, or a message; a WM_QUIT that is there ends the loop.  The user
\* may close the window.
LoopTurns ==
    /\ at = "loop" /\ ~quit
    /\ quit' \in BOOLEAN /\ (quit' => window = "open")
    /\ window' = IF quit' THEN "closed" ELSE window
    /\ UNCHANGED <<at, tasks, manager, asserts, renderer>>

LoopEnds ==
    /\ From("loop", "returned") /\ quit
    /\ UNCHANGED <<tasks, user, manager, asserts, renderer>>

\* ~FlavoGame, then ~Runtime: the pointer to it stays.
Return ==
    /\ From("returned", "ended") /\ runtime' = "dead"
    /\ UNCHANGED <<gRuntime, user, manager, asserts, renderer>>

-----------------------------------------------------------------------------
Start ==
    \/ MakeRuntime \/ SetRuntime
    \/ RegisterClass \/ CreateWindow \/ ShowWindow
    \/ InitializeManager \/ InitializeRenderer \/ CheckRenderer

User == Abort \/ GoOn \/ CloseWindow

Next == Start \/ User \/ LoopTurns \/ LoopEnds \/ Return \/ (at = "ended" /\ UNCHANGED vars)

\* How the loop ends, and what has to happen in the end, is FrameLoop's subject.
Spec == Init /\ [][Next]_vars

-----------------------------------------------------------------------------
(* What must hold.                                                         *)

\* The loop runs without a window or with half a renderer only if the user (or
\* a debugger) went on after being told of exactly that; and whatever was
\* ignored, it finds what a frame dereferences without asking: the runtime,
\* the pointer to it and the renderer.
OnlyKnowingly ==
    at = "loop" =>
        /\ window = "none" => "window" \in passed
        /\ step # "ok" => "renderer" \in passed
        /\ step = "ok" => built = R!Objects
        /\ runtime = "live" /\ gRuntime /\ manager

\* An error of the renderer names the first link that did not build its part.
ErrorNamesTheGap == R!ErrorNamesTheGap

\* A software adapter is taken only after every hardware adapter refused.
HardwareFirst == R!HardwareFirst
=============================================================================
