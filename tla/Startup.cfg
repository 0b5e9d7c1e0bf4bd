SPECIFICATION Spec
CONSTANTS
    Adapters = {a1, a2, a3}
    None = None
    NumFrameBuffers = 3
    NumRenderThreads = 1
INVARIANTS OnlyKnowingly ErrorNamesTheGap HardwareFirst
