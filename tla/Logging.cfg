SPECIFICATION Spec
CONSTANTS
    Threads = {t1, t2, t3}
    MaxCalls = 1
    None = None
SYMMETRY Symmetry
INVARIANTS OwnName KeptUnlessShared
PROPERTIES ReturnedStay
