SPECIFICATION FairSpec
CONSTANTS
    Coroutines = {c1, c2, c3}
    InlineUses = {"hold"}
    Nobody = Nobody
INVARIANTS OneHolder OnePlace ProducedIsFound
PROPERTIES ImplementsMonitor LockIsGranted
