SPECIFICATION FairSpec
CONSTANTS
    Values = {value, exception}
    Empty = Empty
INVARIANTS
    FreedOnce
    ContextWhole
    ResumerExists
    Asserted
PROPERTIES
    ConsumersGoOn
    ImplementsFuture
