SPECIFICATION FairSpec
CONSTANTS
    Delays = {d}
    Handles = {h}
    MaxDue = 1
    MaxPosted = 1
    Workers = {w1, w2}
    None = None
INVARIANTS ServedByOne
PROPERTIES TimersEnd DelaysAreTasks
