SPECIFICATION FairSpec
CONSTANTS
    Workers = {w1, w2}
    Main = main
    Tasks = {t1, t2, t3, t4}
    MainTasks = {t1, t2}
    Timeouts = TRUE
INVARIANTS OneHolder Awakened DonorKeepsOne SleeperIsFound
PROPERTIES TasksEndOrStranded ShutdownEnds ImplementsExecutor
