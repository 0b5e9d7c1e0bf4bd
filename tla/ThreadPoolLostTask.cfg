SPECIFICATION FairSpec
CONSTANTS
    Workers = {w1}
    Main = main
    Tasks = {t1, t2}
    MainTasks = {t1, t2}
    Timeouts = TRUE
PROPERTIES TasksEnd
