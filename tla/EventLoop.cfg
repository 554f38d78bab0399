\* Two threads race each other and the loop; three tasks let one task be in
\* the batch, one pending and one pushed by a running task.
CONSTANTS
    Threads = {t1, t2}
    Tasks = {a, b, c}
    Channels = {sock}
SPECIFICATION FairSpec
INVARIANTS TypeOK NoMissedWakeup ExitsBetweenBatches
PROPERTIES RefinesSerialExecutor TasksEventuallyRun QuitEventuallyExits
CHECK_DEADLOCK FALSE
