\* Every ready task is started and every run comes to an end, also when a permission
\* change makes the scheduler take reservations back.
CONSTANTS
    Task = {1, 2}
    Run = {1, 2, 3, 4}
    NoRun = NoRun
    Key = {k1}
    AttemptLimits = {1}
    Batches <- TwoTasks
    MaxScheduled = 1
    Limits <- SpawnAndQuiesce
SPECIFICATION FairSpec
PROPERTIES
    ReadyTaskIsStarted
    RunningTaskIsSettled
