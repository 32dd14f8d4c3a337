\* Cancelled agents and tasks, retries, the end of the session, permission
\* changes, failed writes and restarts.
CONSTANTS
    Task = {1, 2}
    Run = {1, 2, 3}
    NoRun = NoRun
    Key = {k1}
    AttemptLimits = {2}
    Batches <- TwoTasks
    MaxScheduled = 2
    Limits <- Interruptions
SPECIFICATION Spec
INVARIANTS
    CapacityBound
    ShutdownIsQuiet
PROPERTIES
    CompletedByItsRun
    QuiesceStopsEveryAgent
