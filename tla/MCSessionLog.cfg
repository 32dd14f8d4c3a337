\* A session of a few turns, with failed writes and a restart.
CONSTANTS
    RetainTurns = 1
    NoState = NoState
    MaxMessages = 3
    MaxErrors = 1
    MaxCrashes = 1
SPECIFICATION Spec
INVARIANTS
    ReadableOnceStarted
    MemoryAgreesWithLog
    NoOrphanResult
    UntrustedStaysMarked
PROPERTIES
    ImplementsDurableLog
CHECK_DEADLOCK FALSE
