\* A batch interrupted between two results.
CONSTANTS
    Batches <- OneBatch
    MaxBatches = 1
    MaxErrors = 1
    MaxCrashes = 2
    MaxChanges = 0
SPECIFICATION Spec
INVARIANTS
    SessionStaysLoadable
