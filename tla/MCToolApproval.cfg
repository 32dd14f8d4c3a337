\* Who allowed what, over failed writes, restarts and mode changes.
CONSTANTS
    Batches <- AllBatches
    MaxBatches = 2
    MaxErrors = 2
    MaxCrashes = 2
    MaxChanges = 2
SPECIFICATION Spec
INVARIANTS
    NothingHidden
PROPERTIES
    NoUnauthorizedExecution
    CompletedNotRepeated
