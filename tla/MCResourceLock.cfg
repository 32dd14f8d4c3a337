\* Safety, refinement and liveness of the lock, 3 callers on 2 signals.
CONSTANTS
    c1 = c1
    c2 = c2
    c3 = c3
    s1 = s1
    s2 = s2
    Caller = {c1, c2, c3}
    Signal = {s1, s2}
    SignalOf <- MCSignalOf
    AccessSets <- MCAccessSets
    NoSignal = NoSignal
SPECIFICATION FairSpec
INVARIANTS
    MutualExclusion
    NoLostWakeup
    LoopGrantsTheGrantable
    ConflictIsSharedWrite
PROPERTIES
    NoOvertaking
    NoStarvation
    ImplementsLockService
