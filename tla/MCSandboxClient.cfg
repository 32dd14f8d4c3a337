\* Two calls; the second waits for the first.
CONSTANTS
    Call = {c1, c2}
    NoCall = NoCall
    NoReason = NoReason
SPECIFICATION FairSpec
INVARIANTS
    NoHelperUnnoticed
PROPERTIES
    EveryCallSettles
CHECK_DEADLOCK FALSE
