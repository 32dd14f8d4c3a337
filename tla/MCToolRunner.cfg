\* Responses that race for one file behind a link, change the mode while they
\* are being run, or wait for a sub-agent with an opaque call before or after.
CONSTANTS
    Call = {1, 2, 3, 4}
    Main = Main
    Sub = Sub
    Owner <- MCOwner
    Batches <- MCBatches
    Targets <- MCTargets
    Named <- MCNamed
    NoSignal = NoSignal
SPECIFICATION FairSpec
INVARIANTS
    NoConcurrentWrite
    PlanModeRunsNoWrite
PROPERTIES
    ResponsesSettle
