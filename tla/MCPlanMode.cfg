\* A main agent that plans, and a sub-agent at work in the background.
CONSTANTS
    Call = {1, 2, 3, 4}
    Main = Main
    Sub = Sub
    Owner <- MCOwner
    Batches <- PlanNextToWriter
    Targets <- MCTargets
    Named <- MCNamed
    NoSignal = NoSignal
SPECIFICATION Spec
INVARIANTS
    NothingModifiedInPlanMode
