\* Chains, diamonds and added dependencies over three tasks.
CONSTANTS
    Task = {t1, t2, t3}
    Run = {r1, r2, r3}
    NoRun = NoRun
    Key = {k1}
    AttemptLimits = {1, 2}
SYMMETRY Symmetry
SPECIFICATION StoreSpec
INVARIANTS
    DependenciesFirst
    StallsOnlyOnFailure
    CascadeMeetsNoRun
    AttemptBudget
PROPERTIES
    FinalStaysFinal
    EveryChangeIsVersioned
