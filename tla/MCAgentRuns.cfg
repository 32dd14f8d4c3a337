\* More agents than slots, and messages between any two of them.
CONSTANTS
    Agent = {a1, a2, a3}
    Main = Main
    Slots = 1
    MaxMessages = 2
SPECIFICATION Spec
SYMMETRY Symmetry
INVARIANTS
    NoMessageLost
    EndIsReportedOnce
    SlotsInUse
    IdleMainHasReadItsMail
CONSTRAINT Bound
CHECK_DEADLOCK FALSE
