SPECIFICATION Spec
CONSTANTS
    Runs = {r1, r2}
    Chats = {c1, c2}
    Calls = {k1, k2}
    Main = main
    Null = null
    MaxRun = 1
    Parallel = 2
    MaxTurns = 1
    MaxCrashes = 1
    Faults = {"store", "model"}
SYMMETRY Symmetry
INVARIANTS
    SlotAccounting
    NoOrphanRow
    NoIdleSlot
    OneRunPerChat
PROPERTIES
    FinalStatusIsFinal
CHECK_DEADLOCK FALSE
