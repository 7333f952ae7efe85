SPECIFICATION FairSpec
CONSTANTS
    Runs = {r1, r2}
    Chats = {c1, c2}
    Calls = {k1}
    Main = main
    Null = null
    MaxRun = 1
    Parallel = 1
    MaxTurns = 1
    MaxCrashes = 1
    Faults = {}
PROPERTIES
    EveryRunEnds
CHECK_DEADLOCK FALSE
