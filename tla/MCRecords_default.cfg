SPECIFICATION McSpec
CONSTANTS
    Humans = {p, q}
    Keys = {1}
    MaxRecs = 2
    MaxChats = 2
    MaxMsgs = 4
    MaxReqs = 2
    MaxActs = 2
    MaxWindows = 0
    MaxStops = 1
    PNames = {1, 2}
    SeedName = 2
    PTexts = {1, 2, 3}
    PKept <- McKept
    Slug <- McSlug
    PProcs = {p, q}
    MaxPIds = 2
    MaxPEdits = 1
    MaxHandEdits = 1
    MaxRestarts = 1
    Names = {1, 2}
    Texts = {1, 2, 3}
    Bodies = {2, 3}
    Kept <- McKept
    Hosts = {h}
    Procs = {p, q}
    MaxIds = 3
    MaxEdits = 2
    MaxCrashes = 1
INVARIANTS DefaultFollows
CHECK_DEADLOCK FALSE
