CONSTANTS
    Runs = {r1, r2}
    Subs = {s1, s2}
    Sizes = {1}
    Budget = 1
    RingFrames = 2
    RingBytes = 8
    MaxFrames = 3
    Nil = Nil
    Outbox = 3
    MaxLosses = 1
    MaxMounts = 2
SPECIFICATION FairFSpec
INVARIANTS NoHoleInDraft
PROPERTIES CatchesUp
CHECK_DEADLOCK FALSE
