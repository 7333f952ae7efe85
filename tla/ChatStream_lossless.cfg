CONSTANTS
    Runs = {r1, r2, r3}
    Subs = {s1}
    Sizes = {1, 2}
    Budget = 4
    RingFrames = 3
    RingBytes = 5
    MaxFrames = 6
SPECIFICATION Spec
SYMMETRY Symmetry
INVARIANTS LosslessOrOverflow EndsWithoutHole
CHECK_DEADLOCK FALSE
