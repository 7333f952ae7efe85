CONSTANTS
    Nil = Nil
    Calls = {c1, c2}
    Writers = {w1}
    MaxMsgs = 4
    MaxRuns = 2
    MaxOthers = 2
    KeepMin = 1
SPECIFICATION Spec
SYMMETRY Symmetry
INVARIANTS BranchRemembered RunIsChain PromptIsPaired ResultsAreShown
CHECK_DEADLOCK FALSE
