CONSTANTS
    Nil = Nil
    CallIDs = {k1, k2}
    MaxTurns = 2
    Requests = {q1, q2}
    Kinds = {"upstream", "ask"}
    Anns <- McNoAnns
    Modes = {"always"}
    AgentMode = "never"
    Parallel = 2
    MaxToolCalls = 3
    MaxEdits = 1
SPECIFICATION Spec
SYMMETRY McSymmetry
INVARIANTS NoUnapprovedCall RowTellsTheTruth
PROPERTIES ResultPerCall
CHECK_DEADLOCK FALSE
