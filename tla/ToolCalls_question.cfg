CONSTANTS
    Nil = Nil
    CallIDs = {k1}
    MaxTurns = 1
    Requests = {q1, q2}
    Kinds = {"ask"}
    Anns <- McNoAnns
    Modes = {"always"}
    AgentMode = "never"
    Parallel = 2
    MaxToolCalls = 0
    MaxEdits = 0
SPECIFICATION Spec
SYMMETRY McSymmetry
INVARIANTS QuestionSurvives
CHECK_DEADLOCK FALSE
