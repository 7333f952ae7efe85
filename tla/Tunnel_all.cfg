CONSTANTS
    Conns = {1, 2}
    Nil = Nil
    Reports = {"starting", "running", ""}
    MaxReports <- McReports
SPECIFICATION FairSpec
INVARIANTS NewestHoldsLabel SessionIsOfThisProcess
PROPERTIES ServedOrFailed EvictedGoesAway
CHECK_DEADLOCK FALSE
