SPECIFICATION McSpec
CONSTANTS
    Names = {1, 2}
    Texts = {1, 2, 3}
    Bodies = {3}
    Kept <- McKept
    Hosts = {h}
    Procs = {p, q}
    MaxIds = 2
    MaxEdits = 2
    MaxCrashes = 1
    Events = {1, 2, 3, 4}
    BatchSize = 2
    QueueSize = 3
    a = a
    b = b
    m = m
    Clients = {a, b, m}
    Nobody = nobody
    MaxRetries <- McRetries
    Longest = 3
    Refused = {m}
    MaxLosses = 1
PROPERTIES Settles ShipsOnce Accounted EvictionsSlowDown
CHECK_DEADLOCK FALSE
