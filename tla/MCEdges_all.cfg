SPECIFICATION McSpec
CONSTANTS
    Nil = Nil
    Wild = "*"
    Values = {"x", "y"}
    Fields <- McFields
    Agents = {a1, a2, a3}
    Root = a1
    RootRows <- McRootRows
    Asks <- McAsks
    EditPats <- McEditPats
    EditVerdicts = {TRUE, FALSE}
    Label = "label"
    MaxChildren = 2
    MaxDepth = 2
    MaxEdits = 2
    Links = {k1, k2}
    Configs <- McConfigs
    Chars = {"a", "b", "x", "y", "z", "_"}
    ServerNames <- McServerNames
    ToolNames <- McToolNames
    Paths <- McPaths
    MaxName = 10
    Conns = {c1, c2}
    Labels = {"a", "b"}
    Known = {"starting", "running"}
    Odd = "odd"
    TopServers = {s}
    BusQueue = 2
    MaxOwed = 2
    Buffer = 2
    LastId = 3
    MaxRuns = 3
    MaxSess = 3
    Says = {1, 6}
    Turns <- McTurns
    Outputs <- McOutputs
    Toolset <- McToolset
    Windows <- McWindows
    System = 1
    AutoCap = 20
    ResultMax = 8
    HeadTail = 2
    OldKeep = 3
    LatestMin = 5
    Allowance = 3
    Marker = 2
    MaxLen = 5
    Indexes = {1, 2}
    Frags = 2
    ChanSize = 1
INVARIANTS NoEscalation NoOrphan AnswersAsListed GaugesFollow AnswersAreFresh FitsOrFloored ResultsFollowCalls EndsOnce CallsAsSent
PROPERTIES NarrowingOnly
CHECK_DEADLOCK FALSE
