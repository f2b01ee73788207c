SPECIFICATION Spec
CONSTANTS
    N = 5
    Start = 1
    InScope = {1, 2, 3, 4, 5}
    Seeds = {3}
    Origins = {"apex", "www"}
    Origin <- MCOrigin
    RobotsFiles = {5}
    Counters = {"t1", "t2", "q"}
    Counted <- MCCounted
    Traps = {1}
    MaxPages = 3
    MaxDepth = 2
    MaxQueue = 2
    Limit <- MCTight
    MaxRecords = 1
    Sites <- MCSites
INVARIANTS
    WithinLimits
    StopExplains
    EachURLOnce
    RobotsRespected
    DepthIsDistance
CHECK_DEADLOCK FALSE
