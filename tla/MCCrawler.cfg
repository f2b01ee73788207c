SPECIFICATION FairSpec
CONSTANTS
    N = 4
    Start = 1
    InScope = {1, 2, 3, 4}
    Seeds = {4}
    Origins = {"apex", "www"}
    Origin <- MCOrigin
    RobotsFiles = {}
    Counters = {"t"}
    Counted <- MCCounted
    Traps = {}
    MaxPages = 4
    MaxDepth = 2
    MaxQueue = 3
    Limit <- MCLimit
    MaxRecords = 2
    Sites <- MCSites
    Workers = {w1, w2}
INVARIANTS
    PoolSound
PROPERTIES
    RefinesLevelCrawl
    NothingNewAfterEnd
    Terminates
CHECK_DEADLOCK FALSE
