SPECIFICATION Spec
CONSTANTS
    Symbols <- MCSymbols
    Values <- MCValues
    Files <- MCFiles
    Paths <- MCPaths
    Statuses = {"2xx", "3xx", "4xx", "5xx", "error", "blocked"}
    Agents <- MCAgents
    Product = "me"
    Token <- MCToken
    Normal <- MCNormal
    Escapes = {"%2F"}
    RobotsPath <- MCRobotsPath
    MaxParse = 10
    MaxPattern = 4
    MaxRules = 2
    MaxSitemaps = 1
    MaxWarnings = 2
INVARIANTS
    RulesAreMerged
    VerdictIsRight
    LossIsTold
PROPERTIES
    Answers
CHECK_DEADLOCK FALSE
