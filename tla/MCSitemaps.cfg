SPECIFICATION Spec
CONSTANTS
    FileURLs = {"s1", "s2", "s3", "s4", "s5"}
    BadURLs = {"bad"}
    InScope = {"p1", "p2", "p3"}
    OutOfScope = {"x"}
    Seeds <- MCSeeds
    IndexDocs <- MCIndexDocs
    PageDocs <- MCPageDocs
    MaxFiles = 5
    MaxURLs = 2
    MaxDepth = 2
    MaxListed = 1
INVARIANTS
    WithinLimits
    ShortestWay
    Collected
CHECK_DEADLOCK FALSE
