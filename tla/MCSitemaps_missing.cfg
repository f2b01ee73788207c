SPECIFICATION Spec
CONSTANTS
    FileURLs = {"s1", "s2", "s3", "s4", "s5"}
    BadURLs = {"bad"}
    InScope = {"p1", "p2", "p3"}
    OutOfScope = {"x"}
    Seeds <- MCSeedsSame
    IndexDocs <- MCIndexDocs
    PageDocs <- MCPageDocs
    MaxFiles = 9
    MaxURLs = 9
    MaxDepth = 2
    MaxListed = 1
INVARIANT MissingIsTrue
CHECK_DEADLOCK FALSE
