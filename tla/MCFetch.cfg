SPECIFICATION GuardedSpec
CONSTANTS
    URLs = {"u1", "u2", "u3", "u4"}
    BadURLs = {"ftp"}
    MaxRedirects = 2
    MaxBody = 2
    MaxDecoded = 3
    Sizes = {0, 2, 3, 4}
    Host <- MCHost
    Literals <- MCLiterals
    LocalNames = {"localhost"}
    Addresses <- MCAddresses
    Answers <- MCAnswers
INVARIANTS
    WayIsTrue
    ResultTrue
    BodyWhole
    PolicyKept
PROPERTIES
    FetchEnds
CHECK_DEADLOCK FALSE
