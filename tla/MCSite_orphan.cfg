SPECIFICATION Spec
CONSTANTS
    Texts <- MCTexts
    Headers <- MCHeaders
    Site = "s"
    Files = {"/f"}
    MaxHeadings = 3
    MaxCanonicals = 2
    maxRobotsSources = 2
    MaxSocialValues = 2
    MaxLinks = 2
    MaxImages = 2
    MaxHreflangs = 3
    ShortTexts = {"short"}
    LongTexts = {"long"}
    ImageURLs = {"url"}
    og <- MCog
    twitter <- MCtwitter
    maxCanonicalHops = 2
    NearDuplicateThreshold = 1
    Crawls <- MCLinkedCrawls
INVARIANT OrphansAreUnlinked
CHECK_DEADLOCK FALSE
