SPECIFICATION Spec
CONSTANTS
    Texts <- MCTexts
    HTTPStart = "http"
    Options <- MCOptions
    Crawls <- MCCrawls
    Baselines <- MCBaselines
INVARIANTS
    CodeTellsOutcome
    ChecksAreTrue
    DiffAddsUp
    ScoresHold
PROPERTIES
    KeepsPromise
CHECK_DEADLOCK FALSE
