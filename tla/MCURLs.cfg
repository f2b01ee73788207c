SPECIFICATION Spec
CONSTANTS
    MaxPath = 4
    MaxURLLength = 12
    MaxPathSegments = 2
    MaxSegmentRepeats = 1
    MaxQueryVariants = 2
    MaxPatternVariants = 1
    Start <- MCStart
    Base <- MCBase
    Links <- MCLinks
    Labels <- MCLabels
INVARIANTS
    NormalForm
    SameResourceIfSafe
    GuardHolds
CHECK_DEADLOCK FALSE
