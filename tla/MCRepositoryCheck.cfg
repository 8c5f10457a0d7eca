\* Any two paths at a time.
CONSTANTS
    Sorted <- MCSorted
    Traits <- MCTraits
    Checkouts <- MCCheckouts
    LessonStatus <- MCLessonStatus
SPECIFICATION Spec
INVARIANTS ExitExactly
CHECK_DEADLOCK FALSE
