SPECIFICATION Spec
CONSTANTS
    MaxRows = 4
    Titles = {"T", "U"}
    LegacyRows = 3
    Legacy <- LegacyTitles
    Stable <- StableIds
    Refs = {e1, e2}
    e1 = e1
    e2 = e2
    MaxSteps = 3
INVARIANTS
    TypeOK
    ReferencesFollow
    VectorsKept
PROPERTY CoursesKept
CHECK_DEADLOCK FALSE
