SPECIFICATION Spec
CHECK_DEADLOCK FALSE
CONSTANTS
    Ids = {1, 2, 3}
    Values = {1, 2}
    PageSize = 1
    Attrs <- MCAttrs
    Matches <- MCMatches
    MaxWrites = 2
    MaxRangeRows = 4
    MaxAnswer = 2
    QueryLimit = 2
    Setups <- MCSetups
    Absent = Absent
    NoBookmark = NoBookmark
INVARIANTS
    TypeOK
    PagesAdvance
    ScanComplete
PROPERTIES
    ScanEnds
