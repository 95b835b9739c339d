SPECIFICATION Spec
CONSTANTS
    NumIds = 3
    SortIndexes <- TwoIndexes
    Queries <- AllQueries
    Ttls <- ShortAndLong
    MaxTime = 4
CONSTRAINT UntilItEnds
CHECK_DEADLOCK FALSE
PROPERTIES
    PagesAreTheListing
    OffsetsAdvance
