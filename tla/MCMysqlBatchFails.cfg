SPECIFICATION Spec
CONSTANTS
    p1 = p1
    p2 = p2
    c1 = c1
    i1 = i1
    tombstone = tombstone
    NewBatch = NewBatch
    NoBatch = NoBatch
    NoItem = NoItem
    Clients <- TwoClients
    Collections <- OneCollection
    Ids <- OneId
    Tombstone = tombstone
    Vals <- OneOrTwo
    MaxTime = 3
    Bodies <- TwoContents
    Lifetime = 1
    MaxItems = 2
    MaxSkew = 0
    MayFail = TRUE
SYMMETRY Symmetric
CONSTRAINT UntilItEnds
PROPERTIES
    AcknowledgedItemsAreStored
