SPECIFICATION Spec
CONSTANTS
    p1 = p1
    p2 = p2
    c1 = c1
    i1 = i1
    i2 = i2
    tombstone = tombstone
    Clients <- TwoClients
    Collections <- OneCollection
    Ids <- TwoIds
    Tombstone = tombstone
    Vals <- EmptyAndOther
    MaxTime = 2
    Kinds <- AllKinds
    Bodies <- Contents
    Headers <- NoneOrOne
    MaxSkew = 1
SYMMETRY Symmetric
CONSTRAINT UntilItEnds
INVARIANTS
    TypeOK
    CollectionCoversBsos
    DeadlockOnlyOverGaps
    ListingIsCurrent
PROPERTIES
    PreconditionHolds
    TakesEffectAtOnce
