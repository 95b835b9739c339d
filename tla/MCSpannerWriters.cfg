SPECIFICATION Spec
CONSTANTS
    p1 = p1
    p2 = p2
    c1 = c1
    c2 = c2
    i1 = i1
    tombstone = tombstone
    Clients <- TwoClients
    Collections <- OneCollection
    Ids <- OneId
    Tombstone = tombstone
    Vals <- EmptyAndOther
    MaxTime = 3
    Kinds <- OfACollection
    Bodies <- ExpiringOrNothing
    Preconds <- Unmodified
SYMMETRY Symmetric
INVARIANTS
    CollectionCoversBsos
    BufferedMutationsApply
    NothingMissed
PROPERTIES
    ContentAdvances
    PreconditionHolds
    FailedRequestsChangeNothing
