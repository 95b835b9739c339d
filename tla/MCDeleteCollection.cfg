SPECIFICATION Spec
CONSTANTS
    p1 = p1
    p2 = p2
    c1 = c1
    c2 = c2
    i1 = i1
    tombstone = tombstone
    Clients <- TwoClients
    Collections <- TwoCollections
    Ids <- OneId
    Tombstone = tombstone
    Vals <- EmptyAndOther
    MaxTime = 2
    Kinds <- Deleters
    Bodies <- PayloadOnly
    Preconds <- NoHeader
SYMMETRY Symmetric
PROPERTIES
    DeletionAdvancesStorage
