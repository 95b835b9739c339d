SPECIFICATION Spec
CONSTANTS
    p1 = p1
    p2 = p2
    c1 = c1
    i1 = i1
    b1 = b1
    b2 = b2
    tombstone = tombstone
    Clients <- TwoClients
    Collections <- OneCollection
    Ids <- OneId
    Tombstone = tombstone
    Vals <- EmptyAndOther
    MaxTime = 3
    Batches <- TwoBatches
    NewBatch = NewBatch
    Lifetime = 1
    Kinds <- PostAndDelete
    Bodies <- ContentOrTtl
    Headers <- SinceOne
SYMMETRY Symmetric
INVARIANTS
    TypeOK
    ParentsTellTheTruth
    RefusedOnlyForRepeatedItem
PROPERTIES
    ConditionalOnce
    AnswersAreTrue
    UploadsTakeEffectAtOnce
