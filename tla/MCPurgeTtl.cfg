SPECIFICATION Spec
CONSTANTS
    Rows = {r1, r2, r3}
    Ttl = 1
    ChunkSize = 2
    MaxToDelete = 1
    Retries = 2
    MaxTime = 4
    MaxErrors = 2
    MaxWrites = 1
INVARIANTS
    TypeOK
PROPERTIES
    PurgesOnlyExpired
    ExpiredRowsGo
