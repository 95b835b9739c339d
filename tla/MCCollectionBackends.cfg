SPECIFICATION Spec
CONSTANTS
    p1 = p1
    p2 = p2
    s1 = s1
    s2 = s2
    std = std
    n1 = n1
    n2 = n2
    NoName = NoName
    Clients <- TwoClients
    Servers <- TwoServers
    Names <- ThreeNames
    StdColls <- OneStd
    FirstCustom = 3
    MaxId = 4
SYMMETRY Symmetric
INVARIANTS
    TypeOK
    CacheAgrees
    InfoNamesAreTrue
PROPERTIES
    NamesKeepTheirIds
