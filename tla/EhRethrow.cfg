SPECIFICATION FairSpec
CONSTANTS
    PoolSize = 2
    HeapSize = 0
    MaxTries = 2
    ErrorT = ErrorT
    AppT = AppT
    SubT = SubT
    NoType = NoType
    Types <- MCTypes
    Parent <- MCParent
    Clauses <- CatchAll
    Divides = TRUE
    Escapes = FALSE
PROPERTY UnmatchedPropagates
