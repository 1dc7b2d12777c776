SPECIFICATION Spec
CONSTANTS
    PoolSize = 2
    HeapSize = 0
    MaxTries = 3
    ErrorT = ErrorT
    AppT = AppT
    SubT = SubT
    NoType = NoType
    Types <- MCTypes
    Parent <- MCParent
    Clauses <- CatchAll
    Divides = FALSE
    Escapes = TRUE
PROPERTY NearestHandler
