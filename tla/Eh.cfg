SPECIFICATION FairSpec
CONSTANTS
    PoolSize = 1
    HeapSize = 2
    MaxTries = 3
    ErrorT = ErrorT
    AppT = AppT
    SubT = SubT
    NoType = NoType
    Types <- MCTypes
    Parent <- MCParent
    Clauses <- CatchSome
    Divides = TRUE
    Escapes = TRUE
INVARIANTS TypeOK FramesDisjoint StackMirrorsNesting
PROPERTIES NearestUntilEscape ProgramTerminates RootClauseHandles
