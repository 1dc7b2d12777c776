SPECIFICATION Spec
CONSTANTS
    Builders = {p1, p2}
    IRs = {i1, i2}
    Flags = {f1}
    CSources = {c1}
    Stems = {c1}
    stem <- MCStem
    MaxEdits = 1
    MaxKills = 1
    None = None
INVARIANTS TypeOK CacheExact BuiltMeansThere LinksFreshObjects
SYMMETRY Pids
