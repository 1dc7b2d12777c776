SPECIFICATION Spec
CONSTANTS
    Defers = {d1, d2}
    Callbacks = {c1, c2}
    Locals = {s}
    Null = Null
    MaxStmts = 6
    MaxDepth = 3
SYMMETRY MCSymmetry
INVARIANTS TypeOK  CrashesExplained
PROPERTY CleanupsKeepPromise
