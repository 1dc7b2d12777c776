SPECIFICATION FairSpec
CONSTANTS
    Bytes = {0, 1}
    Edges = {"e1", "e2"}
    Targets <- MCTargets
    Havoc <- MCHavoc
    MAX_INPUT = 4
    MAX_QUEUE = 2
    MAX_MUT_PER_BASE = 1
    Variants = 1
    Growth = 1
    MAX_CRASHES = 2
    MaxIters = 4
    Corpora <- MCCorpora
INVARIANTS TypeOK MutationCrashMinimal SeedsPersist OvershootBounded
PROPERTY WorkerEnds
