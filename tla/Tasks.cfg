SPECIFICATION FairSpec
CONSTANTS
    NumTasks = 3
    MaxOps = 2
    Slips <- AllSlips
INVARIANTS TypeOK TasksMemorySafe AwaitReclaims LockExact
PROPERTY ProgramEnds
CHECK_DEADLOCK FALSE
