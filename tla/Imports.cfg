SPECIFICATION FairSpec
CONSTANTS
    Entry = Entry
    A = A
    B = B
    NoFile = NoFile
    Files <- MCFiles
    Paths <- MCPaths
    EntryPath = "src/main"
    resolveUseToFile <- MCResolve
    UseDecls <- MCUseDecls
    Symbols = {"f", "g", "T"}
    decls <- MCDecls
INVARIANTS TypeOK UnitsExact  EntryCycleReported DuplicatesLocal
PROPERTY WalkEnds
