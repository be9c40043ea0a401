\* Which archive members are loaded, in every order of the tasks, also when some of them fail,
\* and which of several definitions is used.
SPECIFICATION FairSpec
CONSTANTS
    None = None
    NumFiles = 8
    Name <- ArchiveNames
    Link <- AllLinks
    NumChunks = 2
    ChunkOf <- ArchiveChunks
    StartStop = {"s"}
    OutputKind = "shared"
CHECK_DEADLOCK FALSE
INVARIANTS LoadedOnce ExactlyNeededLoaded DefinitionsSelected
PROPERTIES Resolves
