CONSTANTS
    NumSymbols = 2
    MaxRefs = 2
    Home <- SameGroup
    Link <- AllLinks
SPECIFICATION Spec
CHECK_DEADLOCK FALSE
INVARIANTS
    OnlyUnsupportedFails
    PltTablesExact
    ReferencesDenote
