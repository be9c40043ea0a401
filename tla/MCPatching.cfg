\* Patches of one file, a kill at every step; full links, patches and rewrites of the index with
\* a crash at every step and torn files.
SPECIFICATION Spec
CONSTANTS
    Setting <- PatchedFamilies
    None = None
    Pad = 1
    FreeSlots = 1
    GroupLen = 3
    File = {"object", "archive"}
    Content = {"v1", "v2"}
    FirstContent = "v1"
    RecordSets <- TwoRecordSets
    Legacy = {"sections", "separate", "unlocated"}
    EditSets <- OneAtATime
    RustInputs = {"archive"}
    ReadOnly = {}
    Absent = Absent
    Error = Error
    MaxSaves = 2
    MaxEdits = 2
    MaxTears = 1
CHECK_DEADLOCK FALSE
INVARIANTS
    OutputFresh
    UnwindTableFresh
    BuildIdFresh
    RecordsReadBack
    InputsReadBack
    SnapshotsServe
