\* Every schedule of the tasks that split groups and carry buckets.
SPECIFICATION Spec
CONSTANTS
    None = None
    Inputs <- MergeInputs
    NumBuckets = 2
    HashBucket <- Hash
    BlockSize = 2
    BlockCapacity = 1
    MaxOffset = 8
CHECK_DEADLOCK FALSE
INVARIANTS NothingLeftBehind MergingIsDeterministic ReferencesFindTheirStrings PatchRangesHoldTheirSection
