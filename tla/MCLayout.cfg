CONSTANTS
  Page <- MCPage
  JalReach = 12
  HiPage = 16
  BranchRange = 72
  MaxThunkBytes = 28
  MaxPasses = 5
  ThunkSize = 6
  Programs <- MCPrograms
SPECIFICATION Spec
INVARIANTS InputsPlaced SegmentsMapTheFile HeadersComplete BranchesReach
CHECK_DEADLOCK FALSE
