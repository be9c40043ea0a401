SPECIFICATION Spec
CONSTANTS
  Links <- MCLinks
  Names <- MCNames
  ChunkSize = 2
  MachLinks <- MCMachLinks
  UnwindPage = 2
  MachPage = 4
INVARIANTS
  LookupsFindDefinitions
  ReferencesNameTheirVersion
  TablesWrittenInFull
  DyldFixesPointers
  UnwinderFindsFunctions
