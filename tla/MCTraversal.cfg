SPECIFICATION FairSpec
CONSTANTS
  gPre = gPre
  gA = gA
  gB = gB
  gDyn = gDyn
  gSyn = gSyn
  mainSec = mainSec
  helperSec = helperSec
  deadSec = deadSec
  fooA = fooA
  fooB = fooB
  discSec = discSec
  main = main
  helper = helper
  buf = buf
  data = data
  startFoo = startFoo
  disc = disc
  foo = foo
  None = None
  GroupOfSec <- MCGroupOfSec
  GroupOfSym <- MCGroupOfSym
  SectionOf <- MCSectionOf
  BoundOf <- MCBoundOf
  Output <- MCOutput
  OutputOf <- MCOutputOf
  Eligible <- FullEligible
  Exportable <- FullExportable
  MustLoad <- NoSections
  Discard <- NoSections
  Group <- FullGroup
  Section <- FullSection
  Symbol <- FullSymbol
  Relocs <- FullRelocs
  Roots <- FullRoots
  Synthetic = gSyn
INVARIANTS
  NoLostWork
  SyntheticAfterActivation
  ServedOnce
PROPERTIES
  CollectsGarbage
  TraversalEnds
CHECK_DEADLOCK FALSE
