SPECIFICATION FairSpec
CONSTANTS
  gPre = gPre
  gA = gA
  gB = gB
  gDyn = gDyn
  gSyn = gSyn
  mainSec = mainSec
  helperSec = helperSec
  deadSec = deadSec
  fooA = fooA
  fooB = fooB
  discSec = discSec
  main = main
  helper = helper
  buf = buf
  data = data
  startFoo = startFoo
  disc = disc
  foo = foo
  None = None
  GroupOfSec <- MCGroupOfSec
  GroupOfSym <- MCGroupOfSym
  SectionOf <- MCSectionOf
  BoundOf <- MCBoundOf
  Output <- MCOutput
  OutputOf <- MCOutputOf
  Eligible <- NoSections
  Exportable <- NoSymbols
  MustLoad <- ErrMustLoad
  Discard <- ErrDiscard
  Group <- ErrGroup
  Section <- ErrSection
  Symbol <- ErrSymbol
  Relocs <- ErrRelocs
  Roots <- ErrRoots
  Synthetic = gSyn
PROPERTIES
  CollectsGarbage
  TraversalEnds
CHECK_DEADLOCK FALSE
