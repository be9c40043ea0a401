\* A second link names the same files, one of them with other modifiers.
CONSTANTS
  Lexeme <- MCLexeme
  Number <- MCTokenNumber
  Joined <- MCNone
  Forced <- MCForced
  Unsupported = "warn"
  TokenNumber <- MCTokenNumber
  WordBits = 6
  Spelling <- MCSpelling
  Quoted = {}
  Demangled <- MCNone
  InDir <- MCInDir
  DirOf <- MCDirOf
  LibFile <- MCLibFile
  LibArg <- MCLibArg
  Rooted <- MCRooted
  FileIndexBits = 1
  FilesPerGroup = 2
  SymbolsPerGroup = 3
  Generated <- MCGenerated
  Claims = {"ir.o", "libx.a"}
  Denotes <- MCDenotes
  Settings <- ModifierChanges
SPECIFICATION Spec
PROPERTY ReuseMeansSameLink
