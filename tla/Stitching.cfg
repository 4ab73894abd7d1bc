CONSTANTS
  Nodes <- MCNodes
  NodeOrder <- MCNodeOrder
  Files <- MCFiles
  FileOf <- MCFileOf
  LocalIdOf <- MCLocalIdOf
  KindOf <- MCKindOf
  SymbolOf <- MCSymbolOf
  ScopeOf <- MCScopeOf
  References <- MCReferences
  Definitions <- MCDefinitions
  ExportedScopes <- MCExportedScopes
  Symbols <- MCSymbols
  Alike <- MCAlike
  Graphs <- MCGraphs
  Settings <- MCSettings
  Inputs <- MCInputs
  MaxSteps = 10
SPECIFICATION Spec
INVARIANTS
  PathsMean
  PathsWellFormed
  ConcatenationsMean
  FindsResolutions
  FindsOnce
  CyclesCut
  CyclesRebuilt
  AnswersUnshadowed
