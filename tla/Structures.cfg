SPECIFICATION StructuresSpec
CONSTANTS
  Names = {d1, d2}
  Elements = {e1, e2}
  Keys = {k1, k2}
  MaxCells = 3
  MaxKeyCells = 5
  Strings = {"empty", "short", "long"}
  Size <- MCSize
  Capacities = {1, 2, 4, 8, 16}
  INITIAL_STRING_CAPACITY = 1
  Tables = {"symbols", "files"}
  FileNames = {"a", "b"}
  Graphs = {"into", "other"}
  Building = {"other"}
  Started <- MCStarted
  Payloads <- MCPayloads
  ScopeFiles <- MCScopeFiles
  Infos <- MCInfos
  LocalIds = {1}
  MaxNodes = 2
  MaxEdges = 2
  ExistingIds <- MCExistingIds
  Constructions <- MCConstructions
  MaxInjected = 1
SYMMETRY Symmetric
INVARIANTS
  PointersValid
  ReversalsMutual
  IdsFindNodes
  DegreesCountEdges
  CopiesOfOneFile
  BuildsBesideNodes
PROPERTIES
  KeysShared
  ImplementsSharedSequences
  CopiesFaithful
  LoadsWhatWasSaved
  FailuresKeepGraphs
CHECK_DEADLOCK FALSE
