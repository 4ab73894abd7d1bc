CONSTANTS
  Nodes <- TwoWaysNodes
  NodeOrder <- TwoWaysOrder
  Files <- TwoWaysFiles
  FileOf <- TwoWaysFileOf
  LocalIdOf <- TwoWaysLocalIdOf
  KindOf <- TwoWaysKindOf
  SymbolOf <- TwoWaysSymbolOf
  ScopeOf <- NoScopes
  References = {"q"}
  Definitions = {"q1", "q2"}
  ExportedScopes = {}
  Symbols = {"q"}
  Alike <- TwoWaysAlike
  Graphs <- TwoWaysGraphs
  Settings <- MCSettings
  Inputs <- TwoWaysInputs
  MaxSteps = 5
SPECIFICATION Spec
INVARIANTS
  AnswersUnshadowed
