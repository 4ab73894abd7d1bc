SPECIFICATION Spec
CONSTANTS
  f = f
  v1 = v1
  v2 = v2
  x1 = x1
  x2 = x2
  a = a
  A = A
  b = b
  n1 = n1
  n2 = n2
  m1 = m1
  r1 = r1
  r2 = r2
  r3 = r3
  Files = {f}
  Versions = {v1, v2}
  Messages = {"failed"}
  Scopes <- MCScopes
  Symbols = {a, A, b}
  Alike <- MCAlike
  LocalIds = {x1, x2}
  Paths = {n1, n2, m1, r1, r2, r3}
  NodesOf <- MCNodesOf
  PathsOf <- MCPathsOf
  StartOf <- MCStartOf
  NodesIn <- MCNodesIn
  PreOf <- MCPreOf
  Queries <- MCQueries
  Directories <- MCDirectories
INVARIANTS
  IInv
  NodeLoadedExactly
  HandlesValid
  ExtensionsFound
  AddedPerPattern
