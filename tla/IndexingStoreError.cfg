SPECIFICATION Spec
CONSTANTS
  a = a
  b = b
  c = c
  w1 = w1
  w2 = w2
  v1 = v1
  v2 = v2
  vBroken = vBroken
  n1 = n1
  n2 = n2
  r1 = r1
  r2 = r2
  Files = {a, b, c}
  Versions = {v1, vBroken}
  Supported = {a, b}
  Broken = {vBroken}
  Paths = {n1, r1}
  PathsOf <- MCPathsOf1
  FromRoot = {r1}
  Writers = {w1}
  Servers = {}
  SourceLists <- ListABC
  ContinueFroms <- AnyMark
  Scopes <- ScopesABC
  FileTimer = TRUE
  QuietEdits = TRUE
PROPERTIES
  StoreErrorIsAccepted
