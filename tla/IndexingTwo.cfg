SPECIFICATION FairSpec
CONSTANTS
  a = a
  b = b
  c = c
  w1 = w1
  w2 = w2
  v1 = v1
  v2 = v2
  vBroken = vBroken
  n1 = n1
  n2 = n2
  r1 = r1
  r2 = r2
  Files = {a}
  Versions = {v1, v2, vBroken}
  Supported = {a}
  Broken = {vBroken}
  Paths = {n1, r1, n2, r2}
  PathsOf <- MCPathsOf
  FromRoot = {r1, r2}
  Writers = {w1, w2}
  Servers = {w1}
  SourceLists <- ListA
  ContinueFroms <- NoMark
  Scopes <- ScopesA
  FileTimer = FALSE
  QuietEdits = FALSE
INVARIANTS
  IInv
  StoredExactly
PROPERTIES
  ImplementsFileIndex
  CallsReturn
