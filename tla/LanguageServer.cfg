SPECIFICATION Spec
CONSTANTS
  a = a
  b = b
  outer = outer
  inner = inner
  v1 = v1
  v2 = v2
  Files = {a, b}
  Versions = {v1, v2}
  Messages = {"failed"}
  Scopes <- MCScopes
  Broken = {v2}
  Folders = {outer, inner}
  FilesOf <- MCFilesOf
  Timers = TRUE
  MaxJobs = 2
INVARIANTS
  IInv
  QuietIndexMatches
PROPERTIES
  ThreadStops
