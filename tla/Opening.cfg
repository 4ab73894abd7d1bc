SPECIFICATION Spec
CONSTANTS
  Processes = {p1, p2, p3}
  VERSION = 6
  OldVersions = {5}
  MaxFiles = 2
SYMMETRY Symmetric
INVARIANTS
  OneVersion
  OpenedIsReady
  EmptyOnlyIfInterrupted
CHECK_DEADLOCK FALSE
