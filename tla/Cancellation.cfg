SPECIFICATION Spec
CONSTANTS
  b1 = b1
  b2 = b2
  Builds = {b1, b2}
INVARIANTS
  IInv
  StoppedOnlyIfRaised
PROPERTIES
  CancelReachesParser
  PollersEnd
CHECK_DEADLOCK FALSE
