SPECIFICATION Spec
CONSTANTS
  Capacity = 2
  Sizes = {1, 2}
  PushLimit = 3
  ReadWaits = {"wait"}
INVARIANT EofMeansEmpty
CHECK_DEADLOCK FALSE
