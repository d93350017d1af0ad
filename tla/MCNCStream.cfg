SPECIFICATION Spec
CONSTANTS
  Capacity = 2
  Sizes = {1, 2}
  PushLimit = 3
  ReadWaits = {"wait"}
INVARIANTS
  TypeOK
  PoppedIsPeeked
  NeverMeansNever
PROPERTY ToldWhenClosed
CHECK_DEADLOCK FALSE
