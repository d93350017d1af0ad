SPECIFICATION Spec
CONSTANTS
  Graphs <- Narrowing
  MayFail = {}
  MayCancel = FALSE
INVARIANTS Exhausted
CHECK_DEADLOCK FALSE
