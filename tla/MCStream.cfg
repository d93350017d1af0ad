SPECIFICATION Spec
CONSTANTS
  Cap = 2
  ReadWaits = {"wait", "wait_async"}
  WriteWaits = {"wait", "wait_async"}
INVARIANTS
  TypeOK
  EofMeansEmpty
  NeverMeansClosed
PROPERTY ToldWhenClosed
CHECK_DEADLOCK FALSE
