SPECIFICATION Spec
CONSTANTS
  Graphs <- MCGraphs
  MayFail = {"Add", "FileSink"}
  MayCancel = TRUE
INVARIANTS TypeOK Unhindered Finished Consumed Met
PROPERTIES Terminates CancelStops
CHECK_DEADLOCK FALSE
