SPECIFICATION Spec
CONSTANTS
  Inputs <- BothInputs
  Outputs <- BothOutputs
  Cap <- BothCap
  Totals <- BothTotals
  Plans <- TasksOnly
INVARIANTS EndsDrainedUnlessTimedOut
CHECK_DEADLOCK FALSE
