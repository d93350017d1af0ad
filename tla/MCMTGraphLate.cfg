SPECIFICATION Spec
CONSTANTS
  Inputs <- BothInputs
  Outputs <- BothOutputs
  Cap <- BothCap
  Totals <- BothTotals
  Plans <- ThreadsOnly
INVARIANTS EndsDrained
CHECK_DEADLOCK FALSE
