SPECIFICATION Spec
CONSTANTS
  Inputs <- BothInputs
  Outputs <- BothOutputs
  Cap <- BothCap
  Totals <- BothTotals
  Plans <- AllPlans
INVARIANTS TypeOK EndsDrainedUnlessLate
PROPERTIES Terminates DisturbedStops
CHECK_DEADLOCK FALSE
