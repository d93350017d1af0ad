SPECIFICATION Spec
CONSTANT Cases <- CutCases
CHECK_DEADLOCK FALSE
INVARIANT Faithful
