SPECIFICATION Spec
CONSTANTS
  Cap = 3
  TagsPerSample = 1
  MinConsume = 0
  MaxSent = 7
PROPERTY TagsOfUnreadKept
CHECK_DEADLOCK FALSE
