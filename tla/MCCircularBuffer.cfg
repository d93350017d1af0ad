SPECIFICATION Spec
CONSTANTS
  Cap = 3
  TagsPerSample = 1
  MinConsume = 1
  MaxSent = 7
INVARIANTS
  TypeOK
  WindowsDisjoint
  WindowsFit
  ReadWindowIntact
  TagsOnTheirSample
  ReadTagsInWindow
PROPERTIES
  TagsOfUnreadKept
  FifoSpec
CHECK_DEADLOCK FALSE
