SPECIFICATION FairSpec
CONSTANT Cases <- MCCases
CHECK_DEADLOCK FALSE
INVARIANTS
  TypeOK
  Faithful
  NothingWithheld
  NoIdleAgain
  NoPanic
  Durable
PROPERTIES
  HonestWait
  Finishes
