SPECIFICATION FairSpec
CONSTANTS
  c1 = c1
  c2 = c2
  c3 = c3
  Call = {c1, c2, c3}
  Kinds <- KindsOfCall
  Memory = {1, 2, 3}
  Old = {1, 3}
  MaxVersion = 2
  MaxClock = 2
  PageSize = 1
  Nowhere = 0
CHECK_DEADLOCK FALSE
INVARIANTS
  AnswersAreCurrent
  WalkComplete
  PagesExplained
PROPERTIES
  SpoiledOnlyByStaleDelete
  CallsReturn
