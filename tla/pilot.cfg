SPECIFICATION FairSpec
CONSTANTS
  Study = {1, 2}
  Scenario = {1, 2}
  Outcomes = {"response", "failed"}
  MaxCrashes = 1
  BatchSize = 1
  MaxAttempts = 2
  MaxBlinds = 2
  MaxReviews = 2
  MaxAtOnce = 2
INVARIANTS
  ReviewIsExact
  RatedIsAnalysed
PROPERTIES
  RatingsKept
  SavedIsFinal
  CommandsEnd
CHECK_DEADLOCK FALSE
