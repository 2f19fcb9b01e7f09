\* Two replicas share a failing store; responses are dropped, drains cancelled.
CONSTANTS
  t1 = t1
  p1 = p1
  p2 = p2
  r1 = r1
  r2 = r2
  Tasks <- OneTask
  Replicas <- TwoReplicas
  Responses <- TwoResponses
  Capacity = 1
  StoreFails = TRUE
  StoreForgets = TRUE
  RecorderFails = TRUE
  MaxOddPolls = 1
  MaxCrashes = 1
SPECIFICATION TaskFairSpec
INVARIANTS
  ChargedOnceUnlessOdd
  LossesAreExplained
  ParkedOnce
PROPERTIES
  CompletedIsSettled
