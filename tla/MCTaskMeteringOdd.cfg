\* A poll answered with resultType task, after the task was charged on another replica.
CONSTANTS
  t1 = t1
  p1 = p1
  p2 = p2
  r1 = r1
  r2 = r2
  Tasks <- OneTask
  Replicas <- TwoReplicas
  Responses <- TwoResponses
  Capacity = 2
  StoreFails = FALSE
  StoreForgets = FALSE
  RecorderFails = FALSE
  MaxOddPolls = 1
  MaxCrashes = 0
SPECIFICATION TaskSpec
INVARIANTS
  ChargedOnce
