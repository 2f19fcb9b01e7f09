\* The metered exporter between two other sinks, its progress abandoned once.
CONSTANTS
  b1 = b1
  b2 = b2
  f1 = f1
  NoKey = NoKey
  Buckets <- TwoBuckets
  Keys <- NoKeys
  Flushers <- OneFlusher
  Policy = "CompleteBatch"
  RefusedBuckets <- NoBucket
  MaxIdempotencyKeys = 0
  MaxUnits = 2
  UnitsPerCall <- OneUnit
  Timestamps <- OneTime
  MaxEvents = 3
  DeadLetterCapacity = 1
  MaxNotices = 1
  Sinks <- OtherSinks
  MaxAbandons = 1
SPECIFICATION MeteredSpec
CONSTRAINT FewDeadLetters
INVARIANTS
  LeaseProtectsProgress
  DeadLettersAccounted
  CompletedWereAnswered
PROPERTIES
  ImplementsUsageLedger
