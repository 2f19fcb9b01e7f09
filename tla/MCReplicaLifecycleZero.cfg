\* The same replica with a flush interval of zero, which its configuration accepts.
CONSTANTS
  b1 = b1
  b2 = b2
  c1 = c1
  lp = lp
  fl = fl
  Loop = lp
  Final = fl
  NoFuture = NoFuture
  NoKey = NoKey
  Buckets <- TwoBuckets
  Keys <- NoKeys
  Flushers <- LoopAndFinal
  Policy = "CompleteBatch"
  RefusedBuckets <- NoBucket
  MaxIdempotencyKeys = 0
  MaxUnits = 2
  UnitsPerCall <- OneUnit
  Timestamps <- OneTime
  MaxEvents = 2
  DeadLetterCapacity = 1
  MaxNotices = 0
  Sinks <- NoSinks
  MaxAbandons = 0
  Connections <- OneConnection
  MaxConnections = 1
  DeferredCapacity = 1
  FlushInterval = 0
SPECIFICATION LifeFairSpec
PROPERTIES
  RecordedCallsAreExported
