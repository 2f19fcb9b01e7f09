\* Interleave: recording, deduplication and flushing with two flushers, one bucket refused forever.
CONSTANTS
  b1 = b1
  b2 = b2
  k1 = k1
  k2 = k2
  f1 = f1
  f2 = f2
  NoKey = NoKey
  Buckets <- TwoBuckets
  Keys <- TwoKeys
  Flushers <- TwoFlushers
  Policy = "Interleave"
  RefusedBuckets <- OnlyB1
  MaxIdempotencyKeys = 1
  MaxUnits = 2
  UnitsPerCall <- UpToOneUnit
  Timestamps <- TwoTimes
  MaxEvents = 3
SPECIFICATION FairSpec
INVARIANTS
  TypeOK
  EveryCallHasOnePlace
  StableIdentifiers
  ExactAggregates
  ChargedOncePerWindow
  OneOwner
  NeitherQueueStarves
PROPERTIES
  CleanCallsGetExported
