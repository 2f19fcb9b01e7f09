\* Three requests of a tenant that goes over its cap share one challenge, which each may present;
\* the key is revoked at any time.  A reservation outlives the challenge within the bound.
CONSTANTS
  p1 = p1
  q1 = q1
  q2 = q2
  q3 = q3
  c1 = c1
  Unknown = Unknown
  Unpriced = Unpriced
  Replicas <- OneReplica
  Requests <- ThreeRequests
  Challenges <- OneChallenge
  Plan <- GoesOver
  TTL = 2
  StoreTimeout = 1
  FetchTimeout = 1
  Interval = 2
  MaxStale = 1
  MaxTime = 4
SPECIFICATION AdmissionSpec
SYMMETRY AdmissionSymmetry
\* Every request ends, and the clock stops at its bound.
CHECK_DEADLOCK FALSE
INVARIANTS
  RefusedProofsAreReleased
PROPERTIES
  SettlesOnce
  RevocationIsBounded
