\* One call at a sidecar that enforces quota, while the cache expires and is filled again.
CONSTANTS
  ka = ka
  kb = kb
  weak = weak
  secret = secret
  short = short
  token = token
  cheap = cheap
  dear = dear
  NoName = NoName
  Refused = Refused
  Free = Free
  Absent = Absent
  Empty = Empty
  Unpriced = Unpriced
  Garbled = Garbled
  Junk = Junk
  FromBody = FromBody
  Transport = Transport
  None = None
  Features = {"tls", "redis"}
  Environment <- TheEnvironment
  Weak = {weak}
  Short = {short, Empty}
  BadPrefixes = {Empty}
  MaxSeconds = 200000
  Configs <- OnlyQuota
  Requests <- OnlyModern
  Snapshots <- TheSnapshots
  MaxWord = 100000
  Names <- TheNames
  Nonces = {1}
  Start <- TheStart
  TickSeconds = 86401
  MaxTicks = 0
SPECIFICATION ExchangeSpec
\* A sidecar that could not start has stopped.
CHECK_DEADLOCK FALSE
INVARIANT CallsWithoutVerdictAreRefused
