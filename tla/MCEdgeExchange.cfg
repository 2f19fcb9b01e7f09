\* Every configuration; where it serves, requests of two tenants through every layer.
CONSTANTS
  ka = ka
  kb = kb
  weak = weak
  secret = secret
  short = short
  token = token
  cheap = cheap
  dear = dear
  NoName = NoName
  Refused = Refused
  Free = Free
  Absent = Absent
  Empty = Empty
  Unpriced = Unpriced
  Garbled = Garbled
  Junk = Junk
  FromBody = FromBody
  Transport = Transport
  None = None
  Features = {"tls", "redis"}
  Environment <- TheEnvironment
  Weak = {weak}
  Short = {short, Empty}
  BadPrefixes = {Empty}
  MaxSeconds = 200000
  Configs <- TheConfigs
  Requests <- TheRequests
  Snapshots <- TheSnapshots
  MaxWord = 100000
  Names <- TheNames
  Nonces = {1}
  Start <- TheStart
  TickSeconds = 86401
  MaxTicks = 2
SPECIFICATION ExchangeSpec
\* A sidecar that refused its configuration has stopped.
CHECK_DEADLOCK FALSE
INVARIANTS
  TenantsPayForTheirOwnCalls
  OriginSeesThePricedCall
  OverCapCallsArePaid
  RefusedCallsStopHere
PROPERTIES
  GoodPaymentIsHonoured
  EveryRequestIsAnswered
