\* One exchange that is no call of a tool, a resource or a prompt.
CONSTANTS
  k1 = k1
  k2 = k2
  e1 = e1
  e2 = e2
  cheap = cheap
  dear = dear
  NoName = NoName
  Refused = Refused
  Free = Free
  Shared = Shared
  None = None
  Questions <- TheQuestions
  Credentials <- TwoCredentials
  Exchanges = {e1}
  Requests <- OnlyPing
  Prices <- ThePrices
  Hints <- TheHints
  MaxEntries = 2
  MaxTTL = 2
  SharePublic = TRUE
  StrictProtocolVersion = FALSE
  MaxFailures = 1
  Window = 2
  MaxTime = 2
SPECIFICATION ServiceSpec
INVARIANT LifecycleIsFree
