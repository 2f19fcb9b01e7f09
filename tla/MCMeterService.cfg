\* Two exchanges of two credentials share a cache of two entries.
CONSTANTS
  k1 = k1
  k2 = k2
  e1 = e1
  e2 = e2
  cheap = cheap
  dear = dear
  NoName = NoName
  Refused = Refused
  Free = Free
  Shared = Shared
  None = None
  Questions <- TheQuestions
  Credentials <- TwoCredentials
  Exchanges <- TwoExchanges
  Requests <- TheRequests
  Prices <- ThePrices
  Hints <- TheHints
  MaxEntries = 2
  MaxTTL = 2
  SharePublic = TRUE
  StrictProtocolVersion = FALSE
  MaxFailures = 1
  Window = 2
  MaxTime = 2
SPECIFICATION ServiceSpec
SYMMETRY ServiceSymmetry
INVARIANTS
  OneRepresentation
  HitsAnswerTheirCaller
  ChargedForWhatWasDelivered
  GuessesAreBounded
PROPERTIES
  EvictsOnlyTheOldest
  HitsAreFresh
