SPECIFICATION Spec
CONSTANTS
  Params = {"p1"}
  Keys = {"k1"}
  MAX_EVENT_QUEUE_SIZE = 4
  LIMIT_599 = 1
  MaxRetries = 1
  MaxRequests = 1
  MaxEvents = 4
  MaxPingTimers = 1
  AcsMayFault = TRUE
  AcsMayBeDisabled = TRUE
  UrlMayBeUnknown = TRUE
  UrlMayBeLost = TRUE
  PeriodicInformEnable = TRUE
  MayCrash = TRUE
INVARIANTS
  TypeOK
  SessionAwaitsOnePost
  OneRetryTimer
  EndCallbacksServed
  SessionEventsAnnounced
PROPERTIES
  ForgottenOnlyWhenAcknowledged
  ExchangeSpec
