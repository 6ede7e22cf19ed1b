SPECIFICATION FairSpec
CONSTANTS
  Params = {"p1"}
  Keys = {"k1"}
  MAX_EVENT_QUEUE_SIZE = 4
  LIMIT_599 = 0
  MaxRetries = 1
  MaxRequests = 1
  MaxEvents = 2
  MaxPingTimers = 1
  AcsMayFault = FALSE
  AcsMayBeDisabled = FALSE
  UrlMayBeUnknown = FALSE
  UrlMayBeLost = FALSE
  PeriodicInformEnable = TRUE
  MayCrash = FALSE
INVARIANT
  PeriodicHasRetry
PROPERTIES
  TransferCompletePosted
  ChangesReported
  PingServed
