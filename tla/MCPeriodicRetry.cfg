SPECIFICATION Spec
CONSTANTS
  Params = {"p1"}
  Keys = {"k1"}
  MAX_EVENT_QUEUE_SIZE = 4
  LIMIT_599 = 1
  MaxRetries = 1
  MaxRequests = 1
  MaxEvents = 3
  MaxPingTimers = 1
  AcsMayFault = FALSE
  AcsMayBeDisabled = TRUE
  UrlMayBeUnknown = TRUE
  UrlMayBeLost = TRUE
  PeriodicInformEnable = TRUE
  MayCrash = TRUE
INVARIANT
  PeriodicHasRetry
