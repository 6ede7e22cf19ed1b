SPECIFICATION Spec
VIEW Program
CONSTANTS
  Sets = {"set"}
  Slots = {"param"}
  Resolving = {"good"}
  Dangling = {"bad"}
  Reports = {1, 2}
  Fetches = {0, 2}
  Intervals = {1, 2}
  TimeReferences = {1}
  Notifications = {2}
  Delays = {1, 2}
  MaxTime = 4
INVARIANTS
  TypeOK
  OneTimerPerSampling
  SamplesLineUp
  SamplesFresh
PROPERTY FetchFindsSamples
CHECK_DEADLOCK FALSE
