SPECIFICATION Spec
CONSTANTS
  Ids = {d1, d2}
  Keys = {k1, k2}
  MAXDOWNLOADS = 1
  MaxCrashes = 2
  InstallerMayBeSilent = FALSE
INVARIANT FailureReported
