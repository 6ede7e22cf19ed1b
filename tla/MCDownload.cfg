SPECIFICATION Spec
CONSTANTS
  Ids = {d1, d2, d3}
  Keys = {k1, k2}
  MAXDOWNLOADS = 2
  MaxCrashes = 2
  InstallerMayBeSilent = TRUE
INVARIANTS
  TypeOK
  Accounted
  DownloadsBounded
  ResponseFindsDownload
  InstalledOnce
PROPERTY TransfersSpec
SYMMETRY Symmetry
CHECK_DEADLOCK FALSE
