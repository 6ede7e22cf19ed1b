\* The inputs are bounded: a component may stop.
SPECIFICATION MCSpec
CONSTANTS
  FileValues = {"", "a", "b", "a "}
  Strip <- MCStrip
  Garbage = {"junk"}
  DeleteIfEmpty = TRUE
  MaxForeign = 2
  WlanInterfaces = {"main", "portal"}
  Bands = {"2.4", "5"}
  InitialBand = "5"
  BandFixed = FALSE
  Guided = {"main"}
  Multiline <- MCMultiline
  WlanChannels = {1, 6}
  WlanRpcs <- MCWlanRpcs
  MaxInputs = 3
  MappingIndices = {1}
  DmzIndices = {1}
  IPInterfaces = {"ip1"}
  V4 = {"c4", "r4"}
  V6 = {"c6"}
  HostNames = {"h"}
  Ports = {2, 80, 81}
  MappingUpdates <- MCMappingUpdates
  DmzPairs <- MCDmzPairs
  MaxMappingChanges = 4
  PoolIndices = {1, 2}
  PoolUpdates <- MCPoolUpdates
  Urls = {"", "u"}
  PoolTexts = {"", "t"}
  MaxPoolChanges = 5
  DeviceIndices = {1, 2}
  Serials = {"s"}
  Nicks = {"n"}
  my_serial = "s"
  Keys = {"k"}
  UiTypes = {"u1", "u2"}
  MaxTvChanges = 3
  ExportValues = {"a", "b"}
  MaxExportChanges = 4
  MaxStreamChanges = 4
  Domains = {"US"}
  Ssids = {"home", "guest"}
  Phrases = {"secret"}
  RadioChannels = {6, 44}
  RadioRpcs <- MCRadioRpcs
  WepKeys = 1
  MaxRpcs = 3
  Readings = {10, 60}
  Thresholds = {50}
  Intervals = {1, 2}
  DefaultPoll = 2
  MaxTime = 5
  Wlans = {"w1", "w2", "w3"}
  WlanInfo <- MCWlanInfo
  TvBox = TRUE
  StorageBox = TRUE
  ExperimentLists <- MCExperimentLists
  Writable <- MCWritable
  WrittenValues = {"x", "y"}
  SystemNames = {"a", "b", "c", "bad"}
  Misnamed = {"bad"}
  MaxFiles = 3
INVARIANTS TypeOK AppliedWhenIdle RequestedInForce
PROPERTY ProtectedWhenNamed
CHECK_DEADLOCK FALSE
