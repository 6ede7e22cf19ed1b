\* The inputs are bounded: a component may stop.
SPECIFICATION MCSpec
CONSTANTS
  Intervals <- MCIntervals
  MinimumWaits = {0, 5}
  Multipliers <- MCMultipliers
  StartupSessions = 2
  ShortInterval = 60
  LongInterval = 900
  MaxRetryCount = 12
  Sources = {"manual", "dhcp", "find-acs"}
  Urls = {"a", "b"}
  Permitted = {"a", "Default"}
  Default = "Default"
  Legacy = {"None", "b"}
  MaxAttempts = 2
  MaxCommands = 5
  Clients = {1, 2}
  MaxLines = 3
  Objects = {"wifi", "route"}
  Copying = {"wifi"}
  Accepted = {"a", "b"}
  MaxWrites = 2
  AddableLists = {"Pool", "Host"}
  Explicit = {2}
  MaxListIndex = 2
  MaxCount = 1
  Attrs = {"b", "u", "d", "n"}
  TypeOf <- MCTypeOf
  InitOf <- MCInitOf
  ReadOnlys = {"n"}
  Texts <- MCTexts
  Ips = {"a", "b"}
  Masks <- MCMasks
  MaxIpIndex = 2
  AllObjects <- MCAllObjects
  ObjectParams = {"p"}
  Virtual <- MCVirtual
  MaxDepth = 3
  MaxNames = 2
  Sorted <- MCSorted
  Clean <- MCClean
  PropertyValues <- MCPropertyValues
  MaxPropertyChanges = 3
  Macs = {"m1"}
  Wifi = {"Wlan"}
  Moca = {"Moca"}
  Ethernet = {"Eth"}
  NetDevs = {"br0", "eth0", "wlan0"}
  LinkPath <- MCLinkPath
  Ip4 = {"a"}
  Ip6 = {"b"}
  HostNames = {"none", "n", "d"}
  SoapParams = {"p"}
  Keys = {"none", "k1", "k2"}
  MaxObjects = 1
  MaxRequests = 3
  Groups = {"g1", "g2"}
  Streams = {1}
  StallTimes = {2}
  ResetTimes = {1}
  MaxNow = 3
INVARIANTS TypeOK TimerHasCallback AnswersTell ReadsFitTogether
PROPERTIES AcsStaysReachable AllOrNothing NumbersStay
CHECK_DEADLOCK FALSE
