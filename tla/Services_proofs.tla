--------------------------- MODULE Services_proofs --------------------------
(***************************************************************************)
(* What the components of Services keep, proved for every value of their   *)
(* constants.  A section for each component, in the terms of its instance, *)
(* ends in a theorem about the component's own specification; the last     *)
(* section carries them over to the composition.                           *)
(***************************************************************************)
EXTENDS Services, Induction, FiniteSetTheorems, TLAPS

-----------------------------------------------------------------------------
(* FileBacked *)

-----------------------------------------------------------------------------
(* Proofs, for any values, garbage and stripping                           *)
(*                                                                         *)
(* While a rename is pending, filename.tmp is what _WriteFile left of the  *)
(* value assigned last: so the rename makes WritesLand true again.         *)

\* What _ReallyWriteFile is to write is in the .tmp file, unless another program wrote.
FilePending == timeouts /\ assigned # File!None => tmp = File!Written(assigned)

FileIInv ==
  /\ File!TypeOK
  /\ File!WritesLand /\ File!ChangesNoticed /\ FilePending

\* What _WriteFile leaves is read as the value that was assigned, stripped.
LEMMA WrittenReads ==
  ASSUME File!FileBackedAssumption, NEW v \in FileValues
  PROVE  File!SameValue(File!ValueOf(File!Written(v)), Strip[v])
<1>1. CASE v = ""
  BY <1>1
     DEF File!FileBackedAssumption, File!SameValue, File!ValueOf, File!Written, File!Contents,
         File!Absent, File!None
<1>2. CASE v # ""
  <2>1. Strip[v] \in FileValues /\ Strip[Strip[v]] = Strip[v]
    BY DEF File!FileBackedAssumption
  <2>2. Strip[v] # File!Absent /\ Strip[v] \notin Garbage
    BY <2>1 DEF File!FileBackedAssumption, File!Contents
  <2>3. QED
    BY <1>2, <2>1, <2>2 DEF File!SameValue, File!ValueOf, File!Written
<1>3. QED
  BY <1>1, <1>2

\* Types first: they need no other part of the invariant.
LEMMA FileNextTyped ==
  ASSUME File!FileBackedAssumption, File!TypeOK, [File!Next]_File!vars
  PROVE  File!TypeOK'
<1> USE DEF File!TypeOK, File!FileBackedAssumption, File!Contents
<1>1. \A v \in FileValues : File!Written(v) \in FileValues \cup {File!Absent}
  BY DEF File!Written
<1>2. CASE File!Get
  <2>1. File!ValueOf(file) \in FileValues \cup {File!None}
    BY DEF File!ValueOf
  <2>2. cached' \in FileValues \cup {File!None} /\ seen' \in File!Contents \cup {File!Absent}
         /\ watch' \in BOOLEAN
    BY <1>2, <2>1 DEF File!Get, File!RegisterNotifier
  <2>3. QED
    BY <1>2, <2>2 DEF File!Get, File!disk
<1>3. ASSUME NEW v \in FileValues, File!Set(v) PROVE File!TypeOK'
  BY <1>1, <1>3 DEF File!Set, File!RegisterNotifier
<1>4. CASE File!ReallyWriteFile
  <2>1. event' \in BOOLEAN
    BY <1>4 DEF File!ReallyWriteFile
  <2>2. QED
    BY <1>4, <2>1 DEF File!ReallyWriteFile, File!RenameOrUnlink
<1>5. CASE File!Notified
  BY <1>5 DEF File!Notified, File!CallCallbacks, File!disk
<1>6. CASE File!MakeDirectory
  BY <1>6 DEF File!MakeDirectory, File!memory
<1>7. ASSUME NEW content \in File!Contents \cup {File!Absent}, File!ForeignWrite(content)
      PROVE  File!TypeOK'
  <2>1. foreign' \in 0..MaxForeign
    <3>1. foreign \in 0..MaxForeign /\ MaxForeign \in Nat
      OBVIOUS
    <3>2. foreign < MaxForeign /\ foreign' = foreign + 1
      BY <1>7 DEF File!ForeignWrite
    <3> HIDE DEF File!TypeOK, File!FileBackedAssumption, File!Contents
    <3>3. QED
      BY <3>1, <3>2
  <2>2. file' \in File!Contents \cup {File!Absent} /\ event' \in BOOLEAN
         /\ assigned' \in FileValues \cup {File!None}
    BY <1>7 DEF File!ForeignWrite
  <2>3. UNCHANGED <<tmp, dir, cached, watch, timeouts, seen>>
    BY <1>7 DEF File!ForeignWrite
  <2>4. QED
    BY <2>1, <2>2, <2>3
<1>8. CASE File!Restart
  BY <1>8 DEF File!Restart, File!disk
<1>9. CASE UNCHANGED File!vars
  BY <1>9 DEF File!vars
<1>10. QED
  BY <1>2, <1>3, <1>4, <1>5, <1>6, <1>7, <1>8, <1>9 DEF File!Next

\* What WritesLand says of the file follows from what FilePending says of the .tmp file.
LEMMA FileNextIInv ==
  ASSUME File!FileBackedAssumption, FileIInv, [File!Next]_File!vars
  PROVE  FileIInv'
<1> SUFFICES File!WritesLand' /\ File!ChangesNoticed' /\ FilePending'
  BY FileNextTyped DEF FileIInv
<1> USE DEF FileIInv, File!TypeOK, File!WritesLand, File!ChangesNoticed, FilePending
<1>0. File!None \notin FileValues
  BY DEF File!FileBackedAssumption, File!Contents
<1>1. CASE File!Get
  BY <1>1 DEF File!Get, File!RegisterNotifier, File!disk
<1>2. ASSUME NEW v \in FileValues, File!Set(v)
      PROVE  File!WritesLand' /\ File!ChangesNoticed' /\ FilePending'
  BY <1>0, <1>2 DEF File!Set, File!RegisterNotifier
<1>3. CASE File!ReallyWriteFile
  <2>1. assigned # File!None => File!SameValue(File!ValueOf(file'), Strip[assigned])
    BY <1>3, WrittenReads DEF File!ReallyWriteFile, File!RenameOrUnlink
  <2>2. QED
    BY <1>3, <2>1 DEF File!ReallyWriteFile, File!RenameOrUnlink
<1>4. CASE File!Notified
  BY <1>4 DEF File!Notified, File!CallCallbacks, File!disk
<1>5. CASE File!MakeDirectory
  BY <1>5 DEF File!MakeDirectory, File!memory
<1>6. ASSUME NEW content \in File!Contents \cup {File!Absent}, File!ForeignWrite(content)
      PROVE  File!WritesLand' /\ File!ChangesNoticed' /\ FilePending'
  BY <1>6 DEF File!ForeignWrite
<1>7. CASE File!Restart
  BY <1>7 DEF File!Restart, File!disk
<1>8. CASE UNCHANGED File!vars
  BY <1>8 DEF File!vars
<1>9. QED
  BY <1>1, <1>2, <1>3, <1>4, <1>5, <1>6, <1>7, <1>8 DEF File!Next

LEMMA FileInvariance == ASSUME File!FileBackedAssumption PROVE File!Spec => []FileIInv
<1>1. File!Init => FileIInv
  <2>1. File!Init => File!TypeOK
    <3>1. 0 \in 0..MaxForeign
      <4>1. MaxForeign \in Nat
        BY DEF File!FileBackedAssumption
      <4>2. QED
        BY <4>1
    <3>2. QED
      BY <3>1 DEF File!Init, File!TypeOK
  <2>2. File!Init => File!WritesLand /\ File!ChangesNoticed /\ FilePending
    BY DEF File!Init, File!WritesLand, File!ChangesNoticed, FilePending
  <2>3. QED
    BY <2>1, <2>2 DEF FileIInv
<1>2. FileIInv /\ [File!Next]_File!vars => FileIInv'
  BY FileNextIInv
<1>3. QED
  BY <1>1, <1>2, PTL DEF File!Spec

\* For any values and any other programs, the types hold, the idle ioloop leaves the value
\* that was assigned last in the file (a filename.tmp of an earlier assignment, or of an
\* earlier process, is never renamed in its place), and no change of the file is missed.
THEOREM FileSafe ==
  ASSUME File!FileBackedAssumption
  PROVE  File!Spec => [](File!TypeOK /\ File!WritesLand /\ File!ChangesNoticed)
BY FileInvariance, PTL DEF FileIInv

-----------------------------------------------------------------------------
(* WlanConfiguration *)

AttrType ==
  [ Enable : BOOLEAN, AllowAutoDisable : BOOLEAN, AutoChannelAlgorithm : {"LEGACY", "DYNAMIC"},
    BeaconType : {"None", "Basic", "WPA", "11i", "BasicandWPA", "Basicand11i", "WPAand11i",
                  "BasicandWPAand11i"} ]
\* The texts of the parameters; "" is named for the provers.
WlanText == STRING \cup {"", Wlan!None}
WlanConfigType == [ ssid : WlanText, auto : BOOLEAN, autotype : WlanText ]
WlanNetwork == [ attr : AttrType, config : WlanConfigType, key : WlanText, band : Bands ]

\* A network that was configured has a name.
WlanNamed(w) == w.config = Wlan!NoConfig \/ w.config.ssid # Wlan!None

WlanObjects == {f \in [WlanInterfaces -> WlanNetwork] : \A i \in WlanInterfaces : WlanNamed(f[i])}

MemoryType == [ m : WlanObjects, channel : WlanChannels \cup {Wlan!NoChannel},
                scheduled : SUBSET WlanInterfaces, errors : BOOLEAN ]

\* What a command is made of, as far as Settings tells.
SameCommand(x, y, i) ==
  /\ y.m[i].attr = x.m[i].attr /\ y.m[i].key = x.m[i].key /\ y.m[i].band = x.m[i].band
  /\ y.m[i].config.ssid = x.m[i].config.ssid /\ y.m[i].config.auto = x.m[i].config.auto
  /\ y.channel = x.channel

\* Between two memories, every network that was configured either waits for the idle
\* ioloop or has the same command.
WlanScheduled(x, y) ==
  /\ x.scheduled \subseteq y.scheduled
  /\ \A i \in WlanInterfaces : x.m[i].config # Wlan!NoConfig =>
       /\ y.m[i].config # Wlan!NoConfig
       /\ i \in y.scheduled \/ SameCommand(x, y, i)

WlanCommand == [ band : Bands, ssid : WlanText \ {Wlan!None, ""}, key : WlanText,
  encryption : {"NONE", "WPA12_PSK_AES", "WPA2_PSK_AES", "WPA_PSK_AES"},
  channel : WlanChannels \cup {Wlan!NoChannel, Wlan!AutoChannel}, autotype : WlanText ]

\* The types, with the commands and what they were made from.
WlanTyped ==
  /\ up \in BOOLEAN
  /\ Wlan!Memory \in MemoryType
  /\ live \in [WlanInterfaces ->
       [ssid : WlanText \ {Wlan!None}, channel : WlanChannels \cup {Wlan!NoChannel, 1},
        auto : BOOLEAN, autotype : WlanText]]
  /\ commands \in [WlanInterfaces -> [Bands -> {Wlan!NoCommand} \cup WlanCommand]]
  /\ points \in [WlanInterfaces -> SUBSET Bands]
  /\ guide \in [WlanInterfaces ->
       [recommended : WlanChannels \cup {Wlan!NoChannel}, disabled : BOOLEAN]]
  /\ events \subseteq WlanInterfaces
  /\ exported \subseteq WlanInterfaces
  /\ \A i \in exported : m[i].config # Wlan!NoConfig

WlanValue(p, v) ==
  CASE p \in DOMAIN Wlan!TriggerAttrs -> v \in Wlan!TriggerAttrs[p]
    [] p = "SSID" -> v \in WlanText \ {Wlan!None}
    [] p = "KeyPassphrase" -> v \in WlanText
    [] p = "AutoChanType" -> v \in WlanText
    [] p = "AutoChannelEnable" -> v \in BOOLEAN
    [] OTHER -> p \in {"Channel", "OperatingFrequencyBand"}

\* What an assignment makes of the memory.
WlanStored(x, i, w, c, is) ==
  [m |-> [x.m EXCEPT ![i] = w], channel |-> c, scheduled |-> x.scheduled \cup is,
   errors |-> x.errors]

\* An assignment to network i that keeps its command, or schedules it, fits; one of the
\* channel that they share has to schedule all of them.
LEMMA StoredFits ==
  ASSUME NEW x \in MemoryType, NEW i \in WlanInterfaces, NEW w \in WlanNetwork,
         w.config.ssid # Wlan!None, NEW c \in WlanChannels \cup {Wlan!NoChannel},
         NEW is \in SUBSET WlanInterfaces,
         c # x.channel => is = WlanInterfaces,
         i \in is \/ SameCommand(x, WlanStored(x, i, w, c, is), i)
  PROVE  WlanStored(x, i, w, c, is) \in MemoryType /\ WlanScheduled(x, WlanStored(x, i, w, c, is))
<1> DEFINE y == WlanStored(x, i, w, c, is)
<1>1. x.m \in [WlanInterfaces -> WlanNetwork] /\ x.scheduled \subseteq WlanInterfaces
       /\ x.errors \in BOOLEAN
  BY DEF MemoryType, WlanObjects
<1>2. y.m = [x.m EXCEPT ![i] = w] /\ y.channel = c /\ y.scheduled = x.scheduled \cup is
  BY DEF WlanStored
<1>3. w.config # Wlan!NoConfig
  BY DEF Wlan!NoConfig
<1>4. y.m \in WlanObjects
  BY <1>1, <1>2 DEF WlanObjects, WlanNamed, MemoryType
<1>5. y \in MemoryType
  BY <1>1, <1>2, <1>4 DEF MemoryType, WlanStored
<1>6. ASSUME NEW j \in WlanInterfaces, x.m[j].config # Wlan!NoConfig
      PROVE  y.m[j].config # Wlan!NoConfig /\ (j \in y.scheduled \/ SameCommand(x, y, j))
  <2>1. CASE j = i
    BY <1>1, <1>2, <1>3, <2>1
  <2>2. CASE j # i
    BY <1>1, <1>2, <1>6, <2>2 DEF SameCommand
  <2>3. QED
    BY <2>1, <2>2
<1> HIDE DEF y
<1>7. WlanScheduled(x, y)
  BY <1>2, <1>6 DEF WlanScheduled
<1>8. QED
  BY <1>5, <1>7 DEF y

LEMMA RaiseFits ==
  ASSUME NEW x \in MemoryType
  PROVE  Wlan!Raise(x) \in MemoryType /\ WlanScheduled(x, Wlan!Raise(x))
<1>1. Wlan!Raise(x) \in MemoryType
  BY DEF Wlan!Raise, MemoryType
<1>2. Wlan!Raise(x).m = x.m /\ Wlan!Raise(x).channel = x.channel
       /\ Wlan!Raise(x).scheduled = x.scheduled
  BY DEF Wlan!Raise, MemoryType
<1>3. QED
  BY <1>1, <1>2 DEF WlanScheduled, SameCommand

LEMMA ScheduledSame == \A x : WlanScheduled(x, x)
BY DEF WlanScheduled, SameCommand

LEMMA TriggerNames ==
  /\ DOMAIN Wlan!TriggerAttrs =
       {"Enable", "AllowAutoDisable", "AutoChannelAlgorithm", "BeaconType"}
  /\ AttrType = [Enable : Wlan!TriggerAttrs["Enable"],
                 AllowAutoDisable : Wlan!TriggerAttrs["AllowAutoDisable"],
                 AutoChannelAlgorithm : Wlan!TriggerAttrs["AutoChannelAlgorithm"],
                 BeaconType : Wlan!TriggerAttrs["BeaconType"]]
BY DEF Wlan!TriggerAttrs, AttrType

\* Every setter: it schedules the export, or what it sets is in no command.
LEMMA SetAttrFits ==
  ASSUME NEW x \in MemoryType, NEW i \in WlanInterfaces, NEW p, NEW v, WlanValue(p, v),
         x.m[i].config # Wlan!NoConfig
  PROVE  Wlan!SetAttr(x, i, p, v) \in MemoryType /\ WlanScheduled(x, Wlan!SetAttr(x, i, p, v))
<1> DEFINE y == Wlan!SetAttr(x, i, p, v)
<1>1. /\ x.m \in [WlanInterfaces -> WlanNetwork] /\ x.m[i] \in WlanNetwork
          /\ x.m[i].config.ssid # Wlan!None
      /\ x.m[i].config \in WlanConfigType /\ x.m[i].attr \in AttrType
      /\ x = [m |-> x.m, channel |-> x.channel, scheduled |-> x.scheduled, errors |-> x.errors]
      /\ x.channel \in WlanChannels \cup {Wlan!NoChannel}
  BY DEF MemoryType, WlanObjects, WlanNamed, WlanNetwork
\* It is enough to find what is stored.
<1>1a. ASSUME NEW w \in WlanNetwork, w.config.ssid # Wlan!None,
              y = WlanStored(x, i, w, x.channel, {i})
       PROVE  y \in MemoryType /\ WlanScheduled(x, y)
  <2> DEFINE z == WlanStored(x, i, w, x.channel, {i})
  <2>1. {i} \in SUBSET WlanInterfaces /\ i \in {i}
    OBVIOUS
  <2>2. z \in MemoryType /\ WlanScheduled(x, z)
    BY <1>1, <1>1a, <2>1, StoredFits
  <2> HIDE DEF y, z
  <2>3. y = z
    BY <1>1a DEF z
  <2> QED BY <2>2, <2>3
<1>2. CASE p \in DOMAIN Wlan!TriggerAttrs
  <2>0. y = Wlan!SetTriggerAttr(x, i, p, v)
    BY <1>2, TriggerNames DEF Wlan!SetAttr
  <2>1. CASE v = x.m[i].attr[p]
    BY <2>0, <2>1, ScheduledSame DEF Wlan!SetTriggerAttr
  <2>2. CASE v # x.m[i].attr[p]
    <3>1. y = Wlan!Triggered([x EXCEPT !.m[i].attr[p] = v], {i})
      BY <2>0, <2>2 DEF Wlan!SetTriggerAttr
    <3> DEFINE w == [x.m[i] EXCEPT !.attr[p] = v]
    <3>2. w \in WlanNetwork /\ w.config = x.m[i].config
      <4>1. [x.m[i].attr EXCEPT ![p] = v] \in AttrType
        BY <1>1, <1>2, TriggerNames DEF WlanValue
      <4>2. w = [x.m[i] EXCEPT !.attr = [x.m[i].attr EXCEPT ![p] = v]]
        BY <1>1 DEF WlanNetwork
      <4>3. QED
        BY <1>1, <4>1, <4>2 DEF WlanNetwork
    <3>3. y = WlanStored(x, i, w, x.channel, {i})
      BY <1>1, <3>1 DEF Wlan!Triggered, WlanStored
    <3> HIDE DEF w, y
    <3>4. QED
      BY <1>1, <1>1a, <3>2, <3>3 DEF y
  <2>3. QED
    BY <2>1, <2>2
<1>3. CASE p = "SSID"
  <2>1. y = Wlan!SetSSID(x, i, v) /\ v \in WlanText \ {Wlan!None}
    BY <1>3, TriggerNames DEF Wlan!SetAttr, WlanValue
  <2>2. CASE v = ""
    BY <2>1, <2>2, RaiseFits DEF Wlan!SetSSID
  <2>3. CASE v # ""
    <3> DEFINE w == [x.m[i] EXCEPT !.config.ssid = v]
    <3>1. w \in WlanNetwork /\ w.config.ssid # Wlan!None
      BY <1>1, <2>1 DEF WlanNetwork, WlanConfigType
    <3>2. y = WlanStored(x, i, w, x.channel, {i})
      BY <1>1, <2>1, <2>3 DEF Wlan!SetSSID, Wlan!Triggered, WlanStored
    <3> HIDE DEF w, y
    <3>3. QED
      BY <1>1, <1>1a, <3>1, <3>2 DEF y
  <2>4. QED
    BY <2>2, <2>3
<1>4. CASE p = "KeyPassphrase"
  <2>1. y = Wlan!Triggered([x EXCEPT !.m[i].key = v], {i}) /\ v \in WlanText
    BY <1>4, TriggerNames DEF Wlan!SetAttr, WlanValue
  <2> DEFINE w == [x.m[i] EXCEPT !.key = v]
  <2>2. w \in WlanNetwork /\ w.config = x.m[i].config
    BY <1>1, <2>1 DEF WlanNetwork
  <2>3. y = WlanStored(x, i, w, x.channel, {i})
    BY <1>1, <2>1 DEF Wlan!Triggered, WlanStored
  <2> HIDE DEF w, y
  <2>4. QED
    BY <1>1, <1>1a, <2>2, <2>3 DEF y
<1>5. CASE p = "Channel"
  <2>1. y = Wlan!SetChannel(x, i, v)
    BY <1>5, TriggerNames DEF Wlan!SetAttr
  <2>2. CASE v \notin WlanChannels
    BY <2>1, <2>2, RaiseFits DEF Wlan!SetChannel
  <2>3. CASE v \in WlanChannels
    <3> DEFINE w == [x.m[i] EXCEPT !.config.auto = FALSE]
               is == IF v = x.channel THEN {i} ELSE WlanInterfaces
    <3>1. w \in WlanNetwork /\ w.config.ssid = x.m[i].config.ssid
      BY <1>1 DEF WlanNetwork, WlanConfigType
    <3>2. y = WlanStored(x, i, w, v, is)
      BY <1>1, <2>1, <2>3 DEF Wlan!SetChannel, Wlan!Triggered, WlanStored
    <3>3. is \in SUBSET WlanInterfaces /\ i \in is /\ (v # x.channel => is = WlanInterfaces)
      OBVIOUS
    <3> HIDE DEF w, y, is
    <3>4. QED
      BY <1>1, <2>3, <3>1, <3>2, <3>3, StoredFits DEF y
  <2>4. QED
    BY <2>2, <2>3
<1>6. CASE p = "AutoChannelEnable"
  <2>1. y = Wlan!Triggered([x EXCEPT !.m[i].config.auto = v], {i}) /\ v \in BOOLEAN
    BY <1>6, TriggerNames DEF Wlan!SetAttr, WlanValue
  <2> DEFINE w == [x.m[i] EXCEPT !.config.auto = v]
  <2>2. w \in WlanNetwork /\ w.config.ssid = x.m[i].config.ssid
    BY <1>1, <2>1 DEF WlanNetwork, WlanConfigType
  <2>3. y = WlanStored(x, i, w, x.channel, {i})
    BY <1>1, <2>1 DEF Wlan!Triggered, WlanStored
  <2> HIDE DEF w, y
  <2>4. QED
    BY <1>1, <1>1a, <2>2, <2>3 DEF y
<1>7. CASE p = "AutoChanType"
  <2>1. y = [x EXCEPT !.m[i].config.autotype = v] /\ v \in WlanText
    BY <1>7, TriggerNames DEF Wlan!SetAttr, WlanValue
  <2> DEFINE w == [x.m[i] EXCEPT !.config.autotype = v]
  <2>2. /\ w \in WlanNetwork /\ w.config.ssid = x.m[i].config.ssid
        /\ w.config.auto = x.m[i].config.auto
        /\ w.attr = x.m[i].attr /\ w.key = x.m[i].key /\ w.band = x.m[i].band
    BY <1>1, <2>1 DEF WlanNetwork, WlanConfigType
  <2>3. y = WlanStored(x, i, w, x.channel, {})
    BY <1>1, <2>1 DEF WlanStored
  <2> HIDE DEF w
  <2>4. SameCommand(x, WlanStored(x, i, w, x.channel, {}), i)
    BY <1>1, <2>2 DEF SameCommand, WlanStored
  <2> HIDE DEF y
  <2>5. QED
    BY <1>1, <2>2, <2>3, <2>4, StoredFits DEF y
<1>8. CASE p = "OperatingFrequencyBand"
  <2>1. y = Wlan!SetBand(x, i, v)
    BY <1>8, TriggerNames DEF Wlan!SetAttr
  <2>2. CASE v \notin Bands \/ (BandFixed /\ v # InitialBand)
    BY <2>1, <2>2, RaiseFits DEF Wlan!SetBand
  <2>3. CASE v \in Bands /\ ~(BandFixed /\ v # InitialBand)
    <3> DEFINE w == [x.m[i] EXCEPT !.band = v]
    <3>1. w \in WlanNetwork /\ w.config = x.m[i].config
      BY <1>1, <2>3 DEF WlanNetwork
    <3>2. y = WlanStored(x, i, w, x.channel, {i})
      BY <1>1, <2>1, <2>3 DEF Wlan!SetBand, Wlan!Triggered, WlanStored
    <3> HIDE DEF w, y
    <3>3. QED
      BY <1>1, <1>1a, <3>1, <3>2 DEF y
  <2>4. QED
    BY <2>2, <2>3
<1>9. QED
  BY <1>2, <1>3, <1>4, <1>5, <1>6, <1>7, <1>8 DEF WlanValue

LEMMA StartTransactionFits ==
  ASSUME WlanTyped, NEW x \in MemoryType, NEW i \in WlanInterfaces
  PROVE  /\ Wlan!StartTransaction(x, i) \in MemoryType
             /\ WlanScheduled(x, Wlan!StartTransaction(x, i))
         /\ Wlan!StartTransaction(x, i).m[i].config # Wlan!NoConfig
<1>1. CASE x.m[i].config # Wlan!NoConfig
  BY <1>1, ScheduledSame DEF Wlan!StartTransaction
<1>2. CASE x.m[i].config = Wlan!NoConfig
  <2> DEFINE c == [ssid |-> live[i].ssid, auto |-> live[i].auto, autotype |-> live[i].autotype]
             w == [x.m[i] EXCEPT !.config = c]
             y == Wlan!StartTransaction(x, i)
  <2>1. x.m \in [WlanInterfaces -> WlanNetwork] /\ x.m[i] \in WlanNetwork
        /\ x = [m |-> x.m, channel |-> x.channel, scheduled |-> x.scheduled, errors |-> x.errors]
        /\ x.channel \in WlanChannels \cup {Wlan!NoChannel}
            /\ x.scheduled \subseteq WlanInterfaces
        /\ \A j \in WlanInterfaces : WlanNamed(x.m[j])
    BY DEF MemoryType, WlanObjects
  <2>2. c \in WlanConfigType /\ c.ssid # Wlan!None
    BY DEF WlanTyped, WlanConfigType
  <2>3. w \in WlanNetwork /\ w.config = c
    BY <2>1, <2>2 DEF WlanNetwork
  <2>4. y = [x EXCEPT !.m[i].config = c]
    BY <1>2 DEF Wlan!StartTransaction
  <2>5. y = WlanStored(x, i, w, x.channel, {})
    BY <2>1, <2>4 DEF WlanStored
  <2> HIDE DEF c, w, y
  <2>6. c # Wlan!NoConfig
    BY <2>2 DEF Wlan!NoConfig
  <2>7. y.m = [x.m EXCEPT ![i] = w] /\ y.channel = x.channel /\ y.scheduled = x.scheduled
        /\ y.errors = x.errors
    BY <2>1, <2>5 DEF WlanStored
  <2>8. y.m \in WlanObjects
    BY <2>1, <2>2, <2>3, <2>7 DEF WlanObjects, WlanNamed
  <2>9. y \in MemoryType
    BY <2>1, <2>5, <2>7, <2>8 DEF MemoryType, WlanStored
  <2>10. WlanScheduled(x, y)
    BY <1>2, <2>1, <2>7 DEF WlanScheduled, SameCommand
  <2>11. y.m[i].config # Wlan!NoConfig
    BY <2>1, <2>3, <2>6, <2>7
  <2>12. QED
    BY <2>9, <2>10, <2>11 DEF y
<1>3. QED
  BY <1>1, <1>2

LEMMA ScheduledTransitive ==
  ASSUME NEW x, NEW y, NEW z, WlanScheduled(x, y), WlanScheduled(y, z)
  PROVE  WlanScheduled(x, z)
BY DEF WlanScheduled, SameCommand

\* Parameters and values as the RPCs have them.
ArgumentOK(a) ==
  /\ a[1] \in WlanInterfaces
  /\ a[2] \in DOMAIN Wlan!TriggerAttrs \cup Wlan!Texts \cup
       {"Channel", "AutoChannelEnable", "OperatingFrequencyBand"}
  /\ WlanValue(a[2], a[3])

\* An assignment begins a transaction on its network, then sets.
LEMMA AssignFits ==
  ASSUME WlanTyped, NEW x \in MemoryType, NEW a, ArgumentOK(a)
  PROVE  /\ Wlan!Assign(x, a) \in MemoryType /\ WlanScheduled(x, Wlan!Assign(x, a))
         /\ Wlan!Assign(x, a).m[a[1]].config # Wlan!NoConfig
<1>1. /\ Wlan!StartTransaction(x, a[1]) \in MemoryType
      /\ WlanScheduled(x, Wlan!StartTransaction(x, a[1]))
      /\ Wlan!StartTransaction(x, a[1]).m[a[1]].config # Wlan!NoConfig
  BY StartTransactionFits DEF ArgumentOK
<1>2. /\ Wlan!Assign(x, a) \in MemoryType
      /\ WlanScheduled(Wlan!StartTransaction(x, a[1]), Wlan!Assign(x, a))
  BY <1>1, SetAttrFits DEF Wlan!Assign, ArgumentOK
<1>3. Wlan!Assign(x, a).m[a[1]].config # Wlan!NoConfig
  BY <1>1, <1>2 DEF WlanScheduled, ArgumentOK
<1>4. QED
  BY <1>1, <1>2, <1>3, ScheduledTransitive

\* What a roll back assigns is what the getters returned: the setters take it.
LEMMA GetAttrTyped ==
  ASSUME WlanTyped, NEW a, ArgumentOK(a)
  PROVE  WlanValue(a[2], Wlan!GetAttr(a[1], a[2]))
<1>1. /\ m[a[1]] \in WlanNetwork /\ a[1] \in WlanInterfaces /\ m[a[1]].attr \in AttrType
      /\ m[a[1]].config.auto \in BOOLEAN
  BY DEF WlanTyped, Wlan!Memory, MemoryType, WlanObjects, WlanNetwork, ArgumentOK, WlanConfigType
<1>2. CASE a[2] \in DOMAIN Wlan!TriggerAttrs
  BY <1>1, <1>2, TriggerNames DEF Wlan!GetAttr, WlanValue
<1>3. CASE a[2] \in Wlan!Texts
  <2>1. live[a[1]].ssid \in WlanText \ {Wlan!None} /\ live[a[1]].autotype \in WlanText
    BY <1>1 DEF WlanTyped
  <2>2. CASE a[2] = "SSID"
    BY <2>1, <2>2, TriggerNames DEF Wlan!GetAttr, WlanValue
  <2>3. CASE a[2] = "KeyPassphrase"
    <3>1. Wlan!GetAttr(a[1], a[2]) = ""
      BY <2>3, TriggerNames DEF Wlan!GetAttr
    <3>3. \A v : v = "" => WlanValue("KeyPassphrase", v)
      BY TriggerNames DEF WlanValue, WlanText
    <3>4. QED
      BY <2>3, <3>1, <3>3
  <2>4. CASE a[2] = "AutoChanType"
    BY <2>1, <2>4, TriggerNames DEF Wlan!GetAttr, WlanValue
  <2>5. QED
    BY <1>3, <2>2, <2>3, <2>4 DEF Wlan!Texts
<1>4. CASE a[2] = "AutoChannelEnable"
  <2>1. Wlan!GetAttr(a[1], a[2]) \in BOOLEAN
    BY <1>1, <1>4, TriggerNames DEF Wlan!GetAttr, WlanTyped
  <2>2. QED
    BY <1>4, <2>1, TriggerNames DEF WlanValue
<1>5. CASE a[2] \in {"Channel", "OperatingFrequencyBand"}
  BY <1>5, TriggerNames DEF WlanValue
<1>6. QED
  BY <1>2, <1>3, <1>4, <1>5 DEF ArgumentOK

LEMMA RollBackFits ==
  ASSUME WlanTyped, NEW x \in MemoryType, NEW a, ArgumentOK(a), x.m[a[1]].config # Wlan!NoConfig
  PROVE  Wlan!RollBack(x, a) \in MemoryType /\ WlanScheduled(x, Wlan!RollBack(x, a))
<1>1. CASE Wlan!GetAttr(a[1], a[2]) = a[3]
  BY <1>1, ScheduledSame DEF Wlan!RollBack
<1>2. CASE Wlan!GetAttr(a[1], a[2]) # a[3]
  BY <1>2, SetAttrFits, GetAttrTyped DEF Wlan!RollBack, ArgumentOK
<1>3. QED
  BY <1>1, <1>2

\* What assignments keep, from the memory that an RPC finds.
Reached == {x \in MemoryType : WlanScheduled(Wlan!Memory, x)}

LEMMA RpcArguments ==
  ASSUME Wlan!WlanConfigurationAssumption, NEW rpc \in WlanRpcs, NEW n \in 1..Len(rpc),
         Wlan!TryAttr(rpc[n][2], rpc[n][3])
  PROVE  ArgumentOK(rpc[n])
<1> DEFINE a == rpc[n]
<1>1. /\ a[1] \in WlanInterfaces
      /\ a[2] \in Wlan!Texts => a[3] \in STRING \ {Wlan!None}
      /\ a[2] = "AutoChannelEnable" => a[3] \in BOOLEAN
      /\ a[2] \in DOMAIN Wlan!TriggerAttrs \cup Wlan!Texts \cup
           {"Channel", "AutoChannelEnable", "OperatingFrequencyBand"}
      /\ a[2] \in DOMAIN Wlan!TriggerAttrs => a[3] \in Wlan!TriggerAttrs[a[2]]
  BY DEF Wlan!WlanConfigurationAssumption, Wlan!TryAttr
<1> HIDE DEF a
<1>2. WlanValue(a[2], a[3])
  BY <1>1, TriggerNames DEF WlanValue, Wlan!Texts, WlanText
<1>3. QED
  BY <1>1, <1>2 DEF ArgumentOK, a

\* After the n-th assignment the first n networks have a configuration.
AssignedNetworks(rpc, n) ==
  {x \in Reached : \A k \in 1..n : x.m[rpc[k][1]].config # Wlan!NoConfig}

LEMMA AssignStep ==
  ASSUME WlanTyped, NEW rpc, NEW n \in Nat \ {0}, \A k \in 1..n : ArgumentOK(rpc[k]),
         NEW x \in AssignedNetworks(rpc, n - 1)
  PROVE  Wlan!Assign(x, rpc[n]) \in AssignedNetworks(rpc, n)
<1> DEFINE y == Wlan!Assign(x, rpc[n])
<1>1. x \in MemoryType /\ WlanScheduled(Wlan!Memory, x)
  BY DEF AssignedNetworks, Reached
<1>2. y \in MemoryType /\ WlanScheduled(x, y) /\ y.m[rpc[n][1]].config # Wlan!NoConfig
  BY <1>1, AssignFits, SMTT(30)
<1> HIDE DEF y
<1>3. y \in Reached
  BY <1>1, <1>2, ScheduledTransitive DEF Reached
<1>4. ASSUME NEW k \in 1..n PROVE y.m[rpc[k][1]].config # Wlan!NoConfig
  <2>1. CASE k = n
    BY <1>2, <2>1
  <2>2. CASE k # n
    <3>1. k \in 1..(n - 1) /\ rpc[k][1] \in WlanInterfaces
      BY <2>2 DEF ArgumentOK
    <3>2. QED
      BY <1>2, <3>1 DEF AssignedNetworks, WlanScheduled
  <2>3. QED
    BY <2>1, <2>2
<1>5. QED
  BY <1>3, <1>4 DEF AssignedNetworks, y

LEMMA RollBackStep ==
  ASSUME WlanTyped, NEW rpc, NEW N \in Nat, \A k \in 1..N : ArgumentOK(rpc[k]),
         NEW n \in 1..N, NEW x \in AssignedNetworks(rpc, N)
  PROVE  Wlan!RollBack(x, rpc[n]) \in AssignedNetworks(rpc, N)
<1> DEFINE y == Wlan!RollBack(x, rpc[n])
<1>1. x \in MemoryType /\ WlanScheduled(Wlan!Memory, x) /\ x.m[rpc[n][1]].config # Wlan!NoConfig
  BY DEF AssignedNetworks, Reached
<1>2. y \in MemoryType /\ WlanScheduled(x, y)
  BY <1>1, RollBackFits
<1> HIDE DEF y
<1>3. y \in Reached
  BY <1>1, <1>2, ScheduledTransitive DEF Reached
<1>4. QED
  BY <1>2, <1>3 DEF AssignedNetworks, WlanScheduled, ArgumentOK, y

\* The loops of an RPC, by Recursion: assignments, and roll backs if one failed.
LEMMA RpcStep ==
  ASSUME Wlan!WlanConfigurationAssumption, WlanTyped, NEW rpc \in WlanRpcs,
         Wlan!SetParameterValues(rpc)
  PROVE  Wlan!Memory' \in MemoryType /\ WlanScheduled(Wlan!Memory, Wlan!Memory')
<1> DEFINE N == Len(rpc)
    results[n \in 0..Len(rpc)] ==
       IF n = 0 THEN Wlan!Memory ELSE Wlan!Assign(results[n - 1], rpc[n])
    outcome == results[Len(rpc)]
    undone[n \in 0..Len(rpc)] ==
       IF n = 0 THEN outcome ELSE Wlan!RollBack(undone[n - 1], rpc[n])
    after == IF outcome.errors THEN undone[Len(rpc)] ELSE outcome
<1>1. m' = after.m /\ channel' = after.channel /\ scheduled' = after.scheduled
  BY DEF Wlan!SetParameterValues
<1>2. N \in Nat /\ \A n \in 1..N : ArgumentOK(rpc[n])
  <2>1. N \in Nat /\ DOMAIN rpc = 1..N
    BY DEF Wlan!WlanConfigurationAssumption
  <2>2. \A n \in DOMAIN rpc : Wlan!TryAttr(rpc[n][2], rpc[n][3])
    BY DEF Wlan!SetParameterValues
  <2>3. QED
    BY <2>1, <2>2, RpcArguments
<1>3. results = [n \in 0..N |-> IF n = 0 THEN Wlan!Memory ELSE Wlan!Assign(results[n - 1],
       rpc[n])]
      /\ \A n \in 0..N : results[n] \in AssignedNetworks(rpc, n)
  <2> DEFINE A == [n \in 0..N |-> AssignedNetworks(rpc, n)]
             step == [n \in 1..N |-> [x \in A[n - 1] |-> Wlan!Assign(x, rpc[n])]]
  <2>1. Wlan!Memory \in A[0]
    <3>1. Wlan!Memory \in Reached
      BY ScheduledSame DEF Reached, WlanTyped
    <3>2. Wlan!Memory \in AssignedNetworks(rpc, 0)
      BY <3>1 DEF AssignedNetworks
    <3>3. 0 \in 0..N
      BY <1>2
    <3>4. QED
      BY <3>2, <3>3
  <2>2. ASSUME NEW n \in 1..N, NEW x \in A[n - 1]
        PROVE  step[n][x] = Wlan!Assign(x, rpc[n]) /\ step[n][x] \in A[n]
    <3>1. n \in Nat \ {0} /\ n - 1 \in 0..N /\ n \in 0..N /\ \A k \in 1..n : ArgumentOK(rpc[k])
      BY <1>2
    <3>2. x \in AssignedNetworks(rpc, n - 1)
      BY <3>1
    <3>3. Wlan!Assign(x, rpc[n]) \in AssignedNetworks(rpc, n)
      BY <3>1, <3>2, AssignStep
    <3>4. QED
      BY <3>1, <3>3
  <2> HIDE DEF A, step
  <2>3. PICK f : Iterates(N, Wlan!Memory, step, f) /\ \A n \in 0..N : f[n] \in A[n]
    <3>1. \A n \in 1..N : \A x \in A[n - 1] : step[n][x] \in A[n]
      BY <2>2
    <3>2. N \in Nat
      BY <1>2
    <3> HIDE DEF N
    <3>3. QED
      BY <2>1, <3>1, <3>2, Recursion
  <2>4. f = [n \in 0..N |-> IF n = 0 THEN Wlan!Memory ELSE Wlan!Assign(f[n - 1], rpc[n])]
    <3>1. \A n \in 1..N : step[n][f[n - 1]] = Wlan!Assign(f[n - 1], rpc[n])
      BY <1>2, <2>2, <2>3
    <3>2. QED
      BY <2>3, <3>1 DEF Iterates
  <2>5. results = [n \in 0..N |-> IF n = 0 THEN Wlan!Memory ELSE Wlan!Assign(results[n - 1],
         rpc[n])]
    BY <2>4
  <2> HIDE DEF results
  <2>6. results[0] = Wlan!Memory
         /\ \A n \in 1..N : results[n] = Wlan!Assign(results[n - 1], rpc[n])
    BY <1>2, <2>5
  <2>7. \A n \in 1..N : results[n - 1] \in A[n - 1] => results[n] \in A[n]
    BY <2>2, <2>6
  <2>8. \A n \in 0..N : results[n] \in A[n]
    BY <1>2, <2>1, <2>6, <2>7, Along
  <2>9. QED
    BY <2>5, <2>8 DEF A
<1>4. outcome \in AssignedNetworks(rpc, N)
  BY <1>2, <1>3
<1>5. undone = [n \in 0..N |-> IF n = 0 THEN outcome ELSE Wlan!RollBack(undone[n - 1], rpc[n])]
      /\ \A n \in 0..N : undone[n] \in AssignedNetworks(rpc, N)
  <2> DEFINE A == [n \in 0..N |-> AssignedNetworks(rpc, N)]
             step == [n \in 1..N |-> [x \in A[n - 1] |-> Wlan!RollBack(x, rpc[n])]]
  <2>1. outcome \in A[0]
    BY <1>2, <1>4
  <2>2. ASSUME NEW n \in 1..N, NEW x \in A[n - 1]
        PROVE  step[n][x] = Wlan!RollBack(x, rpc[n]) /\ step[n][x] \in A[n]
    <3>1. n - 1 \in 0..N /\ n \in 0..N
      BY <1>2
    <3>2. x \in AssignedNetworks(rpc, N)
      BY <3>1
    <3>3. Wlan!RollBack(x, rpc[n]) \in AssignedNetworks(rpc, N)
      BY <1>2, <3>2, RollBackStep
    <3>4. QED
      BY <3>1, <3>3
  <2> HIDE DEF A, step, outcome
  <2>3. PICK f : Iterates(N, outcome, step, f) /\ \A n \in 0..N : f[n] \in A[n]
    <3>1. \A n \in 1..N : \A x \in A[n - 1] : step[n][x] \in A[n]
      BY <2>2
    <3>2. N \in Nat
      BY <1>2
    <3> HIDE DEF N
    <3>3. QED
      BY <2>1, <3>1, <3>2, Recursion
  <2>4. f = [n \in 0..N |-> IF n = 0 THEN outcome ELSE Wlan!RollBack(f[n - 1], rpc[n])]
    <3>1. \A n \in 1..N : step[n][f[n - 1]] = Wlan!RollBack(f[n - 1], rpc[n])
      BY <1>2, <2>2, <2>3
    <3>2. f = [n \in 0..N |-> IF n = 0 THEN outcome ELSE step[n][f[n - 1]]]
      BY <2>3 DEF Iterates
    <3>3. ASSUME NEW n \in 0..N
          PROVE  (IF n = 0 THEN outcome ELSE step[n][f[n - 1]])
                   = IF n = 0 THEN outcome ELSE Wlan!RollBack(f[n - 1], rpc[n])
      <4>1. CASE n = 0
        BY <4>1
      <4>2. CASE n # 0
        BY <1>2, <3>1, <4>2
      <4>3. QED
        BY <4>1, <4>2
    <3> HIDE DEF N
    <3>4. QED
      BY <3>2, <3>3, Zenon
  <2>5. undone = [n \in 0..N |-> IF n = 0 THEN outcome ELSE Wlan!RollBack(undone[n - 1], rpc[n])]
    BY <2>4
  <2> HIDE DEF undone
  <2>6. undone[0] = outcome /\ \A n \in 1..N : undone[n] = Wlan!RollBack(undone[n - 1], rpc[n])
    BY <1>2, <2>5
  <2>7. \A n \in 1..N : undone[n - 1] \in A[n - 1] => undone[n] \in A[n]
    BY <2>2, <2>6
  <2>8. \A n \in 0..N : undone[n] \in A[n]
    BY <1>2, <2>1, <2>6, <2>7, Along
  <2>9. QED
    BY <2>5, <2>8 DEF A
<1>6. after \in Reached
  <2> HIDE DEF undone, outcome
  <2>1. undone[N] \in AssignedNetworks(rpc, N)
    BY <1>2, <1>5
  <2>2. QED
    BY <1>4, <2>1 DEF AssignedNetworks
<1> HIDE DEF after
<1>7. QED
  <2>1. /\ after.m \in WlanObjects /\ after.channel \in WlanChannels \cup {Wlan!NoChannel}
        /\ after.scheduled \subseteq WlanInterfaces /\ WlanScheduled(Wlan!Memory, after)
    BY <1>6 DEF Reached, MemoryType
  <2>2. Wlan!Memory' = [m |-> after.m, channel |-> after.channel, scheduled |-> after.scheduled,
                        errors |-> FALSE]
    BY <1>1 DEF Wlan!Memory
  <2>3. Wlan!Memory' \in MemoryType
    BY <2>1, <2>2 DEF MemoryType
  <2>4. WlanScheduled(Wlan!Memory, Wlan!Memory')
    BY <2>1, <2>2 DEF WlanScheduled, SameCommand
  <2>5. QED
    BY <2>3, <2>4

LEMMA NetworkTyped ==
  ASSUME WlanTyped, NEW i \in WlanInterfaces
  PROVE  /\ m[i] \in WlanNetwork /\ m[i].attr \in AttrType /\ m[i].config \in WlanConfigType
         /\ WlanNamed(m[i]) /\ channel \in WlanChannels \cup {Wlan!NoChannel} /\ m \in WlanObjects
         /\ m[i].key \in WlanText /\ m[i].band \in Bands
         /\ scheduled \subseteq WlanInterfaces
BY DEF WlanTyped, Wlan!Memory, MemoryType, WlanObjects, WlanNetwork

LEMMA CommandTyped ==
  ASSUME WlanTyped, NEW i \in WlanInterfaces
  PROVE  /\ Wlan!MakeBinWifiCommand(i) \in {Wlan!NoCommand} \cup WlanCommand
         /\ Wlan!MakeBinWifiCommand(i) # Wlan!NoCommand
             <=> m[i].config.ssid \notin {Wlan!None, ""}
<1>1. CASE m[i].config.ssid \in {Wlan!None, ""}
  BY <1>1 DEF Wlan!MakeBinWifiCommand
<1>2. CASE m[i].config.ssid \notin {Wlan!None, ""}
  <2> DEFINE c == [ band |-> m[i].band, encryption |-> Wlan!EncryptionMode(m[i].attr.BeaconType),
         ssid |-> m[i].config.ssid, key |-> m[i].key,
         channel |-> Wlan!CommandChannel(m[i], i), autotype |-> m[i].config.autotype ]
  <2>1. Wlan!MakeBinWifiCommand(i) = c
    BY <1>2 DEF Wlan!MakeBinWifiCommand
  <2>2. Wlan!EncryptionMode(m[i].attr.BeaconType) \in {"NONE", "WPA12_PSK_AES", "WPA2_PSK_AES",
         "WPA_PSK_AES"}
    BY NetworkTyped DEF Wlan!EncryptionMode, AttrType
  <2>3. Wlan!CommandChannel(m[i], i) \in WlanChannels \cup {Wlan!NoChannel, Wlan!AutoChannel}
    BY NetworkTyped DEF Wlan!CommandChannel, WlanTyped, Wlan!AutoChannel
  <2>4. /\ m[i].band \in Bands /\ m[i].config.ssid \in WlanText \ {Wlan!None, ""}
            /\ m[i].key \in WlanText
        /\ m[i].config.autotype \in WlanText
    BY <1>2, NetworkTyped DEF WlanConfigType
  <2>5. c \in WlanCommand
    BY <2>2, <2>3, <2>4 DEF WlanCommand
  <2>6. c # Wlan!NoCommand
    BY <1>2 DEF Wlan!NoCommand
  <2>7. QED
    BY <1>2, <2>1, <2>5, <2>6
<1>3. QED
  BY <1>1, <1>2

LEMMA WlanNextTyped ==
  ASSUME Wlan!WlanConfigurationAssumption, WlanTyped, [Wlan!Next]_Wlan!vars
  PROVE  WlanTyped'
<1>1. ASSUME NEW rpc \in WlanRpcs, Wlan!SetParameterValues(rpc) PROVE WlanTyped'
  <2>1. Wlan!Memory' \in MemoryType /\ WlanScheduled(Wlan!Memory, Wlan!Memory')
    BY <1>1, RpcStep
  <2>2. \A i \in WlanInterfaces : m[i].config # Wlan!NoConfig => m'[i].config # Wlan!NoConfig
    BY <2>1 DEF WlanScheduled, Wlan!Memory
  <2>3. QED
    BY <1>1, <2>1, <2>2 DEF WlanTyped, Wlan!SetParameterValues, Wlan!files
<1>2. ASSUME NEW i \in WlanInterfaces, Wlan!ExportWifiPolicy(i) PROVE WlanTyped'
  <2>1. scheduled' \subseteq WlanInterfaces
    BY <1>2, NetworkTyped DEF Wlan!ExportWifiPolicy
  <2>2. Wlan!Memory' \in MemoryType
    BY <1>2, <2>1, NetworkTyped DEF Wlan!ExportWifiPolicy, Wlan!Memory, MemoryType
  <2>3. up' \in BOOLEAN /\ events' \subseteq WlanInterfaces
    BY <1>2 DEF Wlan!ExportWifiPolicy, WlanTyped
  <2>4. /\ exported' \subseteq WlanInterfaces
        /\ \A j \in exported' : m'[j].config # Wlan!NoConfig
    BY <1>2 DEF Wlan!ExportWifiPolicy, WlanTyped
  <2>5. commands' \in [WlanInterfaces -> [Bands -> {Wlan!NoCommand} \cup WlanCommand]]
    <3>1. \/ UNCHANGED commands
          \/ commands' = [commands EXCEPT ![i][m[i].band] = Wlan!NoCommand]
          \/ commands' = [commands EXCEPT ![i][m[i].band] = Wlan!MakeBinWifiCommand(i)]
      BY <1>2 DEF Wlan!ExportWifiPolicy, Wlan!files
    <3>2. /\ commands \in [WlanInterfaces -> [Bands -> {Wlan!NoCommand} \cup WlanCommand]]
              /\ m[i].band \in Bands
          /\ Wlan!MakeBinWifiCommand(i) \in {Wlan!NoCommand} \cup WlanCommand
      BY CommandTyped, NetworkTyped DEF WlanTyped
    <3>3. \A c \in {Wlan!NoCommand} \cup WlanCommand :
            [commands EXCEPT ![i][m[i].band] = c]
             \in [WlanInterfaces -> [Bands -> {Wlan!NoCommand} \cup WlanCommand]]
      BY <3>2
    <3>4. QED
      BY <3>1, <3>2, <3>3
  <2>6. points' \in [WlanInterfaces -> SUBSET Bands]
    <3>1. \/ UNCHANGED points
          \/ points' = [points EXCEPT ![i] = @ \ {m[i].band}]
          \/ points' = [points EXCEPT ![i] = @ \cup {m[i].band}]
      BY <1>2 DEF Wlan!ExportWifiPolicy, Wlan!files
    <3>2. points \in [WlanInterfaces -> SUBSET Bands] /\ m[i].band \in Bands
      BY NetworkTyped DEF WlanTyped
    <3>3. points[i] \ {m[i].band} \in SUBSET Bands /\ points[i] \cup {m[i].band} \in SUBSET Bands
      BY <3>2
    <3>4. QED
      BY <3>1, <3>2, <3>3
  <2>7. QED
    BY <1>2, <2>2, <2>3, <2>4, <2>5, <2>6 DEF WlanTyped, Wlan!ExportWifiPolicy
<1>3. ASSUME NEW i \in WlanInterfaces, NEW b \in Bands, Wlan!ConmanApplies(i, b) PROVE WlanTyped'
  <2> DEFINE c == commands[i][b]
             w == [ssid |-> c.ssid, auto |-> c.channel = Wlan!AutoChannel,
              autotype |-> c.autotype,
                   channel |-> IF c.channel \in WlanChannels THEN c.channel ELSE 1]
  <2>1. c \in WlanCommand
    BY <1>3 DEF Wlan!ConmanApplies, WlanTyped
  <2>2. w \in [ssid : WlanText \ {Wlan!None}, channel : WlanChannels \cup {Wlan!NoChannel, 1},
               auto : BOOLEAN, autotype : WlanText]
    BY <2>1 DEF WlanCommand
  <2>3. live' = [live EXCEPT ![i] = w]
    BY <1>3, Zenon DEF Wlan!ConmanApplies
  <2> HIDE DEF w
  <2>4. live' \in [WlanInterfaces -> [ssid : WlanText \ {Wlan!None},
         channel : WlanChannels \cup {Wlan!NoChannel, 1},
                                      auto : BOOLEAN, autotype : WlanText]]
    BY <2>2, <2>3 DEF WlanTyped
  <2>5. Wlan!Memory' = Wlan!Memory
    BY <1>3 DEF Wlan!ConmanApplies, Wlan!Memory
  <2>6. QED
    BY <1>3, <2>4, <2>5 DEF WlanTyped, Wlan!ConmanApplies, Wlan!files
<1>4. ASSUME NEW i \in Guided, Wlan!Recommend(i) PROVE WlanTyped'
  <2>1. Wlan!Memory' = Wlan!Memory
    BY <1>4 DEF Wlan!Recommend, Wlan!Memory
  <2>2. QED
    BY <1>4, <2>1 DEF WlanTyped, Wlan!Recommend, Wlan!files, Wlan!WlanConfigurationAssumption
<1>5. ASSUME NEW i \in WlanInterfaces, Wlan!Notified(i) PROVE WlanTyped'
  <2>1. Wlan!Memory' \in MemoryType
    BY <1>5, NetworkTyped DEF Wlan!Notified, Wlan!Memory, MemoryType
  <2>2. QED
    BY <1>5, <2>1 DEF WlanTyped, Wlan!Notified, Wlan!files
<1>6. CASE Wlan!Restart
  <2>1. Wlan!NewNetwork \in WlanNetwork /\ WlanNamed(Wlan!NewNetwork)
    BY DEF Wlan!NewNetwork, WlanNetwork, WlanNamed, AttrType, WlanConfigType, Wlan!NoConfig, WlanText,
           Wlan!WlanConfigurationAssumption
  <2>2. Wlan!Memory' \in MemoryType
    BY <1>6, <2>1 DEF Wlan!Restart, Wlan!Memory, MemoryType, WlanObjects
  <2>3. QED
    BY <1>6, <2>2 DEF WlanTyped, Wlan!Restart, Wlan!files
<1>7. CASE UNCHANGED Wlan!vars
  <2>1. Wlan!Memory' = Wlan!Memory
    BY <1>7 DEF Wlan!vars, Wlan!Memory
  <2>2. QED
    BY <1>7, <2>1 DEF WlanTyped, Wlan!vars
<1>8. QED
  BY <1>1, <1>2, <1>3, <1>4, <1>5, <1>6, <1>7 DEF Wlan!Next

\* The policy of one network is in conman's files.
Policy(i) ==
  /\ Wlan!Settings(commands[i][m[i].band]) = Wlan!Settings(Wlan!MakeBinWifiCommand(i))
  /\ m[i].band \in points[i]
      <=> (m[i].config.ssid \notin {Wlan!None, ""} /\ Wlan!ReallyWantWifi(i))

WlanExported ==
  \A i \in WlanInterfaces : up /\ i \in exported /\ i \notin scheduled \cup events => Policy(i)

LEMMA SamePolicy ==
  ASSUME NEW i \in WlanInterfaces, SameCommand(Wlan!Memory, Wlan!Memory', i),
         guide'[i] = guide[i],
         commands'[i] = commands[i], points'[i] = points[i], Policy(i)
  PROVE  Policy(i)'
<1>1. /\ m'[i].attr = m[i].attr /\ m'[i].key = m[i].key /\ m'[i].band = m[i].band
      /\ m'[i].config.ssid = m[i].config.ssid /\ m'[i].config.auto = m[i].config.auto
      /\ channel' = channel
  BY DEF SameCommand, Wlan!Memory
<1>2. Wlan!ReallyWantWifi(i)' <=> Wlan!ReallyWantWifi(i)
  BY <1>1 DEF Wlan!ReallyWantWifi
<1>3. Wlan!CommandChannel(m[i], i)' = Wlan!CommandChannel(m[i], i)
  BY <1>1 DEF Wlan!CommandChannel
<1>4. Wlan!Settings(Wlan!MakeBinWifiCommand(i))' = Wlan!Settings(Wlan!MakeBinWifiCommand(i))
  <2>1. CASE m[i].config.ssid \in {Wlan!None, ""}
    BY <1>1, <2>1 DEF Wlan!MakeBinWifiCommand, Wlan!Settings
  <2>2. CASE m[i].config.ssid \notin {Wlan!None, ""}
    BY <1>1, <1>3, <2>2 DEF Wlan!MakeBinWifiCommand, Wlan!Settings
  <2>3. QED
    BY <2>1, <2>2
<1>5. Wlan!Settings(commands[i][m[i].band])' = Wlan!Settings(commands[i][m[i].band])
  BY <1>1 DEF Wlan!Settings
<1>6. QED
  BY <1>1, <1>2, <1>4, <1>5 DEF Policy

\* An export makes Policy true of its network; what disturbs it afterwards schedules another.
LEMMA WlanNextExported ==
  ASSUME Wlan!WlanConfigurationAssumption, WlanTyped, WlanExported, [Wlan!Next]_Wlan!vars
  PROVE  WlanExported'
<1>1. ASSUME NEW rpc \in WlanRpcs, Wlan!SetParameterValues(rpc) PROVE WlanExported'
  <2> SUFFICES ASSUME NEW i \in WlanInterfaces, up', i \in exported',
                      i \notin scheduled' \cup events'
               PROVE  Policy(i)'
    BY DEF WlanExported
  <2>1. WlanScheduled(Wlan!Memory, Wlan!Memory')
    BY <1>1, RpcStep
  <2>2. i \in exported /\ up /\ i \notin events /\ m[i].config # Wlan!NoConfig
        /\ UNCHANGED <<guide, commands, points>>
    BY <1>1 DEF Wlan!SetParameterValues, Wlan!files, WlanTyped
  <2>3. scheduled \subseteq scheduled' /\ SameCommand(Wlan!Memory, Wlan!Memory', i)
    BY <2>1, <2>2 DEF WlanScheduled, Wlan!Memory
  <2>4. Policy(i)
    BY <2>2, <2>3 DEF WlanExported
  <2>5. QED
    BY <2>2, <2>3, <2>4, SamePolicy
<1>2. ASSUME NEW i \in WlanInterfaces, Wlan!ExportWifiPolicy(i) PROVE WlanExported'
  <2> SUFFICES ASSUME NEW j \in WlanInterfaces, up', j \in exported',
                      j \notin scheduled' \cup events'
               PROVE  Policy(j)'
    BY DEF WlanExported
  <2>1. UNCHANGED <<m, channel, guide>>
    BY <1>2 DEF Wlan!ExportWifiPolicy
  <2>2. events' = events
    BY <1>2 DEF Wlan!ExportWifiPolicy
  <2>3. CASE j = i
    <3> DEFINE c == Wlan!MakeBinWifiCommand(i)  b == m[i].band
    <3>1. \/ /\ c = Wlan!NoCommand /\ commands' = [commands EXCEPT ![i][b] = Wlan!NoCommand]
             /\ points' = [points EXCEPT ![i] = @ \ {b}]
          \/ /\ c # Wlan!NoCommand /\ commands' = [commands EXCEPT ![i][b] = c]
             /\ points' = [points EXCEPT ![i]
                 = IF Wlan!ReallyWantWifi(i) THEN @ \cup {b} ELSE @ \ {b}]
      BY <1>2 DEF Wlan!ExportWifiPolicy
    <3>2. b \in Bands /\ commands
           \in [WlanInterfaces -> [Bands -> {Wlan!NoCommand} \cup WlanCommand]]
          /\ points \in [WlanInterfaces -> SUBSET Bands]
      BY NetworkTyped DEF WlanTyped
    <3>3. commands'[i][b] = c
      BY <3>1, <3>2
    <3>4. b \in points'[i] <=> (c # Wlan!NoCommand /\ Wlan!ReallyWantWifi(i))
      BY <3>1, <3>2
    <3>5. c # Wlan!NoCommand <=> m[i].config.ssid \notin {Wlan!None, ""}
      BY CommandTyped
    <3>6. Wlan!MakeBinWifiCommand(i)' = c
      BY <2>1 DEF Wlan!MakeBinWifiCommand, Wlan!CommandChannel
    <3>7. Wlan!ReallyWantWifi(i)' <=> Wlan!ReallyWantWifi(i)
      BY <2>1 DEF Wlan!ReallyWantWifi
    <3>8. /\ Wlan!Settings(commands'[i][b]) = Wlan!Settings(c)
              /\ Wlan!Settings(Wlan!MakeBinWifiCommand(i))' = Wlan!Settings(c)
      BY <3>3, <3>6 DEF Wlan!Settings
    <3> HIDE DEF c
    <3>9. QED
      BY <2>1, <2>3, <3>4, <3>5, <3>7, <3>8 DEF Policy
  <2>4. CASE j # i
    <3>1. commands'[j] = commands[j] /\ points'[j] = points[j] /\ j \in exported /\ up
           /\ j \notin scheduled
      BY <1>2, <2>4 DEF Wlan!ExportWifiPolicy, Wlan!files, WlanTyped
    <3>2. Policy(j)
      BY <2>2, <3>1 DEF WlanExported
    <3>3. SameCommand(Wlan!Memory, Wlan!Memory', j)
      BY <2>1 DEF SameCommand, Wlan!Memory
    <3>4. QED
      BY <2>1, <3>1, <3>2, <3>3, SamePolicy
  <2>5. QED
    BY <2>3, <2>4
<1>3. ASSUME NEW i \in WlanInterfaces, NEW b \in Bands, Wlan!ConmanApplies(i, b)
      PROVE  WlanExported'
  BY <1>3, SamePolicy DEF WlanExported, Wlan!ConmanApplies, Wlan!files, SameCommand, Wlan!Memory
<1>4. ASSUME NEW i \in Guided, Wlan!Recommend(i) PROVE WlanExported'
  <2>1. \A j \in WlanInterfaces : j # i => guide'[j] = guide[j]
    BY <1>4 DEF Wlan!Recommend, WlanTyped
  <2>2. \A j \in WlanInterfaces : SameCommand(Wlan!Memory, Wlan!Memory', j)
    BY <1>4 DEF Wlan!Recommend, SameCommand, Wlan!Memory
  <2>3. UNCHANGED <<up, commands, points, scheduled, exported>>
        /\ events \subseteq events' /\ (up => i \in events')
    BY <1>4 DEF Wlan!Recommend, Wlan!files
  <2>4. QED
    BY <2>1, <2>2, <2>3, SamePolicy DEF WlanExported
<1>5. ASSUME NEW i \in WlanInterfaces, Wlan!Notified(i) PROVE WlanExported'
  <2>1. \A j \in WlanInterfaces : SameCommand(Wlan!Memory, Wlan!Memory', j)
    BY <1>5 DEF Wlan!Notified, SameCommand, Wlan!Memory
  <2>2. UNCHANGED <<up, commands, points, guide, exported>>
        /\ scheduled \cup events \subseteq scheduled' \cup events'
    BY <1>5 DEF Wlan!Notified, Wlan!files
  <2>3. QED
    BY <2>1, <2>2, SamePolicy DEF WlanExported
<1>6. CASE Wlan!Restart
  BY <1>6 DEF Wlan!Restart, WlanExported
<1>7. CASE UNCHANGED Wlan!vars
  BY <1>7, SamePolicy DEF WlanExported, Wlan!vars, SameCommand, Wlan!Memory
<1>8. QED
  BY <1>1, <1>2, <1>3, <1>4, <1>5, <1>6, <1>7 DEF Wlan!Next

\* WlanConfiguration: a network with nothing scheduled and no change of its files to be
\* noticed has the command and the access point that parameters and waveguide ask for.
THEOREM WlanSafe ==
  ASSUME Wlan!WlanConfigurationAssumption
  PROVE  Wlan!Spec => [](Wlan!TypeOK /\ Wlan!PolicyExported)
<1>1. Wlan!Init => WlanTyped /\ WlanExported
  <2> SUFFICES ASSUME Wlan!Init PROVE WlanTyped /\ WlanExported
    OBVIOUS
  <2>1. Wlan!NewNetwork \in WlanNetwork /\ WlanNamed(Wlan!NewNetwork)
    BY DEF Wlan!NewNetwork, WlanNetwork, WlanNamed, AttrType, WlanConfigType, Wlan!NoConfig, WlanText,
           Wlan!WlanConfigurationAssumption
  <2>2. Wlan!Memory \in MemoryType
    BY <2>1 DEF Wlan!Init, Wlan!Memory, MemoryType, WlanObjects
  <2>3. Wlan!NoInfo \in [ssid : WlanText \ {Wlan!None},
         channel : WlanChannels \cup {Wlan!NoChannel, 1},
                         auto : BOOLEAN, autotype : WlanText]
    BY DEF Wlan!NoInfo, WlanText, Wlan!None
  <2>4. QED
    BY <2>2, <2>3 DEF Wlan!Init, WlanTyped, WlanExported
<1>2. WlanTyped /\ WlanExported /\ [Wlan!Next]_Wlan!vars => WlanTyped' /\ WlanExported'
  BY WlanNextTyped, WlanNextExported
<1>3. WlanTyped /\ WlanExported => Wlan!TypeOK /\ Wlan!PolicyExported
  <2> SUFFICES ASSUME WlanTyped, WlanExported PROVE Wlan!TypeOK /\ Wlan!PolicyExported
    OBVIOUS
  <2>1. Wlan!PolicyExported
    BY CommandTyped DEF WlanExported, Policy, Wlan!PolicyExported
  <2>2. \A i \in WlanInterfaces : /\ \A p \in DOMAIN Wlan!TriggerAttrs : m[i].attr[p]
                                      \in Wlan!TriggerAttrs[p]
                                  /\ m[i].band \in Bands /\ m[i].config.auto \in BOOLEAN
    BY NetworkTyped, TriggerNames DEF WlanConfigType
  <2>3. channel \in WlanChannels \cup {Wlan!NoChannel} /\ scheduled \subseteq WlanInterfaces
    BY DEF WlanTyped, Wlan!Memory, MemoryType
  <2>4. QED
    BY <2>1, <2>2, <2>3 DEF WlanTyped, Wlan!TypeOK
<1>4. QED
  BY <1>1, <1>2, <1>3, PTL DEF Wlan!Spec

-----------------------------------------------------------------------------
(* Nat *)

-----------------------------------------------------------------------------
(* Proofs, for any mappings, addresses, ports and number of changes *)

FileNames == {"rules4", "rules6", "dmz4", "dmz6"}

IsFunction(f) == f = [x \in DOMAIN f |-> f[x]]

\* The invariant: the mappings are functions of their parameters, so that
\* assigning what a parameter has changes nothing, and there are four files.
PortMappingIInv ==
  /\ IsFunction(PortMappingList)
  /\ \A i \in DOMAIN PortMappingList : IsFunction(PortMappingList[i])
  /\ IsFunction(nat_files) /\ DOMAIN nat_files = FileNames
  /\ PortMapping!MappingsApplied

LEMMA PortMappingNextTyped ==
  ASSUME PortMapping!NatAssumption, PortMapping!TypeOK, [PortMapping!Next]_PortMapping!vars
  PROVE  PortMapping!TypeOK'
<1> DEFINE Typed(list) == \A i \in DOMAIN list : i \in MappingIndices
            /\ list[i] \in PortMapping!Mapping
<1>1. ASSUME NEW i \in MappingIndices, PortMapping!AddPortMapping(i) PROVE PortMapping!TypeOK'
  <2>1. PortMapping!NewMapping \in PortMapping!Mapping
    BY DEF PortMapping!NewMapping, PortMapping!Mapping, PortMapping!Clients
  <2>2. QED
    BY <1>1, <2>1 DEF PortMapping!TypeOK, PortMapping!AddPortMapping, PortMapping!Triggered
<1>2. ASSUME NEW i \in MappingIndices, PortMapping!DeletePortMapping(i) PROVE PortMapping!TypeOK'
  BY <1>2
     DEF PortMapping!TypeOK, PortMapping!DeletePortMapping, PortMapping!Triggered,
         PortMapping!Restrict
<1>3. ASSUME NEW i \in MappingIndices, NEW u \in MappingUpdates, PortMapping!SetParameterValues(i, u)
      PROVE  PortMapping!TypeOK'
  <2> DEFINE old == PortMappingList[i]
             new == [p \in DOMAIN old |-> IF p \in DOMAIN u THEN u[p] ELSE old[p]]
             Fields == {"Enable", "AllInterfaces", "interface", "InternalClient", "RemoteHost",
                        "Protocol", "InternalPort", "ExternalPort", "ExternalPortEndRange",
                        "PortRangeSize"}
  <2>1. i \in DOMAIN PortMappingList /\ old \in PortMapping!Mapping
    BY <1>3 DEF PortMapping!SetParameterValues, PortMapping!TypeOK
  <2>2. \A p \in DOMAIN u :
       \/ p \in {"Enable", "AllInterfaces"} /\ u[p] \in BOOLEAN
       \/ p = "interface" /\ u[p] \in IPInterfaces \cup {""}
       \/ p = "InternalClient" /\ u[p] \in PortMapping!Clients
       \/ p = "RemoteHost" /\ u[p] \in V4 \cup {""}
       \/ p = "Protocol" /\ u[p] \in {"", "TCP", "UDP"}
       \/ /\ p \in {"InternalPort", "ExternalPort", "ExternalPortEndRange", "PortRangeSize"}
          /\ u[p] \in Ports \cup {0}
    BY DEF PortMapping!NatAssumption, PortMapping!Clients
  <2> DEFINE set(p) == IF p \in DOMAIN u THEN u[p] ELSE old[p]
  <2>3. DOMAIN old = Fields
    BY <2>1 DEF PortMapping!Mapping
  <2>4. set("Enable") \in BOOLEAN /\ set("AllInterfaces") \in BOOLEAN
    BY <2>1, <2>2 DEF PortMapping!Mapping
  <2>5. set("interface") \in IPInterfaces \cup {""} /\ set("RemoteHost") \in V4 \cup {""}
    BY <2>1, <2>2 DEF PortMapping!Mapping
  <2>6. set("InternalClient") \in PortMapping!Clients /\ set("Protocol") \in {"", "TCP", "UDP"}
    BY <2>1, <2>2 DEF PortMapping!Mapping
  <2>7. /\ set("InternalPort") \in Ports \cup {0} /\ set("ExternalPort") \in Ports \cup {0}
        /\ set("ExternalPortEndRange") \in Ports \cup {0}
        /\ set("PortRangeSize") \in Ports \cup {0}
    BY <2>1, <2>2 DEF PortMapping!Mapping
  <2>8. new = [p \in Fields |-> set(p)]
    BY <2>3
  <2> HIDE DEF set, new
  <2>9. new \in PortMapping!Mapping
    <3>1. new = [ Enable |-> set("Enable"), AllInterfaces |-> set("AllInterfaces"),
                  interface |-> set("interface"), InternalClient |-> set("InternalClient"),
                  RemoteHost |-> set("RemoteHost"), Protocol |-> set("Protocol"),
                  InternalPort |-> set("InternalPort"), ExternalPort |-> set("ExternalPort"),
                  ExternalPortEndRange |-> set("ExternalPortEndRange"),
                  PortRangeSize |-> set("PortRangeSize") ]
      BY <2>8
    <3>2. QED
      BY <2>4, <2>5, <2>6, <2>7, <3>1 DEF PortMapping!Mapping
  <2>10. /\ PortMappingList' = PortMappingList
             \/ PortMappingList' = [PortMappingList EXCEPT ![i] = new]
         /\ UNCHANGED <<DmzMappingList, ip>>
         /\ nat_scheduled' \in BOOLEAN
    BY <1>3 DEF PortMapping!SetParameterValues, PortMapping!TypeOK, new, set
  <2>11. Typed(PortMappingList')
    BY <2>9, <2>10 DEF PortMapping!TypeOK
  <2>12. QED
    BY <2>10, <2>11 DEF PortMapping!TypeOK
<1>4. ASSUME NEW i \in DmzIndices, NEW pair \in DmzPairs, PortMapping!SetDmzMapping(i, pair)
      PROVE  PortMapping!TypeOK'
  BY <1>4 DEF PortMapping!TypeOK, PortMapping!SetDmzMapping, PortMapping!Triggered
<1>5. ASSUME NEW i \in DmzIndices, PortMapping!DeleteDmzMapping(i) PROVE PortMapping!TypeOK'
  BY <1>5
     DEF PortMapping!TypeOK, PortMapping!DeleteDmzMapping, PortMapping!Triggered,
         PortMapping!Restrict
<1>6. ASSUME NEW n \in IPInterfaces, PortMapping!AddressChanges(n) PROVE PortMapping!TypeOK'
  BY <1>6 DEF PortMapping!TypeOK, PortMapping!AddressChanges
<1>7. CASE PortMapping!WriteConfigs
  BY <1>7 DEF PortMapping!TypeOK, PortMapping!WriteConfigs
<1>8. CASE UNCHANGED PortMapping!vars
  BY <1>8 DEF PortMapping!TypeOK, PortMapping!vars
<1>9. QED
  BY <1>1, <1>2, <1>3, <1>4, <1>5, <1>6, <1>7, <1>8 DEF PortMapping!Next, PortMapping!Change

\* As long as no mapping changes, the files fit them.
LEMMA NothingChanged ==
  ASSUME PortMapping!MappingsApplied, nat_scheduled => nat_scheduled',
         UNCHANGED <<PortMappingList, DmzMappingList, nat_files, applied, written>>
  PROVE  PortMapping!MappingsApplied'
<1>1. PortMapping!DmzIP4' = PortMapping!DmzIP4
  BY DEF PortMapping!DmzIP4
<1>2. \A d : PortMapping!DmzIP6(d)' <=> PortMapping!DmzIP6(d)
  BY DEF PortMapping!DmzIP6
<1>3. CASE nat_scheduled \/ ~written.ok
  BY <1>3 DEF PortMapping!MappingsApplied
<1>4. CASE ~(nat_scheduled \/ ~written.ok)
  <2>1. PICK d \in PortMapping!Clients :
          PortMapping!DmzIP6(d)
           /\ nat_files = PortMapping!Configs(PortMappingList, written.ip, PortMapping!DmzIP4, d)
    BY <1>4 DEF PortMapping!MappingsApplied
  <2>2. PortMapping!DmzIP6(d)'
         /\ nat_files' = PortMapping!Configs(PortMappingList', written'.ip, PortMapping!DmzIP4',
             d)
    BY <1>1, <1>2, <2>1
  <2>3. applied' = nat_files'
    BY <1>4 DEF PortMapping!MappingsApplied
  <2>4. QED
    BY <2>2, <2>3 DEF PortMapping!MappingsApplied
<1>5. QED
  BY <1>3, <1>4

\* A change that schedules WriteConfigs promises nothing for now.
LEMMA ScheduledFits == nat_scheduled' = TRUE => PortMapping!MappingsApplied'
BY DEF PortMapping!MappingsApplied

\* WriteConfigs writes some of the files, all if it does not fail, from the mappings now.
LEMMA WriteStep == PortMappingIInv /\ PortMapping!WriteConfigs => PortMappingIInv'
<1> SUFFICES ASSUME PortMappingIInv, PortMapping!WriteConfigs PROVE PortMappingIInv'
  OBVIOUS
<1>1. PICK d \in PortMapping!Clients, replaced \in SUBSET DOMAIN nat_files :
        /\ PortMapping!DmzIP6(d)
        /\ nat_files' = [f \in DOMAIN nat_files |->
                           IF f \in replaced THEN PortMapping!Configs(PortMappingList, ip,
                            PortMapping!DmzIP4, d)[f] ELSE nat_files[f]]
        /\ written'.ok => replaced = DOMAIN nat_files
        /\ written'.ok => applied' = nat_files'
        /\ written'.ip = ip
  BY DEF PortMapping!WriteConfigs
<1>2. UNCHANGED <<PortMappingList, DmzMappingList>>
  BY DEF PortMapping!WriteConfigs
<1>3. IsFunction(nat_files') /\ DOMAIN nat_files' = FileNames
  BY <1>1 DEF IsFunction, PortMappingIInv
<1>4. PortMapping!DmzIP4' = PortMapping!DmzIP4 /\ (PortMapping!DmzIP6(d)'
       <=> PortMapping!DmzIP6(d))
  BY <1>2 DEF PortMapping!DmzIP4, PortMapping!DmzIP6
<1>5. ASSUME written'.ok
      PROVE  nat_files' = PortMapping!Configs(PortMappingList', written'.ip, PortMapping!DmzIP4',
              d)
  <2> DEFINE new == PortMapping!Configs(PortMappingList, ip, PortMapping!DmzIP4, d)
  <2>1. IsFunction(new) /\ DOMAIN new = FileNames
    BY DEF PortMapping!Configs, IsFunction, FileNames
  <2> HIDE DEF new
  <2>2. nat_files' = [f \in FileNames |-> new[f]]
    BY <1>1, <1>5 DEF PortMappingIInv, new
  <2>3. nat_files' = new
    BY <2>1, <2>2 DEF IsFunction
  <2>4. QED
    BY <1>1, <1>2, <1>4, <2>3 DEF new
<1>6. PortMapping!MappingsApplied'
  <2>1. CASE written'.ok
    <3>1. PortMapping!DmzIP6(d)' /\ applied' = nat_files'
      BY <1>1, <1>4, <2>1
    <3>2. QED
      BY <1>5, <2>1, <3>1 DEF PortMapping!MappingsApplied
  <2>2. CASE ~written'.ok
    BY <2>2 DEF PortMapping!MappingsApplied
  <2>3. QED
    BY <2>1, <2>2
<1>7. QED
  BY <1>2, <1>3, <1>6 DEF PortMappingIInv

\* What the steps of the ACS leave alone.
LEMMA ChangeStep == PortMappingIInv /\ PortMapping!Change => PortMappingIInv'
<1> SUFFICES ASSUME PortMappingIInv, PortMapping!Change PROVE PortMappingIInv'
  OBVIOUS
<1>1. UNCHANGED <<nat_files, applied, written>>
  BY DEF PortMapping!Change, PortMapping!AddPortMapping, PortMapping!DeletePortMapping, PortMapping!SetParameterValues, PortMapping!SetDmzMapping,
         PortMapping!DeleteDmzMapping, PortMapping!AddressChanges
<1>2. IsFunction(nat_files') /\ DOMAIN nat_files' = FileNames
  BY <1>1 DEF PortMappingIInv
<1> DEFINE Functional == /\ IsFunction(PortMappingList)
                         /\ \A i \in DOMAIN PortMappingList : IsFunction(PortMappingList[i])
<1>3. IsFunction(PortMapping!NewMapping)
  BY DEF IsFunction, PortMapping!NewMapping
<1>4. ASSUME NEW i \in MappingIndices, PortMapping!AddPortMapping(i)
      PROVE  Functional' /\ PortMapping!MappingsApplied'
  <2>1. Functional'
    BY <1>3, <1>4 DEF PortMapping!AddPortMapping, IsFunction, PortMappingIInv
  <2>2. QED
    BY <1>4, <2>1, ScheduledFits DEF PortMapping!AddPortMapping, PortMapping!Triggered
<1>5. ASSUME NEW i \in MappingIndices, PortMapping!DeletePortMapping(i)
      PROVE  Functional' /\ PortMapping!MappingsApplied'
  <2>1. Functional'
    BY <1>5 DEF PortMapping!DeletePortMapping, IsFunction, PortMappingIInv, PortMapping!Restrict
  <2>2. QED
    BY <1>5, <2>1, ScheduledFits DEF PortMapping!DeletePortMapping, PortMapping!Triggered
<1>6. ASSUME NEW i \in MappingIndices, NEW u \in MappingUpdates,
             PortMapping!SetParameterValues(i, u)
      PROVE  Functional' /\ PortMapping!MappingsApplied'
  <2> DEFINE old == PortMappingList[i]
             new == [p \in DOMAIN old |-> IF p \in DOMAIN u THEN u[p] ELSE old[p]]
             fault == "interface" \in DOMAIN u /\ (u.interface = "" \/ ~ip[u.interface].exists)
             triggers == \/ \E p \in DOMAIN u \ {"interface"} : u[p] # old[p]
                         \/ ~fault /\ "interface" \in DOMAIN u
  <2>1. /\ PortMappingList' = IF fault THEN PortMappingList
                              ELSE [PortMappingList EXCEPT ![i] = new]
        /\ nat_scheduled' = (nat_scheduled \/ triggers)
        /\ DmzMappingList' = DmzMappingList
        /\ i \in DOMAIN PortMappingList
    BY <1>6 DEF PortMapping!SetParameterValues
  <2>2. IsFunction(new)
    BY DEF IsFunction
  <2>3. ~fault /\ ~triggers => new = old
    <3>1. IsFunction(old)
      BY <2>1 DEF PortMappingIInv
    <3>2. ASSUME ~fault, ~triggers, NEW p \in DOMAIN old
          PROVE  (IF p \in DOMAIN u THEN u[p] ELSE old[p]) = old[p]
      BY <3>2
    <3>3. QED
      BY <3>1, <3>2 DEF IsFunction
  <2> HIDE DEF new, fault, triggers
  <2>4. Functional'
    BY <2>1, <2>2 DEF IsFunction, PortMappingIInv
  <2>5. CASE triggers
    BY <2>1, <2>4, <2>5, ScheduledFits
  <2>6. CASE ~triggers
    <3>1. PortMappingList' = PortMappingList
      <4>1. CASE fault
        BY <2>1, <4>1
      <4>2. CASE ~fault
        BY <2>1, <2>3, <2>6, <4>2 DEF IsFunction, PortMappingIInv
      <4>3. QED
        BY <4>1, <4>2
    <3>2. CASE nat_scheduled
      BY <2>1, <2>4, <3>2, ScheduledFits
    <3>3. CASE ~nat_scheduled
      <4>1. ~nat_scheduled' /\ PortMapping!MappingsApplied
        BY <2>1, <2>6, <3>3 DEF PortMappingIInv
      <4>2. QED
        BY <1>1, <2>1, <2>4, <3>1, <3>3, <4>1, NothingChanged
    <3>4. QED
      BY <3>2, <3>3
  <2>7. QED
    BY <2>5, <2>6
<1>7. ASSUME NEW i \in DmzIndices,
             (\E pair \in DmzPairs : PortMapping!SetDmzMapping(i, pair))
              \/ PortMapping!DeleteDmzMapping(i)
      PROVE  Functional' /\ PortMapping!MappingsApplied'
  <2>1. PortMappingList' = PortMappingList /\ nat_scheduled' = TRUE
    BY <1>7 DEF PortMapping!SetDmzMapping, PortMapping!DeleteDmzMapping, PortMapping!Triggered
  <2>2. QED
    BY <2>1, ScheduledFits DEF PortMappingIInv
<1>8. ASSUME NEW n \in IPInterfaces, PortMapping!AddressChanges(n)
      PROVE  Functional' /\ PortMapping!MappingsApplied'
  <2>1. UNCHANGED <<PortMappingList, DmzMappingList, nat_scheduled>>
    BY <1>8 DEF PortMapping!AddressChanges
  <2>2. QED
    BY <1>1, <2>1, NothingChanged DEF PortMappingIInv
<1>9. Functional' /\ PortMapping!MappingsApplied'
  BY <1>4, <1>5, <1>6, <1>7, <1>8 DEF PortMapping!Change
<1>10. QED
  BY <1>2, <1>9 DEF PortMappingIInv

LEMMA StartFits == PortMapping!Init => PortMappingIInv
<1> SUFFICES ASSUME PortMapping!Init PROVE PortMappingIInv
  OBVIOUS
<1>1. IsFunction(nat_files) /\ DOMAIN nat_files = FileNames
  BY DEF PortMapping!Init, PortMapping!NoFiles, IsFunction, FileNames
<1>2. PortMappingList = << >> /\ ~written.ok
  BY DEF PortMapping!Init
<1>3. IsFunction(PortMappingList) /\ DOMAIN PortMappingList = {}
  BY <1>2 DEF IsFunction
<1>4. PortMapping!MappingsApplied
  BY <1>2 DEF PortMapping!MappingsApplied
<1>5. QED
  BY <1>1, <1>3, <1>4 DEF PortMappingIInv

\* After an update that succeeded, and with none waiting, the firewall forwards
\* what the mappings of the ACS say: MappingsApplied, for any mappings and
\* interfaces, whatever is added, changed, deleted, refused or fails.
THEOREM NatSafe ==
  ASSUME PortMapping!NatAssumption
  PROVE  PortMapping!Spec => [](PortMapping!TypeOK /\ PortMapping!MappingsApplied)
<1>1. PortMapping!Init => PortMappingIInv
  BY StartFits
<1>2. PortMappingIInv /\ [PortMapping!Next]_PortMapping!vars => PortMappingIInv'
  <2> SUFFICES ASSUME PortMappingIInv, [PortMapping!Next]_PortMapping!vars PROVE PortMappingIInv'
    OBVIOUS
  <2>1. CASE PortMapping!WriteConfigs
    BY <2>1, WriteStep
  <2>2. CASE PortMapping!Change
    BY <2>2, ChangeStep
  <2>3. CASE UNCHANGED PortMapping!vars
    <3>1. UNCHANGED <<PortMappingList, DmzMappingList, nat_scheduled, nat_files, applied,
           written>>
      BY <2>3 DEF PortMapping!vars
    <3>2. PortMapping!MappingsApplied'
      BY <3>1, NothingChanged DEF PortMappingIInv
    <3>3. QED
      BY <3>1, <3>2 DEF PortMappingIInv
  <2>4. QED
    BY <2>1, <2>2, <2>3 DEF PortMapping!Next
<1>3. PortMappingIInv => PortMapping!MappingsApplied
  BY DEF PortMappingIInv
<1>4. PortMapping!Init => PortMapping!TypeOK
  <2> SUFFICES ASSUME PortMapping!Init PROVE PortMapping!TypeOK
    OBVIOUS
  <2>1. DOMAIN PortMappingList = {} /\ DOMAIN DmzMappingList = {}
    BY DEF PortMapping!Init
  <2>2. QED
    BY <2>1 DEF PortMapping!Init, PortMapping!TypeOK
<1>5. PortMapping!TypeOK /\ [PortMapping!Next]_PortMapping!vars => PortMapping!TypeOK'
  BY PortMappingNextTyped
<1>6. QED
  BY <1>1, <1>2, <1>3, <1>4, <1>5, PTL DEF PortMapping!Spec

-----------------------------------------------------------------------------
(* Dnsmasq *)

\* The instance has a copy of the operators on finite sets: they are the same.
LEMMA DhcpFinite == ASSUME NEW T PROVE Dhcp!IsFiniteSet(T) <=> IsFiniteSet(T)
BY DEF Dhcp!IsFiniteSet, IsFiniteSet

LEMMA DhcpCardinality == ASSUME NEW T PROVE Dhcp!Cardinality(T) = Cardinality(T)
BY DEF Dhcp!Cardinality, Cardinality

\* The three parts of what is kept: dnsmasq was started with the file, the file says what
\* the pools say, and text that waits to be written is text.
DhcpStarted == ~text /\ ~behind => running = conf.lines

FileSaysPools ==
  dhcp_up /\ ~dhcp_scheduled /\ ~text /\ ~behind /\ Dhcp!Active => Dhcp!Lines = conf.lines

TextIsText == text_scheduled => text

DhcpSInv == DhcpStarted /\ FileSaysPools /\ TextIsText

LEMMA LeastExists ==
  ASSUME NEW S \in SUBSET Nat, S # {}
  PROVE  Dhcp!Least(S) \in S
<1>1. PICK x \in S : \A y \in S : x <= y
  BY LeastNatural
<1>2. QED
  BY <1>1 DEF Dhcp!Least

\* There is a free name among as many as there are pools, and one more.
LEMMA UnusedNameIsUnused ==
  ASSUME IsFiniteSet(DOMAIN PoolList)
  PROVE  Dhcp!UnusedName \in Nat /\ \A i \in DOMAIN PoolList : PoolList[i].name # Dhcp!UnusedName
<1> DEFINE D == DOMAIN PoolList
           N == 0..Cardinality(D)
           free == {n \in N : \A i \in D : PoolList[i].name # n}
<1>1. Cardinality(D) \in Nat
  BY FS_CardinalityType
<1>2. free # {}
  <2> SUFFICES ASSUME free = {} PROVE FALSE
    OBVIOUS
  <2> DEFINE owner == [n \in N |-> CHOOSE i \in D : PoolList[i].name = n]
  <2>1. \A n \in N : owner[n] \in D /\ PoolList[owner[n]].name = n
    OBVIOUS
  <2>2. IsFiniteSet(N) /\ Cardinality(N) = Cardinality(D) + 1
    BY <1>1, FS_Interval
  <2>3. owner \in [N -> D]
    BY <2>1
  <2>4. Cardinality(D) < Cardinality(N)
    BY <1>1, <2>2
  <2> HIDE DEF owner, N, D
  <2>5. \E x, y \in N : x # y /\ owner[x] = owner[y]
    BY <2>2, <2>3, <2>4, FS_PigeonHole DEF D
  <2>6. QED
    BY <2>1, <2>5
<1>3. free \subseteq Nat
  BY <1>1
<1>4. Dhcp!Least(free) \in free
  BY <1>2, <1>3, LeastExists
<1>5. Dhcp!UnusedName = Dhcp!Least(free)
  BY DhcpCardinality DEF Dhcp!UnusedName
<1>6. QED
  BY <1>3, <1>4, <1>5

DhcpTyped ==
  /\ PoolList \in [DOMAIN PoolList -> Dhcp!Pool] /\ DOMAIN PoolList \subseteq PoolIndices
  /\ \A i, j \in DOMAIN PoolList : PoolList[i].name = PoolList[j].name => i = j
  /\ DhcpAcsUrl \in Urls
  /\ dhcp_scheduled \in BOOLEAN /\ text_scheduled \in BOOLEAN /\ dhcp_up \in BOOLEAN

LEMMA SameLines ==
  ASSUME UNCHANGED <<PoolList, DhcpAcsUrl>>
  PROVE  UNCHANGED <<Dhcp!Lines, Dhcp!Active, Dhcp!Raises>>
<1>1. Dhcp!UrlLines' = Dhcp!UrlLines
  BY Zenon DEF Dhcp!UrlLines
<1>2. ASSUME NEW i PROVE Dhcp!Rank(i)' = Dhcp!Rank(i)
  BY Zenon DEF Dhcp!Rank
<1>3. Dhcp!Active' = Dhcp!Active
  BY Zenon DEF Dhcp!Active
<1>4. UNION {Dhcp!DnsmasqConfig(PoolList[i]) \X {Dhcp!Rank(i)} : i \in DOMAIN PoolList}'
        = UNION {Dhcp!DnsmasqConfig(PoolList[i]) \X {Dhcp!Rank(i)} : i \in DOMAIN PoolList}
  BY <1>2, Zenon
<1>5. Dhcp!Raises' = Dhcp!Raises
  BY Zenon DEF Dhcp!Raises
<1>6. QED
  BY <1>1, <1>3, <1>4, <1>5, Zenon DEF Dhcp!Lines

LEMMA EmptyPools == DOMAIN << >> = {} /\ << >> \in [{} -> Dhcp!Pool]
OBVIOUS

\* Names stay distinct, whatever pools are deleted and added between.
LEMMA DhcpNextTyped ==
  ASSUME Dhcp!DnsmasqAssumption, DhcpTyped, [Dhcp!Next]_Dhcp!vars PROVE DhcpTyped'
<1>1. ASSUME NEW i \in PoolIndices, Dhcp!AddPool(i) PROVE DhcpTyped'
  <2>1. IsFiniteSet(DOMAIN PoolList)
    BY FS_Subset, DhcpFinite DEF DhcpTyped, Dhcp!DnsmasqAssumption
  <2>2. Dhcp!NewPool \in Dhcp!Pool /\ Dhcp!NewPool.name = Dhcp!UnusedName
    BY <2>1, UnusedNameIsUnused DEF Dhcp!NewPool, Dhcp!Pool
  <2>3. /\ DOMAIN PoolList' = DOMAIN PoolList \cup {i} /\ PoolList'[i] = Dhcp!NewPool
        /\ \A j \in DOMAIN PoolList : PoolList'[j] = PoolList[j]
        /\ PoolList' \in [DOMAIN PoolList \cup {i} -> Dhcp!Pool]
    BY <1>1, <2>2 DEF Dhcp!AddPool, DhcpTyped
  <2>4. \A j \in DOMAIN PoolList : PoolList[j].name # Dhcp!NewPool.name
    BY <2>1, <2>2, UnusedNameIsUnused
  <2>5. \A j, k \in DOMAIN PoolList' : PoolList'[j].name = PoolList'[k].name => j = k
    BY <2>3, <2>4 DEF DhcpTyped
  <2>6. QED
    BY <1>1, <2>3, <2>5 DEF DhcpTyped, Dhcp!AddPool, Dhcp!Triggered, Dhcp!daemon
<1>2. ASSUME NEW i \in PoolIndices, Dhcp!DeletePool(i) PROVE DhcpTyped'
  <2>1. PoolList' = [j \in DOMAIN PoolList \ {i} |-> PoolList[j]]
    BY <1>2 DEF Dhcp!DeletePool, Dhcp!Restrict
  <2>2. QED
    BY <1>2, <2>1 DEF Dhcp!DeletePool, DhcpTyped, Dhcp!Triggered, Dhcp!daemon
<1>3. ASSUME NEW i \in PoolIndices, NEW u \in PoolUpdates, Dhcp!SetParameterValues(i, u)
      PROVE  DhcpTyped'
  <2> DEFINE new == [p \in DOMAIN PoolList[i] |-> IF p \in DOMAIN u THEN u[p] ELSE PoolList[i][p]]
  <2>1. i \in DOMAIN PoolList /\ PoolList[i] \in Dhcp!Pool
    BY <1>3 DEF Dhcp!SetParameterValues, DhcpTyped
  <2>2. new \in Dhcp!Pool /\ new.name = PoolList[i].name
    <3>1. \A p \in DOMAIN u :
       \/ p = "Enable" /\ u[p] \in {"True", "False"}
       \/ p = "Order" /\ u[p] \in Nat
       \/ p \in {"MinAddress", "MaxAddress", "chaddr"} /\ u[p] \in BOOLEAN
       \/ p = "options" /\ u[p] \in {"none", "good", "bad"}
      BY DEF Dhcp!DnsmasqAssumption
    <3>2. DOMAIN PoolList[i] =
            {"Enable", "Order", "MinAddress", "MaxAddress", "chaddr", "options", "name"}
      BY <2>1 DEF Dhcp!Pool
    <3>3. "name" \notin DOMAIN u
      BY <3>1
    <3>4. QED
      BY <2>1, <3>1, <3>2, <3>3 DEF Dhcp!Pool
  <2>3. PoolList' = [PoolList EXCEPT ![i] = new]
    BY <1>3 DEF Dhcp!SetParameterValues
  <2> HIDE DEF new
  <2>4. /\ DOMAIN PoolList' = DOMAIN PoolList
        /\ PoolList' \in [DOMAIN PoolList -> Dhcp!Pool]
        /\ \A j \in DOMAIN PoolList : PoolList'[j].name = PoolList[j].name
    BY <2>1, <2>2, <2>3 DEF DhcpTyped
  <2>5. dhcp_scheduled' \in BOOLEAN
    BY <1>3 DEF Dhcp!SetParameterValues, DhcpTyped, Dhcp!Triggers
  <2>6. QED
    BY <1>3, <2>4, <2>5 DEF Dhcp!SetParameterValues, DhcpTyped, Dhcp!daemon
<1>4. ASSUME NEW url \in Urls, Dhcp!UrlChanged(url) PROVE DhcpTyped'
  BY <1>4 DEF Dhcp!UrlChanged, DhcpTyped, Dhcp!Triggered, Dhcp!daemon
<1>5. ASSUME NEW v, Dhcp!SetTextConfig(v) PROVE DhcpTyped'
  BY <1>5 DEF Dhcp!SetTextConfig, DhcpTyped
<1>6. CASE Dhcp!Change
  BY <1>1, <1>2, <1>3, <1>4, <1>5, <1>6 DEF Dhcp!Change
<1>7. CASE Dhcp!UpdateDnsmasqConfig
  BY <1>7 DEF Dhcp!UpdateDnsmasqConfig, DhcpTyped, Dhcp!Active, Dhcp!Raises
<1>8. CASE Dhcp!ReallyWriteFile
  BY <1>8 DEF Dhcp!ReallyWriteFile, DhcpTyped
<1>9. CASE Dhcp!Restart
  <2>1. PoolList' = << >>
    BY <1>9 DEF Dhcp!Restart
  <2>2. DOMAIN PoolList' = {} /\ PoolList' \in [DOMAIN PoolList' -> Dhcp!Pool]
    BY <2>1, EmptyPools
  <2>3. QED
    BY <1>9, <2>2 DEF Dhcp!Restart, DhcpTyped, Dhcp!DnsmasqAssumption
<1>10. CASE UNCHANGED Dhcp!vars
  BY <1>10 DEF Dhcp!vars, DhcpTyped
<1>11. QED
  BY <1>6, <1>7, <1>8, <1>9, <1>10 DEF Dhcp!Next

LEMMA DhcpNextSInv ==
  ASSUME Dhcp!DnsmasqAssumption, DhcpTyped, DhcpSInv, [Dhcp!Next]_Dhcp!vars PROVE DhcpSInv'
<1> USE DEF DhcpSInv, DhcpStarted, FileSaysPools, TextIsText
<1>0. ASSUME Dhcp!UpdateDnsmasqConfig PROVE TextIsText'
  BY <1>0, Zenon DEF Dhcp!UpdateDnsmasqConfig
<1>1. CASE Dhcp!UpdateDnsmasqConfig
  <2>1. /\ Dhcp!Lines' = Dhcp!Lines /\ Dhcp!Active' = Dhcp!Active
    BY <1>1, SameLines DEF Dhcp!UpdateDnsmasqConfig
  <2>2. CASE Dhcp!Active /\ ~Dhcp!Raises /\ Dhcp!HasChanged
    <3>1. CASE Dhcp!WriteFileAtomic(Dhcp!Lines) /\ running' = Dhcp!Lines /\ behind' = FALSE
      <4>1. conf' = Dhcp!File(Dhcp!Lines') /\ conf_tmp' = Dhcp!Absent /\ running' = Dhcp!Lines'
        BY <2>1, <3>1 DEF Dhcp!WriteFileAtomic
      <4>2. FileSaysPools'
        BY <4>1 DEF Dhcp!File
      <4>3. DhcpStarted'
        BY <4>1 DEF Dhcp!File
      <4>4. QED
        BY <1>0, <1>1, <4>2, <4>3
    <3>2. CASE behind' = TRUE
      BY <1>1, <3>2 DEF Dhcp!UpdateDnsmasqConfig
    <3>3. QED
      BY <1>1, <2>2, <3>1, <3>2 DEF Dhcp!UpdateDnsmasqConfig
  <2>3. CASE ~(Dhcp!Active /\ ~Dhcp!Raises /\ Dhcp!HasChanged)
    <3>1. UNCHANGED <<conf, conf_tmp, running, behind, text>> /\ (dhcp_up'
           <=> ~(Dhcp!Active /\ Dhcp!Raises))
      BY <1>1, <2>3 DEF Dhcp!UpdateDnsmasqConfig, Dhcp!daemon
    <3>2. dhcp_up' /\ Dhcp!Active' => ~Dhcp!HasChanged
      BY <2>1, <2>3, <3>1
    <3>3. Dhcp!HasChanged' <=> Dhcp!HasChanged
      BY <2>1, <3>1 DEF Dhcp!HasChanged
    <3>4. FileSaysPools'
      BY <3>2, <3>3 DEF Dhcp!HasChanged
    <3>5. DhcpStarted'
      BY <3>1
    <3>6. QED
      BY <1>0, <1>1, <3>4, <3>5
  <2>4. QED
    BY <2>2, <2>3
<1>2. CASE Dhcp!ReallyWriteFile
  BY <1>2 DEF Dhcp!ReallyWriteFile
<1>3. ASSUME NEW i, Dhcp!AddPool(i) \/ Dhcp!DeletePool(i) PROVE DhcpSInv'
  BY <1>3 DEF Dhcp!AddPool, Dhcp!DeletePool, Dhcp!Triggered, Dhcp!daemon
<1>4. ASSUME NEW i \in PoolIndices, NEW u \in PoolUpdates, Dhcp!SetParameterValues(i, u)
      PROVE  DhcpSInv'
  <2>1. CASE Dhcp!Triggers(i, u)
    BY <1>4, <2>1 DEF Dhcp!SetParameterValues, Dhcp!daemon
  <2>2. CASE ~Dhcp!Triggers(i, u)
    <3>1. PoolList' = PoolList
      <4>1. PoolList[i] = [p \in DOMAIN PoolList[i] |-> PoolList[i][p]]
        BY <1>4 DEF Dhcp!SetParameterValues, DhcpTyped, Dhcp!Pool
      <4>2. \A p \in DOMAIN u : u[p] = PoolList[i][p]
        BY <2>2 DEF Dhcp!Triggers
      <4>3. [p \in DOMAIN PoolList[i] |-> IF p \in DOMAIN u THEN u[p] ELSE PoolList[i][p]]
              = PoolList[i]
        BY <4>1, <4>2
      <4>4. QED
        BY <1>4, <4>3 DEF Dhcp!SetParameterValues, DhcpTyped
    <3>2. UNCHANGED <<Dhcp!Lines, Dhcp!Active>>
      BY <1>4, <3>1, SameLines DEF Dhcp!SetParameterValues
    <3>3. QED
      BY <1>4, <2>2, <3>2 DEF Dhcp!SetParameterValues, Dhcp!daemon
  <2>3. QED
    BY <2>1, <2>2
<1>5. ASSUME NEW url, Dhcp!UrlChanged(url) PROVE DhcpSInv'
  BY <1>5 DEF Dhcp!UrlChanged, Dhcp!Triggered, Dhcp!daemon
<1>6. ASSUME NEW v, Dhcp!SetTextConfig(v) PROVE DhcpSInv'
  BY <1>6 DEF Dhcp!SetTextConfig
<1>7. CASE Dhcp!Change
  BY <1>3, <1>4, <1>5, <1>6, <1>7 DEF Dhcp!Change
<1>8. CASE Dhcp!Restart
  <2>0. PoolList' = << >>
    BY <1>8 DEF Dhcp!Restart
  <2>1. DOMAIN PoolList' = {}
    BY <2>0, EmptyPools
  <2>2. QED
    BY <1>8, <2>1 DEF Dhcp!Restart, Dhcp!daemon, Dhcp!Active
<1>9. CASE UNCHANGED Dhcp!vars
  BY <1>9, SameLines DEF Dhcp!vars
<1>10. QED
  BY <1>1, <1>2, <1>7, <1>8, <1>9 DEF Dhcp!Next

\* Dnsmasq: the file, and dnsmasq, have the lines of the pools of the ACS, which have
\* names of their own.
THEOREM DhcpSafe ==
  ASSUME Dhcp!DnsmasqAssumption PROVE Dhcp!Spec => [](Dhcp!TypeOK /\ Dhcp!PoolsServed)
<1>1. Dhcp!Init => DhcpTyped /\ DhcpSInv
  <2>1. ASSUME Dhcp!Init PROVE DOMAIN PoolList = {} /\ PoolList \in [DOMAIN PoolList -> Dhcp!Pool]
    BY <2>1, EmptyPools DEF Dhcp!Init
  <2>2. ASSUME Dhcp!Init PROVE ~Dhcp!Active /\ DhcpStarted /\ TextIsText
    BY <2>1, <2>2 DEF Dhcp!Init, DhcpStarted, TextIsText, Dhcp!Absent, Dhcp!Active
  <2>3. Dhcp!Init => DhcpTyped
    BY <2>1 DEF Dhcp!Init, DhcpTyped, Dhcp!DnsmasqAssumption
  <2>4. Dhcp!Init => DhcpSInv
    BY <2>2 DEF DhcpSInv, FileSaysPools
  <2>5. QED
    BY <2>3, <2>4
<1>2. DhcpTyped /\ DhcpSInv /\ [Dhcp!Next]_Dhcp!vars => DhcpTyped' /\ DhcpSInv'
  BY DhcpNextTyped, DhcpNextSInv
<1>3. DhcpTyped /\ DhcpSInv => Dhcp!TypeOK /\ Dhcp!PoolsServed
  BY DEF DhcpTyped, Dhcp!TypeOK, DhcpSInv, DhcpStarted, FileSaysPools, Dhcp!PoolsServed
<1>4. QED
  BY <1>1, <1>2, <1>3, PTL DEF Dhcp!Spec

-----------------------------------------------------------------------------
(* GFiberTv *)

\* Once this process has changed a file, frobnicast runs with what the files say, or is
\* to be restarted, now or when the change is notified.
TvTold == changed => tv_scheduled \/ tv_events # {} \/ frobstatus = Tv!Status

TvIInv == Tv!TypeOK /\ TvTold

LEMMA TvNextIInv == ASSUME TvIInv, [Tv!Next]_Tv!vars PROVE TvIInv'
<1> USE DEF TvIInv
<1>1. CASE Tv!Triggered
  <2>1. frobstatus' = Tv!Status /\ Tv!Status' = Tv!Status
    BY <1>1 DEF Tv!Triggered, Tv!Status
  <2>2. tv_scheduled' \in BOOLEAN
    BY <1>1 DEF Tv!Triggered
  <2>3. Tv!TypeOK'
    BY <1>1, <2>2 DEF Tv!Triggered, Tv!TypeOK, Tv!ui
  <2>4. QED
    BY <2>1, <2>3 DEF TvTold
<1>2. ASSUME NEW p \in Tv!Params, Tv!ReallyWriteFile(p) PROVE TvIInv'
  <2>1. Tv!TypeOK'
    BY <1>2 DEF Tv!ReallyWriteFile, Tv!TypeOK, Tv!nicknames, Tv!ui
  <2>2. ASSUME changed' PROVE tv_scheduled' \/ tv_events' # {} \/ (frobstatus = Tv!Status)'
    <3>1. CASE p \in tv_events'
      BY <3>1
    <3>2. CASE p \notin tv_events'
      <4>1. tv_file[p] = Tv!None /\ tv_file'[p] = Tv!None /\ tv_events' = tv_events /\ changed
        BY <1>2, <2>2, <3>2 DEF Tv!ReallyWriteFile
      <4>2. tv_file' = tv_file
        BY <1>2, <4>1 DEF Tv!ReallyWriteFile, Tv!TypeOK
      <4>3. Tv!Status' = Tv!Status
        BY <4>2 DEF Tv!Status
      <4>4. QED
        BY <1>2, <4>1, <4>3 DEF Tv!ReallyWriteFile, TvTold
    <3>3. QED
      BY <3>1, <3>2
  <2>3. QED
    BY <2>1, <2>2 DEF TvTold
<1>3. ASSUME NEW p \in Tv!Params, Tv!Notified(p) PROVE TvIInv'
  BY <1>3 DEF Tv!Notified, Tv!CallTrigger, Tv!TypeOK, TvTold, Tv!nicknames, Tv!ui
<1>4. ASSUME NEW v \in UiTypes, Tv!CreateIfNotExist(v) PROVE TvIInv'
  BY <1>4
     DEF Tv!CreateIfNotExist, Tv!CreateExclusively, Tv!TypeOK, TvTold, Tv!Status, Tv!nicknames,
         Tv!frobnicast
<1>5. CASE Tv!Boot
  BY <1>5 DEF Tv!Boot, Tv!TypeOK, TvTold, Tv!Status, Tv!nicknames, Tv!frobnicast
<1>6. ASSUME NEW i \in DeviceIndices, Tv!AddDevice(i) PROVE TvIInv'
  BY <1>6 DEF Tv!AddDevice, Tv!TypeOK, TvTold, Tv!Status, Tv!frobnicast, Tv!ui
<1>7. ASSUME NEW i \in DeviceIndices, Tv!DeleteDevice(i) PROVE TvIInv'
  BY <1>7 DEF Tv!DeleteDevice, Tv!Restrict, Tv!TypeOK, TvTold, Tv!Status, Tv!frobnicast, Tv!ui
<1>8. ASSUME NEW i, NEW p, NEW v, Tv!SetDevice(i, p, v) PROVE TvIInv'
  <2>1. DOMAIN DevicePropertiesList' = DOMAIN DevicePropertiesList
    BY <1>8 DEF Tv!SetDevice
  <2>2. QED
    BY <1>8, <2>1 DEF Tv!SetDevice, Tv!TypeOK, TvTold, Tv!Status, Tv!frobnicast, Tv!ui
<1>9. ASSUME NEW p \in Tv!Params, NEW v \in Keys \cup {Tv!None}, Tv!SetParam(p, v) PROVE TvIInv'
  BY <1>9 DEF Tv!SetParam, Tv!TypeOK, TvTold, Tv!Status, Tv!nicknames, Tv!ui
<1>10. ASSUME NEW v \in UiTypes, Tv!SetUiType(v) PROVE TvIInv'
  BY <1>10 DEF Tv!SetUiType, Tv!TypeOK, TvTold, Tv!Status, Tv!nicknames, Tv!frobnicast
<1>11. CASE Tv!Change
  BY <1>6, <1>7, <1>8, <1>9, <1>10, <1>11 DEF Tv!Change
<1>12. CASE Tv!Restart
  <2>1. DOMAIN DevicePropertiesList' = {}
    BY <1>12 DEF Tv!Restart
  <2>2. QED
    BY <1>12, <2>1 DEF Tv!Restart, Tv!TypeOK, TvTold
<1>13. CASE UNCHANGED Tv!vars
  BY <1>13 DEF Tv!vars, Tv!TypeOK, TvTold, Tv!Status, Tv!nicknames, Tv!frobnicast, Tv!ui
<1>14. QED
  BY <1>1, <1>2, <1>3, <1>4, <1>5, <1>11, <1>12, <1>13 DEF Tv!Next

\* GFiberTv: frobnicast was restarted with what its files hold when nothing is pending.
THEOREM TvSafe == Tv!Spec => [](Tv!TypeOK /\ Tv!FrobnicastRestarted)
<1>1. Tv!Init => TvIInv
  <2>1. ASSUME Tv!Init PROVE DOMAIN DevicePropertiesList = {}
    BY <2>1 DEF Tv!Init
  <2>2. Tv!Init => tv_file \in [Tv!Params -> Keys \cup {Tv!None}]
    BY DEF Tv!Init
  <2>3. QED
    BY <2>1, <2>2 DEF Tv!Init, TvIInv, Tv!TypeOK, TvTold
<1>2. TvIInv /\ [Tv!Next]_Tv!vars => TvIInv'
  BY TvNextIInv
<1>3. TvIInv => Tv!TypeOK /\ Tv!FrobnicastRestarted
  BY DEF TvIInv, TvTold, Tv!FrobnicastRestarted
<1>4. QED
  BY <1>1, <1>2, <1>3, PTL DEF Tv!Spec

-----------------------------------------------------------------------------
(* IdleExports *)

\* While an export waits, the program was asked for what the parameters say: the export
\* reads them when it runs.
ExportWaiting == pending => asked = Export!Args(params)

ExportIInv == Export!TypeOK /\ Export!ServiceAsAsked /\ ExportWaiting

LEMMA ArgsType ==
  ASSUME exporter \in Export!Exporters, NEW p \in Export!Settable
  PROVE  Export!Args(p) \in Export!Settable
<1>1. Export!Default \in Export!Settable
  BY DEF Export!Default, Export!Settable
<1>2. p.need \in {""} \cup ExportValues /\ Export!Status(p) \in BOOLEAN
  BY DEF Export!Settable, Export!Status
<1>3. [Export!Default EXCEPT !.need = p.need] \in Export!Settable
  BY <1>2 DEF Export!Default, Export!Settable
<1>4. [Export!Default EXCEPT !.enable = Export!Status(p)] \in Export!Settable
  BY <1>2 DEF Export!Default, Export!Settable
<1>5. QED
  BY <1>1, <1>3, <1>4 DEF Export!Args, Export!HatFile, Export!InadynConfig

\* An export gives the program what the parameters say now, unless it is lost.
LEMMA ExportKeeps ==
  ASSUME Export!TypeOK, NEW p \in Export!Settable, Export!Export(p)
  PROVE  /\ service' \in Export!Settable /\ missed' \in BOOLEAN
         /\ ~missed' => service' = Export!Args(p)
BY ArgsType DEF Export!TypeOK, Export!Export, Export!Exported

LEMMA OneMore ==
  ASSUME Export!IdleExportsAssumption, Export!TypeOK, export_changes < MaxExportChanges,
         export_changes' = export_changes + 1
  PROVE  export_changes' \in 0..MaxExportChanges
<1>1. MaxExportChanges \in Nat
  BY DEF Export!IdleExportsAssumption
<1>2. export_changes \in 0..MaxExportChanges
  BY DEF Export!TypeOK
<1>3. QED
  BY <1>1, <1>2

LEMMA ExportNextIInv ==
  ASSUME Export!IdleExportsAssumption, ExportIInv, [Export!Next]_Export!vars PROVE ExportIInv'
<1> USE DEF ExportIInv
<1>1. CASE UNCHANGED Export!vars
  BY <1>1 DEF Export!vars, Export!TypeOK, Export!ServiceAsAsked, ExportWaiting, Export!Args
<1>2. ASSUME export_changes < MaxExportChanges, export_changes' = export_changes + 1,
             UNCHANGED exporter,
             NEW p \in Export!Settable, params' = p, Export!Trigger(p)
      PROVE  ExportIInv'
  <2>1. Export!Args(p) \in Export!Settable /\ Export!Args(p)' = Export!Args(p)
    BY <1>2, ArgsType DEF Export!TypeOK, Export!Args
  <2>2. export_changes' \in 0..MaxExportChanges
    BY <1>2, OneMore
  <2>3. CASE exporter \in Export!Immediate
    <3>1. UNCHANGED pending /\ asked' = Export!Args(p) /\ Export!Export(p)
      BY <1>2, <2>3 DEF Export!Trigger
    <3>2. service' \in Export!Settable /\ missed' \in BOOLEAN /\ (~missed'
           => service' = Export!Args(p))
      BY <3>1, ExportKeeps
    <3>3. Export!TypeOK'
      BY <1>2, <2>1, <2>2, <3>1, <3>2 DEF Export!TypeOK
    <3>4. Export!Args(params)' = Export!Args(p)
      BY <1>2 DEF Export!Args
    <3>5. QED
      BY <3>1, <3>2, <3>3, <3>4 DEF Export!ServiceAsAsked, ExportWaiting
  <2>4. CASE exporter \notin Export!Immediate
    <3>1. pending' = TRUE /\ asked' = Export!Args(p) /\ UNCHANGED <<service, missed>>
      BY <1>2, <2>4 DEF Export!Trigger
    <3>2. Export!TypeOK'
      BY <1>2, <2>1, <2>2, <3>1 DEF Export!TypeOK
    <3>3. Export!Args(params)' = Export!Args(p)
      BY <1>2 DEF Export!Args
    <3>4. QED
      BY <3>1, <3>2, <3>3 DEF Export!ServiceAsAsked, ExportWaiting
  <2>5. QED
    BY <2>3, <2>4
<1>3. ASSUME export_changes < MaxExportChanges, export_changes' = export_changes + 1,
             UNCHANGED exporter,
             Export!SetParam \/ Export!SetAndRollBack \/ Export!SetLocalTimeZoneName
              \/ Export!SetConfiguration
      PROVE  ExportIInv'
  <2>1. CASE Export!SetParam
    BY <1>2, <1>3, <2>1 DEF Export!SetParam
  <2>2. CASE Export!SetAndRollBack
    BY <1>2, <1>3, <2>2 DEF Export!SetAndRollBack, Export!TypeOK
  <2>3. CASE Export!SetLocalTimeZoneName
    <3>1. PICK name \in {""} \cup ExportValues :
            params' = [params EXCEPT !.need = name]
             /\ Export!Trigger([params EXCEPT !.need = name])
      BY <2>3 DEF Export!SetLocalTimeZoneName
    <3>2. [params EXCEPT !.need = name] \in Export!Settable
      BY DEF Export!TypeOK, Export!Settable
    <3>3. QED
      BY <1>2, <1>3, <3>1, <3>2
  <2>4. CASE Export!SetConfiguration
    <3>1. PICK json \in ExportValues :
            params' = [params EXCEPT !.need = json]
             /\ Export!Trigger([params EXCEPT !.need = json])
      BY <2>4 DEF Export!SetConfiguration
    <3>2. [params EXCEPT !.need = json] \in Export!Settable
      BY DEF Export!TypeOK, Export!Settable
    <3>3. QED
      BY <1>2, <1>3, <3>1, <3>2
  <2>5. QED
    BY <1>3, <2>1, <2>2, <2>3, <2>4
<1>4. ASSUME export_changes < MaxExportChanges, export_changes' = export_changes + 1,
             UNCHANGED exporter, Export!DeleteService
      PROVE  ExportIInv'
  <2>1. Export!Default \in Export!Settable
    BY DEF Export!Default, Export!Settable
  <2>2. Export!TypeOK'
    BY <1>4, <2>1, OneMore DEF Export!TypeOK, Export!DeleteService
  <2>3. Export!Args(params)' = Export!Default
    BY <1>4
       DEF Export!DeleteService, Export!Args, Export!InadynConfig, Export!Status, Export!Default,
           Export!Beacons
  <2>4. QED
    BY <1>4, <2>2, <2>3 DEF Export!DeleteService, Export!ServiceAsAsked, ExportWaiting
<1>5. ASSUME export_changes < MaxExportChanges, export_changes' = export_changes + 1,
             UNCHANGED exporter, Export!Restart
      PROVE  ExportIInv'
  <2>1. params' \in Export!Settable /\ service' \in Export!Settable
    BY <1>5 DEF Export!TypeOK, Export!Restart, Export!Default, Export!Settable
  <2>2. asked' \in Export!Settable
    BY <1>5, <2>1, ArgsType DEF Export!Restart, Export!TypeOK
  <2>3. Export!TypeOK'
    BY <1>5, <2>1, <2>2, OneMore DEF Export!TypeOK, Export!Restart
  <2>4. QED
    BY <1>5, <2>3 DEF Export!Restart, Export!ServiceAsAsked, ExportWaiting
<1>6. CASE Export!RunWhenIdle
  <2>1. service' \in Export!Settable /\ missed' \in BOOLEAN /\ (~missed'
         => service' = Export!Args(params))
    BY <1>6, ExportKeeps DEF Export!RunWhenIdle, Export!TypeOK
  <2>2. Export!TypeOK'
    BY <1>6, <2>1 DEF Export!RunWhenIdle, Export!TypeOK
  <2>3. QED
    BY <1>6, <2>1, <2>2 DEF Export!RunWhenIdle, Export!ServiceAsAsked, ExportWaiting
<1>7. CASE Export!WriteTimezone
  <2>1. params' \in Export!Settable
    BY <1>7 DEF Export!WriteTimezone, Export!TypeOK, Export!Settable
  <2>2. service' \in Export!Settable /\ missed' \in BOOLEAN /\ (~missed'
         => service' = Export!Args(params))
    BY <1>7, ArgsType DEF Export!WriteTimezone, Export!Exported, Export!TypeOK
  <2>3. Export!TypeOK'
    BY <1>7, <2>1, <2>2 DEF Export!WriteTimezone, Export!TypeOK
  <2>4. QED
    BY <1>7, <2>2, <2>3 DEF Export!WriteTimezone, Export!ServiceAsAsked, ExportWaiting
<1>8. QED
  BY <1>1, <1>3, <1>4, <1>5, <1>6, <1>7 DEF Export!Next

\* Small exporters: a service that nothing waits for is as the last assignment asks.
THEOREM ExportsFollow == ASSUME Export!IdleExportsAssumption PROVE Export!Spec => []ExportIInv
<1>1. Export!Init => ExportIInv
  <2>1. Export!Default \in Export!Settable
    BY DEF Export!Default, Export!Settable
  <2>2. 0 \in 0..MaxExportChanges
    <3>1. MaxExportChanges \in Nat
      BY DEF Export!IdleExportsAssumption
    <3>2. QED
      BY <3>1
  <2>3. QED
    BY <2>1, <2>2 DEF Export!Init, ExportIInv, Export!TypeOK, Export!ServiceAsAsked, ExportWaiting
<1>2. ExportIInv /\ [Export!Next]_Export!vars => ExportIInv'
  BY ExportNextIInv
<1>3. QED
  BY <1>1, <1>2, PTL DEF Export!Spec

-----------------------------------------------------------------------------
(* Isostream *)

-----------------------------------------------------------------------------
(* Proofs, for any number of changes                                       *)
(*                                                                         *)
(* What a process was started with is in seen: its timer and the daily one *)
(* fit that at any time; while Triggered is not due, the switches do too.  *)

Sides == {"server", "client"}

\* A timer that is pending has a process to end, and a process without one has no limit.
TimersFit ==
  \A side \in Sides :
    /\ timers[side] = "pending" => side \in procs
    /\ side \in procs /\ timers[side] = "none" => side = "server" /\ ~stream_seen.server[2]

\* With nothing scheduled the processes are those that the parameters enable.
StreamIInv ==
  /\ ServerTimeLimit \in BOOLEAN /\ ClientRunOnSchedule \in BOOLEAN
  /\ DOMAIN timers = Sides /\ DOMAIN stream_seen = Sides
  /\ procs \subseteq Sides
  /\ TimersFit
  /\ schedule = stream_seen.client[2]
  /\ ~stream_scheduled => procs = Stream!Wanted /\ ClientRunOnSchedule = stream_seen.client[2]

BasicTypes ==
  /\ {ServerEnable, ClientEnable, ClientEnableByScheduler, ClientRunOnSchedule,
      ServerTimeLimit, schedule, stream_scheduled} \subseteq BOOLEAN
  /\ settings \in [Sides -> 1..2]

LEMMA StreamNextTyped ==
  ASSUME BasicTypes, Stream!TypeOK, [Stream!Next]_Stream!vars
  PROVE  BasicTypes' /\ Stream!TypeOK'
<1> USE DEF Stream!TypeOK, BasicTypes, Sides
<1>1. CASE Stream!Change
  <2>1. UNCHANGED <<stream_seen, procs, timers, schedule>>
    BY <1>1 DEF Stream!Change, Stream!running
  <2>2. CASE Stream!SetServerEnable \/ Stream!SetClientEnable \/ Stream!SetClientRunOnSchedule
    BY <2>1, <2>2
       DEF Stream!SetServerEnable, Stream!SetClientEnable, Stream!SetClientRunOnSchedule,
           Stream!Trigger
  <2>3. CASE Stream!SetServerTimeLimit
    BY <2>1, <2>3 DEF Stream!SetServerTimeLimit, Stream!enables
  <2>4. ASSUME NEW side \in Sides, Stream!SetSetting(side) PROVE BasicTypes' /\ Stream!TypeOK'
    <3>1. settings' \in [Sides -> 1..2]
      BY <2>4 DEF Stream!SetSetting
    <3>2. QED
      BY <2>1, <2>4, <3>1 DEF Stream!SetSetting, Stream!enables
  <2>5. QED
    BY <1>1, <2>2, <2>3, <2>4 DEF Stream!Change
<1>2. CASE Stream!Triggered
  <2> DEFINE new == {side \in Sides : Stream!Changed(side)}
  <2>1. \A side \in Sides :
          Stream!SettingsOf(side) \in (0..2) \X BOOLEAN \cup (0..2) \X BOOLEAN \X BOOLEAN
    BY DEF Stream!SettingsOf
  <2>2. /\ stream_seen' = [side \in Sides |-> IF side
            \in new THEN Stream!SettingsOf(side) ELSE stream_seen[side]]
        /\ procs' = (procs \ new) \cup (Stream!Wanted \cap new)
        /\ timers' = [side \in Sides |->
                        IF side \notin new THEN timers[side]
                        ELSE IF side \in Stream!Wanted /\ (side = "server" => ServerTimeLimit)
                        THEN "pending" ELSE "none"]
        /\ schedule' = IF "client" \in new THEN ClientRunOnSchedule ELSE schedule
    BY <1>2 DEF Stream!Triggered
  <2> HIDE DEF new
  <2>3. procs' \subseteq Sides
    BY <2>2 DEF Stream!Wanted
  <2>4. timers' \in [Sides -> {"none", "pending", "fired"}]
    BY <2>2
  <2>5. stream_seen' \in [Sides -> (0..2) \X BOOLEAN \cup (0..2) \X BOOLEAN \X BOOLEAN]
    BY <2>1, <2>2
  <2>6. QED
    BY <1>2, <2>2, <2>3, <2>4, <2>5 DEF Stream!Triggered, Stream!enables
<1>3. CASE Stream!ServerTimeout
  BY <1>3 DEF Stream!ServerTimeout
<1>4. CASE Stream!ClientTimeout
  BY <1>4 DEF Stream!ClientTimeout, Stream!Trigger
<1>5. CASE Stream!RunTest
  BY <1>5 DEF Stream!RunTest, Stream!Trigger
<1>6. CASE UNCHANGED Stream!vars
  BY <1>6 DEF Stream!vars
<1>7. QED
  BY <1>1, <1>2, <1>3, <1>4, <1>5, <1>6 DEF Stream!Next

\* Triggered compares with the settings it saw last: what did not change is as it left it.
LEMMA TriggeredIInv ==
  ASSUME StreamIInv, Stream!Triggered
  PROVE  StreamIInv'
<1> DEFINE new == {side \in Sides : Stream!Changed(side)}
<1>1. /\ stream_seen' = [side \in Sides |-> IF side
          \in new THEN Stream!SettingsOf(side) ELSE stream_seen[side]]
      /\ procs' = (procs \ new) \cup (Stream!Wanted \cap new)
      /\ timers' = [side \in Sides |->
                      IF side \notin new THEN timers[side]
                      ELSE IF side \in Stream!Wanted /\ (side = "server" => ServerTimeLimit)
                      THEN "pending" ELSE "none"]
      /\ schedule' = IF "client" \in new THEN ClientRunOnSchedule ELSE schedule
      /\ ~stream_scheduled'
      /\ UNCHANGED <<ServerTimeLimit, ClientRunOnSchedule>> /\ Stream!Wanted' = Stream!Wanted
  BY DEF Stream!Triggered, StreamIInv, Sides, Stream!enables, Stream!Wanted, Stream!ClientShouldRun
<1>2. \A side \in Sides :
        side \notin new => /\ Stream!SettingsOf(side) = stream_seen[side]
                           /\ side \in procs <=> side \in Stream!Wanted
  BY DEF Sides, Stream!Changed, Stream!Wanted
<1>3. /\ Stream!SettingsOf("server")[2] = ServerTimeLimit
      /\ Stream!SettingsOf("client")[2] = ClientRunOnSchedule
      /\ stream_seen.client = stream_seen["client"] /\ stream_seen.server = stream_seen["server"]
  BY DEF Stream!SettingsOf
<1>4. Stream!Wanted \subseteq Sides /\ new \subseteq Sides /\ {"server", "client"} = Sides
  BY DEF Stream!Wanted, Sides
<1> HIDE DEF new
<1>5. procs' = Stream!Wanted /\ procs' \subseteq Sides
  BY <1>1, <1>2, <1>4 DEF StreamIInv
<1>6. DOMAIN timers' = Sides /\ DOMAIN stream_seen' = Sides
  BY <1>1
<1>7. schedule' = stream_seen.client[2]' /\ ClientRunOnSchedule = stream_seen.client[2]'
  BY <1>1, <1>2, <1>3, <1>4 DEF StreamIInv
<1>8. TimersFit'
  <2> SUFFICES ASSUME NEW side \in Sides
               PROVE  /\ timers'[side] = "pending" => side \in procs'
                      /\ side \in procs' /\ timers'[side] = "none" =>
                           side = "server" /\ ~stream_seen'.server[2]
    BY DEF TimersFit
  <2>1. CASE side \in new
    BY <1>1, <1>3, <1>5, <2>1 DEF Sides
  <2>2. CASE side \notin new
    <3>1. timers'[side] = timers[side] /\ stream_seen'[side] = stream_seen[side]
      BY <1>1, <2>2
    <3>2. side \in procs' <=> side \in procs
      BY <1>1, <2>2
    <3>3. QED
      BY <3>1, <3>2 DEF StreamIInv, TimersFit
  <2>3. QED
    BY <2>1, <2>2
<1>9. QED
  BY <1>1, <1>5, <1>6, <1>7, <1>8 DEF StreamIInv

LEMMA StreamNextIInv ==
  ASSUME StreamIInv, [Stream!Next]_Stream!vars
  PROVE  StreamIInv'
<1> USE DEF StreamIInv
<1>1. CASE Stream!Change
  <2>1. UNCHANGED <<stream_seen, procs, timers, schedule>>
    BY <1>1 DEF Stream!Change, Stream!running
  <2>2. TimersFit'
    BY <2>1 DEF TimersFit
  <2>3. CASE Stream!SetServerEnable \/ Stream!SetClientEnable \/ Stream!SetClientRunOnSchedule
    BY <2>1, <2>2, <2>3
       DEF Stream!SetServerEnable, Stream!SetClientEnable, Stream!SetClientRunOnSchedule,
           Stream!Trigger
  <2>4. CASE Stream!SetServerTimeLimit
    <3>1. Stream!Wanted' = Stream!Wanted
      BY <2>4 DEF Stream!SetServerTimeLimit, Stream!enables, Stream!Wanted, Stream!ClientShouldRun
    <3>2. QED
      BY <2>1, <2>2, <2>4, <3>1 DEF Stream!SetServerTimeLimit, Stream!enables
  <2>5. ASSUME NEW side \in Sides, Stream!SetSetting(side) PROVE StreamIInv'
    <3>1. Stream!Wanted' = Stream!Wanted
      BY <2>5 DEF Stream!SetSetting, Stream!enables, Stream!Wanted, Stream!ClientShouldRun
    <3>2. stream_scheduled' = stream_scheduled \/ stream_scheduled'
      BY <2>5 DEF Stream!SetSetting
    <3>3. QED
      BY <2>1, <2>2, <2>5, <3>1, <3>2 DEF Stream!SetSetting, Stream!enables
  <2>6. QED
    BY <1>1, <2>3, <2>4, <2>5 DEF Stream!Change, Sides
<1>2. CASE Stream!Triggered
  BY <1>2, TriggeredIInv
<1>3. CASE Stream!ServerTimeout
  <2>1. "server" \in procs
    BY <1>3 DEF Stream!ServerTimeout, TimersFit, Sides
  <2>2. TimersFit'
    BY <1>3, <2>1 DEF Stream!ServerTimeout, TimersFit, Sides
  <2>3. stream_scheduled'
    BY <1>3, <2>1 DEF Stream!ServerTimeout, Stream!Wanted
  <2>4. QED
    BY <1>3, <2>2, <2>3 DEF Stream!ServerTimeout
<1>4. CASE Stream!ClientTimeout
  <2>1. TimersFit'
    BY <1>4 DEF Stream!ClientTimeout, TimersFit, Sides
  <2>2. QED
    BY <1>4, <2>1 DEF Stream!ClientTimeout, Stream!Trigger
<1>5. CASE Stream!RunTest
  BY <1>5 DEF Stream!RunTest, Stream!Trigger, TimersFit
<1>6. CASE UNCHANGED Stream!vars
  BY <1>6 DEF Stream!vars, TimersFit, Stream!Wanted, Stream!ClientShouldRun
<1>7. QED
  BY <1>1, <1>2, <1>3, <1>4, <1>5, <1>6 DEF Stream!Next

\* Whatever the order in which timers fire, schedules come up and settings change, the
\* idle ioloop leaves the processes and timers that the switches call for.
THEOREM StreamSafe == Stream!Spec => [](Stream!TypeOK /\ Stream!ProcessesAsEnabled)
<1>1. Stream!Init => StreamIInv
  <2> SUFFICES ASSUME Stream!Init PROVE StreamIInv
    OBVIOUS
  <2>1. procs = Stream!Wanted /\ TimersFit
    BY DEF Stream!Init, Stream!Wanted, Stream!ClientShouldRun, TimersFit, Sides
  <2>2. DOMAIN timers = Sides /\ DOMAIN stream_seen = Sides /\ ~stream_seen.client[2]
    BY DEF Stream!Init, Sides
  <2>3. ServerTimeLimit /\ ~ClientRunOnSchedule /\ ~schedule /\ procs \subseteq Sides
    BY DEF Stream!Init
  <2>4. stream_seen.client[2] = FALSE
    BY DEF Stream!Init
  <2>5. QED
    BY <2>1, <2>2, <2>3, <2>4 DEF Stream!Init, StreamIInv
<1>2. StreamIInv /\ [Stream!Next]_Stream!vars => StreamIInv'
  BY StreamNextIInv
<1>3. StreamIInv => Stream!ProcessesAsEnabled
  BY DEF StreamIInv, Stream!ProcessesAsEnabled, TimersFit, Sides, Stream!SettingsOf
<1>4. Stream!Init => BasicTypes /\ Stream!TypeOK
  <2> SUFFICES ASSUME Stream!Init PROVE BasicTypes /\ Stream!TypeOK
    OBVIOUS
  <2>1. settings \in [Sides -> 1..2] /\ timers \in [Sides -> {"none", "pending", "fired"}]
    BY DEF Stream!Init, Sides
  <2>2. ASSUME NEW n \in 0..2, NEW b \in BOOLEAN PROVE <<n, b>> \in (0..2) \X BOOLEAN
    OBVIOUS
  <2>3. stream_seen \in [Sides -> (0..2) \X BOOLEAN \cup (0..2) \X BOOLEAN \X BOOLEAN]
    <3>1. 0 \in 0..2
      OBVIOUS
    <3> DEFINE x == <<0, FALSE>>
               y == <<0, FALSE, FALSE>>
    <3>2. x \in (0..2) \X BOOLEAN /\ y \in (0..2) \X BOOLEAN \X BOOLEAN
      BY <2>2, <3>1
    <3>3. stream_seen = [server |-> x, client |-> y]
      BY DEF Stream!Init
    <3> HIDE DEF x, y
    <3>4. QED
      BY <3>2, <3>3 DEF Sides
  <2>4. QED
    BY <2>1, <2>3 DEF Stream!Init, BasicTypes, Stream!TypeOK, Sides
<1>5. BasicTypes /\ Stream!TypeOK /\ [Stream!Next]_Stream!vars => BasicTypes' /\ Stream!TypeOK'
  BY StreamNextTyped
<1>6. QED
  BY <1>1, <1>2, <1>3, <1>4, <1>5, PTL DEF Stream!Spec

-----------------------------------------------------------------------------
(* BrcmWifi *)

Bits == {"WEP", "TKIP", "AES"}
PhraseType == Phrases \cup {Radio!None, ""}
KeyType == PhraseType \X (Ssids \cup {Radio!None})
WepType == [1..WepKeys -> STRING \cup {""}]
BandType == {"2.4GHz", "5GHz"}
ChannelType == RadioChannels \cup {Radio!NoChannel}

\* The provers do not know that a literal is in STRING.
ModeType == STRING \cup {"WPAand11i", "WEPEncryption", "None"}

RadioConfigType ==
  [ Enable : BOOLEAN, RadioEnabled : BOOLEAN, AutoChannelEnable : BOOLEAN,
    OperatingFrequencyBand : BandType, Channel : ChannelType,
    SSID : (Ssids \ {Radio!None, ""}) \cup {Radio!None},
    AutoRateFallBackEnabled : {Radio!None, "on", "off"},
    RegulatoryDomain : Domains \cup {Radio!None},
    BeaconType : ModeType, BasicEncryptionModes : ModeType,
    WPAEncryptionModes : ModeType, IEEE11iEncryptionModes : ModeType ]

\* A wl command: one setting of the driver.
Cmd == [radio : BOOLEAN] \cup [up : BOOLEAN] \cup [ap : BOOLEAN] \cup [bss : BOOLEAN]
       \cup [band : BandType] \cup [ssid : Ssids \cup {""}] \cup [channel : ChannelType]
       \cup [country : Domains] \cup [interference : {"on", "off"}]
       \cup [wsec : SUBSET Bits] \cup [sup_wpa : BOOLEAN] \cup [wpa_auth : {0, 4, 128}]
       \cup [pmk : KeyType] \cup [wep : WepType]

WlNames == {"radio", "up", "ap", "bss", "band", "ssid", "channel", "country", "interference",
            "wsec", "sup_wpa", "wpa_auth", "pmk", "wep"}

\* Each command sets one of the settings of the driver.
LEMMA CmdNames == \A x \in Cmd : DOMAIN x \subseteq WlNames
BY DEF Cmd, WlNames

-----------------------------------------------------------------------------
(* Sequences of commands *)

\* The last command of q for this setting gives it this value.
LastSets(q, s, v) ==
  \E n \in 1..Len(q) : /\ s \in DOMAIN q[n] /\ q[n][s] = v
                       /\ \A k \in 1..Len(q) : k > n => s \notin DOMAIN q[k]

\* No command of q sets s.
Lacks(q, s) == \A n \in 1..Len(q) : s \notin DOMAIN q[n]

\* The command at n gives the network a name.
RadioNames(q, n) == "ssid" \in DOMAIN q[n] /\ q[n]["ssid"] # ""

\* No command of q gives the network a name.
Unnamed(q) == \A n \in 1..Len(q) : ~RadioNames(q, n)

\* Before each name, the setting has the value, and it is not set again.
NamedAfter(q, s, v) ==
  \A n \in 1..Len(q) : RadioNames(q, n) =>
    \E i \in 1..(n - 1) : /\ s \in DOMAIN q[i] /\ q[i][s] = v
                          /\ \A k \in 1..Len(q) : k > i => s \notin DOMAIN q[k]

\* The commands of a commit are pieces joined: positions in the whole and in its pieces.
LEMMA Joined ==
  ASSUME NEW q \in Seq(Cmd), NEW r \in Seq(Cmd)
  PROVE  /\ q \o r \in Seq(Cmd) /\ Len(q) \in Nat /\ Len(r) \in Nat
         /\ Len(q \o r) = Len(q) + Len(r)
         /\ \A n \in 1..Len(q) : (q \o r)[n] = q[n]
         /\ \A n \in 1..Len(r) : (q \o r)[Len(q) + n] = r[n]
         /\ \A n \in 1..Len(q \o r) : n \in 1..Len(q) \/ (n - Len(q) \in 1..Len(r)
             /\ (q \o r)[n] = r[n - Len(q)])
OBVIOUS

LEMMA JoinLacks ==
  ASSUME NEW q \in Seq(Cmd), NEW r \in Seq(Cmd), NEW s, Lacks(q, s), Lacks(r, s)
  PROVE  Lacks(q \o r, s)
<1> DEFINE t == q \o r
<1>1. \A n \in 1..Len(t) : (t[n] = q[n] /\ n \in 1..Len(q)) \/ (n - Len(q) \in 1..Len(r)
       /\ t[n] = r[n - Len(q)])
  BY Joined
<1> HIDE DEF t
<1>2. QED
  BY <1>1 DEF Lacks, t

LEMMA JoinUnnamed ==
  ASSUME NEW q \in Seq(Cmd), NEW r \in Seq(Cmd), Unnamed(q), Unnamed(r)
  PROVE  Unnamed(q \o r)
<1> DEFINE t == q \o r
<1>1. \A n \in 1..Len(t) : (t[n] = q[n] /\ n \in 1..Len(q)) \/ (n - Len(q) \in 1..Len(r)
       /\ t[n] = r[n - Len(q)])
  BY Joined
<1> HIDE DEF t
<1>2. QED
  BY <1>1 DEF Unnamed, RadioNames, t

\* What the last piece that sets s sets is what the whole sets.
LEMMA JoinSets ==
  ASSUME NEW q \in Seq(Cmd), NEW r \in Seq(Cmd), NEW s, NEW v,
         LastSets(r, s, v) \/ (LastSets(q, s, v) /\ Lacks(r, s))
  PROVE  LastSets(q \o r, s, v)
<1> DEFINE t == q \o r
<1>1. /\ Len(q) \in Nat /\ Len(r) \in Nat /\ Len(t) = Len(q) + Len(r)
      /\ \A n \in 1..Len(q) : t[n] = q[n]
      /\ \A n \in 1..Len(r) : t[Len(q) + n] = r[n]
  BY Joined
<1>2. \A k \in 1..Len(t) : k > Len(q) => k - Len(q) \in 1..Len(r) /\ t[k] = r[k - Len(q)]
  <2>1. ASSUME NEW k \in 1..Len(t), k > Len(q)
        PROVE  k - Len(q) \in 1..Len(r) /\ t[k] = r[k - Len(q)]
    <3> DEFINE j == k - Len(q)
    <3>1. j \in 1..Len(r) /\ k = Len(q) + j
      BY <1>1, <2>1
    <3> HIDE DEF j, t
    <3>2. QED
      BY <1>1, <3>1 DEF j
  <2>2. QED
    BY <2>1
<1> HIDE DEF t
<1>3. CASE LastSets(r, s, v)
  <2>1. PICK n \in 1..Len(r) : /\ s \in DOMAIN r[n] /\ r[n][s] = v
                               /\ \A k \in 1..Len(r) : k > n => s \notin DOMAIN r[k]
    BY <1>3 DEF LastSets
  <2> DEFINE lastOf == Len(q) + n
  <2>2. lastOf \in 1..Len(t) /\ t[lastOf] = r[n]
    BY <1>1
  <2>3. ASSUME NEW k \in 1..Len(t), k > lastOf PROVE s \notin DOMAIN t[k]
    <3>1. k > Len(q) /\ k - Len(q) > n
      BY <1>1, <2>3
    <3>2. QED
      BY <1>2, <2>1, <3>1
  <2> HIDE DEF lastOf
  <2>4. QED
    BY <2>1, <2>2, <2>3 DEF LastSets, t
<1>4. CASE LastSets(q, s, v) /\ Lacks(r, s)
  <2>1. PICK n \in 1..Len(q) : /\ s \in DOMAIN q[n] /\ q[n][s] = v
                               /\ \A k \in 1..Len(q) : k > n => s \notin DOMAIN q[k]
    BY <1>4 DEF LastSets
  <2>2. n \in 1..Len(t) /\ t[n] = q[n]
    BY <1>1
  <2>3. ASSUME NEW k \in 1..Len(t), k > n PROVE s \notin DOMAIN t[k]
    <3>1. CASE k > Len(q)
      BY <1>2, <1>4, <3>1 DEF Lacks
    <3>2. CASE ~(k > Len(q))
      <4>1. k \in 1..Len(q)
        BY <1>1, <3>2
      <4>2. QED
        BY <1>1, <2>1, <2>3, <4>1
    <3>3. QED
      BY <3>1, <3>2
  <2>4. QED
    BY <2>1, <2>2, <2>3 DEF LastSets, t
<1>5. QED
  BY <1>3, <1>4

LEMMA JoinKeeps ==
  ASSUME NEW q \in Seq(Cmd), NEW r \in Seq(Cmd), NEW s, NEW v, LastSets(q, s, v), Lacks(r, s)
  PROVE  LastSets(q \o r, s, v)
<1>1. LastSets(r, s, v) \/ (LastSets(q, s, v) /\ Lacks(r, s))
  OBVIOUS
<1>2. QED
  BY <1>1, JoinSets

LEMMA JoinMakes ==
  ASSUME NEW q \in Seq(Cmd), NEW r \in Seq(Cmd), NEW s, NEW v, LastSets(r, s, v)
  PROVE  LastSets(q \o r, s, v)
<1>1. LastSets(r, s, v) \/ (LastSets(q, s, v) /\ Lacks(r, s))
  OBVIOUS
<1>2. QED
  BY <1>1, JoinSets

\* A name that comes after the setting.
LEMMA JoinNamed ==
  ASSUME NEW q \in Seq(Cmd), NEW r \in Seq(Cmd), NEW s, NEW v, Lacks(r, s),
         \/ Unnamed(q) /\ LastSets(q, s, v)
         \/ NamedAfter(q, s, v) /\ Unnamed(r)
  PROVE  NamedAfter(q \o r, s, v)
<1> DEFINE t == q \o r
<1>1. /\ Len(q) \in Nat /\ Len(r) \in Nat /\ Len(t) = Len(q) + Len(r)
      /\ \A n \in 1..Len(q) : t[n] = q[n]
      /\ \A k \in 1..Len(t) : k \in 1..Len(q) \/ (k > Len(q) /\ k - Len(q) \in 1..Len(r)
          /\ t[k] = r[k - Len(q)])
  BY Joined
<1> HIDE DEF t
<1> SUFFICES ASSUME NEW n \in 1..Len(t), RadioNames(t, n)
             PROVE  \E i \in 1..(n - 1) : /\ s \in DOMAIN t[i] /\ t[i][s] = v
                          /\ \A k \in 1..Len(t) : k > i => s \notin DOMAIN t[k]
  BY DEF NamedAfter, t
<1>2. CASE Unnamed(q) /\ LastSets(q, s, v)
  <2>1. n > Len(q)
    BY <1>1, <1>2 DEF Unnamed, RadioNames
  <2>2. PICK i \in 1..Len(q) : /\ s \in DOMAIN q[i] /\ q[i][s] = v
                               /\ \A k \in 1..Len(q) : k > i => s \notin DOMAIN q[k]
    BY <1>2 DEF LastSets
  <2>3. \A k \in 1..Len(t) : k > i => s \notin DOMAIN t[k]
    BY <1>1, <2>2 DEF Lacks
  <2>4. i \in 1..(n - 1) /\ t[i] = q[i]
    BY <1>1, <2>1
  <2>5. QED
    BY <2>2, <2>3, <2>4
<1>3. CASE NamedAfter(q, s, v) /\ Unnamed(r)
  <2>1. n \in 1..Len(q) /\ RadioNames(q, n)
    BY <1>1, <1>3 DEF Unnamed, RadioNames
  <2>2. PICK i \in 1..(n - 1) : /\ s \in DOMAIN q[i] /\ q[i][s] = v
                                /\ \A k \in 1..Len(q) : k > i => s \notin DOMAIN q[k]
    BY <1>3, <2>1 DEF NamedAfter
  <2>3. i \in 1..Len(q) /\ t[i] = q[i]
    BY <1>1, <2>1
  <2>4. \A k \in 1..Len(t) : k > i => s \notin DOMAIN t[k]
    BY <1>1, <2>2 DEF Lacks
  <2>5. QED
    BY <2>2, <2>3, <2>4
<1>4. QED
  BY <1>2, <1>3

-----------------------------------------------------------------------------
(* The commands of a commit *)

\* All the settings that the commands make, but for up and ssid.
Kept == {"radio", "band", "ap", "channel", "wsec", "sup_wpa", "wpa_auth", "pmk"}
Secured == {"wsec", "sup_wpa", "wpa_auth"}

LEMMA LacksName ==
  ASSUME NEW q, Lacks(q, "ssid")
  PROVE  Unnamed(q)
BY DEF Lacks, Unnamed, RadioNames

LEMMA EmptyPiece ==
  << >> \in Seq(Cmd) /\ Unnamed(<< >>) /\ \A s : Lacks(<< >>, s)
BY DEF Unnamed, Lacks

\* The pieces of the commands: what each sets, and what it leaves alone.
LEMMA IfPiece ==
  ASSUME NEW b \in BOOLEAN, NEW x, b => x \in Cmd
  PROVE  /\ Radio!If(b, x) \in Seq(Cmd)
         /\ \A s : s \notin DOMAIN x => Lacks(Radio!If(b, x), s)
         /\ "ssid" \notin DOMAIN x => Unnamed(Radio!If(b, x))
         /\ b => \A s \in DOMAIN x : LastSets(Radio!If(b, x), s, x[s])
<1>1. CASE b
  <2>1. Radio!If(b, x) = <<x>> /\ Len(<<x>>) = 1 /\ <<x>>[1] = x /\ 1..1 = {1}
    BY <1>1 DEF Radio!If
  <2>2. <<x>> \in Seq(Cmd)
    BY <1>1
  <2>3. \A s : s \notin DOMAIN x => Lacks(<<x>>, s)
    BY DEF Lacks
  <2>4. "ssid" \notin DOMAIN x => Unnamed(<<x>>)
    BY <2>3, LacksName
  <2>5. \A s \in DOMAIN x : LastSets(<<x>>, s, x[s])
    BY DEF LastSets
  <2>6. QED
    BY <2>1, <2>2, <2>3, <2>4, <2>5
<1>2. CASE ~b
  BY <1>2, EmptyPiece DEF Radio!If
<1>3. QED
  BY <1>1, <1>2

LEMMA EncryptionTyped ==
  ASSUME NEW c
  PROVE  /\ Radio!Encryption(c).wsec \in SUBSET Bits /\ Radio!Encryption(c).sup_wpa \in BOOLEAN
         /\ Radio!Encryption(c).wpa_auth \in {0, 4, 128}
         /\ Radio!Encryption(c) =
              [wsec |-> Radio!Encryption(c).wsec, sup_wpa |-> Radio!Encryption(c).sup_wpa,
               wpa_auth |-> Radio!Encryption(c).wpa_auth]
<1>1. \A mode : Radio!Ciphers(mode) \in SUBSET Bits
  BY DEF Radio!Ciphers, Bits
<1>2. CASE c.BeaconType \in {"11i", "Basicand11i", "WPAand11i", "BasicandWPAand11i"}
  BY <1>1, <1>2 DEF Radio!Encryption
<1>3. CASE c.BeaconType \in {"WPA", "BasicandWPA"}
  BY <1>1, <1>3 DEF Radio!Encryption
<1>4. CASE c.BeaconType = "Basic"
  BY <1>1, <1>4 DEF Radio!Encryption
<1>5. CASE c.BeaconType \notin {"11i", "Basicand11i", "WPAand11i", "BasicandWPAand11i", "WPA",
                               "BasicandWPA", "Basic"}
  BY <1>5 DEF Radio!Encryption
<1>6. QED
  BY <1>2, <1>3, <1>4, <1>5

\* The radio is turned on, brought down and given a band.
LEMMA FirstPiece ==
  ASSUME NEW band \in BandType
  PROVE  LET q == << [radio |-> TRUE], [up |-> FALSE], [band |-> band] >> IN
         /\ q \in Seq(Cmd) /\ Len(q) = 3 /\ "radio" \in DOMAIN q[1]
         /\ LastSets(q, "radio", TRUE) /\ LastSets(q, "band", band)
         /\ \A s \in Kept \ {"radio", "band"} : Lacks(q, s)
         /\ Unnamed(q)
<1> DEFINE q == << [radio |-> TRUE], [up |-> FALSE], [band |-> band] >>
<1>1. q \in Seq(Cmd) /\ Len(q) = 3 /\ 1..3 = {1, 2, 3}
  BY DEF Cmd
<1>2. q[1] = [radio |-> TRUE] /\ q[2] = [up |-> FALSE] /\ q[3] = [band |-> band]
  OBVIOUS
<1> HIDE DEF q
<1>3. DOMAIN q[1] = {"radio"} /\ DOMAIN q[2] = {"up"} /\ DOMAIN q[3] = {"band"}
  BY <1>2
<1>4. LastSets(q, "radio", TRUE)
  BY <1>1, <1>2, <1>3 DEF LastSets
<1>5. LastSets(q, "band", band)
  BY <1>1, <1>2, <1>3 DEF LastSets
<1>6. \A s \in Kept \ {"radio", "band"} : Lacks(q, s)
  BY <1>1, <1>3 DEF Lacks, Kept
<1>7. Unnamed(q)
  <2>1. Lacks(q, "ssid")
    BY <1>1, <1>3 DEF Lacks
  <2>2. QED
    BY <2>1, LacksName
<1>8. QED
  BY <1>1, <1>3, <1>4, <1>5, <1>6, <1>7 DEF q

\* The search for a channel leaves all but "ap" alone.
LEMMA ScanPiece ==
  /\ Radio!DoAutoChannelSelect \in Seq(Cmd) /\ Unnamed(Radio!DoAutoChannelSelect)
  /\ \A s \in Kept \ {"ap"} : Lacks(Radio!DoAutoChannelSelect, s)
<1> DEFINE q == Radio!DoAutoChannelSelect
<1>1. q \in Seq(Cmd) /\ Len(q) = 5 /\ 1..5 = {1, 2, 3, 4, 5}
  BY DEF Cmd, Radio!DoAutoChannelSelect
<1>2. q[1] = [up |-> FALSE] /\ q[2] = [ssid |-> ""] /\ q[3] = [ap |-> FALSE]
       /\ q[4] = [up |-> TRUE]
      /\ q[5] = [up |-> FALSE]
  BY DEF Radio!DoAutoChannelSelect
<1> HIDE DEF q
<1>3. DOMAIN q[1] = {"up"} /\ DOMAIN q[2] = {"ssid"} /\ DOMAIN q[3] = {"ap"}
       /\ DOMAIN q[4] = {"up"}
      /\ DOMAIN q[5] = {"up"} /\ q[2]["ssid"] = ""
  <2>1. DOMAIN q[1] = {"up"} /\ DOMAIN q[2] = {"ssid"}
    BY <1>2
  <2>2. DOMAIN q[3] = {"ap"} /\ DOMAIN q[4] = {"up"}
    BY <1>2
  <2>3. DOMAIN q[5] = {"up"}
    BY <1>2
  <2>4. q[2]["ssid"] = ""
    <3>1. \A v : [ssid |-> v]["ssid"] = v
      OBVIOUS
    <3>2. QED
      BY <1>2, <3>1
  <2>5. QED
    BY <2>1, <2>2, <2>3, <2>4
<1>4. \A s \in Kept \ {"ap"} : Lacks(q, s)
  BY <1>1, <1>3 DEF Lacks, Kept
<1>5. Unnamed(q)
  BY <1>1, <1>3 DEF Unnamed, RadioNames
<1>6. QED
  BY <1>1, <1>4, <1>5 DEF q

LEMMA PointPiece ==
  LET q == << [ap |-> TRUE], [bss |-> FALSE] >> IN
  /\ q \in Seq(Cmd) /\ Unnamed(q) /\ LastSets(q, "ap", TRUE)
  /\ \A s \in Kept \ {"ap"} : Lacks(q, s)
<1> DEFINE q == << [ap |-> TRUE], [bss |-> FALSE] >>
<1>1. q \in Seq(Cmd) /\ Len(q) = 2 /\ 1..2 = {1, 2}
  BY DEF Cmd
<1>2. q[1] = [ap |-> TRUE] /\ q[2] = [bss |-> FALSE]
  OBVIOUS
<1> HIDE DEF q
<1>3. DOMAIN q[1] = {"ap"} /\ DOMAIN q[2] = {"bss"} /\ q[1]["ap"] = TRUE
  BY <1>2
<1>4. \A s \in Kept \ {"ap"} : Lacks(q, s)
  BY <1>1, <1>3 DEF Lacks, Kept
<1>5. Unnamed(q) /\ LastSets(q, "ap", TRUE)
  <2>1. Lacks(q, "ssid")
    BY <1>1, <1>3 DEF Lacks
  <2>2. LastSets(q, "ap", TRUE)
    BY <1>1, <1>3 DEF LastSets
  <2>3. QED
    BY <2>1, <2>2, LacksName
<1>6. QED
  BY <1>1, <1>4, <1>5 DEF q

LEMMA SecurityPiece ==
  ASSUME NEW e, e.wsec \in SUBSET Bits, e.sup_wpa \in BOOLEAN, e.wpa_auth \in {0, 4, 128}
  PROVE  LET q == << [wsec |-> e.wsec], [sup_wpa |-> e.sup_wpa], [wpa_auth |-> e.wpa_auth] >> IN
         /\ q \in Seq(Cmd) /\ Unnamed(q)
         /\ LastSets(q, "wsec", e.wsec) /\ LastSets(q, "sup_wpa", e.sup_wpa)
             /\ LastSets(q, "wpa_auth", e.wpa_auth)
         /\ \A s \in Kept \ Secured : Lacks(q, s)
<1> DEFINE q == << [wsec |-> e.wsec], [sup_wpa |-> e.sup_wpa], [wpa_auth |-> e.wpa_auth] >>
<1>1. q \in Seq(Cmd) /\ Len(q) = 3 /\ 1..3 = {1, 2, 3}
  BY DEF Cmd
<1>2. q[1] = [wsec |-> e.wsec] /\ q[2] = [sup_wpa |-> e.sup_wpa]
       /\ q[3] = [wpa_auth |-> e.wpa_auth]
  OBVIOUS
<1> HIDE DEF q
<1>3. /\ DOMAIN q[1] = {"wsec"} /\ DOMAIN q[2] = {"sup_wpa"} /\ DOMAIN q[3] = {"wpa_auth"}
      /\ q[1]["wsec"] = e.wsec /\ q[2]["sup_wpa"] = e.sup_wpa /\ q[3]["wpa_auth"] = e.wpa_auth
  BY <1>2
<1>4. \A s \in Kept \ Secured : Lacks(q, s)
  BY <1>1, <1>3 DEF Lacks, Kept, Secured
<1>5. Unnamed(q)
  <2>1. Lacks(q, "ssid")
    BY <1>1, <1>3 DEF Lacks
  <2>2. QED
    BY <2>1, LacksName
<1>6. LastSets(q, "wsec", e.wsec) /\ LastSets(q, "sup_wpa", e.sup_wpa)
       /\ LastSets(q, "wpa_auth", e.wpa_auth)
  BY <1>1, <1>3 DEF LastSets
<1>7. QED
  BY <1>1, <1>4, <1>5, <1>6 DEF q

\* The name is last but for the WEP keys.
LEMMA NamePiece ==
  ASSUME NEW ssid \in Ssids
  PROVE  LET q == << [up |-> TRUE], [ssid |-> ssid] >> IN
         /\ q \in Seq(Cmd) /\ LastSets(q, "up", TRUE) /\ LastSets(q, "ssid", ssid)
         /\ \A s \in Kept : Lacks(q, s)
<1> DEFINE q == << [up |-> TRUE], [ssid |-> ssid] >>
<1>1. q \in Seq(Cmd) /\ Len(q) = 2 /\ 1..2 = {1, 2}
  <2>1. [up |-> TRUE] \in Cmd /\ [ssid |-> ssid] \in Cmd
    BY DEF Cmd
  <2>2. QED
    BY <2>1
<1>2. q[1] = [up |-> TRUE] /\ q[2] = [ssid |-> ssid]
  OBVIOUS
<1> HIDE DEF q
<1>3. DOMAIN q[1] = {"up"} /\ DOMAIN q[2] = {"ssid"} /\ q[1]["up"] = TRUE /\ q[2]["ssid"] = ssid
  BY <1>2
<1>4. \A s \in Kept : Lacks(q, s)
  BY <1>1, <1>3 DEF Lacks, Kept
<1>5. LastSets(q, "up", TRUE) /\ LastSets(q, "ssid", ssid)
  BY <1>1, <1>3 DEF LastSets
<1>6. QED
  BY <1>1, <1>4, <1>5 DEF q

LEMMA LastPiece ==
  ASSUME NEW wep \in WepType
  PROVE  LET q == << [wep |-> wep] >> IN
         /\ q \in Seq(Cmd) /\ Unnamed(q) /\ Lacks(q, "up") /\ Lacks(q, "ssid")
         /\ \A s \in Kept : Lacks(q, s)
<1> DEFINE q == << [wep |-> wep] >>
<1>1. q \in Seq(Cmd) /\ Len(q) = 1 /\ 1..1 = {1}
  BY DEF Cmd
<1>2. q[1] = [wep |-> wep]
  OBVIOUS
<1> HIDE DEF q
<1>3. DOMAIN q[1] = {"wep"}
  BY <1>2
<1>4. \A s \in Kept \cup {"up", "ssid"} : Lacks(q, s)
  BY <1>1, <1>3 DEF Lacks, Kept
<1>5. QED
  BY <1>1, <1>4, LacksName DEF q

RadioOn(c) == c.Enable /\ c.RadioEnabled

\* What the commands of a commit do, for every setting that matters.
Does(c, key, chan, q) ==
  /\ q \in Seq(Cmd) /\ Len(q) >= 1 /\ "radio" \in DOMAIN q[1]
  /\ LastSets(q, "radio", RadioOn(c))
  /\ RadioOn(c) => /\ LastSets(q, "band", c.OperatingFrequencyBand) /\ LastSets(q, "ap", TRUE)
                   /\ LastSets(q, "channel", chan)
                   /\ \A s \in Secured : /\ LastSets(q, s, Radio!Encryption(c)[s])
                                         /\ NamedAfter(q, s, Radio!Encryption(c)[s])
                   /\ key # Radio!NoKey => LastSets(q, "pmk", key)
                   /\ c.SSID # Radio!None => LastSets(q, "up", TRUE)
                       /\ LastSets(q, "ssid", c.SSID)
  /\ ~RadioOn(c) => Unnamed(q)

\* The prefix of the commands up to the encryption: no name yet, and every setting made.
LEMMA RadioPrefix ==
  ASSUME NEW c \in RadioConfigType, NEW chan \in ChannelType, fallback \subseteq {"on", "off"}
  PROVE  LET e == Radio!Encryption(c)
             q == << [radio |-> TRUE], [up |-> FALSE], [band |-> c.OperatingFrequencyBand] >>
                  \o (IF c.AutoChannelEnable THEN Radio!DoAutoChannelSelect ELSE << >>)
                  \o << [ap |-> TRUE], [bss |-> FALSE] >>
                  \o Radio!SetAutoRateFallBackEnabled(c.AutoRateFallBackEnabled)
                  \o << [channel |-> chan] >>
                  \o Radio!If(c.RegulatoryDomain # Radio!None, [country |-> c.RegulatoryDomain])
                  \o << [wsec |-> e.wsec], [sup_wpa |-> e.sup_wpa], [wpa_auth |-> e.wpa_auth] >>
         IN /\ q \in Seq(Cmd) /\ Len(q) >= 1 /\ "radio" \in DOMAIN q[1] /\ Unnamed(q)
            /\ LastSets(q, "radio", TRUE) /\ LastSets(q, "band", c.OperatingFrequencyBand)
            /\ LastSets(q, "ap", TRUE) /\ LastSets(q, "channel", chan)
            /\ \A s \in Secured : LastSets(q, s, e[s])
<1> DEFINE e == Radio!Encryption(c)
           p1 == << [radio |-> TRUE], [up |-> FALSE], [band |-> c.OperatingFrequencyBand] >>
           p2 == IF c.AutoChannelEnable THEN Radio!DoAutoChannelSelect ELSE << >>
           p3 == << [ap |-> TRUE], [bss |-> FALSE] >>
           p4 == Radio!SetAutoRateFallBackEnabled(c.AutoRateFallBackEnabled)
           p5 == << [channel |-> chan] >>
           p6 == Radio!If(c.RegulatoryDomain # Radio!None, [country |-> c.RegulatoryDomain])
           p7 == << [wsec |-> e.wsec], [sup_wpa |-> e.sup_wpa], [wpa_auth |-> e.wpa_auth] >>
           Base(q) == q \in Seq(Cmd) /\ Len(q) >= 1 /\ "radio" \in DOMAIN q[1] /\ Unnamed(q)
           band == c.OperatingFrequencyBand
<1>1. /\ p1 \in Seq(Cmd) /\ Len(p1) = 3 /\ "radio" \in DOMAIN p1[1] /\ Unnamed(p1)
      /\ LastSets(p1, "radio", TRUE) /\ LastSets(p1, "band", band)
  <2>1. c.OperatingFrequencyBand \in BandType
    BY DEF RadioConfigType
  <2>2. QED
    BY <2>1, FirstPiece
<1>2. p2 \in Seq(Cmd) /\ Unnamed(p2) /\ \A s \in Kept \ {"ap"} : Lacks(p2, s)
  <2>1. CASE c.AutoChannelEnable
    BY <2>1, ScanPiece
  <2>2. CASE ~c.AutoChannelEnable
    BY <2>2, EmptyPiece
  <2>3. QED
    BY <2>1, <2>2
<1>3. /\ p3 \in Seq(Cmd) /\ Unnamed(p3) /\ LastSets(p3, "ap", TRUE)
      /\ \A s \in Kept \ {"ap"} : Lacks(p3, s)
  BY PointPiece
<1>4. p4 \in Seq(Cmd) /\ Unnamed(p4) /\ \A s \in Kept : Lacks(p4, s)
  <2> DEFINE x == [interference |-> c.AutoRateFallBackEnabled]
             b == c.AutoRateFallBackEnabled \notin {Radio!None} \cup fallback
  <2>1. b \in BOOLEAN /\ p4 = Radio!If(b, x)
    BY DEF Radio!SetAutoRateFallBackEnabled
  <2>2. c.AutoRateFallBackEnabled \in {Radio!None, "on", "off"}
    BY DEF RadioConfigType
  <2>3. b => x \in Cmd
    BY <2>2 DEF Cmd
  <2>4. DOMAIN x = {"interference"}
    OBVIOUS
  <2> HIDE DEF x, b
  <2>5. Radio!If(b, x) \in Seq(Cmd) /\ Unnamed(Radio!If(b, x)) /\ \A s : s \notin DOMAIN x
         => Lacks(Radio!If(b, x), s)
    BY <2>1, <2>3, <2>4, IfPiece
  <2>6. QED
    BY <2>1, <2>4, <2>5 DEF Kept
<1>5. /\ p5 \in Seq(Cmd) /\ Unnamed(p5) /\ LastSets(p5, "channel", chan)
      /\ \A s \in Kept \ {"channel"} : Lacks(p5, s)
  <2> DEFINE x == [channel |-> chan]
  <2>1. x \in Cmd /\ DOMAIN x = {"channel"} /\ x["channel"] = chan
    BY DEF Cmd
  <2>2. p5 = Radio!If(TRUE, x)
    BY DEF Radio!If
  <2> HIDE DEF x
  <2>3. /\ Radio!If(TRUE, x) \in Seq(Cmd) /\ Unnamed(Radio!If(TRUE, x))
        /\ \A s : s \notin DOMAIN x => Lacks(Radio!If(TRUE, x), s)
        /\ \A s \in DOMAIN x : LastSets(Radio!If(TRUE, x), s, x[s])
    BY <2>1, IfPiece
  <2>4. QED
    BY <2>1, <2>2, <2>3 DEF Kept
<1>6. p6 \in Seq(Cmd) /\ Unnamed(p6) /\ \A s \in Kept : Lacks(p6, s)
  <2> DEFINE x == [country |-> c.RegulatoryDomain]
             b == c.RegulatoryDomain # Radio!None
  <2>1. b \in BOOLEAN /\ p6 = Radio!If(b, x)
    OBVIOUS
  <2>2. c.RegulatoryDomain \in Domains \cup {Radio!None}
    BY DEF RadioConfigType
  <2>3. b => x \in Cmd
    BY <2>2 DEF Cmd
  <2>4. DOMAIN x = {"country"}
    OBVIOUS
  <2> HIDE DEF x, b
  <2>5. Radio!If(b, x) \in Seq(Cmd) /\ Unnamed(Radio!If(b, x)) /\ \A s : s \notin DOMAIN x
         => Lacks(Radio!If(b, x), s)
    BY <2>1, <2>3, <2>4, IfPiece
  <2>6. QED
    BY <2>1, <2>4, <2>5 DEF Kept
<1>7. /\ p7 \in Seq(Cmd) /\ Unnamed(p7) /\ \A s \in Secured : LastSets(p7, s, e[s])
      /\ \A s \in Kept \ Secured : Lacks(p7, s)
  <2>1. e.wsec \in SUBSET Bits /\ e.sup_wpa \in BOOLEAN /\ e.wpa_auth \in {0, 4, 128}
    BY EncryptionTyped
  <2> HIDE DEF e
  <2>2. /\ p7 \in Seq(Cmd) /\ Unnamed(p7) /\ \A s \in Kept \ Secured : Lacks(p7, s)
        /\ LastSets(p7, "wsec", e.wsec) /\ LastSets(p7, "sup_wpa", e.sup_wpa)
        /\ LastSets(p7, "wpa_auth", e.wpa_auth)
    BY <2>1, SecurityPiece
  <2>3. QED
    BY <2>2 DEF Secured
<1> HIDE DEF e, p1, p2, p3, p4, p5, p6, p7
<1> DEFINE q2 == p1 \o p2  q3 == q2 \o p3  q4 == q3 \o p4  q5 == q4 \o p5  q6 == q5 \o p6
           q7 == q6 \o p7
<1>10. ASSUME NEW q \in Seq(Cmd), NEW r \in Seq(Cmd), Base(q), Unnamed(r)
       PROVE  Base(q \o r)
  <2>1. q \o r \in Seq(Cmd) /\ Len(q \o r) >= 1 /\ (q \o r)[1] = q[1]
    <3>1. Len(q) \in Nat /\ Len(r) \in Nat /\ Len(q \o r) = Len(q) + Len(r) /\ 1 \in 1..Len(q)
      BY <1>10
    <3>2. QED
      BY <1>10, <3>1
  <2>2. Unnamed(q \o r)
    BY <1>10, JoinUnnamed
  <2>3. QED
    BY <1>10, <2>1, <2>2
<1>11. Base(p1)
  BY <1>1
<1> HIDE DEF Base
<1> DEFINE At(q) == LastSets(q, "radio", TRUE) /\ LastSets(q, "band", band)
           Ap(q) == LastSets(q, "ap", TRUE)
           Ch(q) == LastSets(q, "channel", chan)
           None3(r) == Lacks(r, "radio") /\ Lacks(r, "band")
<1>12. ASSUME NEW q \in Seq(Cmd), NEW r \in Seq(Cmd), None3(r), At(q)
       PROVE  At(q \o r)
  BY <1>12, JoinKeeps
<1>13. ASSUME NEW q \in Seq(Cmd), NEW r \in Seq(Cmd), Lacks(r, "ap"), Ap(q)
       PROVE  Ap(q \o r)
  BY <1>13, JoinKeeps
<1>14. ASSUME NEW q \in Seq(Cmd), NEW r \in Seq(Cmd), Lacks(r, "channel"), Ch(q)
       PROVE  Ch(q \o r)
  BY <1>14, JoinKeeps
<1>15. None3(p2) /\ None3(p3) /\ None3(p4) /\ None3(p5) /\ None3(p6) /\ None3(p7)
  BY <1>2, <1>3, <1>4, <1>5, <1>6, <1>7 DEF Kept, Secured
<1>16. Ap(p3) /\ Lacks(p4, "ap") /\ Lacks(p5, "ap") /\ Lacks(p6, "ap") /\ Lacks(p7, "ap")
  <2>1. Ap(p3)
    BY <1>3
  <2>2. Lacks(p4, "ap") /\ Lacks(p5, "ap") /\ Lacks(p6, "ap")
    BY <1>4, <1>5, <1>6 DEF Kept
  <2>3. Lacks(p7, "ap")
    BY <1>7 DEF Kept, Secured
  <2>4. QED
    BY <2>1, <2>2, <2>3
<1>17. Ch(p5) /\ Lacks(p6, "channel") /\ Lacks(p7, "channel")
  BY <1>5, <1>6, <1>7 DEF Kept, Secured
<1>18. Base(p1) /\ At(p1)
  BY <1>1, <1>11
<1> HIDE DEF At, None3
<1>19. q2 \in Seq(Cmd) /\ Base(q2) /\ At(q2)
  BY <1>1, <1>2, <1>10, <1>12, <1>15, <1>18
<1> HIDE DEF q2
<1>20. q3 \in Seq(Cmd) /\ Base(q3) /\ At(q3) /\ Ap(q3)
  <2>1. Ap(q3)
    BY <1>3, <1>16, <1>19, JoinMakes
  <2>2. At(q3)
    BY <1>3, <1>12, <1>15, <1>19
  <2>3. q3 \in Seq(Cmd) /\ Base(q3)
    BY <1>3, <1>10, <1>19
  <2>4. QED
    BY <2>1, <2>2, <2>3
<1> HIDE DEF Ap, q3
<1>21. q4 \in Seq(Cmd) /\ Base(q4) /\ At(q4) /\ Ap(q4)
  BY <1>4, <1>10, <1>12, <1>13, <1>15, <1>16, <1>20
<1> HIDE DEF q4
<1>22. q5 \in Seq(Cmd) /\ Base(q5) /\ At(q5) /\ Ap(q5) /\ Ch(q5)
  <2>1. Ch(q5)
    BY <1>5, <1>17, <1>21, JoinMakes
  <2>2. QED
    BY <2>1, <1>5, <1>10, <1>12, <1>13, <1>15, <1>16, <1>21
<1> HIDE DEF Ch, q5
<1>23. q6 \in Seq(Cmd) /\ Base(q6) /\ At(q6) /\ Ap(q6) /\ Ch(q6)
  BY <1>6, <1>10, <1>12, <1>13, <1>14, <1>15, <1>16, <1>17, <1>22
<1> HIDE DEF q6
<1>24. q7 \in Seq(Cmd) /\ Base(q7) /\ At(q7) /\ Ap(q7) /\ Ch(q7)
  BY <1>7, <1>10, <1>12, <1>13, <1>14, <1>15, <1>16, <1>17, <1>23
<1>25. ASSUME NEW s \in Secured PROVE LastSets(q7, s, e[s])
  BY <1>7, <1>23, JoinMakes
<1> HIDE DEF q7
<1>26. QED
  BY <1>24, <1>25 DEF Base, At, Ap, Ch, q2, q3, q4, q5, q6, q7, p1, p2, p3, p4, p5, p6, p7, e

\* The whole commit of a radio that is on: the key, the name and the WEP keys follow.
LEMMA CommandsSet ==
  ASSUME NEW c \in RadioConfigType, NEW key \in KeyType, NEW wep \in WepType,
         NEW chan \in ChannelType, fallback \subseteq {"on", "off"}
  PROVE  Does(c, key, chan, Radio!Commands(c, key, wep, chan))
<1> DEFINE e == Radio!Encryption(c)
           all == Radio!Commands(c, key, wep, chan)
<1>1. CASE ~RadioOn(c)
  <2>1. all = << [radio |-> FALSE] >> /\ all = Radio!If(TRUE, [radio |-> FALSE])
    BY <1>1 DEF RadioOn, Radio!Commands, Radio!If
  <2>2. [radio |-> FALSE] \in Cmd /\ DOMAIN [radio |-> FALSE] = {"radio"}
        /\ [radio |-> FALSE]["radio"] = FALSE
    BY DEF Cmd
  <2> DEFINE x == [radio |-> FALSE]
  <2> HIDE DEF x
  <2>3. /\ Radio!If(TRUE, x) \in Seq(Cmd) /\ Unnamed(Radio!If(TRUE, x))
        /\ \A s \in DOMAIN x : LastSets(Radio!If(TRUE, x), s, x[s])
    BY <2>2, IfPiece DEF x
  <2>4. all = <<x>> /\ all[1] = x /\ Len(all) = 1
    BY <2>1 DEF x
  <2>5. all \in Seq(Cmd) /\ Unnamed(all) /\ LastSets(all, "radio", FALSE)
         /\ "radio" \in DOMAIN all[1]
    BY <2>1, <2>2, <2>3, <2>4 DEF x
  <2>6. RadioOn(c) = FALSE
    BY <1>1 DEF RadioOn, RadioConfigType
  <2> HIDE DEF all
  <2>7. LastSets(all, "radio", RadioOn(c))
    BY <2>5, <2>6
  <2>8. Does(c, key, chan, all)
    <3>1. all \in Seq(Cmd) /\ Len(all) >= 1 /\ "radio" \in DOMAIN all[1]
      BY <2>4, <2>5
    <3>2. Unnamed(all)
      BY <2>5
    <3>3. QED
      BY <1>1, <2>7, <3>1, <3>2, Zenon DEF Does
  <2>9. QED
    BY <2>8 DEF all
<1>2. CASE RadioOn(c)
  <2> DEFINE q == << [radio |-> TRUE], [up |-> FALSE], [band |-> c.OperatingFrequencyBand] >>
                  \o (IF c.AutoChannelEnable THEN Radio!DoAutoChannelSelect ELSE << >>)
                  \o << [ap |-> TRUE], [bss |-> FALSE] >>
                  \o Radio!SetAutoRateFallBackEnabled(c.AutoRateFallBackEnabled)
                  \o << [channel |-> chan] >>
                  \o Radio!If(c.RegulatoryDomain # Radio!None, [country |-> c.RegulatoryDomain])
                  \o << [wsec |-> e.wsec], [sup_wpa |-> e.sup_wpa], [wpa_auth |-> e.wpa_auth] >>
             r1 == Radio!If(key # Radio!NoKey, [pmk |-> key])
             r2 == IF c.SSID = Radio!None THEN << >> ELSE << [up |-> TRUE], [ssid |-> c.SSID] >>
             r3 == << [wep |-> wep] >>
             t1 == q \o r1  t2 == t1 \o r2  t3 == t2 \o r3
             band == c.OperatingFrequencyBand
             Base(t) == /\ Len(t) >= 1 /\ "radio" \in DOMAIN t[1]
                        /\ LastSets(t, "radio", TRUE) /\ LastSets(t, "band", band)
                        /\ LastSets(t, "ap", TRUE) /\ LastSets(t, "channel", chan)
                        /\ \A s \in Secured : LastSets(t, s, e[s])
             Free(t) == \A s \in Kept \ {"pmk"} : Lacks(t, s)
             After(t) == \A s \in Secured : NamedAfter(t, s, e[s])
  <2>1. all = t3
    BY <1>2 DEF RadioOn, Radio!Commands
  <2>2. q \in Seq(Cmd) /\ Base(q) /\ Unnamed(q)
    BY RadioPrefix
  <2>3. /\ r1 \in Seq(Cmd) /\ Unnamed(r1) /\ Free(r1)
        /\ key # Radio!NoKey => LastSets(r1, "pmk", key)
    <3> DEFINE x == [pmk |-> key]
               b == key # Radio!NoKey
    <3>1. x \in Cmd /\ DOMAIN x = {"pmk"} /\ x["pmk"] = key /\ b \in BOOLEAN
           /\ r1 = Radio!If(b, x)
      BY DEF Cmd
    <3> HIDE DEF x, b
    <3>2. /\ Radio!If(b, x) \in Seq(Cmd) /\ Unnamed(Radio!If(b, x))
              /\ \A s : s \notin DOMAIN x => Lacks(Radio!If(b, x), s)
          /\ b => \A s \in DOMAIN x : LastSets(Radio!If(b, x), s, x[s])
      BY <3>1, IfPiece
    <3>3. Free(Radio!If(b, x))
      BY <3>1, <3>2
    <3>4. b => LastSets(Radio!If(b, x), "pmk", key)
      BY <3>1, <3>2
    <3>5. QED
      BY <3>1, <3>2, <3>3, <3>4 DEF b
  <2>4. /\ r2 \in Seq(Cmd) /\ Free(r2) /\ Lacks(r2, "pmk")
        /\ c.SSID # Radio!None => LastSets(r2, "up", TRUE) /\ LastSets(r2, "ssid", c.SSID)
    <3>1. CASE c.SSID = Radio!None
      BY <3>1, EmptyPiece
    <3>2. CASE c.SSID # Radio!None
      <4>1. c.SSID \in Ssids
        BY <3>2 DEF RadioConfigType
      <4>2. r2 = << [up |-> TRUE], [ssid |-> c.SSID] >>
        BY <3>2
      <4> DEFINE name == c.SSID
      <4> HIDE DEF name
      <4>3. LET t == << [up |-> TRUE], [ssid |-> name] >> IN
            /\ t \in Seq(Cmd) /\ LastSets(t, "up", TRUE) /\ LastSets(t, "ssid", name)
            /\ \A s \in Kept : Lacks(t, s)
        BY <4>1, NamePiece DEF name
      <4>4. QED
        BY <4>2, <4>3 DEF name, Kept
    <3>3. QED
      BY <3>1, <3>2
  <2>5. /\ r3 \in Seq(Cmd) /\ Unnamed(r3) /\ Free(r3) /\ Lacks(r3, "pmk")
        /\ Lacks(r3, "up") /\ Lacks(r3, "ssid")
    <3>1. LET t == << [wep |-> wep] >> IN
          /\ t \in Seq(Cmd) /\ Unnamed(t) /\ Lacks(t, "up") /\ Lacks(t, "ssid")
          /\ \A s \in Kept : Lacks(t, s)
      BY LastPiece
    <3>2. QED
      BY <3>1 DEF Kept
  <2> HIDE DEF e, q, r1, r2, r3
  <2>6. ASSUME NEW t \in Seq(Cmd), NEW r \in Seq(Cmd), Base(t), Free(r)
        PROVE  t \o r \in Seq(Cmd) /\ Base(t \o r)
    <3>1. t \o r \in Seq(Cmd) /\ Len(t \o r) >= 1 /\ (t \o r)[1] = t[1]
      <4>1. Len(t) \in Nat /\ Len(r) \in Nat /\ Len(t \o r) = Len(t) + Len(r) /\ 1 \in 1..Len(t)
        BY <2>6
      <4>2. QED
        BY <2>6, <4>1
    <3>2. Lacks(r, "radio") /\ Lacks(r, "band") /\ Lacks(r, "ap") /\ Lacks(r, "channel")
      BY <2>6 DEF Kept
    <3>3. LastSets(t \o r, "radio", TRUE) /\ LastSets(t \o r, "band", band)
      BY <2>6, <3>2, JoinKeeps
    <3>4. LastSets(t \o r, "ap", TRUE) /\ LastSets(t \o r, "channel", chan)
      BY <2>6, <3>2, JoinKeeps
    <3>5. ASSUME NEW s \in Secured PROVE LastSets(t \o r, s, e[s])
      <4>1. Lacks(r, s) /\ LastSets(t, s, e[s])
        BY <2>6, <3>5 DEF Kept, Secured
      <4>2. QED
        BY <4>1, JoinKeeps
    <3>6. QED
      BY <2>6, <3>1, <3>3, <3>4, <3>5
  <2>7. ASSUME NEW t \in Seq(Cmd), NEW r \in Seq(Cmd), Unnamed(t), Base(t), Free(r)
        PROVE  After(t \o r)
    <3>1. ASSUME NEW s \in Secured PROVE NamedAfter(t \o r, s, e[s])
      <4>1. Lacks(r, s) /\ LastSets(t, s, e[s])
        BY <2>7, <3>1 DEF Kept, Secured
      <4>2. QED
        BY <2>7, <4>1, JoinNamed
    <3>2. QED
      BY <3>1
  <2>8. ASSUME NEW t \in Seq(Cmd), NEW r \in Seq(Cmd), After(t), Unnamed(r), Free(r)
        PROVE  After(t \o r)
    <3>1. ASSUME NEW s \in Secured PROVE NamedAfter(t \o r, s, e[s])
      <4>1. Lacks(r, s) /\ NamedAfter(t, s, e[s])
        BY <2>8, <3>1 DEF Kept, Secured
      <4>2. QED
        BY <2>8, <4>1, JoinNamed
    <3>2. QED
      BY <3>1
  <2> HIDE DEF Base, Free, After
  <2>9. t1 \in Seq(Cmd) /\ Base(t1) /\ Unnamed(t1) /\ (key # Radio!NoKey
         => LastSets(t1, "pmk", key))
    <3>1. t1 \in Seq(Cmd) /\ Base(t1)
      BY <2>2, <2>3, <2>6
    <3>2. Unnamed(t1)
      BY <2>2, <2>3, JoinUnnamed
    <3>3. ASSUME key # Radio!NoKey PROVE LastSets(t1, "pmk", key)
      BY <2>2, <2>3, <3>3, JoinMakes
    <3>4. QED
      BY <3>1, <3>2, <3>3
  <2> HIDE DEF t1
  <2>10. /\ t2 \in Seq(Cmd) /\ Base(t2) /\ After(t2) /\ (key # Radio!NoKey
             => LastSets(t2, "pmk", key))
         /\ c.SSID # Radio!None => LastSets(t2, "up", TRUE) /\ LastSets(t2, "ssid", c.SSID)
    <3>1. t2 \in Seq(Cmd) /\ Base(t2)
      BY <2>4, <2>6, <2>9
    <3>2. After(t2)
      BY <2>4, <2>7, <2>9
    <3>3. ASSUME key # Radio!NoKey PROVE LastSets(t2, "pmk", key)
      BY <2>4, <2>9, <3>3, JoinKeeps
    <3>4. ASSUME c.SSID # Radio!None PROVE LastSets(t2, "up", TRUE)
      BY <2>4, <2>9, <3>4, JoinMakes
    <3>5. ASSUME c.SSID # Radio!None PROVE LastSets(t2, "ssid", c.SSID)
      BY <2>4, <2>9, <3>5, JoinMakes
    <3>6. QED
      BY <3>1, <3>2, <3>3, <3>4, <3>5
  <2> HIDE DEF t2
  <2>11. /\ t3 \in Seq(Cmd) /\ Base(t3) /\ After(t3) /\ (key # Radio!NoKey
             => LastSets(t3, "pmk", key))
         /\ c.SSID # Radio!None => LastSets(t3, "up", TRUE) /\ LastSets(t3, "ssid", c.SSID)
    <3>1. t3 \in Seq(Cmd) /\ Base(t3)
      BY <2>5, <2>6, <2>10
    <3>2. After(t3)
      BY <2>5, <2>8, <2>10
    <3>3. ASSUME key # Radio!NoKey PROVE LastSets(t3, "pmk", key)
      BY <2>5, <2>10, <3>3, JoinKeeps
    <3>4. ASSUME c.SSID # Radio!None PROVE LastSets(t3, "up", TRUE)
      BY <2>5, <2>10, <3>4, JoinKeeps
    <3>5. ASSUME c.SSID # Radio!None PROVE LastSets(t3, "ssid", c.SSID)
      BY <2>5, <2>10, <3>5, JoinKeeps
    <3>6. QED
      BY <3>1, <3>2, <3>3, <3>4, <3>5
  <2> HIDE DEF t3, all
  <2>12. RadioOn(c) = TRUE
    BY <1>2 DEF RadioOn, RadioConfigType
  <2>13. Does(c, key, chan, t3)
    BY <2>11, <2>12 DEF Does, Base, After, e
  <2>14. QED
    BY <2>1, <2>13 DEF all
<1>3. QED
  BY <1>1, <1>2

-----------------------------------------------------------------------------
(* The assignments of an RPC *)

\* A channel of its own is in the band.
InBand(c) == \/ c.AutoChannelEnable \/ c.Channel = Radio!NoChannel
             \/ Radio!BandOf(c.Channel) = c.OperatingFrequencyBand

\* One parameter and value of an RPC that the setters take.
Takes(p, v) ==
  \/ p \in {"Enable", "RadioEnabled", "AutoChannelEnable"} /\ v \in BOOLEAN
  \/ p = "OperatingFrequencyBand" /\ v \in {"2.4GHz", "5GHz"}
  \/ p = "Channel" /\ v \in RadioChannels
  \/ p = "SSID" /\ v \in Ssids \ {Radio!None, ""}
  \/ p = "AutoRateFallBackEnabled" /\ v \in {"on", "off"}
  \/ p = "RegulatoryDomain" /\ v \in Domains
  \/ p = "KeyPassphrase" /\ v \in Phrases \cup {""}
  \/ /\ p \in {"BeaconType", "BasicEncryptionModes", "WPAEncryptionModes",
                "IEEE11iEncryptionModes", "WEPKey"}
     /\ v \in STRING

Names12 == {"Enable", "RadioEnabled", "AutoChannelEnable", "OperatingFrequencyBand", "Channel",
            "SSID", "AutoRateFallBackEnabled", "RegulatoryDomain", "BeaconType",
            "BasicEncryptionModes", "WPAEncryptionModes", "IEEE11iEncryptionModes"}

LEMMA ConfigNames == \A c \in RadioConfigType : DOMAIN c = Names12
BY DEF RadioConfigType, Names12

\* The setters of the channel and of the band keep them together, unless the ACS turns
\* the automatic channel off itself.
LEMMA SetTyped ==
  ASSUME NEW c \in RadioConfigType, NEW p, NEW v, Takes(p, v), Radio!BrcmWifiAssumption
  PROVE  /\ Radio!Set(c, p, v) \in RadioConfigType
         /\ InBand(c) /\ (p = "AutoChannelEnable" => v = TRUE) => InBand(Radio!Set(c, p, v))
<1>1. c.Channel \in Nat /\ RadioChannels \subseteq Nat
  <2>1. RadioChannels \subseteq Nat
    BY Zenon DEF Radio!BrcmWifiAssumption
  <2>2. c.Channel \in ChannelType
    BY DEF RadioConfigType
  <2>3. ChannelType \subseteq Nat
    BY <2>1 DEF ChannelType, Radio!NoChannel
  <2>4. QED
    BY <2>1, <2>2, <2>3
<1>2. DOMAIN c = Names12
  BY ConfigNames
<1>3. CASE p = "Channel"
  <2>1. v \in RadioChannels
    BY <1>3 DEF Takes
  <2>2. Radio!Set(c, p, v) = [c EXCEPT !.OperatingFrequencyBand = Radio!BandOf(v), !.Channel = v,
                                       !.AutoChannelEnable = FALSE]
    BY <1>3 DEF Radio!Set, Radio!SetChannel
  <2>3. Radio!BandOf(v) \in BandType
    BY DEF Radio!BandOf, BandType
  <2> DEFINE d == [c EXCEPT !.OperatingFrequencyBand = Radio!BandOf(v), !.Channel = v,
                            !.AutoChannelEnable = FALSE]
  <2>4. d \in RadioConfigType /\ d.Channel = v /\ d.OperatingFrequencyBand = Radio!BandOf(v)
    BY <2>1, <2>3 DEF RadioConfigType, ChannelType
  <2> HIDE DEF d
  <2>5. Radio!Set(c, p, v) = d
    BY <2>2 DEF d
  <2>6. QED
    BY <2>4, <2>5 DEF InBand
<1>4. CASE p = "OperatingFrequencyBand"
  <2> DEFINE auto == \/ c.AutoChannelEnable
                     \/ v = "2.4GHz" /\ c.Channel >= 20
                     \/ v = "5GHz" /\ c.Channel < 20
             d == [c EXCEPT !.OperatingFrequencyBand = v, !.AutoChannelEnable = auto]
  <2>1. v \in BandType
    BY <1>4 DEF Takes, BandType
  <2>2. Radio!Set(c, p, v) = d
    BY <1>4 DEF Radio!Set, Radio!SetOperatingFrequencyBand, RadioConfigType
  <2>3. auto \in BOOLEAN
    BY DEF RadioConfigType
  <2>4. d \in RadioConfigType /\ d.OperatingFrequencyBand = v /\ d.Channel = c.Channel
        /\ d.AutoChannelEnable = auto
    <3> HIDE DEF auto
    <3>1. QED
      BY <2>1, <2>3 DEF RadioConfigType
  <2>5. auto \/ Radio!BandOf(c.Channel) = v
    BY <1>1, <2>1 DEF Radio!BandOf, BandType
  <2> HIDE DEF auto, d
  <2>6. QED
    BY <2>2, <2>4, <2>5 DEF InBand
<1>5. CASE p \in Names12 \ {"Channel", "OperatingFrequencyBand"}
  <2> DEFINE d == [c EXCEPT ![p] = v]
  <2>1. Radio!Set(c, p, v) = d
    BY <1>2, <1>5 DEF Radio!Set, Radio!AsIs
  <2>2. d \in RadioConfigType
    BY <1>5 DEF Takes, RadioConfigType, ModeType, Names12
  <2>3. InBand(c) /\ (p = "AutoChannelEnable" => v = TRUE) => InBand(d)
    BY <1>2, <1>5 DEF InBand, Names12
  <2>4. QED
    BY <2>1, <2>2, <2>3
<1>6. CASE p \notin Names12
  <2>1. Radio!Set(c, p, v) = c
    BY <1>2, <1>6 DEF Radio!Set, Names12
  <2>2. QED
    BY <2>1
<1>7. QED
  BY <1>3, <1>4, <1>5, <1>6 DEF Names12

\* After an RPC, the settings are typed, and the channel is in the band unless the ACS
\* turned the choice of a fitting one off.
LEMMA AssignedTyped ==
  ASSUME NEW c \in RadioConfigType, NEW rpc \in RadioRpcs, Radio!BrcmWifiAssumption
  PROVE  /\ Radio!Assigned(c, rpc) \in RadioConfigType
         /\ InBand(c) /\ (\A n \in Radio!Assigns(rpc, "AutoChannelEnable") : rpc[n][2])
              => InBand(Radio!Assigned(c, rpc))
<1> DEFINE N == Len(rpc)
           mine == InBand(c) /\ (\A n \in Radio!Assigns(rpc, "AutoChannelEnable") : rpc[n][2])
           Good == {x \in RadioConfigType : mine => InBand(x)}
           A == [n \in 0..N |-> Good]
           step == [n \in 1..N |-> [x \in Good |-> Radio!Set(x, rpc[n][1], rpc[n][2])]]
<1>1. N \in Nat /\ DOMAIN rpc = 1..N
  BY Zenon DEF Radio!BrcmWifiAssumption
<1>2. \A n \in 1..N : Takes(rpc[n][1], rpc[n][2])
  <2>1. ASSUME NEW n \in DOMAIN rpc PROVE Takes(rpc[n][1], rpc[n][2])
    BY Zenon DEF Radio!BrcmWifiAssumption, Takes
  <2>2. QED
    BY <1>1, <2>1
<1>3. c \in Good
  OBVIOUS
<1>4. ASSUME NEW n \in 1..N, NEW x \in Good PROVE Radio!Set(x, rpc[n][1], rpc[n][2]) \in Good
  <2>1. Takes(rpc[n][1], rpc[n][2])
    BY <1>2
  <2>2. mine /\ rpc[n][1] = "AutoChannelEnable" => rpc[n][2] = TRUE
    <3>1. rpc[n][1] = "AutoChannelEnable" => n \in Radio!Assigns(rpc, "AutoChannelEnable")
      BY <1>1 DEF Radio!Assigns
    <3>2. rpc[n][1] = "AutoChannelEnable" => rpc[n][2] \in BOOLEAN
      BY <2>1 DEF Takes
    <3>3. QED
      BY <3>1, <3>2
  <2>3. x \in RadioConfigType /\ (mine => InBand(x))
    OBVIOUS
  <2> HIDE DEF mine
  <2>4. Radio!Set(x, rpc[n][1], rpc[n][2]) \in RadioConfigType
    BY <2>1, <2>3, SetTyped
  <2>5. mine => InBand(Radio!Set(x, rpc[n][1], rpc[n][2]))
    BY <2>1, <2>2, <2>3, SetTyped
  <2>6. QED
    BY <2>4, <2>5
<1> HIDE DEF mine
<1>5. c \in A[0]
  BY <1>1, <1>3
<1>6. \A n \in 1..N : \A x \in A[n - 1] : step[n][x] \in A[n]
  BY <1>4
<1> HIDE DEF A, step, N
<1>7. PICK f : Iterates(N, c, step, f) /\ \A n \in 0..N : f[n] \in A[n]
  BY <1>1, <1>5, <1>6, Recursion
<1> DEFINE results[n \in 0..N] ==
             IF n = 0 THEN c ELSE Radio!Set(results[n - 1], rpc[n][1], rpc[n][2])
<1>8. f = [n \in 0..N |-> IF n = 0 THEN c ELSE Radio!Set(f[n - 1], rpc[n][1], rpc[n][2])]
  <2>1. f = [n \in 0..N |-> IF n = 0 THEN c ELSE step[n][f[n - 1]]]
    BY <1>7 DEF Iterates
  <2>2. ASSUME NEW n \in 0..N, n # 0
        PROVE  step[n][f[n - 1]] = Radio!Set(f[n - 1], rpc[n][1], rpc[n][2])
    <3>1. n \in 1..N /\ n - 1 \in 0..N
      BY <1>1, <2>2
    <3>2. f[n - 1] \in Good
      BY <1>7, <3>1 DEF A
    <3>3. QED
      BY <3>1, <3>2 DEF step
  <2>3. QED
    BY <2>1, <2>2
<1>9. results = [n \in 0..N |-> IF n = 0 THEN c ELSE Radio!Set(results[n - 1], rpc[n][1],
       rpc[n][2])]
  <2> DEFINE P(g) == g = [n \in 0..N |-> IF n = 0 THEN c ELSE Radio!Set(g[n - 1], rpc[n][1],
              rpc[n][2])]
  <2>1. results = CHOOSE g : P(g)
    OBVIOUS
  <2>2. P(f)
    BY <1>8
  <2> HIDE DEF P, results
  <2>3. P(results)
    BY <2>1, <2>2
  <2>4. QED
    BY <2>3 DEF P
<1>10. Radio!Assigned(c, rpc) = results[N]
  BY DEF Radio!Assigned, N
<1> HIDE DEF results
<1>11. results[0] = c /\ \A n \in 1..N : results[n] = Radio!Set(results[n - 1], rpc[n][1],
        rpc[n][2])
  <2>1. results[0] = c
    BY <1>1, <1>9
  <2>2. ASSUME NEW n \in 1..N PROVE results[n] = Radio!Set(results[n - 1], rpc[n][1], rpc[n][2])
    <3>1. n \in 0..N /\ n # 0
      BY <1>1
    <3>2. QED
      BY <1>9, <3>1
  <2>3. QED
    BY <2>1, <2>2
<1>12. results[0] \in A[0]
  BY <1>5, <1>11
<1>13. \A n \in 1..N : results[n - 1] \in A[n - 1] => results[n] \in A[n]
  <2>1. ASSUME NEW n \in 1..N, results[n - 1] \in A[n - 1] PROVE results[n] \in A[n]
    <3>1. n - 1 \in 0..N /\ n \in 0..N
      BY <1>1
    <3>2. results[n - 1] \in Good
      BY <2>1, <3>1 DEF A
    <3>3. results[n] \in Good
      BY <1>4, <1>11, <3>2
    <3>4. QED
      BY <3>1, <3>3 DEF A
  <2>2. QED
    BY <2>1
<1>14. results[N] \in A[N]
  BY <1>1, <1>12, <1>13, Along
<1>15. results[N] \in Good
  BY <1>1, <1>14 DEF A
<1>16. QED
  BY <1>10, <1>15 DEF mine

-----------------------------------------------------------------------------
(* The invariant *)

\* full is what the last commit set out to do, for the settings of the ACS as they are.
RadioWanted(full) ==
  /\ full \in Seq(Cmd) /\ Len(full) >= 1 /\ "radio" \in DOMAIN full[1]
  /\ LastSets(full, "radio", RadioOn(config))
  /\ RadioOn(config) =>
            /\ LastSets(full, "band", config.OperatingFrequencyBand) /\ LastSets(full, "ap", TRUE)
            /\ \E chan \in ChannelType :
                 /\ LastSets(full, "channel", chan)
                 /\ ~config.AutoChannelEnable => chan = config.Channel
                 /\ chan # Radio!NoChannel /\ ~manual
                     => Radio!BandOf(chan) = config.OperatingFrequencyBand
            /\ \A s \in Secured : /\ LastSets(full, s, Radio!Encryption(config)[s])
                                  /\ NamedAfter(full, s, Radio!Encryption(config)[s])
            /\ config.SSID # Radio!None
                => LastSets(full, "up", TRUE) /\ LastSets(full, "ssid", config.SSID)
            /\ psk.passphrase \notin {Radio!None, ""}
                => LastSets(full, "pmk", <<psk.passphrase, config.SSID>>)
  /\ ~RadioOn(config) => Unnamed(full)

\* The first k commands have been run.
RunSoFar(full, k) ==
  /\ \A i \in 1..k : \A s \in DOMAIN full[i] :
       (\A j \in 1..k : j > i => s \notin DOMAIN full[j]) => wl[s] = full[i][s]
  /\ k >= 1 => marker = wl.radio
  /\ todo \in Seq(Cmd) /\ Len(todo) = Len(full) - k
  /\ \A j \in 1..Len(todo) : todo[j] = full[k + j]

\* The commands still to be run are the rest of such a list.
Underway == \E full, k : /\ RadioWanted(full) /\ k \in 0..Len(full) /\ RunSoFar(full, k)

PskType == [passphrase : PhraseType, key : KeyType]

RadioTyped ==
  /\ config \in RadioConfigType
  /\ psk \in PskType /\ (psk.key = Radio!NoKey \/ psk.key[1] = psk.passphrase)
  /\ wepkey \in WepType
  /\ DOMAIN wl = WlNames /\ wl.ssid \in Ssids \cup {""} /\ wl.channel \in ChannelType
  /\ marker \in BOOLEAN /\ todo \in Seq(Cmd) /\ fallback \subseteq {"on", "off"}
  /\ done \in BOOLEAN /\ manual \in BOOLEAN

\* A commit is under way, or it is done, or there is nothing to do after a failure.
RadioInv ==
  /\ RadioTyped
  /\ InBand(config) \/ manual
  /\ done => todo = << >>
  /\ todo # << >> \/ done => Underway

LEMMA WantedSeq ==
  ASSUME NEW full, RadioWanted(full)
  PROVE  /\ full \in Seq(Cmd) /\ Len(full) \in Nat /\ Len(full) >= 1
         /\ "radio" \in DOMAIN full[1]
<1>1. full \in Seq(Cmd) /\ Len(full) >= 1 /\ "radio" \in DOMAIN full[1]
  BY Zenon DEF RadioWanted
<1>2. QED
  BY <1>1

LEMMA SoFarSeq ==
  ASSUME NEW full, RadioWanted(full), NEW k \in 0..Len(full), RunSoFar(full, k)
  PROVE  /\ todo \in Seq(Cmd) /\ Len(todo) \in Nat /\ Len(todo) = Len(full) - k
         /\ \A j \in 1..Len(todo) : todo[j] = full[k + j]
         /\ full \in Seq(Cmd) /\ Len(full) \in Nat /\ k \in Nat
<1>1. todo \in Seq(Cmd) /\ Len(todo) = Len(full) - k
       /\ \A j \in 1..Len(todo) : todo[j] = full[k + j]
  BY Zenon DEF RunSoFar
<1>2. QED
  BY <1>1, WantedSeq

LEMMA DefaultTyped == Radio!DefaultSettings \in RadioConfigType /\ InBand(Radio!DefaultSettings)
<1>1. Radio!NoChannel \in ChannelType /\ "2.4GHz" \in BandType
  BY DEF ChannelType, BandType
<1>2. Radio!DefaultSettings \in RadioConfigType
  <2>1. "WPAand11i" \in ModeType /\ "WEPEncryption" \in ModeType /\ "None" \in ModeType
    BY DEF ModeType
  <2>2. Radio!None \in (Ssids \ {Radio!None, ""}) \cup {Radio!None}
         /\ Radio!None \in {Radio!None, "on", "off"}
        /\ Radio!None \in Domains \cup {Radio!None}
    OBVIOUS
  <2> HIDE DEF Radio!None, Radio!NoChannel
  <2>3. QED
    BY <1>1, <2>1, <2>2 DEF Radio!DefaultSettings, RadioConfigType
<1>3. Radio!DefaultSettings.AutoChannelEnable = TRUE
  BY DEF Radio!DefaultSettings
<1>4. QED
  BY <1>2, <1>3 DEF InBand

LEMMA NewPsk ==
  ASSUME NEW v \in PhraseType
  PROVE  LET k == [passphrase |-> v, key |-> Radio!NoKey] IN k \in PskType /\ k.key = Radio!NoKey
BY DEF PskType, KeyType, Radio!NoKey, PhraseType

LEMMA RadioInit == Radio!Init /\ Radio!BrcmWifiAssumption => RadioInv
<1> SUFFICES ASSUME Radio!Init, Radio!BrcmWifiAssumption PROVE RadioInv
  OBVIOUS
<1>1. config \in RadioConfigType /\ InBand(config)
  BY DefaultTyped DEF Radio!Init
<1>2. psk \in PskType /\ psk.key = Radio!NoKey
  BY NewPsk DEF Radio!Init, PhraseType
<1>3. wepkey \in WepType
  BY DEF Radio!Init, WepType
<1>4. DOMAIN wl = WlNames /\ wl.ssid = "" /\ wl.channel = Radio!NoChannel
  BY DEF Radio!Init, WlNames
<1>5. marker \in BOOLEAN /\ todo = << >> /\ fallback = {} /\ done = FALSE /\ manual = FALSE
  BY DEF Radio!Init
<1>6. todo \in Seq(Cmd) /\ wl.channel \in ChannelType
  BY <1>4, <1>5, EmptyPiece DEF ChannelType
<1>7. RadioTyped
  BY <1>1, <1>2, <1>3, <1>4, <1>5, <1>6 DEF RadioTyped
<1>8. QED
  BY <1>1, <1>5, <1>7 DEF RadioInv

\* The key is computed again when there is none for the passphrase.
LEMMA GetKeyTyped ==
  ASSUME NEW k \in PskType, NEW salt \in Ssids \cup {Radio!None},
         k.key = Radio!NoKey \/ k.key[1] = k.passphrase
  PROVE  /\ Radio!GetKey(k, salt) \in KeyType
         /\ Radio!GetKey(k, salt) = Radio!NoKey \/ Radio!GetKey(k, salt)[1] = k.passphrase
         /\ k.passphrase # Radio!None => Radio!GetKey(k, salt) = <<k.passphrase, salt>>
<1>1. k.key \in KeyType /\ k.passphrase \in PhraseType
  BY DEF PskType
<1>2. <<k.passphrase, salt>> \in KeyType
  BY <1>1 DEF KeyType
<1>3. k.key = <<k.key[1], k.key[2]>>
  BY <1>1 DEF KeyType
<1>4. CASE k.passphrase = Radio!None
  BY <1>1, <1>4 DEF Radio!GetKey
<1>5. CASE k.passphrase # Radio!None
  <2>1. CASE k.key = Radio!NoKey \/ k.key[2] # salt
    BY <1>2, <1>5, <2>1 DEF Radio!GetKey
  <2>2. CASE ~(k.key = Radio!NoKey \/ k.key[2] # salt)
    BY <1>1, <1>3, <1>5, <2>2 DEF Radio!GetKey
  <2>3. QED
    BY <2>1, <2>2
<1>6. QED
  BY <1>4, <1>5

\* What a commit takes from the new configuration is what the ACS has asked for.
LEMMA CommitUnderway ==
  ASSUME RadioTyped, fallback \subseteq {"on", "off"}, config' \in RadioConfigType,
         wepkey' \in WepType,
         psk' \in PskType, NEW key \in KeyType, NEW chan \in ChannelType,
         RadioOn(config)' /\ psk'.passphrase # Radio!None
          => key = <<psk'.passphrase, config'.SSID>>,
         ~config'.AutoChannelEnable => chan = config'.Channel,
         chan # Radio!NoChannel /\ ~manual'
          => Radio!BandOf(chan) = config'.OperatingFrequencyBand,
         todo' = Radio!Commands(config', key, wepkey', chan)
  PROVE  /\ todo' \in Seq(Cmd) /\ todo' # << >>
         /\ Underway'
<1>9. PICK full : full = Radio!Commands(config', key, wepkey', chan)
  OBVIOUS
<1>1. Does(config', key, chan, full)
  BY <1>9, CommandsSet
<1>2. full \in Seq(Cmd) /\ Len(full) >= 1 /\ Len(full) \in Nat
  BY <1>1 DEF Does
<1>3. todo' = full
  BY <1>9
<1>4. RadioWanted(full)'
  <2>1. (RadioOn(config))' = RadioOn(config')
    BY DEF RadioOn
  <2>2. RadioOn(config') /\ psk'.passphrase \notin {Radio!None, ""}
         => key # Radio!NoKey /\ key = <<psk'.passphrase, config'.SSID>>
    <3>1. psk'.passphrase # Radio!None => <<psk'.passphrase, config'.SSID>> # Radio!NoKey
      BY DEF Radio!NoKey
    <3>2. QED
      BY <2>1, <3>1
  <2>3. RadioOn(config') => \E c \in ChannelType :
                 /\ LastSets(full, "channel", c)
                 /\ ~config'.AutoChannelEnable => c = config'.Channel
                 /\ c # Radio!NoChannel /\ ~manual'
                     => Radio!BandOf(c) = config'.OperatingFrequencyBand
    BY <1>1 DEF Does
  <2>4. QED
    BY <1>1, <2>1, <2>2, <2>3 DEF Does, RadioWanted
<1>5. RunSoFar(full, 0)'
  BY <1>2, <1>3 DEF RunSoFar
<1>6. QED
  BY <1>2, <1>3, <1>4, <1>5 DEF Underway

\* An RPC assigns and commits, or fails with nothing changed but a new passphrase.
LEMMA RpcKeepsInv ==
  ASSUME RadioInv, Radio!BrcmWifiAssumption, NEW rpc \in RadioRpcs, NEW fault \in BOOLEAN,
         Radio!SetParameterValues(rpc, fault)
  PROVE  RadioInv'
<1> DEFINE keys == Radio!Assigns(rpc, "KeyPassphrase")
           last == Radio!LastValue(rpc, "KeyPassphrase")
           new == Radio!Assigned(config, rpc)
           set == IF keys = {} THEN psk ELSE Radio!SetKeyPassphrase(last)
           key == Radio!GetKey(set, new.SSID)
<1>1. RadioTyped /\ todo = << >>
  BY DEF RadioInv, Radio!SetParameterValues
<1>2. UNCHANGED <<wl, marker, fallback>>
  BY DEF Radio!SetParameterValues
<1>3. \A p : Radio!Assigns(rpc, p) # {}
       => \E n \in Radio!Assigns(rpc, p) : Radio!LastValue(rpc, p) = rpc[n][2]
  <2> SUFFICES ASSUME NEW p, Radio!Assigns(rpc, p) # {}
               PROVE  \E n \in Radio!Assigns(rpc, p) : Radio!LastValue(rpc, p) = rpc[n][2]
    OBVIOUS
  <2>1. Len(rpc) \in Nat /\ DOMAIN rpc = 1..Len(rpc)
    BY Zenon DEF Radio!BrcmWifiAssumption
  <2>2. Radio!Assigns(rpc, p) \in SUBSET (0..Len(rpc))
    BY <2>1 DEF Radio!Assigns
  <2>3. \E n \in Radio!Assigns(rpc, p) : \A k \in Radio!Assigns(rpc, p) : k <= n
    BY <2>1, <2>2, Greatest
  <2>4. QED
    BY <2>3 DEF Radio!LastValue
<1>4. \A n \in DOMAIN rpc : Takes(rpc[n][1], rpc[n][2])
  BY Zenon DEF Radio!BrcmWifiAssumption, Takes
<1>5. keys # {} => last \in Phrases \cup {""}
  <2>1. ASSUME NEW n \in keys PROVE rpc[n][2] \in Phrases \cup {""}
    BY <1>4 DEF Radio!Assigns, Takes
  <2>2. QED
    BY <1>3, <2>1
<1>6. CASE fault
  <2>1. UNCHANGED <<config, wepkey, todo, done, manual>>
    BY <1>6 DEF Radio!SetParameterValues
  <2>2. psk' = Radio!SetKeyPassphrase("") \/ psk' = psk
    BY <1>6 DEF Radio!SetParameterValues
  <2>3. psk' \in PskType /\ (psk'.key = Radio!NoKey \/ psk'.key[1] = psk'.passphrase)
    <3>1. "" \in PhraseType
      BY DEF PhraseType
    <3>2. CASE psk' = Radio!SetKeyPassphrase("")
      BY <3>1, <3>2, NewPsk DEF Radio!SetKeyPassphrase
    <3>3. CASE psk' = psk
      BY <1>1, <3>3 DEF RadioTyped
    <3>4. QED
      BY <2>2, <3>2, <3>3
  <2>4. psk'.passphrase \notin {Radio!None, ""} => psk' = psk
    <3>1. \A v : Radio!SetKeyPassphrase(v).passphrase = v
      BY DEF Radio!SetKeyPassphrase
    <3>2. QED
      BY <2>2, <3>1
  <2>5. RadioTyped'
    BY <1>1, <1>2, <2>1, <2>3 DEF RadioTyped
  <2>6. ASSUME done PROVE Underway'
    <3>1. PICK full, k : RadioWanted(full) /\ k \in 0..Len(full) /\ RunSoFar(full, k)
      BY <2>6 DEF RadioInv, Underway
    <3>2. RadioWanted(full)'
      BY <2>1, <2>4, <3>1 DEF RadioWanted, RadioOn
    <3>3. RunSoFar(full, k)'
      BY <1>2, <2>1, <3>1 DEF RunSoFar
    <3>4. QED
      BY <3>1, <3>2, <3>3 DEF Underway
  <2>7. QED
    BY <1>1, <2>1, <2>5, <2>6 DEF RadioInv, InBand
<1>7. CASE ~fault
  <2>1. /\ config' = new
        /\ psk' = IF ~new.Enable \/ ~new.RadioEnabled THEN set ELSE [set EXCEPT !.key = key]
        /\ done' = FALSE
        /\ manual' = (manual \/ \E n \in Radio!Assigns(rpc, "AutoChannelEnable") : ~rpc[n][2])
    BY <1>7 DEF Radio!SetParameterValues
  <2>2. wepkey' \in WepType
    <3> DEFINE weps == Radio!Assigns(rpc, "WEPKey")
    <3>1. wepkey' = [i \in DOMAIN wepkey |-> IF weps
           = {} THEN wepkey[i] ELSE Radio!LastValue(rpc, "WEPKey")]
      BY <1>7 DEF Radio!SetParameterValues
    <3>2. ASSUME NEW n \in weps PROVE rpc[n][2] \in STRING
      BY <1>4 DEF Radio!Assigns, Takes
    <3>3. weps # {} => Radio!LastValue(rpc, "WEPKey") \in STRING
      BY <1>3, <3>2
    <3>4. wepkey \in WepType
      BY <1>1 DEF RadioTyped
    <3> HIDE DEF weps
    <3>5. QED
      BY <3>1, <3>3, <3>4 DEF WepType
  <2>3. new \in RadioConfigType
    BY <1>1, AssignedTyped DEF RadioTyped
  <2>4. new.SSID \in Ssids \cup {Radio!None}
    BY <2>3 DEF RadioConfigType
  <2>5. set \in PskType /\ (set.key = Radio!NoKey \/ set.key[1] = set.passphrase)
    <3>1. CASE keys = {}
      BY <1>1, <3>1 DEF RadioTyped
    <3>2. CASE keys # {}
      <4>1. last \in PhraseType
        BY <1>5, <3>2 DEF PhraseType
      <4>2. set = [passphrase |-> last, key |-> Radio!NoKey]
        BY <3>2 DEF Radio!SetKeyPassphrase
      <4> HIDE DEF last, set
      <4>3. QED
        BY <4>1, <4>2, NewPsk
    <3>3. QED
      BY <3>1, <3>2
  <2> HIDE DEF new, set
  <2>6. /\ key \in KeyType /\ (key = Radio!NoKey \/ key[1] = set.passphrase)
        /\ set.passphrase # Radio!None => key = <<set.passphrase, new.SSID>>
    BY <2>4, <2>5, GetKeyTyped
  <2> HIDE DEF key
  <2>7. /\ psk' \in PskType /\ (psk'.key = Radio!NoKey \/ psk'.key[1] = psk'.passphrase)
        /\ psk'.passphrase = set.passphrase
    <3> DEFINE p == [set EXCEPT !.key = key]
    <3>1. p \in PskType /\ p.key = key /\ p.passphrase = set.passphrase
      BY <2>5, <2>6 DEF PskType
    <3> HIDE DEF p
    <3>2. psk' = set \/ psk' = p
      BY <2>1 DEF p
    <3>3. QED
      BY <2>5, <2>6, <3>1, <3>2
  <2>8. (InBand(config) \/ manual)'
    <3>1. CASE manual'
      BY <3>1
    <3>2. CASE ~manual'
      <4>1. InBand(config)
        BY <2>1, <3>2 DEF RadioInv
      <4>2. \A n \in Radio!Assigns(rpc, "AutoChannelEnable") : rpc[n][2]
        BY <2>1, <3>2
      <4>3. config \in RadioConfigType
        BY <1>1 DEF RadioTyped
      <4>4. InBand(new)
        BY <4>1, <4>2, <4>3, AssignedTyped DEF new
      <4>5. QED
        BY <2>1, <4>4 DEF InBand
    <3>3. QED
      BY <3>1, <3>2
  <2>9. PICK chan \in IF new.AutoChannelEnable
                      THEN {c \in RadioChannels : Radio!BandOf(c) = new.OperatingFrequencyBand}
                      ELSE {new.Channel} :
               todo' = Radio!Commands(config', key, wepkey', chan)
    BY <1>7, <2>1 DEF Radio!SetParameterValues, Radio!CommitTransaction, new, set, key
  <2>10. /\ chan \in ChannelType
         /\ ~new.AutoChannelEnable => chan = new.Channel
         /\ chan # Radio!NoChannel /\ ~manual' => Radio!BandOf(chan) = new.OperatingFrequencyBand
    <3>1. new.Channel \in ChannelType
      BY <2>3 DEF RadioConfigType
    <3>2. InBand(new) \/ manual'
      BY <2>1, <2>8 DEF InBand
    <3>3. QED
      BY <2>9, <3>1, <3>2 DEF InBand, ChannelType
  <2>11. todo' \in Seq(Cmd) /\ todo' # << >> /\ Underway'
    <3>1. fallback \subseteq {"on", "off"}
      BY <1>1 DEF RadioTyped
    <3>2. psk'.passphrase # Radio!None => key = <<psk'.passphrase, config'.SSID>>
      BY <2>1, <2>6, <2>7
    <3>3. config' \in RadioConfigType
      BY <2>1, <2>3
    <3>4. /\ ~config'.AutoChannelEnable => chan = config'.Channel
          /\ chan # Radio!NoChannel /\ ~manual'
              => Radio!BandOf(chan) = config'.OperatingFrequencyBand
      BY <2>1, <2>10
    <3>5. psk' \in PskType /\ key \in KeyType /\ chan \in ChannelType
      BY <2>6, <2>7, <2>10
    <3>6. QED
      BY <1>1, <2>2, <2>9, <3>1, <3>2, <3>3, <3>4, <3>5, CommitUnderway
  <2>12. RadioTyped'
    <3>1. manual' \in BOOLEAN /\ done' \in BOOLEAN
      <4>1. manual \in BOOLEAN
        BY <1>1 DEF RadioTyped
      <4>2. QED
        BY <2>1, <4>1
    <3>2. config' \in RadioConfigType
      BY <2>1, <2>3
    <3>3. QED
      BY <1>1, <1>2, <2>2, <2>7, <2>11, <3>1, <3>2 DEF RadioTyped
  <2>13. QED
    BY <2>1, <2>8, <2>11, <2>12 DEF RadioInv
<1>8. QED
  BY <1>6, <1>7

LEMMA CommandTypes ==
  ASSUME NEW x \in Cmd
  PROVE  /\ DOMAIN x \subseteq WlNames
         /\ "ssid" \in DOMAIN x => x["ssid"] \in Ssids \cup {""}
         /\ "channel" \in DOMAIN x => x["channel"] \in ChannelType
         /\ "radio" \in DOMAIN x => x["radio"] \in BOOLEAN
         /\ "interference" \in DOMAIN x => x["interference"] \in {"on", "off"}
<1>1. "ssid" \in DOMAIN x => x["ssid"] \in Ssids \cup {""}
  <2>1. x \in [ssid : Ssids \cup {""}] \/ "ssid" \notin DOMAIN x
    <3>1. x \in [radio : BOOLEAN] => "ssid" \notin DOMAIN x
      OBVIOUS
    <3>2. x \in [up : BOOLEAN] => "ssid" \notin DOMAIN x
      OBVIOUS
    <3>3. x \in [ap : BOOLEAN] => "ssid" \notin DOMAIN x
      OBVIOUS
    <3>4. x \in [bss : BOOLEAN] => "ssid" \notin DOMAIN x
      OBVIOUS
    <3>5. x \in [band : BandType] => "ssid" \notin DOMAIN x
      OBVIOUS
    <3>6. x \in [ssid : Ssids \cup {""}] => x \in [ssid : Ssids \cup {""}]
      OBVIOUS
    <3>7. x \in [channel : ChannelType] => "ssid" \notin DOMAIN x
      OBVIOUS
    <3>8. x \in [country : Domains] => "ssid" \notin DOMAIN x
      OBVIOUS
    <3>9. x \in [interference : {"on", "off"}] => "ssid" \notin DOMAIN x
      OBVIOUS
    <3>10. x \in [wsec : SUBSET Bits] => "ssid" \notin DOMAIN x
      OBVIOUS
    <3>11. x \in [sup_wpa : BOOLEAN] => "ssid" \notin DOMAIN x
      OBVIOUS
    <3>12. x \in [wpa_auth : {0, 4, 128}] => "ssid" \notin DOMAIN x
      OBVIOUS
    <3>13. x \in [pmk : KeyType] => "ssid" \notin DOMAIN x
      OBVIOUS
    <3>14. x \in [wep : WepType] => "ssid" \notin DOMAIN x
      OBVIOUS
    <3>15. QED
      BY <3>1, <3>2, <3>3, <3>4, <3>5, <3>6, <3>7, <3>8, <3>9, <3>10, <3>11, <3>12, <3>13, <3>14
         DEF Cmd
  <2>2. QED
    BY <2>1
<1>2. "channel" \in DOMAIN x => x["channel"] \in ChannelType
  <2>1. x \in [channel : ChannelType] \/ "channel" \notin DOMAIN x
    <3>1. x \in [radio : BOOLEAN] => "channel" \notin DOMAIN x
      OBVIOUS
    <3>2. x \in [up : BOOLEAN] => "channel" \notin DOMAIN x
      OBVIOUS
    <3>3. x \in [ap : BOOLEAN] => "channel" \notin DOMAIN x
      OBVIOUS
    <3>4. x \in [bss : BOOLEAN] => "channel" \notin DOMAIN x
      OBVIOUS
    <3>5. x \in [band : BandType] => "channel" \notin DOMAIN x
      OBVIOUS
    <3>6. x \in [ssid : Ssids \cup {""}] => "channel" \notin DOMAIN x
      OBVIOUS
    <3>7. x \in [channel : ChannelType] => x \in [channel : ChannelType]
      OBVIOUS
    <3>8. x \in [country : Domains] => "channel" \notin DOMAIN x
      OBVIOUS
    <3>9. x \in [interference : {"on", "off"}] => "channel" \notin DOMAIN x
      OBVIOUS
    <3>10. x \in [wsec : SUBSET Bits] => "channel" \notin DOMAIN x
      OBVIOUS
    <3>11. x \in [sup_wpa : BOOLEAN] => "channel" \notin DOMAIN x
      OBVIOUS
    <3>12. x \in [wpa_auth : {0, 4, 128}] => "channel" \notin DOMAIN x
      OBVIOUS
    <3>13. x \in [pmk : KeyType] => "channel" \notin DOMAIN x
      OBVIOUS
    <3>14. x \in [wep : WepType] => "channel" \notin DOMAIN x
      OBVIOUS
    <3>15. QED
      BY <3>1, <3>2, <3>3, <3>4, <3>5, <3>6, <3>7, <3>8, <3>9, <3>10, <3>11, <3>12, <3>13, <3>14
         DEF Cmd
  <2>2. QED
    BY <2>1
<1>3. "radio" \in DOMAIN x => x["radio"] \in BOOLEAN
  <2>1. x \in [radio : BOOLEAN] \/ "radio" \notin DOMAIN x
    <3>1. x \in [radio : BOOLEAN] => x \in [radio : BOOLEAN]
      OBVIOUS
    <3>2. x \in [up : BOOLEAN] => "radio" \notin DOMAIN x
      OBVIOUS
    <3>3. x \in [ap : BOOLEAN] => "radio" \notin DOMAIN x
      OBVIOUS
    <3>4. x \in [bss : BOOLEAN] => "radio" \notin DOMAIN x
      OBVIOUS
    <3>5. x \in [band : BandType] => "radio" \notin DOMAIN x
      OBVIOUS
    <3>6. x \in [ssid : Ssids \cup {""}] => "radio" \notin DOMAIN x
      OBVIOUS
    <3>7. x \in [channel : ChannelType] => "radio" \notin DOMAIN x
      OBVIOUS
    <3>8. x \in [country : Domains] => "radio" \notin DOMAIN x
      OBVIOUS
    <3>9. x \in [interference : {"on", "off"}] => "radio" \notin DOMAIN x
      OBVIOUS
    <3>10. x \in [wsec : SUBSET Bits] => "radio" \notin DOMAIN x
      OBVIOUS
    <3>11. x \in [sup_wpa : BOOLEAN] => "radio" \notin DOMAIN x
      OBVIOUS
    <3>12. x \in [wpa_auth : {0, 4, 128}] => "radio" \notin DOMAIN x
      OBVIOUS
    <3>13. x \in [pmk : KeyType] => "radio" \notin DOMAIN x
      OBVIOUS
    <3>14. x \in [wep : WepType] => "radio" \notin DOMAIN x
      OBVIOUS
    <3>15. QED
      BY <3>1, <3>2, <3>3, <3>4, <3>5, <3>6, <3>7, <3>8, <3>9, <3>10, <3>11, <3>12, <3>13, <3>14
         DEF Cmd
  <2>2. QED
    BY <2>1
<1>4. "interference" \in DOMAIN x => x["interference"] \in {"on", "off"}
  <2>1. x \in [interference : {"on", "off"}] \/ "interference" \notin DOMAIN x
    <3>1. x \in [radio : BOOLEAN] => "interference" \notin DOMAIN x
      OBVIOUS
    <3>2. x \in [up : BOOLEAN] => "interference" \notin DOMAIN x
      OBVIOUS
    <3>3. x \in [ap : BOOLEAN] => "interference" \notin DOMAIN x
      OBVIOUS
    <3>4. x \in [bss : BOOLEAN] => "interference" \notin DOMAIN x
      OBVIOUS
    <3>5. x \in [band : BandType] => "interference" \notin DOMAIN x
      OBVIOUS
    <3>6. x \in [ssid : Ssids \cup {""}] => "interference" \notin DOMAIN x
      OBVIOUS
    <3>7. x \in [channel : ChannelType] => "interference" \notin DOMAIN x
      OBVIOUS
    <3>8. x \in [country : Domains] => "interference" \notin DOMAIN x
      OBVIOUS
    <3>9. x \in [interference : {"on", "off"}] => x \in [interference : {"on", "off"}]
      OBVIOUS
    <3>10. x \in [wsec : SUBSET Bits] => "interference" \notin DOMAIN x
      OBVIOUS
    <3>11. x \in [sup_wpa : BOOLEAN] => "interference" \notin DOMAIN x
      OBVIOUS
    <3>12. x \in [wpa_auth : {0, 4, 128}] => "interference" \notin DOMAIN x
      OBVIOUS
    <3>13. x \in [pmk : KeyType] => "interference" \notin DOMAIN x
      OBVIOUS
    <3>14. x \in [wep : WepType] => "interference" \notin DOMAIN x
      OBVIOUS
    <3>15. QED
      BY <3>1, <3>2, <3>3, <3>4, <3>5, <3>6, <3>7, <3>8, <3>9, <3>10, <3>11, <3>12, <3>13, <3>14
         DEF Cmd
  <2>2. QED
    BY <2>1
<1>5. QED
  BY <1>1, <1>2, <1>3, <1>4, CmdNames

\* One command more has been run.
LEMMA RunKeepsInv == RadioInv /\ Radio!RunCommand => RadioInv'
<1> SUFFICES ASSUME RadioInv, Radio!RunCommand PROVE RadioInv'
  OBVIOUS
<1> DEFINE x == Head(todo)
<1>1. /\ RadioTyped /\ todo # << >> /\ UNCHANGED <<config, psk, wepkey, manual>>
      /\ todo' = Tail(todo) /\ done' = (todo' = << >>)
      /\ wl' = [s \in DOMAIN wl |-> IF s \in DOMAIN x THEN x[s] ELSE wl[s]]
  BY DEF RadioInv, Radio!RunCommand
<1>2. PICK full, k : RadioWanted(full) /\ k \in 0..Len(full) /\ RunSoFar(full, k)
  BY <1>1 DEF RadioInv, Underway
<1>3. /\ todo \in Seq(Cmd) /\ Len(todo) \in Nat /\ Len(todo) = Len(full) - k /\ full \in Seq(Cmd)
      /\ \A j \in 1..Len(todo) : todo[j] = full[k + j]
      /\ Len(full) \in Nat /\ k \in Nat
  BY <1>2, SoFarSeq
<1>4. /\ x = todo[1] /\ 1 \in 1..Len(todo) /\ k + 1 \in 1..Len(full) /\ x = full[k + 1]
          /\ x \in Cmd
      /\ todo' \in Seq(Cmd) /\ Len(todo') = Len(full) - (k + 1)
      /\ \A j \in 1..Len(todo') : todo'[j] = full[(k + 1) + j]
  <2>1. /\ x = todo[1] /\ Len(todo) >= 1 /\ x \in Cmd
        /\ todo' \in Seq(Cmd) /\ Len(todo') = Len(todo) - 1
        /\ \A j \in 1..Len(todo') : todo'[j] = todo[j + 1]
    BY <1>1, <1>3
  <2>2. x = full[k + 1] /\ k + 1 \in 1..Len(full)
    BY <1>3, <2>1
  <2>3. ASSUME NEW j \in 1..Len(todo') PROVE todo'[j] = full[(k + 1) + j]
    <3>1. j + 1 \in 1..Len(todo) /\ k + (j + 1) = (k + 1) + j
      BY <1>3, <2>1
    <3>2. QED
      BY <1>3, <2>1, <3>1
  <2>4. QED
    BY <1>3, <2>1, <2>2, <2>3
<1> HIDE DEF x
<1>5. DOMAIN wl' = WlNames /\ DOMAIN wl = WlNames /\ DOMAIN x \subseteq WlNames
  BY <1>1, <1>4, CommandTypes DEF RadioTyped
<1>6. \A s \in WlNames : wl'[s] = IF s \in DOMAIN x THEN x[s] ELSE wl[s]
  BY <1>1, <1>5
<1>7. marker' = wl'.radio \/ (k = 0 /\ FALSE)
  <2>1. marker' = IF "radio" \in DOMAIN x THEN x["radio"] ELSE marker
    BY DEF Radio!RunCommand, x
  <2>2. CASE "radio" \in DOMAIN x
    BY <1>6, <2>1, <2>2 DEF WlNames
  <2>3. CASE "radio" \notin DOMAIN x
    <3>1. k # 0
      BY <1>2, <1>4, <2>3, WantedSeq
    <3>2. marker = wl.radio
      BY <1>2, <1>3, <3>1 DEF RunSoFar
    <3>3. QED
      BY <1>6, <2>1, <2>3, <3>2 DEF WlNames
  <2>4. QED
    BY <2>2, <2>3
<1>8. \A i \in 1..(k + 1) : \A s \in DOMAIN full[i] :
        (\A j \in 1..(k + 1) : j > i => s \notin DOMAIN full[j]) => wl'[s] = full[i][s]
  <2> SUFFICES ASSUME NEW i \in 1..(k + 1), NEW s \in DOMAIN full[i],
                      \A j \in 1..(k + 1) : j > i => s \notin DOMAIN full[j]
               PROVE  wl'[s] = full[i][s]
    OBVIOUS
  <2>1. i \in 1..Len(full) /\ full[i] \in Cmd
    BY <1>3, <1>4
  <2>2. s \in WlNames
    BY <2>1, CommandTypes
  <2>3. CASE i = k + 1
    BY <1>4, <1>6, <2>2, <2>3
  <2>4. CASE i # k + 1
    <3>1. i \in 1..k /\ k + 1 > i
      BY <1>3, <2>4
    <3>2. s \notin DOMAIN x
      BY <1>3, <1>4, <3>1
    <3>3. wl[s] = full[i][s]
      BY <1>2, <1>3, <3>1 DEF RunSoFar
    <3>4. QED
      BY <1>6, <2>2, <3>2, <3>3
  <2>5. QED
    BY <2>3, <2>4
<1>9. RadioWanted(full)'
  BY <1>1, <1>2 DEF RadioWanted, RadioOn
<1>10. RunSoFar(full, k + 1)'
  BY <1>3, <1>4, <1>7, <1>8 DEF RunSoFar
<1>11. Underway'
  <2>1. k + 1 \in 0..Len(full)
    BY <1>3, <1>4
  <2>2. QED
    BY <1>9, <1>10, <2>1 DEF Underway
<1>12. RadioTyped'
  <2>1. wl'.ssid \in Ssids \cup {""} /\ wl'.channel \in ChannelType
    BY <1>1, <1>4, <1>6, CommandTypes DEF RadioTyped, WlNames
  <2>2. marker' \in BOOLEAN
    BY <1>1, <1>4, CommandTypes DEF RadioTyped, Radio!RunCommand, x
  <2>3. fallback' \subseteq {"on", "off"}
    <3>1. fallback' = fallback \/ ("interference" \in DOMAIN x
           /\ fallback' = fallback \cup {x["interference"]})
      BY DEF Radio!RunCommand, x
    <3>2. QED
      BY <1>1, <1>4, <3>1, CommandTypes DEF RadioTyped
  <2>4. done' \in BOOLEAN
    BY <1>1
  <2>5. QED
    BY <1>1, <1>4, <1>5, <2>1, <2>2, <2>3, <2>4 DEF RadioTyped
<1>13. (InBand(config) \/ manual)'
  BY <1>1 DEF RadioInv, InBand
<1>14. QED
  BY <1>1, <1>11, <1>12, <1>13 DEF RadioInv

LEMMA FailKeepsInv == RadioInv /\ Radio!CommandFails => RadioInv'
<1> SUFFICES ASSUME RadioInv, Radio!CommandFails PROVE RadioInv'
  OBVIOUS
<1>1. /\ RadioTyped /\ todo # << >> /\ todo' = << >>
      /\ UNCHANGED <<config, psk, wepkey, wl, marker, fallback, done, manual>>
  BY DEF RadioInv, Radio!CommandFails
<1>2. ~done
  BY <1>1 DEF RadioInv
<1>3. RadioTyped'
  BY <1>1, EmptyPiece DEF RadioTyped
<1>4. QED
  BY <1>1, <1>2, <1>3 DEF RadioInv, InBand

LEMMA SessionKeepsInv == RadioInv /\ Radio!EndSession => RadioInv'
<1> SUFFICES ASSUME RadioInv, Radio!EndSession PROVE RadioInv'
  OBVIOUS
<1>1. fallback' = {} /\ UNCHANGED <<config, psk, wepkey, wl, marker, todo, done, manual>>
  BY DEF Radio!EndSession
<1>2. RadioTyped'
  BY <1>1 DEF RadioInv, RadioTyped
<1>3. ASSUME Underway PROVE Underway'
  <2>1. PICK full, k : RadioWanted(full) /\ k \in 0..Len(full) /\ RunSoFar(full, k)
    BY <1>3 DEF Underway
  <2>2. RadioWanted(full)' /\ RunSoFar(full, k)'
    BY <1>1, <2>1 DEF RadioWanted, RadioOn, RunSoFar
  <2>3. QED
    BY <2>1, <2>2 DEF Underway
<1>4. QED
  BY <1>1, <1>2, <1>3 DEF RadioInv, InBand

LEMMA RestartKeepsInv == RadioInv /\ Radio!Restart => RadioInv'
<1> SUFFICES ASSUME RadioInv, Radio!Restart PROVE RadioInv'
  OBVIOUS
<1>1. /\ config' = Radio!DefaultSettings
          /\ psk' = [passphrase |-> Radio!None, key |-> Radio!NoKey]
      /\ wepkey' = [i \in 1..WepKeys |-> ""] /\ todo' = << >> /\ fallback' = {}
      /\ done' = FALSE /\ manual' = FALSE /\ UNCHANGED <<wl, marker>>
  BY DEF Radio!Restart
<1>2. psk' \in PskType /\ psk'.key = Radio!NoKey
  BY <1>1, NewPsk DEF PhraseType
<1>3. wepkey' \in WepType
  BY <1>1 DEF WepType
<1>4. config' \in RadioConfigType /\ InBand(config')
  BY <1>1, DefaultTyped
<1>5. RadioTyped'
  BY <1>1, <1>2, <1>3, <1>4, EmptyPiece DEF RadioInv, RadioTyped
<1>6. QED
  BY <1>1, <1>4, <1>5 DEF RadioInv, InBand

LEMMA StutterKeepsInv == RadioInv /\ UNCHANGED Radio!vars => RadioInv'
<1> SUFFICES ASSUME RadioInv, UNCHANGED Radio!vars PROVE RadioInv'
  OBVIOUS
<1>1. UNCHANGED <<config, psk, wepkey, wl, marker, todo, fallback, done, manual>>
  BY DEF Radio!vars
<1>2. RadioTyped'
  BY <1>1 DEF RadioInv, RadioTyped
<1>3. ASSUME Underway PROVE Underway'
  <2>1. PICK full, k : RadioWanted(full) /\ k \in 0..Len(full) /\ RunSoFar(full, k)
    BY <1>3 DEF Underway
  <2>2. RadioWanted(full)' /\ RunSoFar(full, k)'
    BY <1>1, <2>1 DEF RadioWanted, RadioOn, RunSoFar
  <2>3. QED
    BY <2>1, <2>2 DEF Underway
<1>4. QED
  BY <1>1, <1>2, <1>3 DEF RadioInv, InBand

LEMMA RadioStep == RadioInv /\ Radio!BrcmWifiAssumption /\ [Radio!Next]_Radio!vars => RadioInv'
<1> SUFFICES ASSUME RadioInv, Radio!BrcmWifiAssumption, [Radio!Next]_Radio!vars PROVE RadioInv'
  OBVIOUS
<1>1. ASSUME NEW rpc \in RadioRpcs, NEW fault \in BOOLEAN, Radio!SetParameterValues(rpc, fault)
      PROVE  RadioInv'
  BY <1>1, RpcKeepsInv
<1>2. QED
  BY <1>1, RunKeepsInv, FailKeepsInv, SessionKeepsInv, RestartKeepsInv, StutterKeepsInv
     DEF Radio!Next

\* When every command has been run, each setting is what its last command made it.
LEMMA LastIsKept ==
  ASSUME NEW full \in Seq(Cmd), RunSoFar(full, Len(full)), NEW s, NEW v, LastSets(full, s, v)
  PROVE  wl[s] = v
BY DEF RunSoFar, LastSets

\* done means that the whole list was run.
LEMMA RadioIsConfigured == RadioInv => Radio!RadioConfigured
<1> SUFFICES ASSUME RadioInv, done PROVE Radio!RadioConfigured
  BY DEF Radio!RadioConfigured
<1>1. PICK full, k : RadioWanted(full) /\ k \in 0..Len(full) /\ RunSoFar(full, k)
  BY DEF RadioInv, Underway
<1>2. full \in Seq(Cmd) /\ Len(full) \in Nat /\ Len(full) >= 1
  BY <1>1, WantedSeq
<1>3. k = Len(full)
  <2>1. Len(todo) = 0
    BY DEF RadioInv
  <2>2. QED
    BY <1>1, <1>2, <2>1 DEF RunSoFar
<1>4. RunSoFar(full, Len(full))
  BY <1>1, <1>3
<1>5. marker = wl.radio
  BY <1>2, <1>4 DEF RunSoFar
<1>6. wl["radio"] = RadioOn(config)
  BY <1>1, <1>2, <1>4, LastIsKept DEF RadioWanted
<1>7. ASSUME RadioOn(config)
      PROVE  /\ ~config.AutoChannelEnable => wl.channel = config.Channel
             /\ wl.channel # Radio!NoChannel /\ ~manual => Radio!BandOf(wl.channel) = wl.band
             /\ wl.ap /\ Radio!Protection = Radio!Encryption(config)
             /\ config.SSID # Radio!None => wl.up /\ wl.ssid = config.SSID
             /\ psk.passphrase \notin {Radio!None, ""} => wl.pmk = <<psk.passphrase, config.SSID>>
  <2>1. wl["band"] = config.OperatingFrequencyBand /\ wl["ap"] = TRUE
    BY <1>1, <1>2, <1>4, <1>7, LastIsKept DEF RadioWanted
  <2>2. PICK chan \in ChannelType :
            /\ LastSets(full, "channel", chan)
            /\ ~config.AutoChannelEnable => chan = config.Channel
            /\ chan # Radio!NoChannel /\ ~manual
                => Radio!BandOf(chan) = config.OperatingFrequencyBand
    BY <1>1, <1>7 DEF RadioWanted
  <2>3. wl["channel"] = chan
    BY <1>2, <1>4, <2>2, LastIsKept
  <2>4. \A s \in Secured : wl[s] = Radio!Encryption(config)[s]
    BY <1>1, <1>2, <1>4, <1>7, LastIsKept DEF RadioWanted
  <2>5. Radio!Protection = Radio!Encryption(config)
    BY <2>4, EncryptionTyped DEF Radio!Protection, Secured
  <2>6. config.SSID # Radio!None => wl["up"] = TRUE /\ wl["ssid"] = config.SSID
    BY <1>1, <1>2, <1>4, <1>7, LastIsKept DEF RadioWanted
  <2>7. psk.passphrase \notin {Radio!None, ""} => wl["pmk"] = <<psk.passphrase, config.SSID>>
    BY <1>1, <1>2, <1>4, <1>7, LastIsKept DEF RadioWanted
  <2>8. QED
    BY <2>1, <2>2, <2>3, <2>5, <2>6, <2>7
<1>8. config.Enable \in BOOLEAN /\ config.RadioEnabled \in BOOLEAN
  BY DEF RadioInv, RadioTyped, RadioConfigType
<1>9. QED
  BY <1>5, <1>6, <1>7, <1>8 DEF Radio!RadioConfigured, RadioOn

LEMMA RadioIsTyped == RadioInv => Radio!TypeOK
<1> SUFFICES ASSUME RadioInv PROVE Radio!TypeOK
  OBVIOUS
<1>1. DOMAIN config = DOMAIN Radio!DefaultSettings
  BY ConfigNames, DefaultTyped DEF RadioInv, RadioTyped
<1>2. psk.passphrase \in Phrases \cup {Radio!None, ""}
  BY DEF RadioInv, RadioTyped, PskType, PhraseType
<1>3. QED
  BY <1>1, <1>2 DEF RadioInv, RadioTyped, Radio!TypeOK, ChannelType

\* The command that names the network comes after those of its encryption.
LEMMA NamedProtected ==
  RadioInv /\ Radio!BrcmWifiAssumption /\ [Radio!Next]_Radio!vars =>
    (wl'.ssid \notin {wl.ssid, ""} => Radio!Protection = Radio!Encryption(config))
<1>0. SUFFICES ASSUME RadioInv, [Radio!Next]_Radio!vars, wl'.ssid \notin {wl.ssid, ""}
             PROVE  Radio!Protection = Radio!Encryption(config)
  OBVIOUS
<1>1. Radio!RunCommand
  <2>1. wl' # wl
    BY <1>0
  <2>2. QED
    BY <1>0, <2>1, Zenon
       DEF Radio!Next, Radio!SetParameterValues, Radio!CommandFails, Radio!EndSession,
           Radio!Restart, Radio!vars
<1> DEFINE x == Head(todo)
<1>2. todo # << >> /\ wl' = [s \in DOMAIN wl |-> IF s \in DOMAIN x THEN x[s] ELSE wl[s]]
  BY <1>1 DEF Radio!RunCommand
<1>3. PICK full, k : RadioWanted(full) /\ k \in 0..Len(full) /\ RunSoFar(full, k)
  BY <1>0, <1>2 DEF RadioInv, Underway
<1>4. /\ todo \in Seq(Cmd) /\ Len(todo) \in Nat /\ Len(todo) = Len(full) - k /\ full \in Seq(Cmd)
      /\ \A j \in 1..Len(todo) : todo[j] = full[k + j]
      /\ Len(full) \in Nat /\ k \in Nat
  BY <1>3, SoFarSeq
<1>5. x = todo[1] /\ Len(todo) >= 1 /\ x = full[k + 1] /\ k + 1 \in 1..Len(full)
  BY <1>2, <1>4
<1> HIDE DEF x
<1>6. "ssid" \in DOMAIN wl
  BY <1>0 DEF RadioInv, RadioTyped, WlNames
<1>7. "ssid" \in DOMAIN x /\ x["ssid"] # ""
  BY <1>0, <1>2, <1>6
<1>8. RadioNames(full, k + 1)
  BY <1>5, <1>7 DEF RadioNames
<1>9. RadioOn(config)
  BY <1>3, <1>5, <1>8 DEF RadioWanted, Unnamed
<1>10. ASSUME NEW s \in Secured PROVE wl[s] = Radio!Encryption(config)[s]
  <2>1. NamedAfter(full, s, Radio!Encryption(config)[s])
    BY <1>3, <1>9 DEF RadioWanted
  <2>5. (k + 1) - 1 = k
    BY <1>4
  <2>2. PICK i \in 1..k : /\ s \in DOMAIN full[i] /\ full[i][s] = Radio!Encryption(config)[s]
                                      /\ \A j \in 1..Len(full) : j > i => s \notin DOMAIN full[j]
    BY <1>5, <1>8, <2>1, <2>5 DEF NamedAfter
  <2>3. i \in 1..k /\ \A j \in 1..k : j > i => s \notin DOMAIN full[j]
    BY <1>3, <1>4, <2>2
  <2>4. QED
    BY <1>3, <2>2, <2>3 DEF RunSoFar
<1>11. QED
  BY <1>10, EncryptionTyped DEF Radio!Protection, Secured

\* The types hold, a commit that ran all its commands leaves the radio as the ACS asked
\* for, and no network is named before its encryption is set.
THEOREM RadioSafe ==
  ASSUME Radio!BrcmWifiAssumption
  PROVE  Radio!Spec => [](Radio!TypeOK /\ Radio!RadioConfigured) /\ Radio!ProtectedWhenNamed
<1>1. Radio!Init => RadioInv
  BY RadioInit
<1>2. RadioInv /\ [Radio!Next]_Radio!vars => RadioInv'
  BY RadioStep
<1>3. RadioInv => Radio!TypeOK /\ Radio!RadioConfigured
  BY RadioIsTyped, RadioIsConfigured
<1>4. RadioInv /\ [Radio!Next]_Radio!vars =>
        [wl'.ssid \notin {wl.ssid, ""} => Radio!Protection = Radio!Encryption(config)]_Radio!vars
  BY NamedProtected
<1>5. QED
  BY <1>1, <1>2, <1>3, <1>4, PTL DEF Radio!Spec, Radio!ProtectedWhenNamed

-----------------------------------------------------------------------------
(* Temperature *)

Taken == Readings \cup {Sensor!BadCelsius}

Configs == [enable : BOOLEAN, interval : Intervals, high : Thresholds \cup {Sensor!Unset},
            low : Thresholds \cup {Sensor!Unset}]

Sensors ==
  [ config : Configs, scheduler : Intervals \cup {0}, value : Taken,
    min : Taken \cup {Sensor!Unset}, max : Taken \cup {Sensor!Unset},
    highTime : Nat, lowTime : Nat,
    resetHigh : BOOLEAN, resetLow : BOOLEAN, now : Nat,
    highSeen : Taken \cup {Sensor!Unset}, lowSeen : Taken \cup {Sensor!Unset} ]

\* An alarm time is no later than the clock, and some reading since the alarm value was
\* set is beyond it.
HighMeant(s, c) ==
  /\ s.highTime <= s.now
  /\ s.highTime # 0 => c.high # Sensor!Unset /\ s.highSeen # Sensor!Unset /\ s.highSeen > c.high
LowMeant(s, c) ==
  /\ s.lowTime <= s.now
  /\ s.lowTime # 0 => c.low # Sensor!Unset /\ s.lowSeen # Sensor!Unset /\ s.lowSeen < c.low

\* A sensor whose alarms are those of its configuration, unless the alarm value was set
\* since and they are to be cleared.
Meant(s) ==
  /\ s \in Sensors
  /\ ~s.resetHigh => HighMeant(s, s.config)
  /\ ~s.resetLow => LowMeant(s, s.config)

\* With the clock bounded, and alarms that mean the readings since their value was set.
SensorIInv ==
  /\ Sensor!Sensor \in Sensors /\ now <= MaxTime + 2
  /\ HighMeant(Sensor!Sensor, sensor_config) /\ LowMeant(Sensor!Sensor, sensor_config)
  /\ Sensor!PolledAsConfigured

LEMMA Ints ==
  ASSUME Sensor!TemperatureAssumption
  PROVE  /\ Taken \subseteq Int /\ Sensor!Unset \notin Taken /\ Thresholds \subseteq Int
         /\ Sensor!Unset \notin Thresholds /\ Sensor!Unset \in Int /\ Sensor!BadCelsius \in Taken
         /\ Intervals \subseteq Nat /\ 0 \notin Intervals /\ MaxTime \in Nat
         /\ DefaultPoll \in Intervals
BY DEF Sensor!TemperatureAssumption, Taken, Sensor!BadCelsius, Sensor!Unset

\* A sample sets an alarm time only with a reading beyond the alarm value.
LEMMA SampleMeant ==
  ASSUME Sensor!TemperatureAssumption, NEW s \in Sensors, NEW t \in Taken,
         HighMeant(s, s.config), LowMeant(s, s.config)
  PROVE  LET u == Sensor!Sample(s, t) IN
         /\ u \in Sensors /\ u.config = s.config /\ u.scheduler = s.scheduler
         /\ u.now = s.now + 1
         /\ HighMeant(u, u.config) /\ LowMeant(u, u.config)
<1> DEFINE u == Sensor!Sample(s, t)
<1>0. /\ s.config \in Configs /\ s.now \in Nat /\ s.highTime \in Nat /\ s.lowTime \in Nat
      /\ s.highSeen \in Taken \cup {Sensor!Unset} /\ s.lowSeen \in Taken \cup {Sensor!Unset}
      /\ s.config.high \in Thresholds \cup {Sensor!Unset}
          /\ s.config.low \in Thresholds \cup {Sensor!Unset}
  BY DEF Sensors, Configs
<1>1. /\ Sensor!Larger(s.highSeen, t) \in Taken /\ Sensor!Smaller(s.lowSeen, t) \in Taken
      /\ Sensor!Larger(s.max, t) \in Taken /\ Sensor!Smaller(s.min, t) \in Taken
  BY DEF Sensors, Sensor!Larger, Sensor!Smaller
<1>2. /\ u.config = s.config /\ u.scheduler = s.scheduler /\ u.now = s.now + 1
      /\ u.highSeen = Sensor!Larger(s.highSeen, t) /\ u.lowSeen = Sensor!Smaller(s.lowSeen, t)
      /\ u.highTime = (IF s.config.high # Sensor!Unset /\ t > s.config.high THEN s.now + 1
                       ELSE s.highTime)
      /\ u.lowTime = (IF s.config.low # Sensor!Unset /\ t < s.config.low THEN s.now + 1
                      ELSE s.lowTime)
  BY DEF Sensor!Sample, Sensors
<1>3. u \in Sensors
  <2> DEFINE high == IF s.config.high # Sensor!Unset /\ t > s.config.high THEN s.now + 1
                     ELSE s.highTime
             low == IF s.config.low # Sensor!Unset /\ t < s.config.low THEN s.now + 1
                    ELSE s.lowTime
             min == Sensor!Smaller(s.min, t)
             max == Sensor!Larger(s.max, t)
             highest == Sensor!Larger(s.highSeen, t)
             lowest == Sensor!Smaller(s.lowSeen, t)
  <2>1. high \in Nat /\ low \in Nat /\ s.now + 1 \in Nat
    BY <1>0
  <2>2. u = [s EXCEPT !.value = t, !.now = s.now + 1, !.min = min, !.max = max,
                      !.highTime = high, !.lowTime = low, !.highSeen = highest,
                      !.lowSeen = lowest]
    BY DEF Sensor!Sample, Sensors
  <2>3. /\ min \in Taken \cup {Sensor!Unset} /\ max \in Taken \cup {Sensor!Unset}
        /\ highest \in Taken \cup {Sensor!Unset} /\ lowest \in Taken \cup {Sensor!Unset}
    BY <1>1
  <2> HIDE DEF u, high, low, min, max, highest, lowest
  <2>4. QED
    BY <2>1, <2>2, <2>3 DEF Sensors
<1>4. HighMeant(u, u.config)
  BY <1>0, <1>2, Ints DEF HighMeant, Sensor!Larger
<1>5. LowMeant(u, u.config)
  BY <1>0, <1>2, Ints DEF LowMeant, Sensor!Smaller
<1>6. QED
  BY <1>2, <1>3, <1>4, <1>5

\* What _Configure does before it samples.
Cleared(s) ==
  [s EXCEPT !.highTime = IF s.resetHigh THEN 0 ELSE @,
            !.lowTime  = IF s.resetLow THEN 0 ELSE @,
            !.highSeen = IF s.resetHigh THEN Sensor!Unset ELSE @,
            !.lowSeen  = IF s.resetLow THEN Sensor!Unset ELSE @,
            !.resetHigh = FALSE, !.resetLow = FALSE,
            !.scheduler = IF s.config.enable THEN s.config.interval ELSE 0]

LEMMA ConfigureMeant ==
  ASSUME Sensor!TemperatureAssumption, NEW s, Meant(s), NEW t \in Taken
  PROVE  LET u == Sensor!Configure(s, t) IN
         /\ u \in Sensors /\ u.config = s.config /\ u.now = s.now + 1
         /\ u.scheduler = IF s.config.enable THEN s.config.interval ELSE 0
         /\ HighMeant(u, u.config) /\ LowMeant(u, u.config)
<1> DEFINE c == Cleared(s)
<1>0. s \in Sensors /\ s.config \in Configs
  BY DEF Meant, Sensors
<1>1. /\ c.config = s.config /\ c.now = s.now
      /\ c.scheduler = (IF s.config.enable THEN s.config.interval ELSE 0)
      /\ c.highTime = (IF s.resetHigh THEN 0 ELSE s.highTime)
      /\ c.lowTime = (IF s.resetLow THEN 0 ELSE s.lowTime)
      /\ c.highSeen = (IF s.resetHigh THEN Sensor!Unset ELSE s.highSeen)
      /\ c.lowSeen = (IF s.resetLow THEN Sensor!Unset ELSE s.lowSeen)
  BY <1>0 DEF Cleared, Sensors
<1>2. c.scheduler \in Intervals \cup {0}
  BY <1>0, <1>1 DEF Configs
<1>3. c \in Sensors
  <2> DEFINE high == IF s.resetHigh THEN 0 ELSE s.highTime
             low == IF s.resetLow THEN 0 ELSE s.lowTime
             highest == IF s.resetHigh THEN Sensor!Unset ELSE s.highSeen
             lowest == IF s.resetLow THEN Sensor!Unset ELSE s.lowSeen
             poll == IF s.config.enable THEN s.config.interval ELSE 0
  <2>1. /\ high \in Nat /\ low \in Nat /\ highest \in Taken \cup {Sensor!Unset}
        /\ lowest \in Taken \cup {Sensor!Unset} /\ poll \in Intervals \cup {0}
    BY <1>0 DEF Sensors, Configs
  <2>2. c = [s EXCEPT !.highTime = high, !.lowTime = low, !.highSeen = highest,
                      !.lowSeen = lowest, !.resetHigh = FALSE, !.resetLow = FALSE,
                      !.scheduler = poll]
    BY <1>0 DEF Cleared, Sensors
  <2> HIDE DEF c, high, low, highest, lowest, poll
  <2>3. QED
    BY <1>0, <2>1, <2>2 DEF Sensors
<1>4. s.now \in Nat
  BY <1>0 DEF Sensors
<1>5. HighMeant(c, c.config)
  BY <1>1, <1>4 DEF HighMeant, Meant
<1>6. LowMeant(c, c.config)
  BY <1>1, <1>4 DEF LowMeant, Meant
<1>7. Sensor!Configure(s, t) = Sensor!Sample(c, t)
  BY DEF Sensor!Configure, Cleared
<1>8. QED
  BY <1>1, <1>3, <1>5, <1>6, <1>7, SampleMeant

\* An assignment of an alarm value has the alarm time cleared when it is applied.
LEMMA AssignmentsMeant ==
  ASSUME Sensor!TemperatureAssumption, SensorIInv, NEW s \in Sensor!Assignments(Sensor!Sensor)
  PROVE  /\ Meant(s) /\ s.now = now /\ s.scheduler = scheduler
         /\ HighMeant(s, sensor_config) /\ LowMeant(s, sensor_config)
<1>0. /\ Sensor!Sensor \in Sensors /\ Sensor!Sensor.config = sensor_config
          /\ Sensor!Sensor.now = now
      /\ Sensor!Sensor.scheduler = scheduler /\ Sensor!Sensor.highTime = highTime
      /\ Sensor!Sensor.lowTime = lowTime /\ Sensor!Sensor.highSeen = highSeen
          /\ Sensor!Sensor.lowSeen = lowSeen
      /\ HighMeant(Sensor!Sensor, sensor_config) /\ LowMeant(Sensor!Sensor, sensor_config)
          /\ sensor_config \in Configs
  BY DEF SensorIInv, Sensor!Sensor, Sensors
<1>1. CASE \E on \in BOOLEAN : s = Sensor!SetEnable(Sensor!Sensor, on)
  BY <1>0, <1>1 DEF Sensor!SetEnable, Meant, HighMeant, LowMeant, Sensors, Configs
<1>2. CASE \E v \in Intervals \cup {0} : s = Sensor!SetPollingInterval(Sensor!Sensor, v)
  BY <1>0, <1>2, Ints DEF Sensor!SetPollingInterval, Meant, HighMeant, LowMeant, Sensors, Configs
<1>3. CASE \E v \in Thresholds : s = Sensor!SetHighAlarmValue(Sensor!Sensor, v)
  <2>1. PICK v \in Thresholds : s = Sensor!SetHighAlarmValue(Sensor!Sensor, v)
    BY <1>3
  <2>2. [sensor_config EXCEPT !.high = v] \in Configs
    BY <1>0 DEF Configs
  <2>3. s = [Sensor!Sensor EXCEPT !.config = [sensor_config EXCEPT !.high = v],
         !.resetHigh = TRUE]
    BY <1>0, <2>1 DEF Sensor!SetHighAlarmValue, Sensors
  <2>4. /\ s \in Sensors /\ s.config = [sensor_config EXCEPT !.high = v] /\ s.resetHigh = TRUE
        /\ s.now = now /\ s.scheduler = scheduler /\ s.highTime = highTime
        /\ s.lowTime = lowTime /\ s.highSeen = highSeen /\ s.lowSeen = lowSeen
    BY <1>0, <2>2, <2>3 DEF Sensors
  <2>5. s.config.low = sensor_config.low
    BY <1>0, <2>4 DEF Configs
  <2>6. QED
    BY <1>0, <2>4, <2>5 DEF Meant, HighMeant, LowMeant
<1>4. CASE \E v \in Thresholds : s = Sensor!SetLowAlarmValue(Sensor!Sensor, v)
  <2>1. PICK v \in Thresholds : s = Sensor!SetLowAlarmValue(Sensor!Sensor, v)
    BY <1>4
  <2>2. [sensor_config EXCEPT !.low = v] \in Configs
    BY <1>0 DEF Configs
  <2>3. s = [Sensor!Sensor EXCEPT !.config = [sensor_config EXCEPT !.low = v], !.resetLow = TRUE]
    BY <1>0, <2>1 DEF Sensor!SetLowAlarmValue, Sensors
  <2>4. /\ s \in Sensors /\ s.config = [sensor_config EXCEPT !.low = v] /\ s.resetLow = TRUE
        /\ s.now = now /\ s.scheduler = scheduler /\ s.highTime = highTime
        /\ s.lowTime = lowTime /\ s.highSeen = highSeen /\ s.lowSeen = lowSeen
    BY <1>0, <2>2, <2>3 DEF Sensors
  <2>5. s.config.high = sensor_config.high
    BY <1>0, <2>4 DEF Configs
  <2>6. QED
    BY <1>0, <2>4, <2>5 DEF Meant, HighMeant, LowMeant
<1>5. CASE s = Sensor!ResetReadings(Sensor!Sensor)
  <2>1. Sensor!BadCelsius \in Taken
    BY Ints
  <2>2. /\ s \in Sensors /\ s.config = sensor_config /\ s.highTime = 0 /\ s.lowTime = 0
        /\ s.now = now /\ s.scheduler = scheduler
    BY <1>0, <1>5, <2>1 DEF Sensor!ResetReadings, Sensors
  <2>3. now \in Nat
    BY <2>2 DEF Sensors
  <2>4. QED
    BY <2>2, <2>3 DEF Meant, HighMeant, LowMeant
<1>6. QED
  BY <1>1, <1>2, <1>3, <1>4, <1>5 DEF Sensor!Assignments

LEMMA BecomeIs ==
  ASSUME NEW s \in Sensors, Sensor!Become(s)
  PROVE  Sensor!Sensor' = s
<1>1. s = [config |-> s.config, scheduler |-> s.scheduler, value |-> s.value, min |-> s.min,
           max |-> s.max, highTime |-> s.highTime, lowTime |-> s.lowTime,
           resetHigh |-> s.resetHigh, resetLow |-> s.resetLow, now |-> s.now,
           highSeen |-> s.highSeen, lowSeen |-> s.lowSeen]
  BY DEF Sensors
<1>2. QED
  BY <1>1 DEF Sensor!Become, Sensor!Sensor

LEMMA SensorNextIInv ==
  ASSUME Sensor!TemperatureAssumption, SensorIInv, [Sensor!Next]_Sensor!tempVars PROVE SensorIInv'
<1>0. /\ Sensor!Sensor \in Sensors /\ Sensor!Sensor.config = sensor_config
          /\ Sensor!Sensor.now = now
      /\ Sensor!Sensor.scheduler = scheduler /\ now \in Nat
      /\ HighMeant(Sensor!Sensor, sensor_config) /\ LowMeant(Sensor!Sensor, sensor_config)
  BY DEF SensorIInv, Sensor!Sensor, Sensors
<1>1. CASE Sensor!Commit
  <2>1. PICK s \in Sensor!Assignments(Sensor!Sensor),
         t \in Taken : Sensor!Become(Sensor!Configure(s, t))
    BY <1>1 DEF Sensor!Commit, Taken
  <2> DEFINE u == Sensor!Configure(s, t)
  <2>2. /\ u \in Sensors /\ u.now = s.now + 1
        /\ u.scheduler = IF u.config.enable THEN u.config.interval ELSE 0
        /\ HighMeant(u, u.config) /\ LowMeant(u, u.config)
    BY AssignmentsMeant, ConfigureMeant
  <2>3. s.now = now /\ now < MaxTime
    BY <1>1, AssignmentsMeant DEF Sensor!Commit
  <2>4. Sensor!Sensor' = u /\ sensor_config' = u.config /\ scheduler' = u.scheduler
         /\ now' = u.now
    BY <2>1, <2>2, BecomeIs DEF Sensor!Become
  <2>5. now' <= MaxTime + 2
    BY <1>0, <2>2, <2>3, <2>4, Ints
  <2>6. QED
    BY <2>2, <2>4, <2>5 DEF SensorIInv, Sensor!PolledAsConfigured
<1>2. CASE Sensor!Abandon
  <2>1. PICK s \in Sensor!Assignments(Sensor!Sensor) : Sensor!Become(Sensor!AbandonTransaction(s))
    BY <1>2 DEF Sensor!Abandon
  <2> DEFINE u == Sensor!AbandonTransaction(s)
  <2>2. /\ s \in Sensors /\ s.now = now /\ s.scheduler = scheduler
        /\ HighMeant(s, sensor_config) /\ LowMeant(s, sensor_config)
    BY AssignmentsMeant DEF Meant
  <2>3. u \in Sensors /\ u.config = sensor_config /\ u.now = now /\ u.scheduler = scheduler
    BY <1>0, <2>2 DEF Sensor!AbandonTransaction, Sensors
  <2>4. HighMeant(u, u.config) /\ LowMeant(u, u.config)
    BY <2>2, <2>3 DEF Sensor!AbandonTransaction, HighMeant, LowMeant, Sensors
  <2>5. Sensor!Sensor' = u /\ sensor_config' = sensor_config /\ scheduler' = scheduler
         /\ now' = now
    BY <2>1, <2>3, BecomeIs DEF Sensor!Become
  <2>6. QED
    BY <2>3, <2>4, <2>5 DEF SensorIInv, Sensor!PolledAsConfigured
<1>3. CASE Sensor!SampleTemperature
  <2>1. PICK t \in Taken : Sensor!Become(Sensor!Sample(Sensor!Sensor, t))
    BY <1>3 DEF Sensor!SampleTemperature, Taken
  <2> DEFINE u == Sensor!Sample(Sensor!Sensor, t)
  <2>2. /\ u \in Sensors /\ u.config = sensor_config /\ u.scheduler = scheduler /\ u.now = now + 1
        /\ HighMeant(u, u.config) /\ LowMeant(u, u.config)
    BY <1>0, SampleMeant
  <2>3. Sensor!Sensor' = u /\ sensor_config' = sensor_config /\ scheduler' = scheduler
         /\ now' = now + 1
    BY <2>1, <2>2, BecomeIs DEF Sensor!Become
  <2>4. now' <= MaxTime + 2
    BY <1>0, <1>3, <2>3, Ints DEF Sensor!SampleTemperature
  <2>5. QED
    BY <2>2, <2>3, <2>4 DEF SensorIInv, Sensor!PolledAsConfigured
<1>4. CASE UNCHANGED Sensor!tempVars
  BY <1>4 DEF Sensor!tempVars, SensorIInv, Sensor!Sensor, Sensor!PolledAsConfigured
<1>5. QED
  BY <1>1, <1>2, <1>3, <1>4 DEF Sensor!Next

LEMMA InitIInv == ASSUME Sensor!TemperatureAssumption, Sensor!Init PROVE SensorIInv
<1> DEFINE s0 == [config |-> [enable |-> TRUE, interval |-> DefaultPoll, high |-> Sensor!Unset,
            low |-> Sensor!Unset],
                  scheduler |-> 0, value |-> Sensor!BadCelsius, min |-> Sensor!Unset,
                   max |-> Sensor!Unset,
                  highTime |-> 0, lowTime |-> 0, resetHigh |-> FALSE, resetLow |-> FALSE,
                  now |-> 0, highSeen |-> Sensor!Unset, lowSeen |-> Sensor!Unset]
<1>1. PICK t \in Taken :
        LET new == Sensor!Sample(Sensor!Configure(s0, t), t) IN
        /\ sensor_config = new.config /\ scheduler = new.scheduler /\ value = new.value
        /\ minValue = new.min /\ maxValue = new.max /\ highTime = 0 /\ lowTime = 0
        /\ resetHigh = FALSE /\ resetLow = FALSE /\ now = new.now
        /\ highSeen = new.highSeen /\ lowSeen = new.lowSeen
  BY DEF Sensor!Init, Taken
<1> DEFINE c == Sensor!Configure(s0, t)
           u == Sensor!Sample(c, t)
<1>2. s0 \in Sensors /\ Meant(s0) /\ s0.now = 0
  BY Ints DEF Sensors, Configs, Meant, HighMeant, LowMeant
<1> HIDE DEF s0
<1>3. /\ c \in Sensors /\ c.config = s0.config /\ c.now = 1
      /\ c.scheduler = IF c.config.enable THEN c.config.interval ELSE 0
      /\ HighMeant(c, c.config) /\ LowMeant(c, c.config)
  BY <1>2, ConfigureMeant
<1> HIDE DEF c
<1>4. /\ u \in Sensors /\ u.config = c.config /\ u.scheduler = c.scheduler /\ u.now = 2
  BY <1>3, SampleMeant
<1> HIDE DEF u
<1>5. /\ sensor_config = u.config /\ scheduler = u.scheduler /\ value = u.value
      /\ minValue = u.min /\ maxValue = u.max /\ highTime = 0 /\ lowTime = 0
      /\ resetHigh = FALSE /\ resetLow = FALSE /\ now = u.now
      /\ highSeen = u.highSeen /\ lowSeen = u.lowSeen
  BY <1>1 DEF u, c
<1>6. Sensor!Sensor \in Sensors
  BY <1>4, <1>5 DEF Sensor!Sensor, Sensors
<1>7. Sensor!PolledAsConfigured /\ now <= MaxTime + 2
  BY <1>3, <1>4, <1>5, Ints DEF Sensor!PolledAsConfigured
<1>8. HighMeant(Sensor!Sensor, sensor_config) /\ LowMeant(Sensor!Sensor, sensor_config)
  BY <1>4, <1>5 DEF HighMeant, LowMeant, Sensor!Sensor
<1>9. QED
  BY <1>6, <1>7, <1>8 DEF SensorIInv

LEMMA IInvImplies ==
  ASSUME Sensor!TemperatureAssumption, SensorIInv
  PROVE  Sensor!TypeOK /\ Sensor!PolledAsConfigured /\ Sensor!AlarmsMeanReadings
<1>1. /\ sensor_config \in Configs /\ scheduler \in Intervals \cup {0} /\ value \in Taken
      /\ minValue \in Taken \cup {Sensor!Unset} /\ maxValue \in Taken \cup {Sensor!Unset}
      /\ now \in Nat /\ highTime \in Nat /\ lowTime \in Nat
      /\ resetHigh \in BOOLEAN /\ resetLow \in BOOLEAN
      /\ highSeen \in Taken \cup {Sensor!Unset} /\ lowSeen \in Taken \cup {Sensor!Unset}
  BY DEF SensorIInv, Sensor!Sensor, Sensors
<1>2. /\ highTime <= now /\ lowTime <= now /\ now <= MaxTime + 2
      /\ highTime # 0 => sensor_config.high # Sensor!Unset /\ highSeen > sensor_config.high
      /\ lowTime # 0 => sensor_config.low # Sensor!Unset /\ lowSeen < sensor_config.low
  BY DEF SensorIInv, Sensor!Sensor, HighMeant, LowMeant
<1>3. /\ value \in Int /\ minValue \in Int /\ maxValue \in Int /\ highSeen \in Int
      /\ lowSeen \in Int
  BY <1>1, Ints
<1>4. now \in 0..MaxTime + 2 /\ highTime \in 0..now /\ lowTime \in 0..now
  BY <1>1, <1>2, Ints
<1>5. Sensor!TypeOK
  BY <1>1, <1>3, <1>4 DEF Sensor!TypeOK, Configs
<1>6. QED
  BY <1>2, <1>5 DEF SensorIInv, Sensor!AlarmsMeanReadings

\* Temperature: the poller runs as configured, and alarms mean readings.
THEOREM SensorSafe ==
  ASSUME Sensor!TemperatureAssumption
  PROVE  Sensor!Spec =>
           [](Sensor!TypeOK /\ Sensor!PolledAsConfigured /\ Sensor!AlarmsMeanReadings)
<1>1. Sensor!Init => SensorIInv
  BY InitIInv
<1>2. SensorIInv /\ [Sensor!Next]_Sensor!tempVars => SensorIInv'
  BY SensorNextIInv
<1>3. SensorIInv => Sensor!TypeOK /\ Sensor!PolledAsConfigured /\ Sensor!AlarmsMeanReadings
  BY IInvImplies
<1>4. QED
  BY <1>1, <1>2, <1>3, PTL DEF Sensor!Spec

-----------------------------------------------------------------------------
(* WifiExperiments *)

\* The first n experiments of the list that force p.
ForcingAmong(list, n, p) == {k \in 1..n : p \in DOMAIN Forced!Forces(list[k])}

\* p has the value that the last of the first n experiments of the list forces, or else the
\* one that the ACS wrote, which is also the one that is saved.
InForce(list, n, x, p) ==
  /\ p \in DOMAIN x.saved <=> ForcingAmong(list, n, p) # {}
  /\ p \in DOMAIN x.saved => x.saved[p] = Forced!ValueOf(wanted, p)
  /\ ForcingAmong(list, n, p) = {} => Forced!ValueOf(x.values, p) = Forced!ValueOf(wanted, p)
  /\ \A k \in ForcingAmong(list, n, p) :
       (\A j \in ForcingAmong(list, n, p) : j <= k)
        => Forced!ValueOf(x.values, p) = Forced!Forces(list[k])[p]

AllInForce(list, n, x) == \A p : InForce(list, n, x, p)

ForcedCurrent == [values |-> values, saved |-> saved]

\* One experiment more is in force.
LEMMA ApplyKeeps ==
  ASSUME NEW list, NEW n \in Nat, NEW x, NEW y, y = Forced!Apply(x, Forced!Forces(list[n + 1])),
         x = [values |-> x.values, saved |-> x.saved], AllInForce(list, n, x)
  PROVE  y = [values |-> y.values, saved |-> y.saved] /\ AllInForce(list, n + 1, y)
<1> DEFINE f == Forced!Forces(list[n + 1])
           s == [p \in DOMAIN f |-> Forced!ValueOf(x.values, p)]
<1>1. y = [values |-> Forced!Over(f, x.values), saved |-> Forced!Over(x.saved, s)]
  BY DEF Forced!Apply
<1>2. y.values = Forced!Over(f, x.values) /\ y.saved = Forced!Over(x.saved, s)
  BY <1>1
<1>3. ASSUME NEW p PROVE InForce(list, n + 1, y, p)
  <2> DEFINE F == ForcingAmong(list, n, p)
             G == ForcingAmong(list, n + 1, p)
  <2>1. InForce(list, n, x, p)
    BY DEF AllInForce
  <2>2. G = F \cup (IF p \in DOMAIN f THEN {n + 1} ELSE {})
    BY DEF ForcingAmong
  <2>3. \A k \in F : k \in 1..n
    BY DEF ForcingAmong
  <2>4. /\ DOMAIN y.saved = DOMAIN x.saved \cup DOMAIN f
        /\ p \in DOMAIN x.saved => y.saved[p] = x.saved[p]
        /\ p \in DOMAIN f \ DOMAIN x.saved => y.saved[p] = Forced!ValueOf(x.values, p)
    <3>1. DOMAIN s = DOMAIN f /\ (p \in DOMAIN f => s[p] = Forced!ValueOf(x.values, p))
      OBVIOUS
    <3> HIDE DEF s, f
    <3>2. /\ DOMAIN Forced!Over(x.saved, s) = DOMAIN x.saved \cup DOMAIN s
          /\ p \in DOMAIN x.saved => Forced!Over(x.saved, s)[p] = x.saved[p]
          /\ p \in DOMAIN s \ DOMAIN x.saved => Forced!Over(x.saved, s)[p] = s[p]
      BY DEF Forced!Over, Forced!ValueOf
    <3>3. QED
      BY <1>2, <3>1, <3>2
  <2>5. Forced!ValueOf(y.values, p) = IF p \in DOMAIN f THEN f[p] ELSE Forced!ValueOf(x.values, p)
    <3> HIDE DEF f
    <3>1. Forced!ValueOf(Forced!Over(f, x.values),
           p) = IF p \in DOMAIN f THEN f[p] ELSE Forced!ValueOf(x.values, p)
      BY DEF Forced!Over, Forced!ValueOf
    <3>2. QED
      BY <1>2, <3>1
  <2>6. CASE p \in DOMAIN f
    <3>1. G = F \cup {n + 1} /\ \A k \in G : (\A j \in G : j <= k) => k = n + 1
      BY <2>2, <2>3, <2>6
    <3>2. p \in DOMAIN y.saved /\ y.saved[p] = Forced!ValueOf(wanted, p)
      BY <2>1, <2>4, <2>6 DEF InForce
    <3> HIDE DEF F, G
    <3>3. QED
      BY <2>5, <2>6, <3>1, <3>2 DEF InForce, G
  <2>7. CASE p \notin DOMAIN f
    <3>1. G = F
      BY <2>2, <2>7
    <3> HIDE DEF F, G
    <3>2. QED
      BY <2>1, <2>4, <2>5, <2>7, <3>1 DEF InForce, F, G
  <2>8. QED
    BY <2>6, <2>7
<1>4. QED
  BY <1>1, <1>3 DEF AllInForce

\* The list that is applied one experiment after the other, by its recursive definition.
ForcedApplied(list, base, f, k) ==
  f = [n \in 0..k |-> IF n = 0 THEN base ELSE Forced!Apply(f[n - 1], Forced!Forces(list[n]))]

\* The loop of Triggered over the list defines a function.
LEMMA AppliedExists ==
  ASSUME NEW list, NEW base, NEW N \in Nat
  PROVE  \E f : ForcedApplied(list, base, f, N)
<1> DEFINE S == {k \in Nat : \E f : ForcedApplied(list, base, f, k)}
<1>1. 0 \in S
  <2>1. ForcedApplied(list, base, [n \in 0..0 |-> base], 0)
    BY DEF ForcedApplied
  <2>2. QED
    BY <2>1
<1>2. ASSUME NEW k \in Nat, k \in S PROVE k + 1 \in S
  <2>1. PICK f : ForcedApplied(list, base, f, k)
    BY <1>2
  <2> DEFINE last == Forced!Apply(f[k], Forced!Forces(list[k + 1]))
             g == [j \in 0..(k + 1) |-> IF j \in 0..k THEN f[j] ELSE last]
  <2>2. \A j \in 0..k : g[j] = f[j]
    OBVIOUS
  <2>3. g[k + 1] = last /\ g[k] = f[k] /\ (k + 1) - 1 = k
    OBVIOUS
  <2>4. ASSUME NEW j \in 0..(k + 1)
        PROVE  g[j] = IF j = 0 THEN base ELSE Forced!Apply(g[j - 1], Forced!Forces(list[j]))
    <3>1. CASE j = k + 1
      BY <2>3, <3>1
    <3>2. CASE j \in 0..k
      <4>1. g[j] = f[j] /\ (j # 0 => g[j - 1] = f[j - 1])
        BY <2>2, <3>2
      <4>2. f[j] = IF j = 0 THEN base ELSE Forced!Apply(f[j - 1], Forced!Forces(list[j]))
        BY <2>1, <3>2 DEF ForcedApplied
      <4>3. QED
        BY <4>1, <4>2
    <3>3. QED
      BY <3>1, <3>2
  <2>5. ForcedApplied(list, base, g, k + 1)
    BY <2>4 DEF ForcedApplied
  <2> HIDE DEF g
  <2>6. QED
    BY <2>5
<1> HIDE DEF S
<1>3. N \in S
  BY <1>1, <1>2, Induct
<1>4. QED
  BY <1>3 DEF S

\* Triggered puts back what was saved and applies the list from the beginning.
LEMMA TriggeredKeeps ==
  ASSUME Forced!WlanAssumption, AllInForce(requested, Len(requested), ForcedCurrent),
         Forced!Triggered
  PROVE  AllInForce(requested, Len(requested), ForcedCurrent)'
<1>1. PICK list \in ExperimentLists \ {requested} :
       LET flushed == [values |-> Forced!Over(saved, values), saved |-> Forced!Nothing]
           results[n \in 0..Len(list)] ==
             IF n = 0 THEN flushed ELSE Forced!Apply(results[n - 1], Forced!Forces(list[n]))
       IN /\ requested' = list
          /\ values' = results[Len(list)].values
          /\ saved' = results[Len(list)].saved
  BY DEF Forced!Triggered
<1> DEFINE flushed == [values |-> Forced!Over(saved, values), saved |-> Forced!Nothing]
           results[n \in 0..Len(list)] ==
             IF n = 0 THEN flushed ELSE Forced!Apply(results[n - 1], Forced!Forces(list[n]))
           N == Len(list)
<1>2. requested' = list /\ values' = results[N].values /\ saved' = results[N].saved
  BY <1>1
<1>3. N \in Nat
  BY DEF Forced!WlanAssumption
<1>4. results = [n \in 0..N |-> IF n = 0 THEN flushed ELSE Forced!Apply(results[n - 1],
       Forced!Forces(list[n]))]
  BY <1>3, AppliedExists DEF ForcedApplied
<1>5. flushed = [values |-> flushed.values, saved |-> flushed.saved]
       /\ AllInForce(list, 0, flushed)
  <2>1. flushed.values = Forced!Over(saved, values) /\ flushed.saved = Forced!Nothing
    OBVIOUS
  <2>2. ASSUME NEW p PROVE InForce(list, 0, flushed, p)
    <3>1. InForce(requested, Len(requested), ForcedCurrent, p)
      BY DEF AllInForce
    <3>2. ForcingAmong(list, 0, p) = {}
      BY DEF ForcingAmong
    <3>3. Forced!ValueOf(flushed.values,
           p) = IF p \in DOMAIN saved THEN saved[p] ELSE Forced!ValueOf(values, p)
      <4>1. Forced!ValueOf(Forced!Over(saved, values),
             p) = IF p \in DOMAIN saved THEN saved[p] ELSE Forced!ValueOf(values, p)
        BY DEF Forced!Over, Forced!ValueOf
      <4>2. QED
        BY <2>1, <4>1
    <3>4. Forced!ValueOf(flushed.values, p) = Forced!ValueOf(wanted, p)
      BY <3>1, <3>3 DEF InForce, ForcedCurrent
    <3>5. p \notin DOMAIN flushed.saved
      BY <2>1 DEF Forced!Nothing
    <3> HIDE DEF flushed
    <3>6. QED
      BY <3>2, <3>4, <3>5 DEF InForce
  <2>3. QED
    BY <2>2 DEF AllInForce
<1> HIDE DEF results, flushed
<1>6. results[0] = flushed /\ \A n \in 1..N : results[n] = Forced!Apply(results[n - 1],
       Forced!Forces(list[n]))
  BY <1>3, <1>4
<1> DEFINE A == [n \in 0..N |-> {x \in {results[n]} :
                  x = [values |-> x.values, saved |-> x.saved] /\ AllInForce(list, n, x)}]
<1>7. results[0] \in A[0]
  BY <1>3, <1>5, <1>6
<1>8. ASSUME NEW n \in 1..N, results[n - 1] \in A[n - 1] PROVE results[n] \in A[n]
  <2> DEFINE k == n - 1
  <2>1. k \in Nat /\ k \in 0..N /\ n = k + 1 /\ n \in 0..N
    BY <1>3
  <2>2. /\ results[k] = [values |-> results[k].values, saved |-> results[k].saved]
        /\ AllInForce(list, k, results[k])
    BY <1>8, <2>1
  <2>3. results[k + 1] = Forced!Apply(results[k], Forced!Forces(list[k + 1]))
    BY <1>6, <2>1
  <2> HIDE DEF k
  <2>4. results[k + 1] = [values |-> results[k + 1].values, saved |-> results[k + 1].saved]
        /\ AllInForce(list, k + 1, results[k + 1])
    BY <2>1, <2>2, <2>3, ApplyKeeps
  <2>5. QED
    BY <2>1, <2>4
<1> HIDE DEF A, N
<1>9. results[N] \in A[N]
  <2>1. \A n \in 0..N : results[n] \in A[n]
    BY <1>3, <1>7, <1>8, Along
  <2>2. QED
    BY <1>3, <2>1
<1>10. results[N] = [values |-> values', saved |-> saved'] /\ AllInForce(list, N, results[N])
  BY <1>2, <1>3, <1>9 DEF A
<1>11. wanted' = wanted
  BY DEF Forced!Triggered
<1>12. ASSUME NEW p PROVE InForce(requested, Len(requested), ForcedCurrent, p)'
  <2>1. InForce(list, N, results[N], p)
    BY <1>10 DEF AllInForce
  <2>2. ForcingAmong(list, N, p) = ForcingAmong(requested, Len(requested), p)'
    BY <1>2 DEF ForcingAmong, N
  <2>3. QED
    BY <1>2, <1>10, <1>11, <2>1, <2>2 DEF InForce, ForcedCurrent
<1>13. QED
  BY <1>12 DEF AllInForce

\* The ACS writes a parameter: what is saved if an experiment forces it, and else its value.
LEMMA WriteKeeps ==
  ASSUME Forced!WlanAssumption, AllInForce(requested, Len(requested), ForcedCurrent),
         Forced!SetExportParam
  PROVE  AllInForce(requested, Len(requested), ForcedCurrent)'
<1>1. PICK p \in Writable, v \in WrittenValues :
    /\ wanted' = Forced!Write(wanted, p, v)
    /\ IF p \in DOMAIN saved THEN saved' = Forced!Write(saved, p, v) /\ UNCHANGED values
       ELSE values' = Forced!Write(values, p, v) /\ UNCHANGED saved
  BY DEF Forced!SetExportParam
<1>2. ASSUME NEW f, NEW q
      PROVE  /\ DOMAIN Forced!Write(f, p, v) = DOMAIN f \cup {p}
             /\ Forced!ValueOf(Forced!Write(f, p, v), q) = IF q = p THEN v ELSE Forced!ValueOf(f,
                 q)
             /\ q \in DOMAIN Forced!Write(f, p, v) =>
                  Forced!Write(f, p, v)[q] = IF q = p THEN v ELSE f[q]
  BY DEF Forced!Write, Forced!Over, Forced!ValueOf
<1>3. requested' = requested
  BY DEF Forced!SetExportParam
<1>4. ASSUME NEW q PROVE InForce(requested, Len(requested), ForcedCurrent, q)'
  <2> DEFINE F == ForcingAmong(requested, Len(requested), q)
  <2>1. InForce(requested, Len(requested), ForcedCurrent, q)
    BY DEF AllInForce
  <2>2. /\ q \in DOMAIN saved <=> F # {}
        /\ q \in DOMAIN saved => saved[q] = Forced!ValueOf(wanted, q)
        /\ F = {} => Forced!ValueOf(values, q) = Forced!ValueOf(wanted, q)
        /\ \A k \in F : (\A j \in F : j <= k)
            => Forced!ValueOf(values, q) = Forced!Forces(requested[k])[q]
    BY <2>1 DEF InForce, ForcedCurrent
  <2>3. F' = F
    BY <1>3 DEF ForcingAmong
  <2>4. Forced!ValueOf(wanted', q) = IF q = p THEN v ELSE Forced!ValueOf(wanted, q)
    BY <1>1, <1>2
  <2>5. DOMAIN saved' = DOMAIN saved
    BY <1>1, <1>2
  <2>6. q \in DOMAIN saved => saved'[q] = IF q = p THEN v ELSE saved[q]
    BY <1>1, <1>2
  <2>7. q \in DOMAIN saved \/ q # p => Forced!ValueOf(values', q) = Forced!ValueOf(values, q)
    BY <1>1, <1>2
  <2>8. q = p /\ q \notin DOMAIN saved => Forced!ValueOf(values', q) = v
    BY <1>1, <1>2
  <2> HIDE DEF F
  <2>9. /\ q \in DOMAIN saved' <=> F' # {}
        /\ q \in DOMAIN saved' => saved'[q] = Forced!ValueOf(wanted', q)
        /\ F' = {} => Forced!ValueOf(values', q) = Forced!ValueOf(wanted', q)
        /\ \A k \in F' : (\A j \in F' : j <= k)
            => Forced!ValueOf(values', q) = Forced!Forces(requested'[k])[q]
    BY <1>3, <2>2, <2>3, <2>4, <2>5, <2>6, <2>7, <2>8
  <2>10. QED
    BY <2>9 DEF InForce, ForcedCurrent, F
<1>5. QED
  BY <1>4 DEF AllInForce

ForcedTypes ==
  /\ requested \in ExperimentLists \cup {<<>>}
  /\ DOMAIN wanted \subseteq Writable

\* WifiExperiments: the last experiment of the list that forces a parameter has its way.
THEOREM ForcedSafe ==
  ASSUME Forced!WlanAssumption PROVE Forced!Spec => [](Forced!TypeOK /\ Forced!LastRequestedWins)
<1> DEFINE Inv == ForcedTypes /\ AllInForce(requested, Len(requested), ForcedCurrent)
<1>1. Forced!Init => Inv
  <2> SUFFICES ASSUME Forced!Init PROVE Inv
    OBVIOUS
  <2>1. requested = <<>> /\ Len(requested) = 0 /\ values = Forced!Nothing
         /\ saved = Forced!Nothing /\ wanted = Forced!Nothing
    BY DEF Forced!Init
  <2>2. DOMAIN Forced!Nothing = {}
    BY DEF Forced!Nothing
  <2>3. ASSUME NEW p PROVE InForce(requested, Len(requested), ForcedCurrent, p)
    <3>1. ForcingAmong(requested, Len(requested), p) = {}
      BY <2>1 DEF ForcingAmong
    <3>2. QED
      BY <2>1, <2>2, <3>1 DEF InForce, ForcedCurrent
  <2>4. QED
    BY <2>1, <2>2, <2>3 DEF AllInForce, ForcedTypes
<1>2. Inv /\ [Forced!Next]_Forced!vars => Inv'
  <2> SUFFICES ASSUME Inv, [Forced!Next]_Forced!vars PROVE Inv'
    OBVIOUS
  <2>1. CASE Forced!SetExportParam
    <3>1. ForcedTypes'
      BY <2>1 DEF Forced!SetExportParam, Forced!Write, Forced!Over, ForcedTypes
    <3>2. QED
      BY <2>1, <3>1, WriteKeeps
  <2>2. CASE Forced!Triggered
    <3>1. ForcedTypes'
      BY <2>2 DEF Forced!Triggered, ForcedTypes
    <3>2. QED
      BY <2>2, <3>1, TriggeredKeeps
  <2>3. CASE UNCHANGED Forced!vars
    BY <2>3 DEF Forced!vars, ForcedTypes, AllInForce, InForce, ForcingAmong, ForcedCurrent
  <2>4. QED
    BY <2>1, <2>2, <2>3 DEF Forced!Next
<1>3. Inv => Forced!TypeOK /\ Forced!LastRequestedWins
  <2> SUFFICES ASSUME Inv PROVE Forced!TypeOK /\ Forced!LastRequestedWins
    OBVIOUS
  <2>0. requested \in Seq(STRING)
    <3>1. << >> \in Seq(STRING)
      OBVIOUS
    <3>2. QED
      BY <3>1 DEF ForcedTypes, Forced!WlanAssumption
  <2>1. requested \in Seq(STRING) /\ DOMAIN requested = 1..Len(requested)
         /\ Len(requested) \in Nat
    BY <2>0
  <2>2. \A p : Forced!Forcing(p) = ForcingAmong(requested, Len(requested), p)
    BY <2>1 DEF Forced!Forcing, ForcingAmong
  <2>3. \A p : InForce(requested, Len(requested), ForcedCurrent, p)
    BY DEF AllInForce
  <2>4. ASSUME NEW p
        PROVE  Forced!ValueOf(values, p) =
                 IF Forced!Forcing(p) = {} THEN Forced!ValueOf(wanted, p)
                 ELSE LET last == CHOOSE n \in Forced!Forcing(p) : \A k
                  \in Forced!Forcing(p) : k <= n
                      IN Forced!Forces(requested[last])[p]
    <3>1. CASE Forced!Forcing(p) = {}
      BY <2>2, <2>3, <3>1 DEF InForce, ForcedCurrent
    <3>2. CASE Forced!Forcing(p) # {}
      <4>1. Forced!Forcing(p) \subseteq 0..Len(requested)
        BY <2>1 DEF Forced!Forcing
      <4>2. PICK n \in Forced!Forcing(p) : \A k \in Forced!Forcing(p) : k <= n
        BY <2>1, <3>2, <4>1, Greatest
      <4> DEFINE last == CHOOSE n1 \in Forced!Forcing(p) : \A k \in Forced!Forcing(p) : k <= n1
      <4>3. last \in Forced!Forcing(p) /\ \A k \in Forced!Forcing(p) : k <= last
        BY <4>2
      <4> HIDE DEF last
      <4>4. Forced!ValueOf(values, p) = Forced!Forces(requested[last])[p]
        BY <2>2, <2>3, <4>3 DEF InForce, ForcedCurrent
      <4>5. QED
        BY <3>2, <4>4 DEF last
    <3>3. QED
      BY <3>1, <3>2
  <2>5. DOMAIN saved = UNION {DOMAIN Forced!Forces(requested[n]) : n \in DOMAIN requested}
    <3>1. \A p : p \in DOMAIN saved <=> Forced!Forcing(p) # {}
      BY <2>2, <2>3 DEF InForce, ForcedCurrent
    <3>2. \A p : Forced!Forcing(p) # {}
           <=> \E n \in DOMAIN requested : p \in DOMAIN Forced!Forces(requested[n])
      BY DEF Forced!Forcing
    <3>3. QED
      BY <3>1, <3>2
  <2>6. QED
    BY <2>4, <2>5 DEF Forced!TypeOK, Forced!LastRequestedWins, ForcedTypes
<1>4. QED
  BY <1>1, <1>2, <1>3, PTL DEF Forced!Spec

-----------------------------------------------------------------------------
(* SystemExperiments *)

\* The instance has a copy of the operators on finite sets: they are the same.
LEMMA SystemFinite == ASSUME NEW T PROVE System!IsFiniteSet(T) <=> IsFiniteSet(T)
BY DEF System!IsFiniteSet, IsFiniteSet

LEMMA SystemCardinality == ASSUME NEW T PROVE System!Cardinality(T) = Cardinality(T)
BY DEF System!Cardinality, Cardinality

LEMMA ListsAreSequences ==
  ASSUME NEW list \in System!Lists
  PROVE  list \in Seq(SystemNames) /\ Len(list) \in Nat /\ DOMAIN list = 1..Len(list)
         /\ \A n \in 1..Len(list) : list[n] \in SystemNames
<1>1. PICK n \in 0..Cardinality(SystemNames) : list \in [1..n -> SystemNames]
  BY SystemCardinality DEF System!Lists
<1>2. n \in Nat
  BY <1>1
<1>3. list \in Seq(SystemNames)
  BY <1>1, <1>2
<1>4. QED
  BY <1>3

\* No experiment is requested and unrequested at once.
Apart(fs) == System!Suffixed(fs, "requested") \cap System!Suffixed(fs, "unrequested") = {}

LEMMA SuffixedPairs ==
  ASSUME NEW fs, NEW name \in SystemNames, NEW suffix
  PROVE  name \in System!Suffixed(fs, suffix) <=> <<name, suffix>> \in fs
BY DEF System!Suffixed

\* What requesting the first n names of the list makes of the files: step is the function
\* of the names refused at each place.
Requesting(list, refusedAt, n, fs) ==
  /\ fs \subseteq SystemNames \X System!Suffixes /\ Apart(fs)
  /\ System!Suffixed(fs, "active") = System!Suffixed(system_files, "active")
  /\ \A name \in SystemNames : (\A k \in 1..n : list[k] # name) =>
       \A suffix \in System!Suffixes : <<name, suffix>> \in fs
        <=> <<name, suffix>> \in system_files
  /\ \A k \in 1..n : (\A j \in 1..n : list[j] = list[k] => j \notin refusedAt) =>
       /\ <<list[k], "unrequested">> \notin fs
       /\ <<list[k], "active">> \in fs \/ <<list[k], "requested">> \in fs

\* One name more is requested, or refused.
LEMMA RequestKeeps ==
  ASSUME NEW list \in System!Lists, NEW no, NEW n \in 1..Len(list), NEW fs, NEW gs,
         Requesting(list, no, n - 1, fs),
         gs = IF n \in no THEN fs ELSE System!Request(fs, list[n])
  PROVE  Requesting(list, no, n, gs)
<1>1. Len(list) \in Nat /\ DOMAIN list = 1..Len(list)
       /\ \A k \in 1..Len(list) : list[k] \in SystemNames
  BY ListsAreSequences
<1>2. 1..n = (1..(n - 1)) \cup {n} /\ n \notin 1..(n - 1)
  BY <1>1
<1>3. CASE n \in no
  <2>1. gs = fs
    BY <1>3
  <2>2. ASSUME NEW k \in 1..n, \A j \in 1..n : list[j] = list[k] => j \notin no
        PROVE  k \in 1..(n - 1) /\ \A j \in 1..(n - 1) : list[j] = list[k] => j \notin no
    BY <1>2, <1>3, <2>2
  <2>3. QED
    BY <1>2, <2>1, <2>2 DEF Requesting
<1>4. CASE n \notin no
  <2> DEFINE name == list[n]
             kept == fs \ {<<name, "unrequested">>}
  <2>1. name \in SystemNames
    BY <1>1
  <2>2. gs = IF name \in System!Suffixed(fs, "active") THEN kept ELSE kept \cup {<<name,
         "requested">>}
    BY <1>4 DEF System!Request
  <2> HIDE DEF name
  <2>3. fs \subseteq SystemNames \X System!Suffixes /\ Apart(fs)
    BY DEF Requesting
  <2>4. gs \subseteq SystemNames \X System!Suffixes
    BY <2>1, <2>2, <2>3 DEF System!Suffixes
  <2>5. ASSUME NEW another \in SystemNames, NEW suffix, another # name \/ suffix = "active"
        PROVE  <<another, suffix>> \in gs <=> <<another, suffix>> \in fs
    BY <2>1, <2>2, <2>5
  <2>6. /\ <<name, "unrequested">> \notin gs
        /\ <<name, "active">> \in gs \/ <<name, "requested">> \in gs
    BY <2>1, <2>2, SuffixedPairs
  <2>7. Apart(gs)
    <3>1. ASSUME NEW another \in SystemNames, <<another, "requested">> \in gs, <<another,
                 "unrequested">> \in gs
          PROVE  FALSE
      <4>1. another # name
        BY <2>6, <3>1
      <4>2. <<another, "requested">> \in fs /\ <<another, "unrequested">> \in fs
        BY <2>5, <3>1, <4>1
      <4>3. QED
        BY <2>3, <4>2 DEF Apart, System!Suffixed
    <3>2. QED
      BY <3>1 DEF Apart, System!Suffixed
  <2>8. System!Suffixed(gs, "active") = System!Suffixed(system_files, "active")
    BY <2>5 DEF Requesting, System!Suffixed
  <2>9. ASSUME NEW another \in SystemNames, \A k \in 1..n : list[k] # another,
               NEW suffix \in System!Suffixes
        PROVE  <<another, suffix>> \in gs <=> <<another, suffix>> \in system_files
    <3>1. another # name /\ \A k \in 1..(n - 1) : list[k] # another
      BY <1>2, <2>9 DEF name
    <3>2. QED
      BY <2>5, <3>1 DEF Requesting
  <2>10. ASSUME NEW k \in 1..n, \A j \in 1..n : list[j] = list[k] => j \notin no
         PROVE  /\ <<list[k], "unrequested">> \notin gs
                /\ <<list[k], "active">> \in gs \/ <<list[k], "requested">> \in gs
    <3>1. CASE list[k] = name
      BY <2>6, <3>1
    <3>2. CASE list[k] # name
      <4>1. k \in 1..(n - 1) /\ \A j \in 1..(n - 1) : list[j] = list[k] => j \notin no
        BY <1>2, <2>10, <3>2 DEF name
      <4>2. list[k] \in SystemNames
        BY <1>1
      <4>3. /\ <<list[k], "unrequested">> \notin fs
            /\ <<list[k], "active">> \in fs \/ <<list[k], "requested">> \in fs
        BY <4>1 DEF Requesting
      <4>4. QED
        BY <2>5, <3>2, <4>2, <4>3
    <3>3. QED
      BY <3>1, <3>2
  <2>11. QED
    BY <2>4, <2>7, <2>8, <2>9, <2>10 DEF Requesting
<1>5. QED
  BY <1>3, <1>4

SystemTypes ==
  /\ Requested \in System!Lists
  /\ system_files \subseteq SystemNames \X System!Suffixes
  /\ refused \subseteq System!Elements(Requested)

SystemInv == SystemTypes /\ Apart(system_files) /\ System!FilesAskForRequested

\* All names of the list, by Along, and then the names that are not in it.
LEMMA TriggeredAsks ==
  ASSUME SystemTypes, Apart(system_files), NEW list \in System!Lists, System!Triggered(list)
  PROVE  SystemInv'
<1> DEFINE
     results[n \in 0..Len(list)] ==
        IF n = 0 THEN system_files
        ELSE IF System!Refused(results[n - 1], list[n]) THEN results[n - 1]
        ELSE System!Request(results[n - 1], list[n])
     no == {n \in DOMAIN list : System!Refused(results[n - 1], list[n])}
     dropped == (System!Suffixed(system_files, "active") \cup System!Suffixed(system_files,
      "requested")) \ System!Elements(list)
     N == Len(list)
<1>1. /\ Requested' = list
      /\ system_files' = System!Unrequest(results[N], dropped)
      /\ refused' = {list[n] : n \in no}
  BY DEF System!Triggered
<1>2. N \in Nat /\ DOMAIN list = 1..N /\ \A n \in 1..N : list[n] \in SystemNames
  BY ListsAreSequences
<1>3. results = [n \in 0..N |-> IF n = 0 THEN system_files
        ELSE IF System!Refused(results[n - 1], list[n]) THEN results[n - 1]
        ELSE System!Request(results[n - 1], list[n])]
  <2> DEFINE All == SUBSET (SystemNames \X System!Suffixes)
             A == [n \in 0..N |-> All]
             step == [n \in 1..N |-> [fs \in All |->
                        IF System!Refused(fs, list[n]) THEN fs ELSE System!Request(fs, list[n])]]
  <2>1. system_files \in A[0]
    BY <1>2 DEF SystemTypes
  <2>2. ASSUME NEW n \in 1..N, NEW fs \in All PROVE step[n][fs] \in All
    BY <1>2 DEF System!Request, System!Suffixes
  <2>3. \A n \in 1..N : \A fs \in A[n - 1] : step[n][fs] \in A[n]
    BY <1>2, <2>2
  <2> HIDE DEF A, step, N
  <2>4. PICK f : Iterates(N, system_files, step, f) /\ \A n \in 0..N : f[n] \in A[n]
    BY <1>2, <2>1, <2>3, Recursion
  <2>5. \A n \in 1..N : f[n - 1] \in All
    BY <1>2, <2>4 DEF A
  <2>6. f = [n \in 0..N |-> IF n = 0 THEN system_files
        ELSE IF System!Refused(f[n - 1], list[n]) THEN f[n - 1]
        ELSE System!Request(f[n - 1], list[n])]
    <3>1. \A n \in 1..N : step[n][f[n - 1]] =
            IF System!Refused(f[n - 1], list[n]) THEN f[n - 1] ELSE System!Request(f[n - 1],
             list[n])
      BY <2>5 DEF step
    <3>2. QED
      BY <1>2, <2>4, <3>1 DEF Iterates
  <2>7. QED
    BY <2>6 DEF N
<1> HIDE DEF results
<1>4. /\ results[0] = system_files
      /\ \A n \in 1..N : results[n] =
           IF n \in no THEN results[n - 1] ELSE System!Request(results[n - 1], list[n])
  BY <1>2, <1>3
<1> HIDE DEF no, N
<1> DEFINE A == [n \in 0..N |-> {fs \in {results[n]} : Requesting(list, no, n, fs)}]
<1>5. results[0] \in A[0]
  <2>1. Requesting(list, no, 0, system_files)
    BY DEF Requesting, SystemTypes
  <2>2. QED
    BY <1>2, <1>4, <2>1
<1>6. ASSUME NEW n \in 1..N, results[n - 1] \in A[n - 1] PROVE results[n] \in A[n]
  <2>1. n - 1 \in 0..N /\ n \in 0..N
    BY <1>2
  <2>2. Requesting(list, no, n - 1, results[n - 1])
    BY <1>6, <2>1
  <2>3. Requesting(list, no, n, results[n])
    BY <1>4, <2>2, RequestKeeps DEF N
  <2>4. QED
    BY <2>1, <2>3
<1>7. Requesting(list, no, N, results[N])
  <2> HIDE DEF A
  <2>1. \A n \in 0..N : results[n] \in A[n]
    BY <1>2, <1>5, <1>6, Along
  <2>2. N \in 0..N
    BY <1>2
  <2>3. QED
    BY <2>1, <2>2 DEF A
<1> DEFINE fs == results[N]
           gone == (dropped \cap System!Suffixed(fs, "active")) \X {"unrequested"}
<1>8. system_files' = (fs \ (dropped \X {"requested"})) \cup gone
  BY <1>1 DEF System!Unrequest
<1>9. /\ fs \subseteq SystemNames \X System!Suffixes /\ Apart(fs)
          /\ System!Suffixed(fs, "active") = System!Suffixed(system_files, "active")
      /\ \A name \in SystemNames \ System!Elements(list) : \A suffix \in System!Suffixes :
           <<name, suffix>> \in fs <=> <<name, suffix>> \in system_files
      /\ \A name \in System!Elements(list) \ refused' :
           /\ <<name, "unrequested">> \notin fs
           /\ <<name, "active">> \in fs \/ <<name, "requested">> \in fs
  <2>1. \A name \in SystemNames \ System!Elements(list) : \A k \in 1..N : list[k] # name
    BY <1>2 DEF System!Elements
  <2>2. \A name \in System!Elements(list) \ refused' :
          \E k \in 1..N : list[k] = name /\ \A j \in 1..N : list[j] = list[k] => j \notin no
    BY <1>1, <1>2 DEF System!Elements
  <2> HIDE DEF fs
  <2>3. QED
    BY <1>7, <2>1, <2>2 DEF Requesting, fs
<1> HIDE DEF fs, gone
<1>10. dropped \subseteq SystemNames /\ dropped \cap System!Elements(list) = {}
        /\ System!Elements(list) \subseteq SystemNames
  BY <1>2 DEF System!Suffixed, System!Elements
<1>11. ASSUME NEW name \in SystemNames
       PROVE  /\ <<name, "active">> \in system_files' <=> <<name, "active">> \in fs
              /\ <<name, "requested">> \in system_files'
                  <=> <<name, "requested">> \in fs /\ name \notin dropped
              /\ <<name, "unrequested">> \in system_files' <=>
                   \/ <<name, "unrequested">> \in fs
                   \/ name \in dropped /\ <<name, "active">> \in fs
  BY <1>8 DEF gone, System!Suffixed
<1>12. system_files' \subseteq SystemNames \X System!Suffixes
  BY <1>8, <1>9, <1>10 DEF gone, System!Suffixes
<1>13. Apart(system_files')
  <2> SUFFICES ASSUME NEW name \in SystemNames, <<name, "requested">> \in system_files', <<name,
                      "unrequested">> \in system_files'
               PROVE  FALSE
    BY DEF Apart, System!Suffixed
  <2>1. QED
    BY <1>9, <1>11 DEF Apart, System!Suffixed
<1>14. ASSUME NEW name \in SystemNames \ refused'
       PROVE  name \in System!Wanted(system_files') <=> name \in System!Elements(list)
  <2>1. name \in System!Wanted(system_files') <=> /\ <<name, "active">> \in system_files'
                                                      \/ <<name, "requested">> \in system_files'
                                                  /\ <<name, "unrequested">> \notin system_files'
    BY DEF System!Wanted, System!Suffixed
  <2>2. CASE name \in System!Elements(list)
    BY <1>9, <1>10, <1>11, <2>1, <2>2
  <2>3. CASE name \notin System!Elements(list)
    <3>1. name \in dropped <=> <<name, "active">> \in system_files
           \/ <<name, "requested">> \in system_files
      BY <2>3 DEF System!Suffixed
    <3>2. /\ <<name, "active">> \in fs <=> <<name, "active">> \in system_files
          /\ <<name, "requested">> \in fs <=> <<name, "requested">> \in system_files
      BY <1>9, <2>3 DEF System!Suffixes
    <3> HIDE DEF dropped
    <3>3. QED
      BY <1>11, <2>1, <2>3, <3>1, <3>2
  <2>4. QED
    BY <2>2, <2>3
<1>15. System!Wanted(system_files') \subseteq SystemNames
        /\ refused' \subseteq System!Elements(list)
  BY <1>1, <1>2 DEF System!Wanted, System!Suffixed, System!Elements, no
<1>16. System!Wanted(system_files') \ refused' = System!Elements(list) \ refused'
  BY <1>10, <1>14, <1>15
<1>17. QED
  BY <1>1, <1>12, <1>13, <1>15, <1>16
     DEF SystemInv, SystemTypes, System!FilesAskForRequested, Apart, System!Suffixed,
         System!Wanted, System!Elements

LEMMA EmptyList ==
  ASSUME System!SystemExperimentsAssumption
  PROVE  << >> \in System!Lists /\ System!Elements(<< >>) = {}
<1>1. Cardinality(SystemNames) \in Nat
  BY FS_CardinalityType, SystemFinite DEF System!SystemExperimentsAssumption
<1>2. << >> \in [1..0 -> SystemNames] /\ DOMAIN << >> = {} /\ Len(<< >>) = 0
  OBVIOUS
<1>3. System!Elements(<< >>) = {}
  BY <1>2 DEF System!Elements
<1>4. << >> \in UNION {[1..n -> SystemNames] : n \in 0..Cardinality(SystemNames)}
  BY <1>1, <1>2
<1>5. Cardinality(System!Elements(<< >>)) = 0
  BY <1>3, FS_EmptySet
<1>6. QED
  BY <1>2, <1>3, <1>4, <1>5, SystemCardinality DEF System!Lists

\* SystemExperiments: the files ask for what is requested, in any directory of files.
THEOREM SystemSafe ==
  ASSUME System!SystemExperimentsAssumption
  PROVE  System!Spec => [](System!TypeOK /\ System!FilesAskForRequested)
<1>1. System!Init => SystemInv
  BY EmptyList
     DEF System!Init, SystemInv, SystemTypes, Apart, System!FilesAskForRequested, System!Wanted,
         System!Suffixed
<1>2. SystemInv /\ [System!Next]_System!vars => SystemInv'
  <2> SUFFICES ASSUME SystemInv, [System!Next]_System!vars PROVE SystemInv'
    OBVIOUS
  <2>1. CASE System!SetRequested
    BY <2>1, TriggeredAsks DEF System!SetRequested, SystemInv
  <2>2. CASE System!Restart
    <3>1. PICK list \in System!Lists :
            /\ System!Elements(list) = System!Wanted(system_files)
            /\ IF list = <<>> THEN Requested' = <<>> /\ refused' = {} /\ UNCHANGED system_files
               ELSE System!Triggered(list)
      BY <2>2 DEF System!Restart
    <3>2. CASE list = << >>
      <4>1. Requested' = << >> /\ refused' = {} /\ system_files' = system_files
             /\ System!Wanted(system_files) = {}
        BY <3>1, <3>2, EmptyList
      <4>2. System!Wanted(system_files)' = {}
        BY <4>1 DEF System!Wanted, System!Suffixed
      <4>3. Requested' \in System!Lists /\ System!Elements(Requested)' = {}
        BY <4>1, EmptyList
      <4>4. Apart(system_files)'
        BY <4>1 DEF SystemInv, Apart, System!Suffixed
      <4>5. QED
        BY <4>1, <4>2, <4>3, <4>4 DEF SystemInv, SystemTypes, System!FilesAskForRequested
    <3>3. CASE list # << >>
      BY <3>1, <3>3, TriggeredAsks DEF SystemInv
    <3>4. QED
      BY <3>2, <3>3
  <2>3. CASE System!Activate
    <3>1. PICK name \in SystemNames : /\ <<name, "requested">> \in system_files
                                      /\ system_files' = (system_files \ {<<name,
                                          "requested">>}) \cup {<<name, "active">>}
      BY <2>3 DEF System!Activate, System!Suffixed
    <3>2. System!Wanted(system_files') = System!Wanted(system_files) /\ Apart(system_files')
      BY <3>1 DEF SystemInv, Apart, System!Wanted, System!Suffixed
    <3>3. QED
      BY <2>3, <3>1, <3>2
         DEF System!Activate, SystemInv, SystemTypes, System!FilesAskForRequested,
             System!Suffixes, Apart, System!Suffixed
  <2>4. CASE System!Deactivate
    <3>1. PICK name \in SystemNames : /\ <<name, "unrequested">> \in system_files
                                      /\ system_files' = system_files \ {<<name, IF <<name,
                                          "active">> \in system_files THEN "active"
                                                                                 ELSE "unrequested">>}
      BY <2>4 DEF System!Deactivate, System!Suffixed
    <3>2. System!Wanted(system_files') = System!Wanted(system_files) /\ Apart(system_files')
      BY <3>1 DEF SystemInv, Apart, System!Wanted, System!Suffixed
    <3>3. QED
      BY <2>4, <3>1, <3>2
         DEF System!Deactivate, SystemInv, SystemTypes, System!FilesAskForRequested,
             System!Suffixes, Apart, System!Suffixed
  <2>5. CASE UNCHANGED System!vars
    BY <2>5
       DEF System!vars, SystemInv, SystemTypes, Apart, System!FilesAskForRequested,
           System!Wanted, System!Suffixed, System!Elements
  <2>6. QED
    BY <2>1, <2>2, <2>3, <2>4, <2>5 DEF System!Next
<1>3. SystemInv => System!TypeOK /\ System!FilesAskForRequested
  BY DEF SystemInv, SystemTypes, System!TypeOK
<1>4. QED
  BY <1>1, <1>2, <1>3, PTL DEF System!Spec

-----------------------------------------------------------------------------
(* The composition *)

\* Every behaviour of the composition is, for the variables of a component, one of that
\* component: it takes the component's steps, and else leaves its variables alone.
LEMMA FileRuns == Spec => File!Spec
<1>1. Init => File!Init
  BY Zenon DEF Init
<1>2. [Next]_vars => [File!Next]_File!vars
  <2>1. [Next]_vars => [File!Next]_fileVars
    BY Zenon DEF Next, vars
  <2>2. UNCHANGED fileVars => UNCHANGED File!vars
    BY Zenon DEF fileVars, File!vars
  <2>3. QED
    BY <2>1, <2>2
<1>3. QED
  BY <1>1, <1>2, PTL DEF Spec, File!Spec

LEMMA WlanRuns == Spec => Wlan!Spec
<1>1. Init => Wlan!Init
  BY Zenon DEF Init
<1>2. [Next]_vars => [Wlan!Next]_Wlan!vars
  <2>1. [Next]_vars => [Wlan!Next]_wlanVars
    BY Zenon DEF Next, vars
  <2>2. UNCHANGED wlanVars => UNCHANGED Wlan!vars
    BY Zenon DEF wlanVars, Wlan!vars
  <2>3. QED
    BY <2>1, <2>2
<1>3. QED
  BY <1>1, <1>2, PTL DEF Spec, Wlan!Spec

LEMMA PortMappingRuns == Spec => PortMapping!Spec
<1>1. Init => PortMapping!Init
  BY Zenon DEF Init
<1>2. [Next]_vars => [PortMapping!Next]_PortMapping!vars
  <2>1. [Next]_vars => [PortMapping!Next]_natVars
    BY Zenon DEF Next, vars
  <2>2. UNCHANGED natVars => UNCHANGED PortMapping!vars
    BY Zenon DEF natVars, PortMapping!vars
  <2>3. QED
    BY <2>1, <2>2
<1>3. QED
  BY <1>1, <1>2, PTL DEF Spec, PortMapping!Spec

LEMMA DhcpRuns == Spec => Dhcp!Spec
<1>1. Init => Dhcp!Init
  BY Zenon DEF Init
<1>2. [Next]_vars => [Dhcp!Next]_Dhcp!vars
  <2>1. [Next]_vars => [Dhcp!Next]_dhcpVars
    BY Zenon DEF Next, vars
  <2>2. UNCHANGED dhcpVars => UNCHANGED Dhcp!vars
    BY Zenon DEF dhcpVars, Dhcp!vars
  <2>3. QED
    BY <2>1, <2>2
<1>3. QED
  BY <1>1, <1>2, PTL DEF Spec, Dhcp!Spec

LEMMA TvRuns == Spec => Tv!Spec
<1>1. Init => Tv!Init
  BY Zenon DEF Init
<1>2. [Next]_vars => [Tv!Next]_Tv!vars
  <2>1. [Next]_vars => [Tv!Next]_tvVars
    BY Zenon DEF Next, vars
  <2>2. UNCHANGED tvVars => UNCHANGED Tv!vars
    BY Zenon DEF tvVars, Tv!vars
  <2>3. QED
    BY <2>1, <2>2
<1>3. QED
  BY <1>1, <1>2, PTL DEF Spec, Tv!Spec

LEMMA ExportRuns == Spec => Export!Spec
<1>1. Init => Export!Init
  BY Zenon DEF Init
<1>2. [Next]_vars => [Export!Next]_Export!vars
  <2>1. [Next]_vars => [Export!Next]_exportVars
    BY Zenon DEF Next, vars
  <2>2. UNCHANGED exportVars => UNCHANGED Export!vars
    BY Zenon DEF exportVars, Export!vars
  <2>3. QED
    BY <2>1, <2>2
<1>3. QED
  BY <1>1, <1>2, PTL DEF Spec, Export!Spec

LEMMA StreamRuns == Spec => Stream!Spec
<1>1. Init => Stream!Init
  BY Zenon DEF Init
<1>2. [Next]_vars => [Stream!Next]_Stream!vars
  <2>1. [Next]_vars => [Stream!Next]_streamVars
    BY Zenon DEF Next, vars
  <2>2. UNCHANGED streamVars => UNCHANGED Stream!vars
    BY Zenon DEF streamVars, Stream!vars
  <2>3. QED
    BY <2>1, <2>2
<1>3. QED
  BY <1>1, <1>2, PTL DEF Spec, Stream!Spec

LEMMA RadioRuns == Spec => Radio!Spec
<1>1. Init => Radio!Init
  BY Zenon DEF Init
<1>2. [Next]_vars => [Radio!Next]_Radio!vars
  <2>1. [Next]_vars => [Radio!Next]_radioVars
    BY Zenon DEF Next, vars
  <2>2. UNCHANGED radioVars => UNCHANGED Radio!vars
    BY Zenon DEF radioVars, Radio!vars
  <2>3. QED
    BY <2>1, <2>2
<1>3. QED
  BY <1>1, <1>2, PTL DEF Spec, Radio!Spec

LEMMA SensorRuns == Spec => Sensor!Spec
<1>1. Init => Sensor!Init
  BY Zenon DEF Init
<1>2. [Next]_vars => [Sensor!Next]_Sensor!tempVars
  <2>1. [Next]_vars => [Sensor!Next]_sensorVars
    BY Zenon DEF Next, vars
  <2>2. UNCHANGED sensorVars => UNCHANGED Sensor!tempVars
    BY Zenon DEF sensorVars, Sensor!tempVars
  <2>3. QED
    BY <2>1, <2>2
<1>3. QED
  BY <1>1, <1>2, PTL DEF Spec, Sensor!Spec

LEMMA ForcedRuns == Spec => Forced!Spec
<1>1. Init => Forced!Init
  BY Zenon DEF Init
<1>2. [Next]_vars => [Forced!Next]_Forced!vars
  <2>1. [Next]_vars => [Forced!Next]_forcedVars
    BY Zenon DEF Next, vars
  <2>2. UNCHANGED forcedVars => UNCHANGED Forced!vars
    BY Zenon DEF forcedVars, Forced!vars
  <2>3. QED
    BY <2>1, <2>2
<1>3. QED
  BY <1>1, <1>2, PTL DEF Spec, Forced!Spec

LEMMA SystemRuns == Spec => System!Spec
<1>1. Init => System!Init
  BY Zenon DEF Init
<1>2. [Next]_vars => [System!Next]_System!vars
  <2>1. [Next]_vars => [System!Next]_systemVars
    BY Zenon DEF Next, vars
  <2>2. UNCHANGED systemVars => UNCHANGED System!vars
    BY Zenon DEF systemVars, System!vars
  <2>3. QED
    BY <2>1, <2>2
<1>3. QED
  BY <1>1, <1>2, PTL DEF Spec, System!Spec

\* Every component keeps the types of its variables, whatever the other components are.
THEOREM TypeCorrect == Spec => []TypeOK
<1>1. Spec => /\ []File!TypeOK /\ []Wlan!TypeOK /\ []PortMapping!TypeOK /\ []Dhcp!TypeOK
              /\ []Tv!TypeOK
  BY ServicesAssumption, FileRuns, FileSafe, WlanRuns, WlanSafe, PortMappingRuns, NatSafe,
     DhcpRuns, DhcpSafe, TvRuns, TvSafe, PTL
<1>2. Spec => []Export!TypeOK /\ []Stream!TypeOK /\ []Radio!TypeOK
  <2>1. ExportIInv => Export!TypeOK
    BY DEF ExportIInv
  <2>2. QED
    BY <2>1, ServicesAssumption, ExportRuns, ExportsFollow, StreamRuns, StreamSafe,
       RadioRuns, RadioSafe, PTL
<1>3. Spec => []Sensor!TypeOK /\ []Forced!TypeOK /\ []System!TypeOK
  BY ServicesAssumption, SensorRuns, SensorSafe, ForcedRuns, ForcedSafe, SystemRuns,
     SystemSafe, PTL
<1>4. QED
  BY <1>1, <1>2, <1>3, PTL DEF TypeOK

\* When nothing waits for the ioloop or for a notification, files, drivers and programs
\* have what was assigned last, for every set of values, networks, mappings, pools,
\* devices and RPCs, and after any number of failures and restarts.
THEOREM Applied == Spec => []AppliedWhenIdle
<1>1. Spec => /\ [](File!WritesLand /\ File!ChangesNoticed) /\ []Wlan!PolicyExported
              /\ []PortMapping!MappingsApplied /\ []Dhcp!PoolsServed
              /\ []Tv!FrobnicastRestarted
  BY ServicesAssumption, FileRuns, FileSafe, WlanRuns, WlanSafe, PortMappingRuns, NatSafe,
     DhcpRuns, DhcpSafe, TvRuns, TvSafe, PTL
<1>2. Spec => /\ []Export!ServiceAsAsked /\ []Stream!ProcessesAsEnabled
              /\ []Radio!RadioConfigured
              /\ [](Sensor!PolledAsConfigured /\ Sensor!AlarmsMeanReadings)
  <2>1. ExportIInv => Export!ServiceAsAsked
    BY DEF ExportIInv
  <2>2. QED
    BY <2>1, ServicesAssumption, ExportRuns, ExportsFollow, StreamRuns, StreamSafe,
       RadioRuns, RadioSafe, SensorRuns, SensorSafe, PTL
<1>3. QED
  BY <1>1, <1>2, PTL DEF AppliedWhenIdle

\* The Broadcom driver is given a new SSID only when it protects what it will announce as
\* the configuration asks: after any sequence of RPCs, failed commands and restarts.
THEOREM NamedWhenProtected == Spec => ProtectedWhenNamed
BY ServicesAssumption, RadioRuns, RadioSafe, PTL DEF ProtectedWhenNamed

\* The last request wins: forced parameters, and the files of the system's experiments,
\* are those that the list of requested experiments asks for.
THEOREM LastRequested == Spec => []RequestedInForce
BY ServicesAssumption, ForcedRuns, ForcedSafe, SystemRuns, SystemSafe, PTL
   DEF RequestedInForce
=============================================================================
