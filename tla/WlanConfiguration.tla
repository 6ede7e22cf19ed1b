-------------------------- MODULE WlanConfiguration --------------------------
(***************************************************************************)
(* The Wifi networks of dm/binwifi.py, class WlanConfiguration, on one     *)
(* radio of platform/gfmedia/device.py.  The ACS assigns parameters, in    *)
(* transactions of tr/api.py; when the ioloop is idle, ExportWifiPolicy    *)
(* writes a command line for the connection manager (conman), which is     *)
(* external: it applies the file at any later time, and what it applied is *)
(* what most parameters read back.  Waveguide, external too, writes files  *)
(* with its recommendations.                                               *)
(*                                                                         *)
(* The getters are read through the session's cache; here every RPC is in  *)
(* a session of its own.                                                   *)
(*                                                                         *)
(* A definition marked "Mutation" is a plausible bug, used by no other     *)
(* definition.                                                             *)
(***************************************************************************)
EXTENDS Integers, Sequences

CONSTANTS
  Interfaces,   \* the networks of the radio
  Bands,
  InitialBand,  \* the band of a new network
  BandFixed,    \* it cannot be changed
  Guided,       \* those that waveguide makes recommendations for
  Multiline,    \* texts with a line break, which no command may contain
  Channels,     \* valid channels
  Rpcs,         \* SetParameterValues: sequences of <<interface, parameter, value>>
  MaxInputs     \* bound: RPCs and recommendations of waveguide

VARIABLES
  up,        \* the process runs
  m,         \* the networks' objects, see below
  channel,   \* Radio.Channel
  live,      \* what /tmp/wifi/wifiinfo says
  guide,     \* waveguide's files: a recommended channel, and "disabled"
  commands, points,   \* conman's files command.<band> and access_point.<band>
  scheduled, \* the networks whose ExportWifiPolicy waits for the idle ioloop
  events,    \* the networks with changes of waveguide's files not notified yet
  inputs,    \* RPCs and recommendations so far
  exported  \* observation only: the networks exported since they were configured

files == <<commands, points>>
vars == <<up, m, channel, live, guide, commands, points, scheduled, events, inputs,
          exported>>

None == "(none)"
NoChannel == 0
AutoChannel == -1      \* the channel "auto"

NoConfig  == [ssid |-> None, auto |-> TRUE, autotype |-> None]
NoCommand == [band |-> None, encryption |-> None, ssid |-> None, key |-> None,
              channel |-> NoChannel, autotype |-> None]

\* Attributes that are Trigger()s, and their values.
TriggerAttrs ==
  [ Enable               |-> BOOLEAN,
    AllowAutoDisable     |-> BOOLEAN,
    AutoChannelAlgorithm |-> {"LEGACY", "DYNAMIC"},
    BeaconType           |-> {"None", "Basic", "WPA", "11i", "BasicandWPA",
                              "Basicand11i", "WPAand11i", "BasicandWPAand11i"} ]

Texts == {"SSID", "KeyPassphrase", "AutoChanType"}

\* What is assumed of the constants: the RPCs assign texts to the parameters that are
\* texts, and no network is called None.
WlanConfigurationAssumption ==
  /\ InitialBand \in Bands /\ Guided \subseteq Interfaces
  /\ \A rpc \in Rpcs :
       /\ Len(rpc) \in Nat /\ DOMAIN rpc = 1..Len(rpc)
       /\ \A n \in DOMAIN rpc :
            /\ rpc[n][1] \in Interfaces
            /\ rpc[n][2] \in Texts => rpc[n][3] \in STRING \ {None}
            /\ rpc[n][2] = "AutoChannelEnable" => rpc[n][3] \in BOOLEAN
            /\ rpc[n][2] \in DOMAIN TriggerAttrs \cup Texts \cup
                 {"Channel", "AutoChannelEnable", "OperatingFrequencyBand"}

\* attr     the values of the attributes above
\* config   new_config, from the first transaction on: SSID, AutoChannelEnable
\*          and AutoChannelType
\* key      passphrase of PreSharedKeyList['1']
\* band     _band
NewNetwork ==
  [ attr   |-> [Enable |-> FALSE, AllowAutoDisable |-> FALSE,
                AutoChannelAlgorithm |-> "LEGACY", BeaconType |-> "11i"],
    config |-> NoConfig,
    key    |-> "",
    band   |-> InitialBand ]

NoInfo == [ssid |-> "", channel |-> NoChannel, auto |-> TRUE, autotype |-> ""]

Init ==
  /\ up = TRUE
  /\ m = [i \in Interfaces |-> NewNetwork]
  /\ channel = NoChannel
  /\ live = [i \in Interfaces |-> NoInfo]
  /\ guide = [i \in Interfaces |-> [recommended |-> NoChannel, disabled |-> FALSE]]
  /\ commands = [i \in Interfaces |-> [b \in Bands |-> NoCommand]]
  /\ points = [i \in Interfaces |-> {}]
  /\ scheduled = {} /\ events = {}
  /\ inputs = 0
  /\ exported = {}

-----------------------------------------------------------------------------
(* The command *)

\* NONE, WEP, or the kind of WPA with its cipher: an operator of the beacon type
\* only, since the encryption modes keep their initial values.
EncryptionMode(beacon) ==
  CASE beacon \in {"Basic", "BasicandWPA", "Basicand11i", "BasicandWPAand11i"} -> "NONE"
    [] beacon = "WPAand11i"        -> "WPA12_PSK_AES"
    [] beacon \in {"11i", "None"}  -> "WPA2_PSK_AES"
    [] beacon = "WPA"              -> "WPA_PSK_AES"

CommandChannel(w, i) ==
  IF ~w.config.auto THEN channel
  ELSE IF w.attr.AutoChannelAlgorithm = "DYNAMIC" THEN guide[i].recommended ELSE AutoChannel

MakeBinWifiCommand(i) ==
  LET w == m[i] IN
  IF w.config.ssid \in {None, ""} THEN NoCommand
  ELSE [ band |-> w.band, encryption |-> EncryptionMode(w.attr.BeaconType),
         ssid |-> w.config.ssid, key |-> w.key,
         channel |-> CommandChannel(w, i), autotype |-> w.config.autotype ]

\* validate() in _MakeBinWifiCommand raises for these.
Printable(command) == {command.ssid, command.key, command.autotype} \cap Multiline = {}

ReallyWantWifi(i) ==
  m[i].attr.Enable /\ ~(m[i].attr.AllowAutoDisable /\ guide[i].disabled)

\* The timeout of WaitUntilIdle.  An exception ends the process: the ioloop does
\* not catch it.  A read that finds a change before its notification triggers
\* once more.
ExportWifiPolicy(i) ==
  /\ up /\ i \in scheduled
  /\ LET command == MakeBinWifiCommand(i)
         band    == m[i].band
     IN  \/ /\ command = NoCommand
            /\ commands' = [commands EXCEPT ![i][band] = NoCommand]
            /\ points' = [points EXCEPT ![i] = @ \ {band}]
            /\ scheduled' = scheduled \ {i}
            /\ UNCHANGED up
         \/ /\ command # NoCommand /\ Printable(command)
            /\ commands' = [commands EXCEPT ![i][band] = command]
            /\ points' = [points EXCEPT ![i] =
                 IF ReallyWantWifi(i) THEN @ \cup {band} ELSE @ \ {band}]
            /\ \E again \in SUBSET ({i} \cap events) : scheduled' = (scheduled \ {i}) \cup again
            /\ UNCHANGED up
         \/ /\ command # NoCommand /\ ~Printable(command)
            /\ up' = FALSE
            /\ scheduled' = {}
            /\ UNCHANGED files
  /\ events' = IF up' THEN events ELSE {}
  /\ exported' = IF m[i].config = NoConfig THEN exported ELSE exported \cup {i}
  /\ UNCHANGED <<m, channel, live, guide, inputs>>

-----------------------------------------------------------------------------
(* Assignments: operators on a memory x of objects, radio and timeouts *)

Memory == [m |-> m, channel |-> channel, scheduled |-> scheduled,
           errors |-> FALSE]

Triggered(x, is) == [x EXCEPT !.scheduled = @ \cup is]
Raise(x) == [x EXCEPT !.errors = TRUE]

\* StartTransaction: new_config is made once and never given up again.
StartTransaction(x, i) ==
  IF x.m[i].config # NoConfig THEN x
  ELSE [x EXCEPT !.m[i].config = [ssid |-> live[i].ssid, auto |-> live[i].auto,
                                  autotype |-> live[i].autotype]]

SetSSID(x, i, v) ==
  IF v = "" THEN Raise(x) ELSE Triggered([x EXCEPT !.m[i].config.ssid = v], {i})

\* Mutation: the other networks of the radio are not told.
SetChannelAlone(x, i, v) ==
  IF v \notin Channels THEN Raise(x)
  ELSE Triggered([x EXCEPT !.channel = v, !.m[i].config.auto = FALSE], {i})

\* The radio's Channel is a Trigger for all its networks.
SetChannel(x, i, v) ==
  IF v \notin Channels THEN Raise(x)
  ELSE Triggered([x EXCEPT !.channel = v, !.m[i].config.auto = FALSE],
                 IF v = x.channel THEN {i} ELSE Interfaces)

SetBand(x, i, v) ==
  IF v \notin Bands \/ (BandFixed /\ v # InitialBand) THEN Raise(x)
  ELSE Triggered([x EXCEPT !.m[i].band = v], {i})

SetTriggerAttr(x, i, p, v) ==
  IF v = x.m[i].attr[p] THEN x ELSE Triggered([x EXCEPT !.m[i].attr[p] = v], {i})

\* setattr.  Assigning AutoChanType schedules nothing.
SetAttr(x, i, p, v) ==
  CASE p \in DOMAIN TriggerAttrs      -> SetTriggerAttr(x, i, p, v)
    [] p = "SSID"                     -> SetSSID(x, i, v)
    [] p = "KeyPassphrase"            -> Triggered([x EXCEPT !.m[i].key = v], {i})
    [] p = "Channel"                  -> SetChannel(x, i, v)
    [] p = "AutoChannelEnable"        -> Triggered([x EXCEPT !.m[i].config.auto = v], {i})
    [] p = "AutoChanType"             -> [x EXCEPT !.m[i].config.autotype = v]
    [] p = "OperatingFrequencyBand"   -> SetBand(x, i, v)

\* getattr
GetAttr(i, p) ==
  CASE p \in DOMAIN TriggerAttrs    -> m[i].attr[p]
    [] p = "SSID"                   -> live[i].ssid
    [] p = "KeyPassphrase"          -> ""
    [] p = "Channel"                -> live[i].channel
    [] p = "AutoChannelEnable"      -> IF m[i].attr.AutoChannelAlgorithm = "LEGACY"
                                       THEN live[i].auto ELSE m[i].config.auto
    [] p = "AutoChanType"           -> live[i].autotype
    [] p = "OperatingFrequencyBand" -> m[i].band

\* tryattr: only the attributes with types have validators.
TryAttr(p, v) == p \in DOMAIN TriggerAttrs => v \in TriggerAttrs[p]

Assign(x, a) == SetAttr(StartTransaction(x, a[1]), a[1], a[2], a[3])

\* Old values that differ are assigned, and what they raise is ignored.
RollBack(x, a) ==
  IF GetAttr(a[1], a[2]) = a[3] THEN x ELSE SetAttr(x, a[1], a[2], GetAttr(a[1], a[2]))

\* An RPC with a value that a validator refuses ends before anything is set.
SetParameterValues(rpc) ==
  /\ up
  /\ inputs < MaxInputs /\ inputs' = inputs + 1
  /\ LET assigned[n \in 0..Len(rpc)] ==
           IF n = 0 THEN Memory ELSE Assign(assigned[n - 1], rpc[n])
         done == assigned[Len(rpc)]
         undone[n \in 0..Len(rpc)] ==
           IF n = 0 THEN done ELSE RollBack(undone[n - 1], rpc[n])
         after == IF done.errors THEN undone[Len(rpc)] ELSE done
         valid == \A n \in DOMAIN rpc : TryAttr(rpc[n][2], rpc[n][3])
     IN  /\ valid
         /\ m' = after.m /\ channel' = after.channel /\ scheduled' = after.scheduled
  /\ UNCHANGED <<up, live, guide, files, events, exported>>

-----------------------------------------------------------------------------
(* The world *)

\* conman applies the command of the band that the network uses.
ConmanApplies(i, b) ==
  /\ commands[i][b] # NoCommand /\ b \in points[i]
  /\ LET c == commands[i][b]
     IN  live' = [live EXCEPT ![i] =
           [ssid |-> c.ssid, auto |-> c.channel = AutoChannel, autotype |-> c.autotype,
            channel |-> IF c.channel \in Channels THEN c.channel ELSE 1]]
  /\ live' # live
  /\ UNCHANGED <<up, m, channel, guide, files, scheduled, events, inputs, exported>>

\* Waveguide writes or removes its files; inotify will tell.
Recommend(i) ==
  /\ inputs < MaxInputs /\ inputs' = inputs + 1
  /\ \E c \in Channels \cup {NoChannel}, d \in BOOLEAN :
       guide' = [guide EXCEPT ![i] = [recommended |-> c, disabled |-> d]]
  /\ guide' # guide
  /\ events' = IF up THEN events \cup {i} ELSE events
  /\ UNCHANGED <<up, m, channel, live, files, scheduled, exported>>

\* The callback of the files' Watch
Notified(i) ==
  /\ i \in events
  /\ events' = events \ {i}
  /\ scheduled' = scheduled \cup {i}
  /\ UNCHANGED <<up, m, channel, live, guide, files, inputs, exported>>

\* The process is killed, or has exited, and is started again: conman's files and
\* the networks stay as they are.
Restart ==
  /\ up' = TRUE
  /\ m' = [i \in Interfaces |-> NewNetwork]
  /\ channel' = NoChannel
  /\ scheduled' = {} /\ events' = {}
  /\ exported' = {}
  /\ UNCHANGED <<live, guide, files, inputs>>

Next ==
  \/ \E rpc \in Rpcs : SetParameterValues(rpc)
  \/ \E i \in Interfaces : ExportWifiPolicy(i)
  \/ \E i \in Interfaces, b \in Bands : ConmanApplies(i, b)
  \/ \E i \in Guided : Recommend(i)
  \/ \E i \in Interfaces : Notified(i)
  \/ Restart

Spec == Init /\ [][Next]_vars

-----------------------------------------------------------------------------
(* Properties *)

TypeOK ==
  /\ up \in BOOLEAN
  /\ \A i \in Interfaces :
       /\ \A p \in DOMAIN TriggerAttrs : m[i].attr[p] \in TriggerAttrs[p]
       /\ m[i].band \in Bands
       /\ m[i].config.auto \in BOOLEAN
  /\ channel \in Channels \cup {NoChannel}
  /\ points \in [Interfaces -> SUBSET Bands]
  /\ scheduled \subseteq Interfaces /\ events \subseteq Interfaces

\* AutoChanType apart, whose assignment does not trigger an export.
Settings(command) ==
  [band |-> command.band, ssid |-> command.ssid, key |-> command.key,
        encryption |-> command.encryption, channel |-> command.channel]

\* When nothing is left to do, conman's files for the band in use say what the
\* networks' parameters, the radio that they share and waveguide's files say,
\* after transactions that failed or were rolled back too.
PolicyExported ==
  \A i \in Interfaces :
    up /\ i \in exported /\ i \notin scheduled \cup events =>
      /\ Settings(commands[i][m[i].band]) = Settings(MakeBinWifiCommand(i))
      /\ m[i].band \in points[i] <=>
           (MakeBinWifiCommand(i) # NoCommand /\ ReallyWantWifi(i))
=============================================================================
